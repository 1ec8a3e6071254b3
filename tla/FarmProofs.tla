----------------------------- MODULE FarmProofs -----------------------------
(***************************************************************************)
(* The conversation of remrt and its rtsrv workers, for any number of      *)
(* them, any job, and any workers that hang, exit and are restarted.       *)
(***************************************************************************)
EXTENDS RenderFarm, RemrtProofs

-----------------------------------------------------------------------------
(* What is on a connection, as the state its slot is in allows it.         *)

\* What a worker puts on WorkHead, and what the two sides send.
QueueMsg == {Gettrees} \cup {Matrix(f) : f \in FrameNums} \cup {Lines(x) : x \in SpanSet}
DownMsg == QueueMsg \cup {Dirbuild, Restart}
UpMsg == {Version, DirbuildReply, GettreesReply}
           \cup {PixelsMsg(x, f) : x \in SpanSet, f \in FrameNums}

LinksTyped ==
  /\ worker \in [Slots -> {"none", "up", "hung", "gone"}]
  /\ down \in [Slots -> Seq(DownMsg)] /\ queue \in [Slots -> Seq(QueueMsg)]
  /\ up \in [Slots -> Seq(UpMsg)] /\ built \in [Slots -> BOOLEAN]
  /\ trees \in [Slots -> BOOLEAN] /\ view \in [Slots -> FrameNums \cup {NoFrame}]

\* The messages of q that will be acted upon, those before a MSG_RESTART, are p.
Ahead(q, p) ==
  /\ Len(p) <= Len(q) /\ \A i \in 1 .. Len(p) : q[i] = p[i]
  /\ Len(q) > Len(p) => q[Len(p) + 1] = Restart

Alive(s) == worker[s] \in {"up", "hung"}
Coming(s) == queue[s] \o down[s]
Clear(s) == \A i \in DOMAIN Coming(s) : Coming(s)[i] # Restart
Awaits(s, p) == Ahead(Coming(s), p)

\* The stages of a worker's life.
Started(s) == up[s] \in {<<>>, <<Version>>} /\ Awaits(s, <<>>) /\ ~built[s]
Building(s) == up[s] = <<>> /\ Awaits(s, <<Dirbuild>>) /\ ~built[s]
Built(s) == up[s] \in {<<>>, <<DirbuildReply>>} /\ Awaits(s, <<>>)
Loading(s, f) ==
  \/ up[s] = <<>> /\ Awaits(s, <<Matrix(f), Gettrees>>)
  \/ up[s] = <<>> /\ Awaits(s, <<Gettrees>>) /\ view[s] = f
  \/ up[s] = <<GettreesReply>> /\ Awaits(s, <<>>) /\ view[s] = f /\ trees[s]
Loaded(s) == up[s] = <<>> /\ Awaits(s, <<>>) /\ trees[s] /\ view[s] # NoFrame
Rendering(s, x) ==
  /\ trees[s]
  /\ \/ up[s] = <<>> /\ Awaits(s, <<Matrix(x.frame), Lines(x)>>)
     \/ up[s] = <<>> /\ Awaits(s, <<Lines(x)>>) /\ view[s] = x.frame
     \/ up[s] = <<PixelsMsg(x, x.frame)>> /\ Awaits(s, <<>>) /\ view[s] = x.frame

\* A worker that still reads is in one of them, and the one its slot is in.
Talks(s) ==
  /\ \/ Started(s) \/ Building(s) \/ Built(s) \/ Loaded(s)
     \/ \E f \in FrameNums : Loading(s, f)
     \/ \E x \in SpanSet : Rendering(s, x)
  /\ state[s] # "UNUSED"
  /\ state[s] \in {"NEW", "VERSOK"} => Started(s)
  /\ state[s] = "VERSOK" => up[s] = <<>>
  /\ state[s] = "DOING_DIRBUILD" =>
       Started(s) \/ (Clear(s) /\ (Building(s) \/ (Built(s) /\ up[s] = <<DirbuildReply>>)))
  /\ state[s] = "NEED_TREE" => Clear(s) /\ Built(s) /\ up[s] = <<>>
  /\ state[s] = "DOING_GETTREES" =>
       Clear(s) /\ \E f \in FrameNums : Loading(s, f) /\ cur[s] \in {NoFrame, f}
  /\ state[s] = "READY" =>
       /\ Clear(s)
       /\ work[s] = NoWork => Loaded(s) /\ cur[s] \in {NoFrame, view[s]}
       /\ work[s] # NoWork => Rendering(s, work[s])

\* What the dispatcher knows of a slot that has not got further.
Known(s) ==
  /\ state[s] \in {"NEW", "VERSOK", "DOING_DIRBUILD", "NEED_TREE"} =>
       cur[s] = NoFrame /\ work[s] = NoWork
  /\ state[s] = "DOING_GETTREES" => work[s] = NoWork
  /\ state[s] = "READY" /\ work[s] # NoWork => cur[s] = work[s].frame

\* One answer at most is on its way, and it is the one its slot expects.
Leaving == {"CLOSING", "RESTART"}
Answers(s) ==
  \/ up[s] = <<>>
  \/ up[s] = <<Version>> /\ state[s] \in Leaving \cup {"NEW"} /\ cur[s] = NoFrame /\ work[s] = NoWork
  \/ up[s] = <<DirbuildReply>> /\ state[s] \in Leaving \cup {"DOING_DIRBUILD"}
  \/ up[s] = <<GettreesReply>> /\ state[s] \in Leaving \cup {"DOING_GETTREES"}
  \/ \E x \in SpanSet :
       /\ up[s] = <<PixelsMsg(x, x.frame)>>
       /\ state[s] \in Leaving \/ (state[s] = "READY" /\ work[s] = x)

\* A worker that is gone reads and does nothing any more.
Lost(s) == down[s] = <<>> /\ queue[s] = <<>>

SlotOK(s) == Known(s) /\ Answers(s) /\ (IF Alive(s) THEN Talks(s) ELSE Lost(s))
TalkInv == \A s \in Slots : SlotOK(s)

-----------------------------------------------------------------------------
(* Messages ahead of a MSG_RESTART                                         *)

LEMMA MsgKinds ==
  /\ Restart \notin QueueMsg /\ Dirbuild \notin QueueMsg /\ Dirbuild # Restart
  /\ \A f : Matrix(f) # Restart /\ Matrix(f) # Gettrees /\ Matrix(f) # Dirbuild
  /\ \A x : Lines(x) # Restart /\ Lines(x) # Gettrees /\ Lines(x) # Dirbuild
  /\ \A x, f : Lines(x) # Matrix(f)
  /\ Gettrees # Restart /\ Gettrees # Dirbuild
BY DEF QueueMsg, Restart, Dirbuild, Gettrees, Matrix, Lines

LEMMA MsgFields ==
  /\ \A f, g : Matrix(f) = Matrix(g) => f = g
  /\ \A x, y : Lines(x) = Lines(y) => x = y
  /\ \A x, y, f, g : PixelsMsg(x, f) = PixelsMsg(y, g) => x = y /\ f = g
  /\ \A f : Matrix(f).type = "MATRIX" /\ Matrix(f).frame = f
  /\ \A x : Lines(x).type = "LINES" /\ Lines(x).span = x
  /\ \A x, f : PixelsMsg(x, f).type = "PIXELS" /\ PixelsMsg(x, f).span = x /\ PixelsMsg(x, f).view = f
  /\ Gettrees.type = "GETTREES" /\ Dirbuild.type = "DIRBUILD" /\ Restart.type = "RESTART"
  /\ Version.type = "VERSION" /\ DirbuildReply.type = "DIRBUILD_REPLY"
  /\ GettreesReply.type = "GETTREES_REPLY"
<1>1. \A f, g : Matrix(f) = Matrix(g) => f = g
  <2> SUFFICES ASSUME NEW f, NEW g, Matrix(f) = Matrix(g) PROVE f = g
    OBVIOUS
  <2>1. Matrix(f).frame = f /\ Matrix(g).frame = g
    BY DEF Matrix
  <2> QED
    BY <2>1
<1>2. \A x, y : Lines(x) = Lines(y) => x = y
  <2> SUFFICES ASSUME NEW x, NEW y, Lines(x) = Lines(y) PROVE x = y
    OBVIOUS
  <2>1. Lines(x).span = x /\ Lines(y).span = y
    BY DEF Lines
  <2> QED
    BY <2>1
<1>3. \A x, y, f, g : PixelsMsg(x, f) = PixelsMsg(y, g) => x = y /\ f = g
  <2> SUFFICES ASSUME NEW x, NEW y, NEW f, NEW g, PixelsMsg(x, f) = PixelsMsg(y, g)
               PROVE  x = y /\ f = g
    OBVIOUS
  <2>1. PixelsMsg(x, f).span = x /\ PixelsMsg(y, g).span = y
    BY DEF PixelsMsg
  <2>2. PixelsMsg(x, f).view = f /\ PixelsMsg(y, g).view = g
    BY DEF PixelsMsg
  <2> QED
    BY <2>1, <2>2
<1> QED
  BY <1>1, <1>2, <1>3
     DEF Matrix, Lines, PixelsMsg, Gettrees, Dirbuild, Restart, Version, DirbuildReply, GettreesReply

LEMMA Associative ==
  ASSUME NEW q \in Seq(DownMsg), NEW r \in Seq(DownMsg), NEW m \in Seq(DownMsg)
  PROVE  (q \o r) \o m = q \o (r \o m)
<1>1. (q \o r) \o m \in Seq(DownMsg) /\ q \o (r \o m) \in Seq(DownMsg)
  OBVIOUS
<1>2. Len((q \o r) \o m) = Len(q \o (r \o m))
  OBVIOUS
<1>3. ASSUME NEW i \in 1 .. Len((q \o r) \o m)
      PROVE  ((q \o r) \o m)[i] = (q \o (r \o m))[i]
  OBVIOUS
<1> QED
  BY <1>1, <1>2, <1>3

LEMMA AppendTail ==
  ASSUME NEW q \in Seq(DownMsg), NEW r \in Seq(DownMsg), r # <<>>
  PROVE  Append(q, Head(r)) \o Tail(r) = q \o r
<1>1. Append(q, Head(r)) \o Tail(r) \in Seq(DownMsg) /\ q \o r \in Seq(DownMsg)
  OBVIOUS
<1>2. Len(Append(q, Head(r)) \o Tail(r)) = Len(q \o r)
  OBVIOUS
<1>3. ASSUME NEW i \in 1 .. Len(q \o r)
      PROVE  (Append(q, Head(r)) \o Tail(r))[i] = (q \o r)[i]
  OBVIOUS
<1> QED
  BY <1>1, <1>2, <1>3

LEMMA ConcatAt ==
  ASSUME NEW q \in Seq(DownMsg), NEW r \in Seq(DownMsg), r # <<>>
  PROVE  /\ Len(q \o r) > Len(q) /\ (q \o r)[Len(q) + 1] = Head(r)
         /\ \A i \in 1 .. Len(q) : (q \o r)[i] = q[i]
OBVIOUS

LEMMA OneAndOne ==
  ASSUME NEW a, NEW b
  PROVE  <<a>> \o <<b>> = <<a, b>>
<1> DEFINE r == <<a>> \o <<b>>
           q == <<a, b>>
<1>1. r \in Seq({a, b}) /\ q \in Seq({a, b})
  OBVIOUS
<1>2. Len(r) = 2 /\ Len(q) = 2
  OBVIOUS
<1>3. r[1] = a /\ r[2] = b /\ q[1] = a /\ q[2] = b
  OBVIOUS
<1>4. \A i \in 1 .. Len(r) : r[i] = q[i]
  <2>1. \A i \in 1 .. Len(r) : i = 1 \/ i = 2
    BY <1>2
  <2> QED
    BY <1>3, <2>1
<1> HIDE DEF r, q
<1>5. r = q
  BY <1>1, <1>2, <1>4
<1> QED
  BY <1>5 DEF r, q

\* The next message is the next of those that are acted upon.
LEMMA AheadTail ==
  ASSUME NEW q \in Seq(DownMsg), NEW p \in Seq(DownMsg), Ahead(q, p), p # <<>>
  PROVE  q # <<>> /\ Head(q) = Head(p) /\ Ahead(Tail(q), Tail(p))
BY DEF Ahead

\* When none is left the next message, if any, is MSG_RESTART.
LEMMA AheadNone ==
  ASSUME NEW q \in Seq(DownMsg), Ahead(q, <<>>), q # <<>>
  PROVE  Head(q) = Restart
BY DEF Ahead

\* What is sent after a MSG_RESTART, or is one, makes no difference.
LEMMA AheadSent ==
  ASSUME NEW q \in Seq(DownMsg), NEW p \in Seq(DownMsg), NEW m \in Seq(DownMsg), Ahead(q, p),
         Len(q) > Len(p) \/ m = <<>> \/ m[1] = Restart
  PROVE  Ahead(q \o m, p)
BY DEF Ahead

\* With no MSG_RESTART all messages are acted upon.
LEMMA AheadAll ==
  ASSUME NEW q \in Seq(DownMsg), NEW p \in Seq(DownMsg), Ahead(q, p),
         \A i \in DOMAIN q : q[i] # Restart
  PROVE  q = p
BY DEF Ahead

LEMMA AheadSelf ==
  ASSUME NEW p \in Seq(DownMsg)
  PROVE  Ahead(p, p)
BY DEF Ahead

-----------------------------------------------------------------------------
(* Types                                                                   *)

\* What is sent is what a worker reads.
LEMMA SendType ==
  ASSUME NEW s \in Slots, NEW msgs \in Seq(DownMsg), Send(s, msgs)
  PROVE  sent' \in [Slots -> Seq(DownMsg)]
<1>1. Nothing \in [Slots -> Seq(DownMsg)]
  BY DEF Nothing
<1>2. sent' = [Nothing EXCEPT ![s] = msgs]
  BY DEF Send
<1> QED
  BY <1>1, <1>2

LEMMA QuietType ==
  ASSUME Quiet
  PROVE  sent' \in [Slots -> Seq(DownMsg)]
BY DEF Quiet, Nothing

\* What Deliver does to each connection.
LEMMA Delivered ==
  ASSUME LinksTyped, Deliver, NEW s \in Slots
  PROVE  /\ UNCHANGED <<worker, up, queue, built, trees, view, faults>>
         /\ Alive(s) => down'[s] = down[s] \o sent'[s]
         /\ ~Alive(s) => down'[s] = down[s]
         /\ sent'[s] = <<>> => down'[s] = down[s]
<1>1. /\ UNCHANGED <<worker, up, queue, built, trees, view, faults>>
      /\ Alive(s) => down'[s] = down[s] \o sent'[s]
      /\ ~Alive(s) => down'[s] = down[s]
  BY DEF Deliver, memory, Alive
<1>2. down[s] \in Seq(DownMsg)
  BY DEF LinksTyped
<1>3. sent'[s] = <<>> => down'[s] = down[s]
  BY <1>1, <1>2
<1> QED
  BY <1>1, <1>3

LEMMA DeliverType ==
  ASSUME LinksTyped, Deliver, sent' \in [Slots -> Seq(DownMsg)]
  PROVE  LinksTyped'
<1>1. /\ UNCHANGED <<worker, up, queue, built, trees, view>>
      /\ down' = [s \in Slots |-> IF worker[s] \in {"up", "hung"} THEN down[s] \o sent'[s]
                                  ELSE down[s]]
  BY DEF Deliver, memory
<1>2. \A s \in Slots : down[s] \in Seq(DownMsg) /\ down[s] \o sent'[s] \in Seq(DownMsg)
  BY DEF LinksTyped
<1>3. down' \in [Slots -> Seq(DownMsg)]
  BY <1>1, <1>2
<1> QED
  BY <1>1, <1>3 DEF LinksTyped

\* The dispatcher sends no message but those the workers know.
LEMMA SentType ==
  ASSUME TypeInv, FarmPass \/ (\E ok \in BOOLEAN : SendRestart(ok)) \/ EndRestart \/ EndCmd
                    \/ Timeout
  PROVE  sent' \in [Slots -> Seq(DownMsg)]
<1>0. <<Dirbuild>> \in Seq(DownMsg) /\ <<Restart>> \in Seq(DownMsg)
  BY DEF DownMsg
<1>1. ASSUME NEW failed \in 0 .. 2, SendDirbuild(failed)
      PROVE  sent' \in [Slots -> Seq(DownMsg)]
  <2>1. at \in Slots
    BY <1>1 DEF SendDirbuild, TypeInv, TypesOK, LoopOK
  <2>2. Quiet \/ Send(at, <<Dirbuild>>)
    BY <1>1 DEF SendDirbuild
  <2> QED
    BY <1>0, <2>1, <2>2, SendType, QuietType
<1>2. ASSUME NEW failed \in 0 .. 2, TaskGettrees(failed)
      PROVE  sent' \in [Slots -> Seq(DownMsg)]
  <2>1. at \in Slots /\ Fr \in FrameNums
    BY <1>2 DEF TaskGettrees, Eligible, Tasking, TypeInv, TypesOK, LoopOK, JobOK, Fr
  <2>2. Quiet \/ Send(at, <<Matrix(Fr), Gettrees>>)
    BY <1>2 DEF TaskGettrees
  <2>3. Matrix(Fr) \in DownMsg /\ Gettrees \in DownMsg
    BY <2>1 DEF DownMsg, QueueMsg
  <2>4. <<Matrix(Fr), Gettrees>> \in Seq(DownMsg)
    BY <2>3
  <2> QED
    BY <2>1, <2>2, <2>4, SendType, QuietType
<1>3. ASSUME NEW lump \in 1 .. MaxLump, TaskAssign(lump)
      PROVE  sent' \in [Slots -> Seq(DownMsg)]
  <2> DEFINE x == Lump(todo[Fr], lump)
  <2>1. Tasking /\ todo[Fr] # <<>>
    BY <1>3 DEF TaskAssign, CanAssign, Eligible
  <2>2. Fr \in FrameNums /\ at \in Slots /\ x \in SpanSet
    BY <2>1, LumpType
  <2>3. Send(at, (IF Fresh THEN <<Matrix(Fr)>> ELSE <<>>) \o <<Lines(x)>>)
    BY <1>3 DEF TaskAssign
  <2>4. Matrix(Fr) \in DownMsg /\ Lines(x) \in DownMsg
    BY <2>2 DEF DownMsg, QueueMsg
  <2>5. (IF Fresh THEN <<Matrix(Fr)>> ELSE <<>>) \o <<Lines(x)>> \in Seq(DownMsg)
    BY <2>4
  <2> HIDE DEF x
  <2> QED
    BY <2>2, <2>3, <2>5, SendType
<1>4. ASSUME NEW ok \in BOOLEAN, SendRestart(ok)
      PROVE  sent' \in [Slots -> Seq(DownMsg)]
  <2>1. at \in Slots
    BY <1>4 DEF SendRestart, TypeInv, TypesOK, LoopOK
  <2>2. Quiet \/ Send(at, <<Restart>>)
    BY <1>4 DEF SendRestart
  <2> QED
    BY <1>0, <2>1, <2>2, SendType, QuietType
<1>5. CASE EndRestart \/ EndCmd \/ Timeout
  BY <1>5, QuietType DEF EndRestart, EndCmd, Timeout, TaskTardy, CheckSetup
<1>6. CASE FarmPass
  <2>1. \/ Quiet
        \/ \E failed \in 0 .. 2 : SendDirbuild(failed) \/ TaskGettrees(failed)
        \/ \E lump \in 1 .. MaxLump : TaskAssign(lump)
    BY <1>6 DEF FarmPass, BeginSchedule, CheckSetup, PassConn, EndConn, FrameIsDone, FrameNotDone,
                EndFrames, TaskRefused, TaskLinesFail, TaskMatrixFail, NextPass, NextFrame,
                EndAssign, EndInput, EndHosting
  <2> QED
    BY <1>1, <1>2, <1>3, <2>1, QuietType
<1> QED
  BY <1>4, <1>5, <1>6

\* rtsrv
LEMMA WorkerType ==
  ASSUME LinksTyped, NEW s \in Slots,
         WorkerStep(s) \/ WorkerExit(s) \/ WorkerHang(s) \/ StartWorker(s) \/ CloseLink(s)
  PROVE  LinksTyped'
<1> USE DEF LinksTyped
<1>0. /\ DirbuildReply \in UpMsg /\ GettreesReply \in UpMsg /\ <<Version>> \in Seq(UpMsg)
      /\ <<>> \in Seq(UpMsg) /\ <<>> \in Seq(DownMsg) /\ <<>> \in Seq(QueueMsg)
  BY DEF UpMsg
<1>1. CASE ReadDirbuild(s)
  <2>1. down'[s] = Tail(down[s]) /\ down[s] # <<>> /\ Append(up[s], DirbuildReply) \in Seq(UpMsg)
    BY <1>0, <1>1 DEF ReadDirbuild
  <2>2. /\ down' = [down EXCEPT ![s] = Tail(@)] /\ built' = [built EXCEPT ![s] = TRUE]
        /\ up' \in {up, [up EXCEPT ![s] = Append(@, DirbuildReply)]}
        /\ UNCHANGED <<worker, queue, trees, view>>
    BY <1>1 DEF ReadDirbuild
  <2>3. down' \in [Slots -> Seq(DownMsg)]
    BY <2>1, <2>2
  <2>4. built' \in [Slots -> BOOLEAN]
    BY <2>2
  <2>5. CASE up' = up
    BY <2>2, <2>3, <2>4, <2>5
  <2>6. CASE up' = [up EXCEPT ![s] = Append(@, DirbuildReply)]
    <3>1. up' \in [Slots -> Seq(UpMsg)]
      BY <2>1, <2>6
    <3> QED
      BY <2>2, <2>3, <2>4, <3>1
  <2> QED
    BY <2>2, <2>5, <2>6
<1>2. CASE Enqueue(s)
  <2>1. down[s] # <<>> /\ Head(down[s]) \in DownMsg
        /\ Head(down[s]).type \in {"MATRIX", "GETTREES", "LINES"}
    BY <1>2 DEF Enqueue
  <2>2. Head(down[s]) \in QueueMsg
    BY <2>1, MsgFields DEF DownMsg
  <2>3. /\ down' = [down EXCEPT ![s] = Tail(@)]
        /\ queue' = [queue EXCEPT ![s] = Append(@, Head(down[s]))]
        /\ UNCHANGED <<worker, up, built, trees, view>>
    BY <1>2 DEF Enqueue
  <2> QED
    BY <2>1, <2>2, <2>3
<1>3. CASE ReadRestart(s) \/ WorkerExit(s)
  <2>1. Vanish(s) /\ UNCHANGED <<built, trees, view>>
    BY <1>3 DEF ReadRestart, WorkerExit
  <2> QED
    BY <1>0, <2>1 DEF Vanish
<1>4. CASE DoMatrix(s)
  <2>1. queue[s] # <<>> /\ Head(queue[s]) \in QueueMsg /\ Head(queue[s]).type = "MATRIX"
    BY <1>4 DEF DoMatrix, Doing
  <2>2. Head(queue[s]).frame \in FrameNums
    BY <2>1, MsgFields DEF QueueMsg
  <2>3. /\ queue' = [queue EXCEPT ![s] = Tail(@)]
        /\ view' = [view EXCEPT ![s] = Head(queue[s]).frame]
        /\ UNCHANGED <<worker, down, up, built, trees>>
    BY <1>4 DEF DoMatrix, Doing
  <2> QED
    BY <2>1, <2>2, <2>3
<1>5. CASE DoGettrees(s)
  <2>1. queue[s] # <<>> /\ Append(up[s], GettreesReply) \in Seq(UpMsg)
    BY <1>0, <1>5 DEF DoGettrees, Doing
  <2>2. /\ queue' = [queue EXCEPT ![s] = Tail(@)] /\ trees' = [trees EXCEPT ![s] = TRUE]
        /\ up' = [up EXCEPT ![s] = Append(@, GettreesReply)]
        /\ UNCHANGED <<worker, down, built, view>>
    BY <1>5 DEF DoGettrees, Doing
  <2>3. queue' \in [Slots -> Seq(QueueMsg)] /\ up' \in [Slots -> Seq(UpMsg)]
    BY <2>1, <2>2
  <2>4. trees' \in [Slots -> BOOLEAN]
    BY <2>2
  <2> QED
    BY <2>2, <2>3, <2>4
<1>6. CASE DoLines(s)
  <2>1. queue[s] # <<>> /\ Head(queue[s]) \in QueueMsg /\ Head(queue[s]).type = "LINES"
    BY <1>6 DEF DoLines, Doing
  <2>2. Head(queue[s]).span \in SpanSet
    BY <2>1, MsgFields DEF QueueMsg
  <2> DEFINE x == Head(queue[s]).span
  <2>3. view[s] # NoFrame => PixelsMsg(x, view[s]) \in UpMsg
    BY <2>2 DEF UpMsg
  <2>4. view[s] # NoFrame => Append(up[s], PixelsMsg(x, view[s])) \in Seq(UpMsg)
    BY <2>3
  <2>5. /\ queue' = [queue EXCEPT ![s] = Tail(@)]
        /\ up' = up \/ (view[s] # NoFrame
                          /\ up' = [up EXCEPT ![s] = Append(@, PixelsMsg(x, view[s]))])
        /\ UNCHANGED <<worker, down, built, trees, view>>
    BY <1>6 DEF DoLines, Doing
  <2> HIDE DEF x
  <2>6. up' \in [Slots -> Seq(UpMsg)]
    <3>1. CASE up' = up
      BY <3>1
    <3>2. CASE view[s] # NoFrame /\ up' = [up EXCEPT ![s] = Append(@, PixelsMsg(x, view[s]))]
      BY <2>4, <3>2
    <3> QED
      BY <2>5, <3>1, <3>2
  <2>7. queue' = [queue EXCEPT ![s] = Tail(@)] /\ UNCHANGED <<worker, down, built, trees, view>>
    BY <2>5
  <2> QED
    BY <2>1, <2>6, <2>7
<1>7. CASE WorkerHang(s)
  BY <1>7 DEF WorkerHang, link, memory
<1>8. CASE StartWorker(s) \/ CloseLink(s)
  <2>1. PICK w \in {"up", "none"}, msgs \in {<<>>, <<Version>>} : Reset(s, w, msgs)
    BY <1>8 DEF StartWorker, CloseLink
  <2>2. msgs \in Seq(UpMsg)
    BY <1>0
  <2>3. /\ worker' = [worker EXCEPT ![s] = w] /\ view' = [view EXCEPT ![s] = NoFrame]
        /\ built' = [built EXCEPT ![s] = FALSE] /\ trees' = [trees EXCEPT ![s] = FALSE]
    BY <2>1 DEF Reset
  <2>4. /\ down' = [down EXCEPT ![s] = <<>>] /\ up' = [up EXCEPT ![s] = msgs]
        /\ queue' = [queue EXCEPT ![s] = <<>>]
    BY <2>1 DEF Reset
  <2>5. /\ worker' \in [Slots -> {"none", "up", "hung", "gone"}]
        /\ view' \in [Slots -> FrameNums \cup {NoFrame}]
    BY <2>3
  <2>6. built' \in [Slots -> BOOLEAN]
    BY <2>3
  <2>9. trees' \in [Slots -> BOOLEAN]
    BY <2>3
  <2>7. down' \in [Slots -> Seq(DownMsg)] /\ queue' \in [Slots -> Seq(QueueMsg)]
    BY <1>0, <2>4
  <2>8. up' \in [Slots -> Seq(UpMsg)]
    BY <2>2, <2>4
  <2> QED
    BY <2>5, <2>6, <2>7, <2>8, <2>9
<1> QED
  BY <1>1, <1>2, <1>3, <1>4, <1>5, <1>6, <1>7, <1>8 DEF WorkerStep

\* What the next message is decides which handler runs.
LEMMA HandleCases ==
  ASSUME LinksTyped, NEW s \in Slots, up[s] # <<>>, Handle(s)
  PROVE  \/ Head(up[s]) = Version /\ PhVersion(s)
         \/ Head(up[s]) = DirbuildReply /\ PhDirbuildReply(s)
         \/ Head(up[s]) = GettreesReply /\ PhGettreesReply(s)
         \/ \E x \in SpanSet, f \in FrameNums :
              /\ Head(up[s]) = PixelsMsg(x, f)
              /\ PixelsIgnored(s) \/ PixelsMismatch(s, x, FALSE)
                   \/ (x = work[s] /\ PixelsStored(s, FALSE))
<1> DEFINE m == Head(up[s])
<1>1. m \in UpMsg
  BY DEF LinksTyped
<1>2. CASE m = Version
  BY <1>2, MsgFields DEF Handle
<1>3. CASE m = DirbuildReply
  BY <1>3, MsgFields DEF Handle
<1>4. CASE m = GettreesReply
  BY <1>4, MsgFields DEF Handle
<1>5. ASSUME NEW x \in SpanSet, NEW f \in FrameNums, m = PixelsMsg(x, f)
      PROVE  PixelsIgnored(s) \/ PixelsMismatch(s, x, FALSE)
               \/ (x = work[s] /\ PixelsStored(s, FALSE))
  <2>1. m.type = "PIXELS" /\ m.span = x
    BY <1>5, MsgFields
  <2> QED
    BY <2>1 DEF Handle
<1>6. CASE \E x \in SpanSet, f \in FrameNums : m = PixelsMsg(x, f)
  <2>1. PICK x \in SpanSet, f \in FrameNums : m = PixelsMsg(x, f)
    BY <1>6
  <2> QED
    BY <1>5, <2>1
<1>7. \/ m \in {Version, DirbuildReply, GettreesReply}
      \/ \E x \in SpanSet, f \in FrameNums : m = PixelsMsg(x, f)
  <2> HIDE DEF m
  <2> QED
    BY <1>1 DEF UpMsg
<1> QED
  BY <1>2, <1>3, <1>4, <1>6, <1>7

\* Pixels of the wrong span, or none assigned.
LEMMA MismatchSame ==
  ASSUME NEW s, NEW x, PixelsMismatch(s, x, FALSE)
  PROVE  PixelsMismatch(s, work[s], TRUE)
BY DEF PixelsMismatch

FarmTypes == TypeInv /\ LinksTyped

LEMMA FarmPassType ==
  ASSUME TypeInv, FarmPass
  PROVE  TypeInv'
<1>1. CASE BeginSchedule \/ EndInput \/ EndHosting
  BY <1>1, StartType
<1>2. CASE (\E failed \in 0 .. 2 : SendDirbuild(failed)) \/ CheckSetup(FALSE) \/ PassConn \/ EndConn
  BY <1>2, ConnType
<1>3. CASE FrameIsDone \/ FrameNotDone \/ EndFrames
  BY <1>3, FramesType
<1>4. CASE TaskRefused \/ (\E failed \in 0 .. 2 : TaskGettrees(failed))
             \/ NextPass \/ NextFrame \/ EndAssign
  BY <1>4, RefuseType
<1>5. ASSUME NEW lump \in 1 .. MaxLump, TaskAssign(lump) \/ TaskLinesFail(lump) \/ TaskMatrixFail(lump)
      PROVE  TypeInv'
  BY <1>5, AssignType
<1> QED
  BY <1>1, <1>2, <1>3, <1>4, <1>5 DEF FarmPass

LEMMA FarmTypeStep ==
  ASSUME FarmTypes, [FarmNext]_farmVars
  PROVE  FarmTypes'
<1> USE DEF FarmTypes
<1>1. CASE FarmConnect
  <2>1. TypeInv'
    <3>1. CASE StartLocal
      BY <3>1, StartType
    <3>2. CASE AcceptTcp
      <4>1. 1 \in Slots
        BY ProtocolAssumption DEF Slots
      <4> QED
        BY <3>2, <4>1, InputType
    <3> QED
      BY <1>1, <3>1, <3>2 DEF FarmConnect
  <2>2. PICK s \in FreeSlot : StartWorker(s)
    BY <1>1 DEF FarmConnect
  <2>3. LinksTyped'
    BY <2>2, WorkerType DEF FreeSlot
  <2> QED
    BY <2>1, <2>3
<1>2. CASE FarmRestart
  <2>1. ASSUME NEW s \in Slots, CmdRestart(s), up' = [up EXCEPT ![s] = <<>>],
               UNCHANGED <<worker, down, memory>>
        PROVE  FarmTypes'
    <3>1. TypeInv'
      BY <2>1, CommandType
    <3>2. <<>> \in Seq(UpMsg)
      OBVIOUS
    <3>3. LinksTyped'
      BY <2>1, <3>2 DEF LinksTyped, memory
    <3> QED
      BY <3>1, <3>3
  <2>2. CASE ((\E ok \in BOOLEAN : SendRestart(ok)) \/ EndRestart \/ EndCmd) /\ Deliver
    <3>1. TypeInv'
      BY <2>2, EndCommandType
    <3>2. LinksTyped'
      BY <2>2, SentType, DeliverType
    <3> QED
      BY <3>1, <3>2
  <2> QED
    BY <1>2, <2>1, <2>2 DEF FarmRestart
<1>3. CASE FarmPass
  <2>1. Deliver
    BY <1>3 DEF FarmPass
  <2> QED
    BY <1>3, <2>1, FarmPassType, SentType, DeliverType
<1>4. CASE FarmClose
  <2>1. FinalClose /\ CloseLink(at)
    BY <1>4 DEF FarmClose
  <2>2. TypeInv'
    BY <2>1, ConnType
  <2>3. at \in Slots
    BY <2>1 DEF FinalClose, TypeInv, TypesOK, LoopOK
  <2> QED
    BY <2>1, <2>2, <2>3, WorkerType
<1>5. CASE DueTimeout \/ EarlyTimeout
  <2>1. Timeout /\ (Deliver \/ UNCHANGED workerVars)
    BY <1>5 DEF DueTimeout, EarlyTimeout
  <2>2. TypeInv'
    BY <2>1, ConnType, RefuseType DEF Timeout
  <2>3. LinksTyped'
    <3>1. CASE Deliver
      BY <2>1, <3>1, SentType, DeliverType
    <3>2. CASE UNCHANGED workerVars
      BY <3>2 DEF LinksTyped, workerVars, link, memory
    <3> QED
      BY <2>1, <3>1, <3>2
  <2> QED
    BY <2>2, <2>3
<1>6. ASSUME NEW s \in Slots, FarmReceive(s) PROVE FarmTypes'
  <2>1. Handle(s) /\ up[s] # <<>>
    BY <1>6 DEF FarmReceive
  <2>2. TypeInv'
    BY <2>1, HandleCases, MismatchSame, InputType
  <2>3. Tail(up[s]) \in Seq(UpMsg)
    BY <2>1 DEF LinksTyped
  <2>4. LinksTyped'
    BY <1>6, <2>3 DEF FarmReceive, LinksTyped, memory
  <2> QED
    BY <2>2, <2>4
<1>7. ASSUME NEW s \in Slots, FarmEof(s) PROVE FarmTypes'
  <2>1. TypeInv'
    BY <1>7, InputType DEF FarmEof
  <2>2. UNCHANGED workerVars
    BY <1>7 DEF FarmEof
  <2> QED
    BY <2>1, <2>2 DEF LinksTyped, workerVars, link, memory
<1>8. ASSUME NEW s \in Slots, FarmWorker(s) \/ FarmFault(s) PROVE FarmTypes'
  <2>1. UNCHANGED vars /\ LinksTyped'
    BY <1>8, WorkerType DEF FarmWorker, FarmFault
  <2>2. TypeInv'
    BY <2>1, StartType
  <2> QED
    BY <2>1, <2>2
<1>9. CASE FarmOver \/ UNCHANGED farmVars
  <2>1. UNCHANGED <<vars, workerVars>>
    BY <1>9 DEF FarmOver, farmVars
  <2>2. TypeInv'
    BY <2>1, StartType
  <2>3. LinksTyped'
    BY <2>1 DEF LinksTyped, workerVars, link, memory
  <2> QED
    BY <2>2, <2>3
<1> QED
  BY <1>1, <1>2, <1>3, <1>4, <1>5, <1>6, <1>7, <1>8, <1>9 DEF FarmNext

-----------------------------------------------------------------------------
(* The conversation                                                        *)

LEMMA ComingType ==
  ASSUME LinksTyped, NEW s \in Slots
  PROVE  /\ Coming(s) \in Seq(DownMsg) /\ down[s] \in Seq(DownMsg) /\ queue[s] \in Seq(QueueMsg)
         /\ queue[s] \in Seq(DownMsg)
<1>1. QueueMsg \subseteq DownMsg
  BY DEF DownMsg
<1>2. down[s] \in Seq(DownMsg) /\ queue[s] \in Seq(QueueMsg)
  BY DEF LinksTyped
<1>3. queue[s] \in Seq(DownMsg)
  BY <1>1, <1>2
<1> QED
  BY <1>2, <1>3 DEF Coming

\* Nothing about slot s changes.
ServerSame(s) == state'[s] = state[s] /\ work'[s] = work[s] /\ cur'[s] = cur[s]
WorkerSame(s) ==
  /\ worker'[s] = worker[s] /\ queue'[s] = queue[s]
  /\ built'[s] = built[s] /\ trees'[s] = trees[s] /\ view'[s] = view[s]
LinkSame(s) == WorkerSame(s) /\ down'[s] = down[s] /\ up'[s] = up[s]

LEMMA Unmoved ==
  ASSUME NEW s \in Slots, SlotOK(s), ServerSame(s), LinkSame(s)
  PROVE  SlotOK(s)'
<1> USE DEF ServerSame, WorkerSame, LinkSame
<1>1. Coming(s)' = Coming(s) /\ (Alive(s)' <=> Alive(s)) /\ (Clear(s)' <=> Clear(s))
  BY DEF Coming, Alive, Clear
<1>2. \A p : Awaits(s, p)' <=> Awaits(s, p)
  BY <1>1 DEF Awaits
<1>3. /\ Started(s)' <=> Started(s)
      /\ Building(s)' <=> Building(s)
      /\ Built(s)' <=> Built(s)
      /\ Loaded(s)' <=> Loaded(s)
      /\ \A f : Loading(s, f)' <=> Loading(s, f)
      /\ \A x : Rendering(s, x)' <=> Rendering(s, x)
  BY <1>2 DEF Started, Building, Built, Loaded, Loading, Rendering
<1>4. (Talks(s)' <=> Talks(s)) /\ (Known(s)' <=> Known(s)) /\ (Answers(s)' <=> Answers(s))
  BY <1>1, <1>3 DEF Talks, Known, Answers
<1> QED
  BY <1>1, <1>4 DEF SlotOK, Lost

\* The messages of the stages.
LEMMA StageMsgs ==
  /\ <<>> \in Seq(DownMsg) /\ <<Dirbuild>> \in Seq(DownMsg) /\ <<Gettrees>> \in Seq(DownMsg)
  /\ \A f \in FrameNums : <<Matrix(f), Gettrees>> \in Seq(DownMsg)
  /\ \A x \in SpanSet : /\ <<Lines(x)>> \in Seq(DownMsg)
                        /\ <<Matrix(x.frame), Lines(x)>> \in Seq(DownMsg)
<1>1. Gettrees \in DownMsg /\ Dirbuild \in DownMsg
  BY DEF DownMsg, QueueMsg
<1>2. \A f \in FrameNums : Matrix(f) \in DownMsg
  BY DEF DownMsg, QueueMsg
<1>3. \A x \in SpanSet : Lines(x) \in DownMsg /\ x.frame \in FrameNums
  BY DEF DownMsg, QueueMsg, SpanSet
<1> QED
  BY <1>1, <1>2, <1>3

\* The stage a worker is in, whatever its slot's state.
Stage(s) ==
  \/ Started(s) \/ Building(s) \/ Built(s) \/ Loaded(s)
  \/ \E f \in FrameNums : Loading(s, f)
  \/ \E x \in SpanSet : Rendering(s, x)

\* The slot is being given up, or its worker restarted: whatever was on its way
\* may still come, and answers to nothing.
LEMMA Leave ==
  ASSUME LinksTyped, NEW s \in Slots, SlotOK(s), state'[s] \in Leaving, WorkerSame(s),
         down'[s] = down[s] \/ (Alive(s) /\ down'[s] = down[s] \o <<Restart>>),
         up'[s] \in {up[s], <<>>},
         up'[s] = <<Version>> => cur'[s] = NoFrame /\ work'[s] = NoWork
  PROVE  SlotOK(s)'
<1> USE DEF WorkerSame
<1>1. Known(s)'
  BY DEF Known, Leaving
<1>2. Answers(s)'
  BY DEF SlotOK, Answers, Leaving
<1>3. Alive(s)' <=> Alive(s)
  BY DEF Alive
<1>4. ~Alive(s) => Lost(s)'
  BY DEF SlotOK, Lost
<1>5. ASSUME Alive(s) PROVE Talks(s)'
  <2>1. ASSUME NEW p \in Seq(DownMsg), Awaits(s, p) PROVE Awaits(s, p)'
    <3>1. CASE down'[s] = down[s]
      <4>1. Coming(s)' = Coming(s)
        BY <3>1 DEF Coming
      <4> QED
        BY <2>1, <4>1 DEF Awaits
    <3>2. CASE down'[s] = down[s] \o <<Restart>>
      <4>1. Coming(s)' = Coming(s) \o <<Restart>>
        <5>1. Coming(s)' = queue[s] \o (down[s] \o <<Restart>>)
          BY <3>2 DEF Coming
        <5>2. queue[s] \in Seq(DownMsg) /\ down[s] \in Seq(DownMsg) /\ <<Restart>> \in Seq(DownMsg)
          BY ComingType DEF DownMsg
        <5>3. (queue[s] \o down[s]) \o <<Restart>> = queue[s] \o (down[s] \o <<Restart>>)
          BY <5>2, Associative
        <5> QED
          BY <5>1, <5>3, Zenon DEF Coming
      <4>2. <<Restart>> \in Seq(DownMsg)
        BY DEF DownMsg
      <4>3. Ahead(Coming(s) \o <<Restart>>, p)
        BY <2>1, <4>2, ComingType, AheadSent DEF Awaits
      <4> QED
        BY <4>1, <4>3 DEF Awaits
    <3> QED
      BY <3>1, <3>2
  <2>2. Stage(s)
    BY <1>5 DEF SlotOK, Talks, Stage
  <2>3. Stage(s)'
    <3>1. CASE Started(s)
      <4>1. Started(s)'
        BY <2>1, <3>1, StageMsgs DEF Started
      <4> QED
        BY <4>1 DEF Stage
    <3>2. CASE Building(s)
      <4>1. Building(s)'
        BY <2>1, <3>2, StageMsgs DEF Building
      <4> QED
        BY <4>1 DEF Stage
    <3>3. CASE Built(s)
      <4>1. Built(s)'
        BY <2>1, <3>3, StageMsgs DEF Built
      <4> QED
        BY <4>1 DEF Stage
    <3>4. CASE Loaded(s)
      <4>1. Loaded(s)'
        BY <2>1, <3>4, StageMsgs DEF Loaded
      <4> QED
        BY <4>1 DEF Stage
    <3>5. ASSUME NEW f \in FrameNums, Loading(s, f) PROVE Stage(s)'
      <4>1. f # NoFrame
        BY DEF FrameNums, NoFrame
      <4>2. Loading(s, f)' \/ Loaded(s)'
        BY <2>1, <3>5, <4>1, StageMsgs DEF Loading, Loaded
      <4> QED
        BY <4>2 DEF Stage
    <3>6. ASSUME NEW x \in SpanSet, Rendering(s, x) PROVE Stage(s)'
      <4>1. x.frame # NoFrame
        BY DEF FrameNums, NoFrame, SpanSet
      <4>2. Rendering(s, x)' \/ Loaded(s)'
        BY <2>1, <3>6, <4>1, StageMsgs DEF Rendering, Loaded
      <4> QED
        BY <4>2 DEF Stage
    <3> QED
      BY <2>2, <3>1, <3>2, <3>3, <3>4, <3>5, <3>6 DEF Stage
  <2> QED
    BY <2>3 DEF Talks, Stage, Leaving
<1> QED
  BY <1>1, <1>2, <1>3, <1>4, <1>5 DEF SlotOK

\* At most one message is on its way back.
LEMMA AnswerOne ==
  ASSUME LinksTyped, NEW s \in Slots, SlotOK(s)
  PROVE  up[s] = <<>> \/ (up[s] = <<Head(up[s])>> /\ Tail(up[s]) = <<>>)
<1>1. up[s] \in Seq(UpMsg)
  BY DEF LinksTyped
<1>2. up[s] = <<>> \/ \E m : up[s] = <<m>>
  BY DEF SlotOK, Answers
<1>3. \A m : Head(<<m>>) = m /\ Tail(<<m>>) = <<>>
  OBVIOUS
<1> QED
  BY <1>2, <1>3

\* The dispatcher's steps that send nothing to slot s leave its connection alone.
LEMMA NotSent ==
  ASSUME LinksTyped, Deliver, NEW s \in Slots, sent'[s] = <<>>
  PROVE  LinkSame(s)
BY Delivered DEF LinkSame, WorkerSame

LEMMA QuietSent ==
  ASSUME LinksTyped, Deliver, NEW s \in Slots, Quiet
  PROVE  LinkSame(s)
<1>1. sent'[s] = <<>>
  BY DEF Quiet, Nothing
<1> QED
  BY <1>1, NotSent

LEMMA OtherSent ==
  ASSUME LinksTyped, Deliver, NEW t \in Slots, NEW msgs, Send(t, msgs),
         NEW s \in Slots, s # t
  PROVE  LinkSame(s)
<1>1. sent'[s] = <<>>
  BY DEF Send, Nothing
<1> QED
  BY <1>1, NotSent

\* Slots other than t see nothing of the step.
Only(t) == \A s \in Slots \ {t} : ServerSame(s) /\ LinkSame(s)

LEMMA OnlyOne ==
  ASSUME TalkInv, NEW t \in Slots, Only(t), SlotOK(t)'
  PROVE  TalkInv'
<1> SUFFICES ASSUME NEW s \in Slots PROVE SlotOK(s)'
  BY DEF TalkInv
<1>1. CASE s = t
  BY <1>1
<1>2. CASE s # t
  BY <1>2, Unmoved DEF TalkInv, Only
<1> QED
  BY <1>1, <1>2

LEMMA NoneMoved ==
  ASSUME TalkInv, \A s \in Slots : ServerSame(s) /\ LinkSame(s)
  PROVE  TalkInv'
BY Unmoved DEF TalkInv

\* Nothing is sent, and at most one message of slot t is read.
Hush(t) ==
  /\ \A s \in Slots : WorkerSame(s) /\ down'[s] = down[s]
  /\ \A s \in Slots \ {t} : up'[s] = up[s]
  /\ up'[t] = up[t] \/ (up[t] # <<>> /\ up'[t] = Tail(up[t]))

LEMMA QuietHush ==
  ASSUME LinksTyped, Deliver, Quiet, NEW t \in Slots
  PROVE  Hush(t)
BY QuietSent DEF Hush, LinkSame

LEMMA StillHush ==
  ASSUME UNCHANGED workerVars, NEW t \in Slots
  PROVE  Hush(t)
BY DEF Hush, workerVars, link, memory, WorkerSame

LEMMA ReceiveHush ==
  ASSUME LinksTyped, NEW t \in Slots, up[t] # <<>>, up' = [up EXCEPT ![t] = Tail(@)],
         UNCHANGED <<worker, down, memory>>
  PROVE  Hush(t)
BY DEF Hush, memory, WorkerSame, LinksTyped

\* drop_server: what was on its way may still come.
LEMMA DropTalk ==
  ASSUME FarmTypes, TalkInv, NEW t \in Slots, NEW n \in 1 .. 2, DropTimes(t, n), Hush(t)
  PROVE  TalkInv'
<1>1. /\ state' = [state EXCEPT ![t] = "CLOSING"] /\ cur' = [cur EXCEPT ![t] = NoFrame]
      /\ work' = work \/ (state[t] \in Requeues /\ work' = [work EXCEPT ![t] = NoWork])
      /\ state \in [Slots -> States] /\ work \in [Slots -> SpanSet \cup {NoWork}]
      /\ cur \in [Slots -> FrameNums \cup {NoFrame}]
  BY DEF DropTimes, FarmTypes, TypeInv, TypesOK, ServersOK
<1>2. Only(t)
  BY <1>1 DEF Only, ServerSame, LinkSame, Hush
<1>3. SlotOK(t) /\ LinksTyped
  BY DEF TalkInv, FarmTypes
<1>4. up'[t] \in {up[t], <<>>}
  BY <1>3, AnswerOne DEF Hush
<1>5. ASSUME up'[t] = <<Version>> PROVE cur'[t] = NoFrame /\ work'[t] = NoWork
  <2>1. up[t] = <<Version>>
    BY <1>4, <1>5
  <2>2. work[t] = NoWork /\ state[t] \notin Requeues
    BY <1>3, <2>1, MsgFields DEF SlotOK, Answers, Leaving, Requeues
  <2> QED
    BY <1>1, <2>2
<1>6. state'[t] \in Leaving /\ WorkerSame(t) /\ down'[t] = down[t]
  BY <1>1 DEF Leaving, Hush
<1>7. SlotOK(t)'
  BY <1>3, <1>4, <1>5, <1>6, Leave
<1> QED
  BY <1>2, <1>7, OnlyOne

\* What is sent comes after what is under way.
LEMMA SentComing ==
  ASSUME LinksTyped, Deliver, NEW s \in Slots, Alive(s), NEW m \in Seq(DownMsg), sent'[s] = m
  PROVE  Coming(s)' = Coming(s) \o m /\ up'[s] = up[s] /\ WorkerSame(s) /\ Alive(s)'
<1>1. /\ UNCHANGED <<worker, up, queue, built, trees, view>>
      /\ down'[s] = down[s] \o m
  BY Delivered
<1>2. queue[s] \in Seq(DownMsg) /\ down[s] \in Seq(DownMsg)
  BY ComingType
<1>3. (queue[s] \o down[s]) \o m = queue[s] \o (down[s] \o m)
  BY <1>2, Associative
<1>4. Coming(s)' = queue[s] \o (down[s] \o m)
  BY <1>1 DEF Coming
<1> QED
  BY <1>1, <1>3, <1>4 DEF Coming, WorkerSame, Alive

\* With no MSG_RESTART under way a stage tells all that is.
LEMMA ClearComing ==
  ASSUME LinksTyped, NEW s \in Slots, Clear(s), NEW p \in Seq(DownMsg), Awaits(s, p)
  PROVE  Coming(s) = p
BY ComingType, AheadAll DEF Clear, Awaits

LEMMA NoneComing ==
  ASSUME LinksTyped, NEW s \in Slots, NEW m \in Seq(DownMsg), Coming(s) = <<>>
  PROVE  Coming(s) \o m = m
OBVIOUS

\* MSG_DIRBUILD goes to a worker that has reported, or is about to be restarted.
LEMMA DirbuildTalk ==
  ASSUME FarmTypes, TalkInv, NEW t \in Slots, t = at, SendDirbuild(0), Deliver
  PROVE  TalkInv'
<1>1. /\ state[t] = "VERSOK" /\ state' = [state EXCEPT ![t] = "DOING_DIRBUILD"]
      /\ UNCHANGED <<cur, work>> /\ Send(t, <<Dirbuild>>) /\ sent'[t] = <<Dirbuild>>
      /\ DOMAIN state = Slots /\ LinksTyped /\ SlotOK(t)
  BY DEF SendDirbuild, Become, Send, Nothing, FarmTypes, TypeInv, TypesOK, ServersOK, LoopOK, TalkInv
<1>2. Only(t)
  BY <1>1, OtherSent DEF Only, ServerSame
<1>3. up[t] = <<>> /\ cur[t] = NoFrame /\ work[t] = NoWork
  BY <1>1 DEF SlotOK, Answers, Known, Leaving
<1>4. /\ state'[t] = "DOING_DIRBUILD" /\ cur'[t] = NoFrame /\ work'[t] = NoWork
      /\ up'[t] = <<>> /\ worker'[t] = worker[t] /\ built'[t] = built[t] /\ queue'[t] = queue[t]
  BY <1>1, <1>3, Delivered
<1>5. Known(t)' /\ Answers(t)' /\ (Alive(t)' <=> Alive(t))
  BY <1>4 DEF Known, Answers, Alive
<1>6. CASE ~Alive(t)
  <2>1. Lost(t)'
    BY <1>1, <1>4, <1>6, Delivered DEF SlotOK, Lost
  <2> QED
    BY <1>2, <1>5, <1>6, <1>1, <2>1, OnlyOne DEF SlotOK
<1>7. CASE Alive(t)
  <2>1. Started(t)
    BY <1>1, <1>7 DEF SlotOK, Talks
  <2>2. Coming(t)' = Coming(t) \o <<Dirbuild>>
    BY <1>1, <1>7, SentComing, StageMsgs
  <2>3. ASSUME Coming(t) = <<>> PROVE Talks(t)'
    <3>1. Coming(t)' = <<Dirbuild>>
      BY <1>1, <2>2, <2>3, NoneComing, StageMsgs
    <3>2. Ahead(<<Dirbuild>>, <<Dirbuild>>)
      BY AheadSelf, StageMsgs
    <3>3. Clear(t)'
      BY <3>1, MsgKinds DEF Clear
    <3>4. Building(t)'
      BY <1>4, <2>1, <3>1, <3>2 DEF Building, Awaits, Started
    <3> QED
      BY <1>4, <3>3, <3>4 DEF Talks
  <2>4. ASSUME Coming(t) # <<>> PROVE Talks(t)'
    <3>1. Ahead(Coming(t) \o <<Dirbuild>>, <<>>)
      <4>1. Len(Coming(t)) > 0 /\ Len(<<>>) = 0
        BY <1>1, <2>4, ComingType
      <4> QED
        BY <1>1, <2>1, <4>1, ComingType, StageMsgs, AheadSent DEF Started, Awaits
    <3>2. Started(t)'
      BY <1>4, <2>1, <2>2, <3>1 DEF Started, Awaits
    <3> QED
      BY <1>4, <3>2 DEF Talks
  <2>5. Talks(t)'
    BY <2>3, <2>4
  <2> QED
    BY <1>2, <1>5, <1>7, <1>1, <2>5, OnlyOne DEF SlotOK
<1> QED
  BY <1>6, <1>7

\* A server that is ready and holds no work owes no answer.
LEMMA IdleQuiet ==
  ASSUME FarmTypes, TalkInv, NEW t \in Slots, state[t] \in Requeues, work[t] = NoWork
  PROVE  up[t] = <<>>
<1>1. \A x \in SpanSet : x # NoWork
  BY DEF SpanSet, NoWork, Span, FrameNums, NoFrame
<1> QED
  BY <1>1 DEF TalkInv, SlotOK, Answers, Leaving, Requeues

\* A worker that is gone: it is enough that no answer is expected of it.
LEMMA LostTalk ==
  ASSUME FarmTypes, NEW t \in Slots, Deliver, SlotOK(t), ~Alive(t), Known(t)', Answers(t)'
  PROVE  SlotOK(t)'
<1>1. ~Alive(t)'
  BY Delivered DEF Alive, FarmTypes
<1>2. Lost(t)'
  BY Delivered DEF SlotOK, Lost, FarmTypes
<1> QED
  BY <1>1, <1>2 DEF SlotOK

\* MSG_MATRIX and MSG_GETTREES go to a worker that has built or is done.
LEMMA GettreesTalk ==
  ASSUME FarmTypes, TalkInv, NEW t \in Slots, t = at, TaskGettrees(0), Deliver
  PROVE  TalkInv'
<1>0. PICK f : f = Fr
  OBVIOUS
<1> DEFINE m == <<Matrix(f), Gettrees>>
<1>1. /\ state[t] \in Requeues /\ work[t] = NoWork /\ cur[t] = NoFrame /\ Tasking
      /\ state' = [state EXCEPT ![t] = "DOING_GETTREES"] /\ cur' = [cur EXCEPT ![t] = f]
      /\ UNCHANGED work /\ Send(t, m)
  BY <1>0 DEF TaskGettrees, Eligible, Idle, Ready, Fresh
<1>2. /\ sent'[t] = m /\ LinksTyped /\ SlotOK(t) /\ f \in FrameNums
      /\ state'[t] = "DOING_GETTREES" /\ cur'[t] = f /\ work'[t] = NoWork
  BY <1>0, <1>1 DEF Send, Nothing, FarmTypes, TypeInv, TypesOK, ServersOK, LoopOK, JobOK, TalkInv,
                    Tasking, Fr
<1>3. m \in Seq(DownMsg)
  BY <1>2, StageMsgs
<1>4. Only(t)
  BY <1>1, <1>2, OtherSent DEF Only, ServerSame, FarmTypes, TypeInv, TypesOK, ServersOK
<1> HIDE DEF m
<1>5. up[t] = <<>> /\ up'[t] = <<>>
  BY <1>1, <1>2, IdleQuiet, Delivered
<1>6. Known(t)' /\ Answers(t)'
  BY <1>2, <1>5 DEF Known, Answers
<1>7. ASSUME Alive(t) PROVE SlotOK(t)'
  <2>1. Coming(t)' = Coming(t) \o m /\ Alive(t)'
    BY <1>2, <1>3, <1>7, SentComing
  <2>2. Clear(t) /\ Awaits(t, <<>>)
    BY <1>1, <1>2, <1>5, <1>7 DEF SlotOK, Talks, Built, Loaded, Requeues
  <2>3. Coming(t) = <<>>
    BY <1>2, <2>2, ClearComing, StageMsgs
  <2>4. Coming(t)' = m
    BY <1>2, <1>3, <2>1, <2>3, NoneComing
  <2>5. Clear(t)'
    BY <2>4, MsgKinds DEF Clear, m
  <2>6. Loading(t, f)'
    <3>1. Ahead(m, m)
      BY <1>3, AheadSelf
    <3> QED
      BY <1>5, <2>4, <3>1 DEF Loading, Awaits, m
  <2>7. Talks(t)'
    BY <1>2, <2>5, <2>6 DEF Talks
  <2> QED
    BY <1>6, <2>1, <2>7 DEF SlotOK
<1>8. SlotOK(t)'
  BY <1>2, <1>6, <1>7, LostTalk
<1> QED
  BY <1>4, <1>8, OnlyOne

\* MSG_LINES goes out under the matrix of its frame.
LEMMA AssignTalk ==
  ASSUME FarmTypes, TalkInv, NEW t \in Slots, t = at, NEW lump \in 1 .. MaxLump,
         TaskAssign(lump), Deliver
  PROVE  TalkInv'
<1>0. PICK f, x, p : f = Fr /\ x = Lump(todo[Fr], lump) /\ p = Fresh
  OBVIOUS
<1> DEFINE m == (IF p THEN <<Matrix(f)>> ELSE <<>>) \o <<Lines(x)>>
<1>1. /\ state[t] \in Requeues /\ work[t] = NoWork /\ cur[t] \in {NoFrame, f} /\ Tasking
      /\ todo[f] # <<>> /\ (state[t] = "NEED_TREE" => cur[t] # NoFrame)
      /\ work' = [work EXCEPT ![t] = x] /\ cur' = [cur EXCEPT ![t] = f]
      /\ UNCHANGED state /\ Send(t, m)
  BY <1>0 DEF TaskAssign, CanAssign, Eligible, Idle, Ready, Fresh
<1>2. f \in FrameNums /\ x \in SpanSet /\ x.frame = f
  BY <1>0, <1>1, LumpType DEF FarmTypes
<1>3. /\ sent'[t] = m /\ LinksTyped /\ SlotOK(t) /\ cur'[t] = f /\ work'[t] = x
      /\ state'[t] = state[t]
  BY <1>1 DEF Send, Nothing, FarmTypes, TypeInv, TypesOK, ServersOK, TalkInv
<1>4. state[t] = "READY"
  BY <1>1, <1>3 DEF SlotOK, Known, Requeues
<1>5. m \in {<<Lines(x)>>, <<Matrix(f), Lines(x)>>} /\ (cur[t] = NoFrame => m = <<Matrix(f), Lines(x)>>)
  <2>1. cur[t] = NoFrame => p
    BY <1>0 DEF Fresh
  <2>2. <<Matrix(f)>> \o <<Lines(x)>> = <<Matrix(f), Lines(x)>>
    BY OneAndOne
  <2>3. <<>> \o <<Lines(x)>> = <<Lines(x)>>
    OBVIOUS
  <2> QED
    BY <2>1, <2>2, <2>3
<1>6. m \in Seq(DownMsg)
  BY <1>2, <1>5, StageMsgs
<1>7. Only(t)
  BY <1>1, <1>3, OtherSent DEF Only, ServerSame, FarmTypes, TypeInv, TypesOK, ServersOK
<1> HIDE DEF m
<1>8. up[t] = <<>> /\ up'[t] = <<>> /\ view'[t] = view[t] /\ trees'[t] = trees[t]
  BY <1>1, <1>3, IdleQuiet, Delivered
<1>9. Known(t)' /\ Answers(t)'
  BY <1>2, <1>3, <1>4, <1>8 DEF Known, Answers
<1>10. ASSUME Alive(t) PROVE SlotOK(t)'
  <2>1. Coming(t)' = Coming(t) \o m /\ Alive(t)'
    BY <1>3, <1>6, <1>10, SentComing
  <2>2. Clear(t) /\ Loaded(t) /\ cur[t] \in {NoFrame, view[t]}
    BY <1>1, <1>3, <1>4, <1>10 DEF SlotOK, Talks
  <2>3. Coming(t) = <<>>
    BY <1>3, <2>2, ClearComing, StageMsgs DEF Loaded
  <2>4. Coming(t)' = m
    BY <1>3, <1>6, <2>1, <2>3, NoneComing
  <2>5. Clear(t)'
    BY <1>5, <2>4, MsgKinds DEF Clear
  <2>6. Awaits(t, m)'
    BY <1>6, <2>4, AheadSelf DEF Awaits
  <2>7. Rendering(t, x)'
    <3>1. CASE m = <<Matrix(f), Lines(x)>>
      BY <1>2, <1>8, <2>2, <2>6, <3>1 DEF Rendering, Loaded
    <3>2. CASE cur[t] # NoFrame /\ m = <<Lines(x)>>
      <4>1. view[t] = f
        BY <1>1, <2>2, <3>2
      <4> QED
        BY <1>2, <1>8, <2>2, <2>6, <3>2, <4>1 DEF Rendering, Loaded
    <3> QED
      BY <1>5, <3>1, <3>2
  <2>8. x # NoWork
    BY <1>2 DEF NoWork, Span, FrameNums, NoFrame
  <2>9. Talks(t)'
    BY <1>2, <1>3, <1>4, <2>5, <2>7, <2>8 DEF Talks
  <2> QED
    BY <1>9, <2>1, <2>9 DEF SlotOK
<1>11. SlotOK(t)'
  BY <1>3, <1>9, <1>10, LostTalk
<1> QED
  BY <1>7, <1>11, OnlyOne

\* A finished frame's servers hold no work of it, so none is forgotten too early.
LEMMA ForgetTalk ==
  ASSUME NEW s \in Slots, SlotOK(s), LinkSame(s), state'[s] = state[s], work'[s] = work[s],
         cur'[s] = cur[s] \/ (cur'[s] = NoFrame /\ work[s].frame # cur[s])
  PROVE  SlotOK(s)'
<1> USE DEF WorkerSame, LinkSame
<1>1. Coming(s)' = Coming(s) /\ (Alive(s)' <=> Alive(s)) /\ (Clear(s)' <=> Clear(s))
  BY DEF Coming, Alive, Clear
<1>2. \A p : Awaits(s, p)' <=> Awaits(s, p)
  BY <1>1 DEF Awaits
<1>3. /\ Started(s)' <=> Started(s)
      /\ Building(s)' <=> Building(s)
      /\ Built(s)' <=> Built(s)
      /\ Loaded(s)' <=> Loaded(s)
      /\ \A f : Loading(s, f)' <=> Loading(s, f)
      /\ \A x : Rendering(s, x)' <=> Rendering(s, x)
  BY <1>2 DEF Started, Building, Built, Loaded, Loading, Rendering
<1>4. Known(s)'
  BY DEF SlotOK, Known
<1>5. Answers(s)'
  BY DEF SlotOK, Answers
<1>6. Alive(s) => Talks(s)'
  BY <1>1, <1>3 DEF SlotOK, Talks
<1>7. ~Alive(s) => Lost(s)'
  BY DEF SlotOK, Lost
<1> QED
  BY <1>1, <1>4, <1>5, <1>6, <1>7 DEF SlotOK

LEMMA DoneTalk ==
  ASSUME FarmTypes, TalkInv, FrameIsDone, Deliver
  PROVE  TalkInv'
<1> DEFINE f == frames[fpos]
<1>1. /\ UNCHANGED <<state, work>> /\ Quiet /\ NoneOutstanding(f) /\ Forget({f})
  BY DEF FrameIsDone
<1> SUFFICES ASSUME NEW s \in Slots PROVE SlotOK(s)'
  BY DEF TalkInv
<1>2. cur'[s] = cur[s] \/ (cur'[s] = NoFrame /\ work[s].frame # cur[s])
  BY <1>1 DEF Forget, NoneOutstanding
<1>3. LinkSame(s) /\ SlotOK(s)
  BY <1>1, QuietSent DEF FarmTypes, TalkInv
<1> QED
  BY <1>1, <1>2, <1>3, ForgetTalk

\* A send that fails ends the conversation, whatever task_server goes on to do.
LEMMA FailTalk ==
  ASSUME FarmTypes, TalkInv, NEW t \in Slots, t = at, NEW lump \in 1 .. MaxLump,
         TaskLinesFail(lump) \/ TaskMatrixFail(lump), Deliver
  PROVE  TalkInv'
<1>1. /\ state[t] \in Requeues /\ work[t] = NoWork
      /\ state' = [state EXCEPT ![t] = "CLOSING"]
      /\ \A s \in Slots \ {t} : cur'[s] = cur[s] /\ work'[s] = work[s]
      /\ Quiet
  BY DEF TaskLinesFail, TaskMatrixFail, CanAssign, Eligible, Idle, Ready, FarmTypes, TypeInv, TypesOK,
         ServersOK
<1>2. SlotOK(t) /\ LinksTyped /\ up[t] = <<>> /\ DOMAIN state = Slots
  BY <1>1, IdleQuiet DEF FarmTypes, TalkInv, TypeInv, TypesOK, ServersOK
<1>3. \A s \in Slots : LinkSame(s)
  BY <1>1, <1>2, QuietSent
<1>4. Only(t)
  BY <1>1, <1>2, <1>3 DEF Only, ServerSame
<1>5. SlotOK(t)'
  BY <1>1, <1>2, <1>3, Leave DEF LinkSame, Leaving
<1> QED
  BY <1>4, <1>5, OnlyOne

\* send_restart
LEMMA RestartTalk ==
  ASSUME FarmTypes, TalkInv, NEW t \in Slots, t = at, NEW ok \in BOOLEAN, SendRestart(ok), Deliver
  PROVE  TalkInv'
<1>1. /\ state' = [state EXCEPT ![t] = "RESTART"] /\ (Quiet \/ Send(t, <<Restart>>))
      /\ work' = work \/ work' = [work EXCEPT ![t] = NoWork]
      /\ cur' = cur \/ cur' = [cur EXCEPT ![t] = NoFrame]
      /\ state \in [Slots -> States] /\ DOMAIN work = Slots /\ DOMAIN cur = Slots
  BY DEF SendRestart, FarmTypes, TypeInv, TypesOK, ServersOK
<1>2. SlotOK(t) /\ LinksTyped
  BY DEF FarmTypes, TalkInv
<1>3. \A s \in Slots \ {t} : LinkSame(s)
  BY <1>1, <1>2, QuietSent, OtherSent
<1>4. Only(t)
  BY <1>1, <1>3 DEF Only, ServerSame
<1>5. WorkerSame(t) /\ up'[t] = up[t]
  BY <1>2, Delivered DEF WorkerSame
<1>6. down'[t] = down[t] \/ (Alive(t) /\ down'[t] = down[t] \o <<Restart>>)
  <2>1. sent'[t] \in {<<>>, <<Restart>>}
    BY <1>1 DEF Quiet, Send, Nothing
  <2> QED
    BY <1>2, <2>1, Delivered
<1>7. ASSUME up'[t] = <<Version>> PROVE cur'[t] = NoFrame /\ work'[t] = NoWork
  <2>1. work[t] = NoWork /\ cur[t] = NoFrame
    BY <1>2, <1>5, <1>7, MsgFields DEF SlotOK, Answers
  <2> QED
    BY <1>1, <2>1
<1>8. SlotOK(t)'
  BY <1>1, <1>2, <1>5, <1>6, <1>7, Leave DEF Leaving
<1> QED
  BY <1>4, <1>8, OnlyOne

\* The passes of the dispatcher.
LEMMA PassTalk ==
  ASSUME FarmTypes, TalkInv, FarmPass
  PROVE  TalkInv'
<1>0. Deliver /\ LinksTyped /\ TypeInv
  BY DEF FarmPass, FarmTypes
<1>1. CASE \/ BeginSchedule \/ CheckSetup(FALSE) \/ PassConn \/ EndConn \/ FrameNotDone \/ EndFrames
           \/ TaskRefused \/ NextPass \/ NextFrame \/ EndAssign \/ EndInput \/ EndHosting
  <2>1. Quiet /\ UNCHANGED <<state, work, cur>>
    BY <1>1 DEF BeginSchedule, CheckSetup, PassConn, EndConn, FrameNotDone, EndFrames, TaskRefused,
                NextPass, NextFrame, EndAssign, EndInput, EndHosting, servers
  <2>2. \A s \in Slots : ServerSame(s) /\ LinkSame(s)
    BY <1>0, <2>1, QuietSent DEF ServerSame
  <2> QED
    BY <2>2, NoneMoved
<1>2. CASE FrameIsDone
  BY <1>0, <1>2, DoneTalk
<1>3. ASSUME NEW failed \in 0 .. 2, SendDirbuild(failed) \/ TaskGettrees(failed)
      PROVE  TalkInv'
  <2>1. PICK t \in Slots : t = at
    BY <1>0, <1>3 DEF SendDirbuild, TaskGettrees, Eligible, Tasking, TypeInv, TypesOK, LoopOK
  <2>2. CASE failed = 0
    BY <1>0, <1>3, <2>1, <2>2, DirbuildTalk, GettreesTalk
  <2>3. CASE failed # 0
    <3>1. failed \in 1 .. 2 /\ DropTimes(t, failed) /\ Quiet
      BY <1>3, <2>1, <2>3 DEF SendDirbuild, TaskGettrees
    <3>2. Hush(t)
      BY <1>0, <3>1, QuietHush
    <3> QED
      BY <3>1, <3>2, DropTalk
  <2> QED
    BY <2>2, <2>3
<1>4. ASSUME NEW lump \in 1 .. MaxLump, TaskAssign(lump) \/ TaskLinesFail(lump) \/ TaskMatrixFail(lump)
      PROVE  TalkInv'
  <2>1. PICK t \in Slots : t = at
    BY <1>0, <1>4 DEF TaskAssign, TaskLinesFail, TaskMatrixFail, CanAssign, Eligible, Tasking, TypeInv,
                      TypesOK, LoopOK
  <2> QED
    BY <1>0, <1>4, <2>1, AssignTalk, FailTalk
<1> QED
  BY <1>1, <1>2, <1>3, <1>4 DEF FarmPass

\* ph_version: the first message, from a slot that has nothing else.
LEMMA VersionTalk ==
  ASSUME FarmTypes, TalkInv, NEW t \in Slots, up[t] = <<Version>>, Hush(t), up'[t] = <<>>,
         \/ Become(t, "VERSOK")
         \/ UNCHANGED <<state, work, cur>>
  PROVE  TalkInv'
<1>1. /\ cur[t] = NoFrame /\ work[t] = NoWork /\ state[t] \in Leaving \cup {"NEW"}
      /\ LinksTyped /\ SlotOK(t) /\ DOMAIN state = Slots
  BY MsgFields DEF TalkInv, SlotOK, Answers, FarmTypes, TypeInv, TypesOK, ServersOK
<1>2. /\ UNCHANGED <<work, cur>>
      /\ state'[t] = "VERSOK" \/ state'[t] = state[t]
      /\ \A s \in Slots \ {t} : state'[s] = state[s]
  BY <1>1 DEF Become
<1>3. Only(t)
  BY <1>2 DEF Only, ServerSame, LinkSame, Hush
<1>4. Known(t)' /\ Answers(t)'
  BY <1>1, <1>2 DEF Known, Answers
<1>5. /\ WorkerSame(t) /\ down'[t] = down[t] /\ (Alive(t)' <=> Alive(t)) /\ Coming(t)' = Coming(t)
  BY DEF Hush, WorkerSame, Alive, Coming
<1>6. ~Alive(t) => Lost(t)'
  BY <1>1, <1>5 DEF SlotOK, Lost, WorkerSame
<1>7. ASSUME Alive(t) PROVE Talks(t)'
  <2>1. Started(t)
    <3>1. Talks(t)
      BY <1>1, <1>7 DEF SlotOK
    <3> QED
      BY <3>1, MsgFields DEF Talks, Started, Building, Built, Loaded, Loading, Rendering
  <2>2. Started(t)'
    BY <1>5, <2>1 DEF Started, Awaits, WorkerSame
  <2> QED
    BY <1>1, <1>2, <2>2 DEF Talks, Leaving
<1> QED
  BY <1>1, <1>3, <1>4, <1>5, <1>6, <1>7, OnlyOne DEF SlotOK

\* ph_dirbuild_reply, ph_gettrees_reply, ph_pixels: the answer to what was sent.
\* A handler that Becomes moves its slot on; stage facts are carried over.
LEMMA ReplyTalk ==
  ASSUME FarmTypes, TalkInv, NEW t \in Slots, up[t] # <<>>, Hush(t), up'[t] = <<>>,
         NEW st \in {"NEED_TREE", "READY"},
         state' = [state EXCEPT ![t] = st], UNCHANGED cur,
         work' = [work EXCEPT ![t] = NoWork],
         \/ state[t] = "DOING_DIRBUILD" /\ st = "NEED_TREE"
         \/ state[t] = "DOING_GETTREES" /\ st = "READY"
         \/ state[t] = "READY" /\ st = "READY"
  PROVE  TalkInv'
<1>1. LinksTyped /\ SlotOK(t) /\ DOMAIN state = Slots /\ DOMAIN work = Slots
  BY DEF TalkInv, FarmTypes, TypeInv, TypesOK, ServersOK
<1>2. /\ work'[t] = NoWork /\ cur'[t] = cur[t] /\ state'[t] = st
      /\ \A s \in Slots \ {t} : state'[s] = state[s] /\ work'[s] = work[s]
  BY <1>1
<1>3. Only(t)
  BY <1>2 DEF Only, ServerSame, LinkSame, Hush
<1>4. Known(t)' /\ Answers(t)'
  BY <1>1, <1>2 DEF Known, Answers, SlotOK
<1>5. /\ WorkerSame(t) /\ down'[t] = down[t] /\ (Alive(t)' <=> Alive(t)) /\ Coming(t)' = Coming(t)
  BY DEF Hush, WorkerSame, Alive, Coming
<1>6. ~Alive(t) => Lost(t)'
  BY <1>1, <1>5 DEF SlotOK, Lost, WorkerSame
<1>7. ASSUME Alive(t) PROVE Talks(t)'
  <2>0. Talks(t)
    BY <1>1, <1>7 DEF SlotOK
  <2>1. Clear(t)' <=> Clear(t)
    BY <1>5 DEF Clear
  <2>2. CASE state[t] = "DOING_DIRBUILD"
    <3>1. up[t] = <<DirbuildReply>>
      BY <1>1, <2>2 DEF SlotOK, Answers, Leaving
    <3>2. Clear(t) /\ Built(t)
      BY <2>0, <2>2, <3>1, MsgFields DEF Talks, Started, Building
    <3>3. Built(t)'
      BY <1>5, <3>2 DEF Built, Awaits
    <3> QED
      BY <1>2, <2>1, <2>2, <3>2, <3>3 DEF Talks
  <2>3. ASSUME NEW f \in FrameNums, Loaded(t)', Clear(t), cur[t] \in {NoFrame, f}, view[t] = f,
               st = "READY"
        PROVE  Talks(t)'
    <3>1. view'[t] = f
      BY <1>5, <2>3 DEF WorkerSame
    <3> QED
      BY <1>2, <2>1, <2>3, <3>1 DEF Talks
  <2>4. CASE state[t] = "DOING_GETTREES"
    <3>1. up[t] = <<GettreesReply>>
      BY <1>1, <2>4 DEF SlotOK, Answers, Leaving
    <3>2. PICK f \in FrameNums : Clear(t) /\ Loading(t, f) /\ cur[t] \in {NoFrame, f}
      BY <2>0, <2>4 DEF Talks
    <3>3. Awaits(t, <<>>) /\ view[t] = f /\ trees[t]
      BY <3>1, <3>2 DEF Loading
    <3>4. Loaded(t)'
      BY <1>5, <3>3 DEF Loaded, Awaits, WorkerSame, FrameNums, NoFrame
    <3> QED
      BY <2>3, <2>4, <3>2, <3>3, <3>4
  <2>5. CASE state[t] = "READY"
    <3>1. PICK x \in SpanSet : up[t] = <<PixelsMsg(x, x.frame)>> /\ work[t] = x
      BY <1>1, <2>5 DEF SlotOK, Answers, Leaving
    <3>2. x # NoWork /\ x.frame \in FrameNums
      BY DEF SpanSet, NoWork, Span, FrameNums, NoFrame
    <3>3. Clear(t) /\ Rendering(t, x) /\ cur[t] = x.frame
      BY <1>1, <2>0, <2>5, <3>1, <3>2 DEF Talks, Known, SlotOK
    <3>4. Awaits(t, <<>>) /\ view[t] = x.frame /\ trees[t]
      BY <3>1, <3>3 DEF Rendering
    <3>5. Loaded(t)'
      BY <1>5, <3>2, <3>4 DEF Loaded, Awaits, WorkerSame, FrameNums, NoFrame
    <3> QED
      BY <2>3, <2>5, <3>2, <3>3, <3>4, <3>5
  <2> QED
    BY <2>2, <2>4, <2>5
<1> QED
  BY <1>1, <1>3, <1>4, <1>5, <1>6, <1>7, OnlyOne DEF SlotOK

\* Setting a slot's work to what it is anyway.
LEMMA WorkSame ==
  ASSUME TypeInv, NEW t \in Slots, work[t] = NoWork
  PROVE  work = [work EXCEPT ![t] = NoWork] /\ state = [state EXCEPT ![t] = state[t]]
BY DEF TypeInv, TypesOK, ServersOK

LEMMA ReceiveTalk ==
  ASSUME FarmTypes, TalkInv, NEW t \in Slots, FarmReceive(t)
  PROVE  TalkInv'
<1>1. /\ LinksTyped /\ TypeInv /\ SlotOK(t) /\ up[t] # <<>> /\ Handle(t)
      /\ up' = [up EXCEPT ![t] = Tail(@)] /\ UNCHANGED <<worker, down, memory>>
  BY DEF FarmReceive, FarmTypes, TalkInv
<1>2. Hush(t)
  BY <1>1, ReceiveHush
<1>3. up[t] = <<Head(up[t])>> /\ up'[t] = <<>>
  BY <1>1, AnswerOne DEF LinksTyped
<1>4. CASE Head(up[t]) = Version /\ PhVersion(t)
  BY <1>2, <1>3, <1>4, VersionTalk DEF PhVersion
<1>5. CASE DropServer(t)
  BY <1>2, <1>5, DropTalk DEF DropServer
<1>6. CASE Head(up[t]) = DirbuildReply /\ PhDirbuildReply(t) /\ ~DropServer(t)
  <2>1. state[t] = "DOING_DIRBUILD" /\ Become(t, "NEED_TREE")
    BY <1>6 DEF PhDirbuildReply
  <2>2. work[t] = NoWork
    BY <1>1, <2>1 DEF SlotOK, Known
  <2>3. work' = [work EXCEPT ![t] = NoWork]
    BY <1>1, <2>1, <2>2, WorkSame DEF Become
  <2> QED
    BY <1>1, <1>2, <1>3, <2>1, <2>3, ReplyTalk DEF Become
<1>7. CASE Head(up[t]) = GettreesReply /\ PhGettreesReply(t) /\ ~DropServer(t)
  <2>1. state[t] = "DOING_GETTREES" /\ Become(t, "READY")
    BY <1>7 DEF PhGettreesReply
  <2>2. work[t] = NoWork
    BY <1>1, <2>1 DEF SlotOK, Known
  <2>3. work' = [work EXCEPT ![t] = NoWork]
    BY <1>1, <2>1, <2>2, WorkSame DEF Become
  <2> QED
    BY <1>1, <1>2, <1>3, <2>1, <2>3, ReplyTalk DEF Become
<1>8. ASSUME NEW x \in SpanSet, NEW f \in FrameNums, Head(up[t]) = PixelsMsg(x, f),
             PixelsIgnored(t) \/ PixelsStored(t, FALSE), ~DropServer(t)
      PROVE  TalkInv'
  <2>1. state[t] \in Leaving \cup {"READY"}
    BY <1>1, <1>3, <1>8, MsgFields DEF SlotOK, Answers
  <2>2. CASE PixelsIgnored(t)
    <3>1. state[t] \in Leaving /\ UNCHANGED <<state, work, cur>>
      BY <2>1, <2>2 DEF PixelsIgnored, Hears, servers
    <3>2. Only(t)
      BY <1>2, <3>1 DEF Only, ServerSame, LinkSame, Hush
    <3>3. WorkerSame(t) /\ down'[t] = down[t] /\ up'[t] # <<Version>>
      BY <1>2, <1>3 DEF Hush
    <3>4. SlotOK(t)'
      BY <1>1, <1>3, <3>1, <3>3, Leave
    <3> QED
      BY <3>2, <3>4, OnlyOne
  <2>3. CASE PixelsStored(t, FALSE)
    <3>1. /\ state[t] = "READY" /\ UNCHANGED <<state, cur>>
          /\ work' = [work EXCEPT ![t] = NoWork]
      BY <2>1, <2>3 DEF PixelsStored, Hears, Leaving
    <3>2. state' = [state EXCEPT ![t] = "READY"]
      BY <1>1, <3>1 DEF TypeInv, TypesOK, ServersOK
    <3> QED
      BY <1>1, <1>2, <1>3, <3>1, <3>2, ReplyTalk
  <2> QED
    BY <1>8, <2>2, <2>3
<1>9. ASSUME NEW x \in SpanSet, NEW f \in FrameNums, Head(up[t]) = PixelsMsg(x, f),
             \/ PixelsIgnored(t) \/ PixelsMismatch(t, x, FALSE)
             \/ (x = work[t] /\ PixelsStored(t, FALSE))
      PROVE  TalkInv'
  BY <1>5, <1>8, <1>9 DEF PixelsMismatch
<1> QED
  BY <1>1, <1>4, <1>5, <1>6, <1>7, <1>9, HandleCases

\* The network finds the connection of a worker closed.
LEMMA EofTalk ==
  ASSUME FarmTypes, TalkInv, NEW t \in Slots, FarmEof(t)
  PROVE  TalkInv'
BY StillHush, DropTalk DEF FarmEof, LoseServer, DropServer

\* A worker exits, or is restarted, at any point.
LEMMA VanishTalk ==
  ASSUME FarmTypes, TalkInv, NEW t \in Slots, Vanish(t), UNCHANGED <<state, work, cur, built, trees, view>>
  PROVE  TalkInv'
<1>1. LinksTyped /\ SlotOK(t)
  BY DEF FarmTypes, TalkInv
<1>2. /\ worker' = [worker EXCEPT ![t] = "gone"] /\ up' \in {up, [up EXCEPT ![t] = <<>>]}
      /\ down' = [down EXCEPT ![t] = <<>>] /\ queue' = [queue EXCEPT ![t] = <<>>]
  BY DEF Vanish
<1>3. Only(t)
  BY <1>1, <1>2 DEF Only, ServerSame, LinkSame, WorkerSame, LinksTyped
<1>4. /\ worker'[t] = "gone" /\ down'[t] = <<>> /\ queue'[t] = <<>>
      /\ up'[t] = up[t] \/ up'[t] = <<>>
  BY <1>1, <1>2 DEF LinksTyped
<1>5. Lost(t)' /\ ~Alive(t)'
  BY <1>4 DEF Lost, Alive
<1>6. Known(t)' /\ Answers(t)'
  BY <1>1, <1>4 DEF SlotOK, Known, Answers
<1> QED
  BY <1>3, <1>5, <1>6, OnlyOne DEF SlotOK

-----------------------------------------------------------------------------
(* What a worker reads and does next.                                      *)

LEMMA TailConcat ==
  ASSUME NEW q \in Seq(DownMsg), NEW r \in Seq(DownMsg), q # <<>>
  PROVE  Tail(q) \o r = Tail(q \o r) /\ Head(q \o r) = Head(q) /\ q \o r # <<>>
<1>1. Tail(q) \o r \in Seq(DownMsg) /\ Tail(q \o r) \in Seq(DownMsg)
  OBVIOUS
<1>2. Len(Tail(q) \o r) = Len(Tail(q \o r))
  OBVIOUS
<1>3. ASSUME NEW i \in 1 .. Len(Tail(q) \o r)
      PROVE  (Tail(q) \o r)[i] = Tail(q \o r)[i]
  OBVIOUS
<1>4. Head(q \o r) = Head(q) /\ q \o r # <<>>
  OBVIOUS
<1> QED
  BY <1>1, <1>2, <1>3, <1>4

\* The item at the head of WorkHead is the next message ahead.
LEMMA DoNext ==
  ASSUME LinksTyped, NEW s \in Slots, queue[s] # <<>>
  PROVE  /\ Head(queue[s]) \in QueueMsg
         /\ ~Awaits(s, <<>>) /\ ~Awaits(s, <<Dirbuild>>)
         /\ \A p \in Seq(DownMsg) : p # <<>> /\ Awaits(s, p) =>
              Head(queue[s]) = Head(p) /\ Ahead(Tail(queue[s]) \o down[s], Tail(p))
<1>1. queue[s] \in Seq(DownMsg) /\ down[s] \in Seq(DownMsg) /\ Coming(s) \in Seq(DownMsg)
      /\ queue[s] \in Seq(QueueMsg)
  BY ComingType
<1>2. Head(queue[s]) \in QueueMsg
  BY <1>1
<1>3. /\ Coming(s) # <<>> /\ Head(Coming(s)) = Head(queue[s])
      /\ Tail(queue[s]) \o down[s] = Tail(Coming(s))
  BY <1>1, TailConcat DEF Coming
<1>4. ASSUME Awaits(s, <<>>) PROVE FALSE
  BY <1>1, <1>2, <1>3, <1>4, AheadNone, MsgKinds DEF Awaits
<1>5. ASSUME NEW p \in Seq(DownMsg), p # <<>>, Awaits(s, p)
      PROVE  Head(queue[s]) = Head(p) /\ Ahead(Tail(queue[s]) \o down[s], Tail(p))
  BY <1>1, <1>3, <1>5, AheadTail DEF Awaits
<1>6. ASSUME Awaits(s, <<Dirbuild>>) PROVE FALSE
  <2>1. <<Dirbuild>> # <<>> /\ Head(<<Dirbuild>>) = Dirbuild
    OBVIOUS
  <2>2. Head(queue[s]) = Dirbuild
    BY <1>5, <1>6, <2>1, StageMsgs
  <2> QED
    BY <1>2, <2>2, MsgKinds
<1> QED
  BY <1>2, <1>4, <1>5, <1>6

\* A worker with work to do is loading or rendering.
LEMMA DoStage ==
  ASSUME LinksTyped, NEW s \in Slots, queue[s] # <<>>, SlotOK(s), Alive(s)
  PROVE  /\ ~Started(s) /\ ~Building(s) /\ ~Built(s) /\ ~Loaded(s)
         /\ state[s] \notin {"UNUSED", "NEW", "VERSOK", "DOING_DIRBUILD", "NEED_TREE"}
         /\ state[s] = "READY" => work[s] # NoWork
         /\ up[s] = <<>>
<1>1. ~Started(s) /\ ~Building(s) /\ ~Built(s) /\ ~Loaded(s)
  BY DoNext DEF Started, Building, Built, Loaded
<1>2. Talks(s)
  BY DEF SlotOK
<1>3. state[s] \notin {"UNUSED", "NEW", "VERSOK", "DOING_DIRBUILD", "NEED_TREE"}
  BY <1>1, <1>2 DEF Talks
<1>4. state[s] = "READY" => work[s] # NoWork
  BY <1>1, <1>2 DEF Talks
<1>5. up[s] = <<>>
  <2>1. \A f : Loading(s, f) => up[s] = <<>>
    BY DoNext DEF Loading
  <2>2. \A x : Rendering(s, x) => up[s] = <<>>
    BY DoNext DEF Rendering
  <2> QED
    BY <1>1, <1>2, <2>1, <2>2 DEF Talks
<1> QED
  BY <1>1, <1>3, <1>4, <1>5

\* The messages ahead of each stage, one by one.
LEMMA StageTails ==
  /\ \A a : Head(<<a>>) = a /\ Tail(<<a>>) = <<>> /\ <<a>> # <<>>
  /\ \A a, b : Head(<<a, b>>) = a /\ Tail(<<a, b>>) = <<b>> /\ <<a, b>> # <<>>
OBVIOUS

\* What a step of a worker's main loop leaves alone.
LEMMA DoFrame ==
  ASSUME LinksTyped, TypeInv, NEW t \in Slots, NEW type, Doing(t, type),
         UNCHANGED <<state, work, cur>>,
         \A s \in Slots \ {t} : up'[s] = up[s] /\ trees'[s] = trees[s] /\ view'[s] = view[s]
  PROVE  /\ Only(t) /\ queue[t] # <<>> /\ Head(queue[t]).type = type /\ Alive(t) /\ Alive(t)'
         /\ Coming(t)' = Tail(queue[t]) \o down[t]
         /\ Coming(t)' = Tail(Coming(t))
         /\ Clear(t) => Clear(t)'
<1>1. /\ queue' = [queue EXCEPT ![t] = Tail(@)] /\ UNCHANGED <<worker, down, built>>
      /\ queue[t] # <<>> /\ Head(queue[t]).type = type /\ worker[t] = "up"
  BY DEF Doing
<1>2. queue'[t] = Tail(queue[t]) /\ \A s \in Slots \ {t} : queue'[s] = queue[s]
  BY <1>1 DEF LinksTyped
<1>3. Only(t)
  BY <1>1, <1>2 DEF Only, ServerSame, LinkSame, WorkerSame
<1>4. Coming(t)' = Tail(queue[t]) \o down[t]
  BY <1>1, <1>2 DEF Coming
<1>5. Coming(t)' = Tail(Coming(t)) /\ Coming(t) # <<>> /\ Coming(t) \in Seq(DownMsg)
  BY <1>1, <1>4, ComingType, TailConcat DEF Coming
<1>6. Clear(t) => Clear(t)'
  <2> SUFFICES ASSUME \A i \in DOMAIN Coming(t) : Coming(t)[i] # Restart
               PROVE  \A i \in DOMAIN Tail(Coming(t)) : Tail(Coming(t))[i] # Restart
    BY <1>5 DEF Clear
  <2> QED
    BY <1>5
<1> QED
  BY <1>1, <1>3, <1>4, <1>5, <1>6 DEF Alive

\* Of the messages ahead, the next is read and the others wait.
LEMMA DoneNext ==
  ASSUME LinksTyped, NEW t \in Slots, queue[t] # <<>>, Coming(t)' = Tail(queue[t]) \o down[t]
  PROVE  /\ \A a \in DownMsg : Awaits(t, <<a>>) => Head(queue[t]) = a /\ Awaits(t, <<>>)'
         /\ \A a, b \in DownMsg :
              Awaits(t, <<a, b>>) => Head(queue[t]) = a /\ Awaits(t, <<b>>)'
<1>1. ASSUME NEW a \in DownMsg, Awaits(t, <<a>>)
      PROVE  Head(queue[t]) = a /\ Awaits(t, <<>>)'
  <2>1. <<a>> \in Seq(DownMsg)
    OBVIOUS
  <2>2. Head(queue[t]) = Head(<<a>>) /\ Ahead(Tail(queue[t]) \o down[t], Tail(<<a>>))
    BY <1>1, <2>1, DoNext, StageTails
  <2> QED
    BY <2>2, StageTails DEF Awaits
<1>2. ASSUME NEW a \in DownMsg, NEW b \in DownMsg, Awaits(t, <<a, b>>)
      PROVE  Head(queue[t]) = a /\ Awaits(t, <<b>>)'
  <2>1. <<a, b>> \in Seq(DownMsg)
    OBVIOUS
  <2>2. Head(queue[t]) = Head(<<a, b>>) /\ Ahead(Tail(queue[t]) \o down[t], Tail(<<a, b>>))
    BY <1>2, <2>1, DoNext, StageTails
  <2> QED
    BY <2>2, StageTails DEF Awaits
<1> QED
  BY <1>1, <1>2

LEMMA StageTypes ==
  /\ Gettrees \in DownMsg /\ \A f \in FrameNums : Matrix(f) \in DownMsg /\ f # NoFrame
  /\ \A x \in SpanSet : /\ Lines(x) \in DownMsg /\ Matrix(x.frame) \in DownMsg
                        /\ x.frame # NoFrame /\ x # NoWork
<1>1. \A x \in SpanSet : x.frame \in FrameNums /\ x # NoWork
  BY DEF SpanSet, FrameNums, NoWork, Span, NoFrame
<1> QED
  BY <1>1 DEF DownMsg, QueueMsg, FrameNums, NoFrame

\* A slot whose worker goes on loading or rendering the same thing.
LEMMA GoesOn ==
  ASSUME NEW t \in Slots, SlotOK(t), Alive(t), Alive(t)', UNCHANGED <<state, work, cur>>,
         ~Started(t), ~Building(t), ~Built(t), ~Loaded(t),
         state[t] \notin {"UNUSED", "NEW", "VERSOK", "DOING_DIRBUILD", "NEED_TREE"},
         state[t] = "READY" => work[t] \in SpanSet,
         Clear(t) => Clear(t)', Answers(t)',
         \A f \in FrameNums : Loading(t, f) => Loading(t, f)',
         \A x \in SpanSet : Rendering(t, x) => Rendering(t, x)'
  PROVE  SlotOK(t)'
<1>1. Known(t)'
  BY DEF SlotOK, Known
<1>2. Talks(t)
  BY DEF SlotOK
<1>3. \/ \E f \in FrameNums : Loading(t, f)'
      \/ \E x \in SpanSet : Rendering(t, x)'
  BY <1>2 DEF Talks
<1>4. work[t] \in SpanSet => work[t] # NoWork
  BY StageTypes
<1>5. state[t] = "READY" => Clear(t)' /\ Rendering(t, work[t]) /\ work[t] \in SpanSet
  BY <1>2, <1>4 DEF Talks
<1>6. state[t] = "READY" => \E x \in SpanSet : work[t] = x /\ Rendering(t, x)'
  BY <1>5
<1>7. PICK w : w = work[t]
  OBVIOUS
<1>8. state[t] = "READY" => Rendering(t, w)' /\ w # NoWork /\ work'[t] = w
  BY <1>4, <1>5, <1>7
<1>9. state[t] = "DOING_GETTREES" =>
        Clear(t)' /\ \E f \in FrameNums : Loading(t, f)' /\ cur'[t] \in {NoFrame, f}
  BY <1>2 DEF Talks
<1>10. Talks(t)'
  BY <1>3, <1>5, <1>8, <1>9 DEF Talks
<1> QED
  BY <1>1, <1>10 DEF SlotOK

\* ph_matrix
LEMMA MatrixTalk ==
  ASSUME FarmTypes, TalkInv, NEW t \in Slots, DoMatrix(t), UNCHANGED <<state, work, cur>>
  PROVE  TalkInv'
<1>1. /\ Doing(t, "MATRIX") /\ UNCHANGED <<up, trees>> /\ LinksTyped /\ TypeInv /\ SlotOK(t)
      /\ view' = [view EXCEPT ![t] = Head(queue[t]).frame]
  BY DEF DoMatrix, FarmTypes, TalkInv
<1>2. view'[t] = Head(queue[t]).frame /\ \A s \in Slots \ {t} : view'[s] = view[s]
  BY <1>1 DEF LinksTyped
<1>3. /\ Only(t) /\ queue[t] # <<>> /\ Head(queue[t]).type = "MATRIX" /\ Alive(t) /\ Alive(t)'
      /\ Coming(t)' = Tail(queue[t]) \o down[t] /\ (Clear(t) => Clear(t)')
  BY <1>1, <1>2, DoFrame
<1>4. /\ ~Started(t) /\ ~Building(t) /\ ~Built(t) /\ ~Loaded(t) /\ ~Awaits(t, <<>>)
      /\ state[t] \notin {"UNUSED", "NEW", "VERSOK", "DOING_DIRBUILD", "NEED_TREE"}
      /\ state[t] = "READY" => work[t] # NoWork
  BY <1>1, <1>3, DoStage, DoNext
<1>5. Answers(t)'
  BY <1>1 DEF SlotOK, Answers
<1>6. ASSUME NEW f \in FrameNums, Loading(t, f) PROVE Loading(t, f)'
  <2>1. CASE up[t] = <<>> /\ Awaits(t, <<Matrix(f), Gettrees>>)
    <3>1. Head(queue[t]) = Matrix(f) /\ Awaits(t, <<Gettrees>>)'
      BY <1>1, <1>3, <2>1, DoneNext, StageTypes
    <3>2. view'[t] = f
      BY <1>2, <3>1, MsgFields
    <3> QED
      BY <1>1, <2>1, <3>1, <3>2 DEF Loading
  <2>2. CASE Awaits(t, <<Gettrees>>)
    BY <1>1, <1>3, <2>2, DoneNext, StageTypes, MsgFields
  <2> QED
    BY <1>4, <1>6, <2>1, <2>2 DEF Loading
<1>7. ASSUME NEW x \in SpanSet, Rendering(t, x) PROVE Rendering(t, x)'
  <2>1. CASE up[t] = <<>> /\ Awaits(t, <<Matrix(x.frame), Lines(x)>>)
    <3>1. Head(queue[t]) = Matrix(x.frame) /\ Awaits(t, <<Lines(x)>>)'
      BY <1>1, <1>3, <2>1, DoneNext, StageTypes
    <3>2. view'[t] = x.frame
      BY <1>2, <3>1, MsgFields
    <3> QED
      BY <1>1, <1>7, <2>1, <3>1, <3>2 DEF Rendering
  <2>2. CASE Awaits(t, <<Lines(x)>>)
    BY <1>1, <1>3, <2>2, DoneNext, StageTypes, MsgFields
  <2> QED
    BY <1>4, <1>7, <2>1, <2>2 DEF Rendering
<1>8. state[t] = "READY" => work[t] \in SpanSet
  BY <1>1, <1>4 DEF TypeInv, TypesOK, ServersOK
<1>9. SlotOK(t)'
  BY <1>1, <1>3, <1>4, <1>5, <1>6, <1>7, <1>8, GoesOn
<1> QED
  BY <1>3, <1>9, OnlyOne

\* ph_gettrees
LEMMA TreesTalk ==
  ASSUME FarmTypes, TalkInv, NEW t \in Slots, DoGettrees(t), UNCHANGED <<state, work, cur>>
  PROVE  TalkInv'
<1>1. /\ Doing(t, "GETTREES") /\ UNCHANGED view /\ LinksTyped /\ TypeInv /\ SlotOK(t)
      /\ trees' = [trees EXCEPT ![t] = TRUE] /\ up' = [up EXCEPT ![t] = Append(@, GettreesReply)]
  BY DEF DoGettrees, FarmTypes, TalkInv
<1>2. /\ trees'[t] = TRUE
      /\ up'[t] = Append(up[t], GettreesReply)
      /\ \A s \in Slots \ {t} : trees'[s] = trees[s] /\ up'[s] = up[s]
  BY <1>1 DEF LinksTyped
<1>3. /\ Only(t) /\ queue[t] # <<>> /\ Head(queue[t]).type = "GETTREES" /\ Alive(t) /\ Alive(t)'
      /\ Coming(t)' = Tail(queue[t]) \o down[t] /\ (Clear(t) => Clear(t)')
  BY <1>1, <1>2, DoFrame
<1>4. /\ ~Started(t) /\ ~Building(t) /\ ~Built(t) /\ ~Loaded(t) /\ ~Awaits(t, <<>>)
      /\ state[t] \notin {"UNUSED", "NEW", "VERSOK", "DOING_DIRBUILD", "NEED_TREE"}
      /\ state[t] = "READY" => work[t] # NoWork
      /\ up[t] = <<>>
  BY <1>1, <1>3, DoStage, DoNext
<1>5. up'[t] = <<GettreesReply>>
  BY <1>2, <1>4
<1>6. ASSUME NEW x \in SpanSet, Rendering(t, x) PROVE FALSE
  BY <1>1, <1>3, <1>4, <1>6, DoneNext, StageTypes, MsgFields DEF Rendering
<1>7. ASSUME NEW f \in FrameNums, Loading(t, f) PROVE Loading(t, f)'
  <2>1. CASE Awaits(t, <<Matrix(f), Gettrees>>)
    BY <1>1, <1>3, <2>1, DoneNext, StageTypes, MsgFields
  <2>2. CASE Awaits(t, <<Gettrees>>) /\ view[t] = f
    <3>1. Awaits(t, <<>>)'
      BY <1>1, <1>3, <2>2, DoneNext, StageTypes
    <3> QED
      BY <1>1, <1>2, <1>5, <2>2, <3>1 DEF Loading
  <2> QED
    BY <1>4, <1>7, <2>1, <2>2 DEF Loading
<1>8. state[t] # "READY"
  <2>1. state[t] = "READY" => work[t] \in SpanSet /\ Rendering(t, work[t])
    BY <1>1, <1>3, <1>4 DEF SlotOK, Talks, TypeInv, TypesOK, ServersOK
  <2> QED
    BY <1>6, <2>1
<1>9. Answers(t)'
  <2>1. state[t] \in Leaving \cup {"DOING_GETTREES"}
    BY <1>1, <1>4, <1>8 DEF Leaving, TypeInv, TypesOK, ServersOK, States
  <2> QED
    BY <1>5, <2>1 DEF Answers
<1>10. SlotOK(t)'
  BY <1>1, <1>3, <1>4, <1>6, <1>7, <1>8, <1>9, GoesOn
<1> QED
  BY <1>3, <1>10, OnlyOne

\* ph_lines
LEMMA LinesTalk ==
  ASSUME FarmTypes, TalkInv, NEW t \in Slots, DoLines(t), UNCHANGED <<state, work, cur>>
  PROVE  TalkInv'
<1>1. /\ Doing(t, "LINES") /\ UNCHANGED <<trees, view>> /\ LinksTyped /\ TypeInv /\ SlotOK(t)
      /\ up' = IF trees[t] /\ view[t] # NoFrame
                 THEN [up EXCEPT ![t] = Append(@, PixelsMsg(Head(queue[t]).span, view[t]))]
                 ELSE up
  BY DEF DoLines, FarmTypes, TalkInv
<1>2. /\ \A s \in Slots \ {t} : up'[s] = up[s]
      /\ trees[t] /\ view[t] # NoFrame =>
           up'[t] = Append(up[t], PixelsMsg(Head(queue[t]).span, view[t]))
  BY <1>1 DEF LinksTyped
<1>3. /\ Only(t) /\ queue[t] # <<>> /\ Head(queue[t]).type = "LINES" /\ Alive(t) /\ Alive(t)'
      /\ Coming(t)' = Tail(queue[t]) \o down[t] /\ (Clear(t) => Clear(t)')
  BY <1>1, <1>2, DoFrame
<1>4. /\ ~Started(t) /\ ~Building(t) /\ ~Built(t) /\ ~Loaded(t) /\ ~Awaits(t, <<>>)
      /\ state[t] \notin {"UNUSED", "NEW", "VERSOK", "DOING_DIRBUILD", "NEED_TREE"}
      /\ state[t] = "READY" => work[t] # NoWork
      /\ up[t] = <<>>
  BY <1>1, <1>3, DoStage, DoNext
<1>5. ASSUME NEW f \in FrameNums, Loading(t, f) PROVE FALSE
  BY <1>1, <1>3, <1>4, <1>5, DoneNext, StageTypes, MsgFields DEF Loading
<1>6. ASSUME NEW x \in SpanSet, Rendering(t, x)
      PROVE  /\ Head(queue[t]) = Lines(x) /\ Rendering(t, x)' /\ up'[t] = <<PixelsMsg(x, x.frame)>>
  <2>1. Awaits(t, <<Lines(x)>>) /\ view[t] = x.frame /\ trees[t]
    <3>1. ~Awaits(t, <<Matrix(x.frame), Lines(x)>>)
      BY <1>1, <1>3, DoneNext, StageTypes, MsgFields
    <3> QED
      BY <1>4, <1>6, <3>1 DEF Rendering
  <2>2. Head(queue[t]) = Lines(x) /\ Awaits(t, <<>>)'
    BY <1>1, <1>3, <2>1, DoneNext, StageTypes
  <2>3. up'[t] = <<PixelsMsg(x, x.frame)>>
    BY <1>2, <1>4, <2>1, <2>2, StageTypes, MsgFields
  <2> QED
    BY <1>1, <2>1, <2>2, <2>3 DEF Rendering
<1>7. PICK w : w = work[t]
  OBVIOUS
<1>8. state[t] = "READY" => w \in SpanSet /\ Rendering(t, w)
  BY <1>1, <1>3, <1>4, <1>7 DEF SlotOK, Talks, TypeInv, TypesOK, ServersOK
<1>9. state[t] \in Leaving \cup {"DOING_GETTREES", "READY"}
  BY <1>1, <1>4 DEF Leaving, TypeInv, TypesOK, ServersOK, States
<1>10. state[t] # "DOING_GETTREES"
  BY <1>1, <1>3, <1>5 DEF SlotOK, Talks
<1>11. PICK x \in SpanSet : Rendering(t, x) /\ (state[t] = "READY" => x = w)
  <2>1. \E x \in SpanSet : Rendering(t, x)
    BY <1>1, <1>3, <1>4, <1>5 DEF SlotOK, Talks
  <2> QED
    BY <1>8, <2>1
<1>12. Answers(t)'
  <2>1. up'[t] = <<PixelsMsg(x, x.frame)>>
    BY <1>6, <1>11
  <2> QED
    BY <1>7, <1>9, <1>10, <1>11, <2>1 DEF Answers
<1>13. state[t] = "READY" => work[t] \in SpanSet
  BY <1>7, <1>8
<1>14. SlotOK(t)'
  BY <1>1, <1>3, <1>4, <1>5, <1>6, <1>12, <1>13, GoesOn
<1> QED
  BY <1>3, <1>14, OnlyOne

\* The next message on the connection, behind what waits on WorkHead.
LEMMA ReadNext ==
  ASSUME LinksTyped, NEW s \in Slots, NEW p \in Seq(DownMsg), Awaits(s, p), down[s] # <<>>,
         Head(down[s]) # Restart
  PROVE  Len(queue[s]) < Len(p) /\ Head(down[s]) = p[Len(queue[s]) + 1]
<1> DEFINE n == Len(queue[s])
<1>1. queue[s] \in Seq(DownMsg) /\ down[s] \in Seq(DownMsg) /\ queue[s] \in Seq(QueueMsg)
  BY ComingType
<1>2. n \in Nat /\ \A i \in 1 .. n : queue[s][i] # Restart
  BY <1>1, MsgKinds
<1>3. /\ Len(Coming(s)) > n /\ Coming(s)[n + 1] = Head(down[s])
      /\ \A i \in 1 .. n : Coming(s)[i] = queue[s][i]
  BY <1>1, ConcatAt DEF Coming
<1>4. /\ Len(p) \in Nat /\ \A i \in 1 .. Len(p) : Coming(s)[i] = p[i]
      /\ Len(Coming(s)) > Len(p) => Coming(s)[Len(p) + 1] = Restart
  BY DEF Awaits, Ahead
<1> HIDE DEF n
<1>5. CASE n < Len(p)
  BY <1>2, <1>3, <1>4, <1>5 DEF n
<1>6. CASE n = Len(p)
  BY <1>3, <1>4, <1>6
<1>7. CASE n > Len(p)
  <2>1. Len(p) + 1 \in 1 .. n /\ Len(Coming(s)) > Len(p)
    <3>1. Len(Coming(s)) \in Nat
      BY ComingType
    <3> QED
      BY <1>2, <1>3, <1>4, <1>7, <3>1
  <2> QED
    BY <1>2, <1>3, <1>4, <2>1
<1> QED
  BY <1>2, <1>4, <1>5, <1>6, <1>7

\* ph_dirbuild
LEMMA DirbuildReadTalk ==
  ASSUME FarmTypes, TalkInv, NEW t \in Slots, ReadDirbuild(t), UNCHANGED <<state, work, cur>>
  PROVE  TalkInv'
<1>1. /\ worker[t] = "up" /\ down[t] # <<>> /\ Head(down[t]) = Dirbuild
      /\ down' = [down EXCEPT ![t] = Tail(@)] /\ built' = [built EXCEPT ![t] = TRUE]
      /\ up' = IF built[t] THEN up ELSE [up EXCEPT ![t] = Append(@, DirbuildReply)]
      /\ UNCHANGED <<worker, queue, trees, view>>
      /\ LinksTyped /\ TypeInv /\ SlotOK(t)
  BY DEF ReadDirbuild, FarmTypes, TalkInv
<1>2. /\ down'[t] = Tail(down[t]) /\ built'[t] = TRUE
      /\ ~built[t] => up'[t] = Append(up[t], DirbuildReply)
      /\ \A s \in Slots \ {t} : down'[s] = down[s] /\ built'[s] = built[s] /\ up'[s] = up[s]
  BY <1>1 DEF LinksTyped
<1>3. Only(t)
  BY <1>1, <1>2 DEF Only, ServerSame, LinkSame, WorkerSame
<1>4. Alive(t) /\ Alive(t)' /\ Talks(t)
  BY <1>1 DEF Alive, SlotOK
<1>5. ASSUME NEW p \in Seq(DownMsg), Awaits(t, p)
      PROVE  Len(queue[t]) < Len(p) /\ Dirbuild = p[Len(queue[t]) + 1]
  BY <1>1, <1>5, ReadNext, MsgKinds
<1>6. Len(queue[t]) \in Nat /\ Len(<<>>) = 0
  BY <1>1, ComingType
<1>7. ~Awaits(t, <<>>)
  <2>1. Awaits(t, <<>>) => Len(queue[t]) < Len(<<>>)
    BY <1>5, StageMsgs, Zenon
  <2> QED
    BY <1>6, <2>1
<1>8. \A a \in DownMsg : a # Dirbuild => ~Awaits(t, <<a>>)
  <2> SUFFICES ASSUME NEW a \in DownMsg, Awaits(t, <<a>>) PROVE a = Dirbuild
    OBVIOUS
  <2>1. <<a>> \in Seq(DownMsg) /\ Len(<<a>>) = 1 /\ <<a>>[1] = a
    OBVIOUS
  <2>2. Len(queue[t]) < Len(<<a>>) /\ Dirbuild = <<a>>[Len(queue[t]) + 1]
    BY <1>5, <2>1, Zenon
  <2>3. Len(queue[t]) = 0
    BY <1>6, <2>1, <2>2
  <2> QED
    BY <2>1, <2>2, <2>3
<1>9. \A a, b \in DownMsg : a # Dirbuild /\ b # Dirbuild => ~Awaits(t, <<a, b>>)
  <2> SUFFICES ASSUME NEW a \in DownMsg, NEW b \in DownMsg, Awaits(t, <<a, b>>)
               PROVE  a = Dirbuild \/ b = Dirbuild
    OBVIOUS
  <2>1. <<a, b>> \in Seq(DownMsg) /\ Len(<<a, b>>) = 2 /\ <<a, b>>[1] = a /\ <<a, b>>[2] = b
    OBVIOUS
  <2>2. Len(queue[t]) < Len(<<a, b>>) /\ Dirbuild = <<a, b>>[Len(queue[t]) + 1]
    BY <1>5, <2>1, Zenon
  <2>3. Len(queue[t]) \in {0, 1}
    <3>1. Len(queue[t]) < 2
      BY <2>1, <2>2
    <3>2. \A n \in Nat : n < 2 => n \in {0, 1}
      OBVIOUS
    <3> QED
      BY <1>6, <3>1, <3>2, Zenon
  <2> QED
    BY <2>1, <2>2, <2>3
<1>10. \A f \in FrameNums : ~Loading(t, f)
  BY <1>7, <1>8, <1>9, StageTypes, MsgKinds DEF Loading
<1>11. \A x \in SpanSet : ~Rendering(t, x)
  BY <1>7, <1>8, <1>9, StageTypes, MsgKinds DEF Rendering
<1>12. ~Started(t) /\ ~Built(t) /\ ~Loaded(t) /\ Building(t)
  BY <1>4, <1>7, <1>10, <1>11 DEF Started, Built, Loaded, Talks
<1>13. queue[t] = <<>> /\ up'[t] = <<DirbuildReply>>
  <2>1. Len(<<Dirbuild>>) = 1
    OBVIOUS
  <2>2. Len(queue[t]) < Len(<<Dirbuild>>)
    BY <1>5, <1>12, StageMsgs, Zenon DEF Building
  <2>3. Len(queue[t]) = 0
    BY <1>6, <2>1, <2>2
  <2>4. up'[t] = Append(<<>>, DirbuildReply)
    BY <1>2, <1>12 DEF Building
  <2> QED
    BY <1>1, <2>3, <2>4, ComingType
<1>14. /\ Coming(t) = down[t] /\ Coming(t)' = Tail(down[t]) /\ down[t] \in Seq(DownMsg)
  <2>1. down[t] \in Seq(DownMsg) /\ Tail(down[t]) \in Seq(DownMsg)
    BY <1>1, ComingType
  <2>2. Coming(t)' = <<>> \o Tail(down[t])
    BY <1>1, <1>2, <1>13 DEF Coming
  <2> QED
    BY <1>13, <2>1, <2>2 DEF Coming
<1>15. Clear(t) => Clear(t)'
  <2> SUFFICES ASSUME \A i \in DOMAIN down[t] : down[t][i] # Restart
               PROVE  \A i \in DOMAIN Tail(down[t]) : Tail(down[t])[i] # Restart
    BY <1>14 DEF Clear
  <2> QED
    BY <1>1, <1>14
<1>16. Built(t)'
  <2>1. Ahead(Tail(down[t]), Tail(<<Dirbuild>>))
    BY <1>12, <1>14, AheadTail, StageMsgs, StageTails DEF Building, Awaits
  <2> QED
    BY <1>13, <1>14, <2>1, StageTails DEF Built, Awaits
<1>17. state[t] \notin {"UNUSED", "NEW", "VERSOK", "NEED_TREE", "READY", "DOING_GETTREES"}
  <2>1. state[t] = "READY" /\ work[t] # NoWork => work[t] \in SpanSet
    BY <1>1 DEF TypeInv, TypesOK, ServersOK
  <2> QED
    BY <1>4, <1>10, <1>11, <1>12, <2>1 DEF Talks
<1>18. Known(t)' /\ Answers(t)'
  <2>1. state[t] \in Leaving \cup {"DOING_DIRBUILD"}
    BY <1>1, <1>17 DEF Leaving, TypeInv, TypesOK, ServersOK, States
  <2> QED
    BY <1>1, <1>13, <2>1 DEF SlotOK, Known, Answers
<1>19. Talks(t)'
  BY <1>4, <1>12, <1>13, <1>15, <1>16, <1>17 DEF Talks
<1> QED
  BY <1>3, <1>4, <1>18, <1>19, OnlyOne DEF SlotOK

\* ph_enqueue: what is read of the connection waits on WorkHead.
LEMMA EnqueueTalk ==
  ASSUME FarmTypes, TalkInv, NEW t \in Slots, Enqueue(t), UNCHANGED <<state, work, cur>>
  PROVE  TalkInv'
<1>1. /\ worker[t] = "up" /\ down[t] # <<>>
      /\ down' = [down EXCEPT ![t] = Tail(@)] /\ queue' = [queue EXCEPT ![t] = Append(@, Head(down[t]))]
      /\ UNCHANGED <<worker, up, built, trees, view>>
      /\ LinksTyped /\ SlotOK(t)
  BY DEF Enqueue, FarmTypes, TalkInv
<1>2. /\ down'[t] = Tail(down[t]) /\ queue'[t] = Append(queue[t], Head(down[t]))
      /\ \A s \in Slots \ {t} : down'[s] = down[s] /\ queue'[s] = queue[s]
  BY <1>1 DEF LinksTyped
<1>3. Only(t)
  BY <1>1, <1>2 DEF Only, ServerSame, LinkSame, WorkerSame
<1>4. Coming(t)' = Coming(t)
  <2>1. queue[t] \in Seq(DownMsg) /\ down[t] \in Seq(DownMsg)
    BY <1>1, ComingType
  <2>2. Append(queue[t], Head(down[t])) \o Tail(down[t]) = queue[t] \o down[t]
    BY <1>1, <2>1, AppendTail
  <2> QED
    BY <1>2, <2>2 DEF Coming
<1>5. (Alive(t)' <=> Alive(t)) /\ (Clear(t)' <=> Clear(t)) /\ Alive(t)
  BY <1>1, <1>4 DEF Alive, Clear
<1>6. \A p : Awaits(t, p)' <=> Awaits(t, p)
  BY <1>4 DEF Awaits
<1>7. /\ Started(t)' <=> Started(t)
      /\ Building(t)' <=> Building(t)
      /\ Built(t)' <=> Built(t)
      /\ Loaded(t)' <=> Loaded(t)
      /\ \A f : Loading(t, f)' <=> Loading(t, f)
      /\ \A x : Rendering(t, x)' <=> Rendering(t, x)
  BY <1>1, <1>6 DEF Started, Building, Built, Loaded, Loading, Rendering
<1>8. (Talks(t)' <=> Talks(t)) /\ (Known(t)' <=> Known(t)) /\ (Answers(t)' <=> Answers(t))
  BY <1>1, <1>5, <1>7 DEF Talks, Known, Answers
<1>9. SlotOK(t)'
  BY <1>1, <1>5, <1>8 DEF SlotOK
<1> QED
  BY <1>3, <1>9, OnlyOne

\* What a new connection, or a closed one, starts with.
LEMMA ResetLink ==
  ASSUME LinksTyped, NEW t \in Slots, NEW w, NEW msgs, Reset(t, w, msgs)
  PROVE  /\ worker'[t] = w /\ down'[t] = <<>> /\ up'[t] = msgs /\ queue'[t] = <<>>
         /\ built'[t] = FALSE
         /\ \A s \in Slots \ {t} : LinkSame(s)
BY DEF LinksTyped, Reset, LinkSame, WorkerSame

LEMMA ConnectTalk ==
  ASSUME FarmTypes, TalkInv, FarmConnect
  PROVE  TalkInv'
<1>1. PICK t \in FreeSlot : StartWorker(t)
  BY DEF FarmConnect
<1>2. t \in Slots /\ FreeSlot = {t}
  BY <1>1, FreeSlotOne
<1>3. PICK kind : AddClient(t, kind)
  BY <1>2 DEF FarmConnect, StartLocal, AcceptTcp
<1>4. /\ state' = [state EXCEPT ![t] = "NEW"] /\ work' = [work EXCEPT ![t] = NoWork]
      /\ cur' = [cur EXCEPT ![t] = NoFrame]
      /\ DOMAIN state = Slots /\ DOMAIN work = Slots /\ DOMAIN cur = Slots /\ LinksTyped
  BY <1>3 DEF AddClient, FarmTypes, TypeInv, TypesOK, ServersOK
<1>5. /\ worker'[t] = "up" /\ down'[t] = <<>> /\ up'[t] = <<Version>> /\ queue'[t] = <<>>
      /\ ~built'[t] /\ \A s \in Slots \ {t} : LinkSame(s)
  <2>1. Reset(t, "up", <<Version>>)
    BY <1>1 DEF StartWorker
  <2> QED
    BY <1>2, <1>4, <2>1, ResetLink
<1>6. Only(t)
  BY <1>4, <1>5 DEF Only, ServerSame
<1>7. Coming(t)' = <<>>
  BY <1>5 DEF Coming
<1>8. Started(t)'
  <2>1. Ahead(<<>>, <<>>)
    BY AheadSelf, StageMsgs
  <2> QED
    BY <1>5, <1>7, <2>1 DEF Started, Awaits
<1>9. state'[t] = "NEW" /\ work'[t] = NoWork /\ cur'[t] = NoFrame
  BY <1>2, <1>4
<1>10. Talks(t)'
  BY <1>8, <1>9 DEF Talks
<1>11. Known(t)' /\ Answers(t)' /\ Alive(t)'
  BY <1>5, <1>9 DEF Known, Answers, Alive
<1> QED
  BY <1>2, <1>6, <1>10, <1>11, OnlyOne DEF SlotOK

LEMMA CloseTalk ==
  ASSUME FarmTypes, TalkInv, FarmClose
  PROVE  TalkInv'
<1>1. PICK t \in Slots : t = at
  BY DEF FarmClose, FinalClose, FarmTypes, TypeInv, TypesOK, LoopOK
<1>2. /\ state' = [state EXCEPT ![t] = "UNUSED"] /\ UNCHANGED <<work, cur>>
      /\ Reset(t, "none", <<>>) /\ DOMAIN state = Slots /\ LinksTyped
  BY <1>1 DEF FarmClose, FinalClose, CloseLink, FarmTypes, TypeInv, TypesOK, ServersOK
<1>3. /\ worker'[t] = "none" /\ down'[t] = <<>> /\ up'[t] = <<>> /\ queue'[t] = <<>>
      /\ \A s \in Slots \ {t} : LinkSame(s)
  BY <1>2, ResetLink
<1>4. Only(t)
  BY <1>2, <1>3 DEF Only, ServerSame
<1>5. state'[t] = "UNUSED"
  BY <1>2
<1>6. Known(t)' /\ Answers(t)' /\ ~Alive(t)' /\ Lost(t)'
  BY <1>3, <1>5 DEF Known, Answers, Alive, Lost
<1> QED
  BY <1>4, <1>6, OnlyOne DEF SlotOK

\* A hung worker has read and done what it has.
LEMMA HangTalk ==
  ASSUME FarmTypes, TalkInv, NEW t \in Slots, WorkerHang(t), UNCHANGED <<state, work, cur>>
  PROVE  TalkInv'
<1>1. /\ worker[t] = "up" /\ worker' = [worker EXCEPT ![t] = "hung"] /\ UNCHANGED <<link, memory>>
      /\ LinksTyped /\ SlotOK(t)
  BY DEF WorkerHang, FarmTypes, TalkInv
<1>2. worker'[t] = "hung" /\ \A s \in Slots \ {t} : worker'[s] = worker[s]
  BY <1>1 DEF LinksTyped
<1>3. Only(t)
  BY <1>1, <1>2 DEF Only, ServerSame, LinkSame, WorkerSame, link, memory
<1>4. Alive(t) /\ Alive(t)' /\ Coming(t)' = Coming(t) /\ (Clear(t)' <=> Clear(t))
  BY <1>1, <1>2 DEF Alive, Coming, Clear, link, memory
<1>5. \A p : Awaits(t, p)' <=> Awaits(t, p)
  BY <1>4 DEF Awaits
<1>6. /\ Started(t)' <=> Started(t)
      /\ Building(t)' <=> Building(t)
      /\ Built(t)' <=> Built(t)
      /\ Loaded(t)' <=> Loaded(t)
      /\ \A f : Loading(t, f)' <=> Loading(t, f)
      /\ \A x : Rendering(t, x)' <=> Rendering(t, x)
  BY <1>1, <1>5 DEF Started, Building, Built, Loaded, Loading, Rendering, link, memory
<1>7. (Talks(t)' <=> Talks(t)) /\ (Known(t)' <=> Known(t)) /\ (Answers(t)' <=> Answers(t))
  BY <1>1, <1>4, <1>6 DEF Talks, Known, Answers, link, memory
<1>8. SlotOK(t)'
  BY <1>1, <1>4, <1>7 DEF SlotOK
<1> QED
  BY <1>3, <1>8, OnlyOne

\* A timeout, due or early, drops the server.
LEMMA TimeoutTalk ==
  ASSUME FarmTypes, TalkInv, DueTimeout \/ EarlyTimeout
  PROVE  TalkInv'
<1>1. PICK t \in Slots : t = at
  BY DEF DueTimeout, EarlyTimeout, FarmTypes, TypeInv, TypesOK, LoopOK
<1>2. DropTimes(t, 1) /\ Quiet
  BY <1>1 DEF DueTimeout, EarlyTimeout, Timeout, TaskTardy, CheckSetup, DropServer
<1>3. Deliver \/ UNCHANGED workerVars
  BY DEF DueTimeout, EarlyTimeout
<1>4. Hush(t)
  BY <1>2, <1>3, QuietHush, StillHush DEF FarmTypes
<1> QED
  BY <1>2, <1>4, DropTalk

\* A client has the servers restarted.
LEMMA RestartsTalk ==
  ASSUME FarmTypes, TalkInv, FarmRestart
  PROVE  TalkInv'
<1>1. ASSUME NEW s \in Slots, up[s] = <<Version>>, CmdRestart(s), up' = [up EXCEPT ![s] = <<>>],
             UNCHANGED <<worker, down, memory>>
      PROVE  TalkInv'
  <2>1. up[s] # <<>> /\ Tail(up[s]) = <<>> /\ up' = [up EXCEPT ![s] = Tail(@)]
    BY <1>1
  <2>2. Hush(s) /\ up'[s] = <<>>
    BY <1>1, <2>1, ReceiveHush DEF FarmTypes, LinksTyped
  <2>3. UNCHANGED <<state, work, cur>>
    BY <1>1 DEF CmdRestart, PhCmd
  <2> QED
    BY <1>1, <2>2, <2>3, VersionTalk
<1>2. ASSUME NEW ok \in BOOLEAN, SendRestart(ok), Deliver PROVE TalkInv'
  <2>1. PICK t \in Slots : t = at
    BY <1>2 DEF SendRestart, FarmTypes, TypeInv, TypesOK, LoopOK
  <2> QED
    BY <1>2, <2>1, RestartTalk
<1>3. CASE EndRestart /\ Deliver
  <2>1. Quiet /\ UNCHANGED <<state, work, cur>>
    BY <1>3 DEF EndRestart, servers
  <2>2. \A s \in Slots : ServerSame(s) /\ LinkSame(s)
    BY <1>3, <2>1, QuietSent DEF ServerSame, FarmTypes
  <2> QED
    BY <2>2, NoneMoved
<1>4. CASE EndCmd /\ Deliver
  <2>1. PICK t \in Slots : t = cmdFrom
    BY <1>4 DEF EndCmd, FarmTypes, TypeInv, CommandSlot
  <2>2. DropTimes(t, 1) /\ Quiet
    BY <1>4, <2>1 DEF EndCmd, DropServer
  <2> QED
    BY <1>4, <2>2, QuietHush, DropTalk DEF FarmTypes
<1> QED
  BY <1>1, <1>2, <1>3, <1>4 DEF FarmRestart

LEMMA TalkStep ==
  ASSUME FarmTypes, TalkInv, [FarmNext]_farmVars
  PROVE  TalkInv'
<1>1. CASE FarmConnect
  BY <1>1, ConnectTalk
<1>2. CASE FarmRestart
  BY <1>2, RestartsTalk
<1>3. CASE FarmPass
  BY <1>3, PassTalk
<1>4. CASE FarmClose
  BY <1>4, CloseTalk
<1>5. CASE DueTimeout \/ EarlyTimeout
  BY <1>5, TimeoutTalk
<1>6. ASSUME NEW s \in Slots, FarmReceive(s) \/ FarmEof(s) PROVE TalkInv'
  BY <1>6, ReceiveTalk, EofTalk
<1>7. ASSUME NEW s \in Slots, FarmWorker(s) PROVE TalkInv'
  <2>1. WorkerStep(s) /\ UNCHANGED <<state, work, cur>>
    BY <1>7 DEF FarmWorker, vars, servers
  <2>2. CASE ReadRestart(s)
    BY <2>1, <2>2, VanishTalk DEF ReadRestart
  <2>3. CASE ~ReadRestart(s)
    BY <2>1, <2>3, DirbuildReadTalk, EnqueueTalk, MatrixTalk, TreesTalk, LinesTalk DEF WorkerStep
  <2> QED
    BY <2>2, <2>3
<1>8. ASSUME NEW s \in Slots, FarmFault(s) PROVE TalkInv'
  <2>1. (WorkerExit(s) \/ WorkerHang(s)) /\ UNCHANGED <<state, work, cur>>
    BY <1>8 DEF FarmFault, vars, servers
  <2>2. CASE WorkerExit(s)
    BY <2>1, <2>2, VanishTalk DEF WorkerExit
  <2>3. CASE WorkerHang(s)
    BY <2>1, <2>3, HangTalk
  <2> QED
    BY <2>1, <2>2, <2>3
<1>9. CASE FarmOver \/ UNCHANGED farmVars
  <2>1. UNCHANGED <<vars, workerVars>>
    BY <1>9 DEF FarmOver, farmVars
  <2>2. \A s \in Slots : ServerSame(s) /\ LinkSame(s)
    BY <2>1 DEF ServerSame, LinkSame, WorkerSame, vars, servers, workerVars, link, memory
  <2> QED
    BY <2>2, NoneMoved
<1> QED
  BY <1>1, <1>2, <1>3, <1>4, <1>5, <1>6, <1>7, <1>8, <1>9 DEF FarmNext

-----------------------------------------------------------------------------
(* What follows                                                            *)

FarmInv == FarmTypes /\ TalkInv

LEMMA FarmStarts == FarmInit => FarmInv
<1> SUFFICES ASSUME FarmInit PROVE FarmInv
  OBVIOUS
<1>1. Init /\ WorkerInit
  BY DEF FarmInit
<1>2. TypeInv
  BY <1>1, InitType
<1>3. LinksTyped
  <2>1. <<>> \in Seq(DownMsg) /\ <<>> \in Seq(UpMsg) /\ <<>> \in Seq(QueueMsg)
    OBVIOUS
  <2>2. /\ worker \in [Slots -> {"none", "up", "hung", "gone"}]
        /\ view \in [Slots -> FrameNums \cup {NoFrame}]
    BY <1>1 DEF WorkerInit
  <2>3. down \in [Slots -> Seq(DownMsg)] /\ queue \in [Slots -> Seq(QueueMsg)]
    BY <1>1, <2>1 DEF WorkerInit
  <2>4. up \in [Slots -> Seq(UpMsg)]
    BY <1>1, <2>1 DEF WorkerInit
  <2>5. built \in [Slots -> BOOLEAN]
    BY <1>1 DEF WorkerInit
  <2>6. trees \in [Slots -> BOOLEAN]
    BY <1>1 DEF WorkerInit
  <2> QED
    BY <2>2, <2>3, <2>4, <2>5, <2>6 DEF LinksTyped
<1>4. TalkInv
  BY <1>1 DEF TalkInv, SlotOK, Known, Answers, Alive, Lost, Init, WorkerInit
<1> QED
  BY <1>2, <1>3, <1>4 DEF FarmInv, FarmTypes

\* Messages and slots agree in every state: one answer at most is on its way from
\* a worker, the one its slot waits for, and what is ahead of a MSG_RESTART is
\* what the slot's state and work say was sent last (schedule, task_server,
\* ph_version, ph_dirbuild_reply, ph_gettrees_reply, ph_pixels; rtsrv.c).
THEOREM FarmInvariant == FarmSpec => []FarmInv
<1>1. FarmInv /\ [FarmNext]_farmVars => FarmInv'
  BY FarmTypeStep, TalkStep DEF FarmInv
<1> QED
  BY <1>1, FarmStarts, PTL DEF FarmSpec

\* A worker's answers are the ones its slot is waiting for.
THEOREM AnswersAreExpected == FarmSpec => []AnswersExpected
<1>1. FarmInv => AnswersExpected
  <2> SUFFICES ASSUME FarmInv, NEW s \in Slots, up[s] # <<>>
               PROVE  /\ Head(up[s]).type = "DIRBUILD_REPLY" =>
                           state[s] \in {"DOING_DIRBUILD", "CLOSING", "RESTART"}
                      /\ Head(up[s]).type = "GETTREES_REPLY" =>
                           state[s] \in {"DOING_GETTREES", "CLOSING", "RESTART"}
                      /\ Head(up[s]).type = "PIXELS" /\ state[s] \notin {"CLOSING", "RESTART"} =>
                           Head(up[s]).span = work[s]
    BY DEF AnswersExpected
  <2>1. Answers(s)
    BY DEF FarmInv, TalkInv, SlotOK
  <2>2. \A a : Head(<<a>>) = a
    OBVIOUS
  <2>3. CASE \/ up[s] = <<Version>>
             \/ up[s] = <<DirbuildReply>> /\ state[s] \in Leaving \cup {"DOING_DIRBUILD"}
             \/ up[s] = <<GettreesReply>> /\ state[s] \in Leaving \cup {"DOING_GETTREES"}
    BY <2>2, <2>3, MsgFields DEF Leaving
  <2>4. ASSUME NEW x \in SpanSet, up[s] = <<PixelsMsg(x, x.frame)>>,
               state[s] \in Leaving \/ (state[s] = "READY" /\ work[s] = x)
        PROVE  /\ Head(up[s]).type = "PIXELS" /\ Head(up[s]).span = x
               /\ state[s] \notin {"CLOSING", "RESTART"} => x = work[s]
    BY <2>2, <2>4, MsgFields DEF Leaving
  <2> QED
    BY <2>1, <2>3, <2>4 DEF Answers
<1> QED
  BY <1>1, FarmInvariant, PTL

\* Every span of pixels on its way back was rendered under its own frame's matrix.
THEOREM RightView == FarmSpec => []RenderedWithOwnView
<1>1. FarmInv => RenderedWithOwnView
  <2> SUFFICES ASSUME FarmInv, NEW s \in Slots, NEW i \in DOMAIN up[s],
                      up[s][i].type = "PIXELS"
               PROVE  up[s][i].view = up[s][i].span.frame
    BY DEF RenderedWithOwnView
  <2>1. SlotOK(s) /\ LinksTyped
    BY DEF FarmInv, FarmTypes, TalkInv
  <2>2. up[s] # <<>> /\ up[s] = <<Head(up[s])>>
    BY <2>1, AnswerOne
  <2>3. up[s][i] = Head(up[s])
    BY <2>2
  <2>4. \A a : Head(<<a>>) = a
    OBVIOUS
  <2>5. CASE up[s] \in {<<Version>>, <<DirbuildReply>>, <<GettreesReply>>}
    BY <2>3, <2>4, <2>5, MsgFields
  <2>6. ASSUME NEW x \in SpanSet, up[s] = <<PixelsMsg(x, x.frame)>>
        PROVE  up[s][i].view = up[s][i].span.frame
    BY <2>3, <2>4, <2>6, MsgFields
  <2> QED
    BY <2>1, <2>2, <2>5, <2>6 DEF SlotOK, Answers
<1> QED
  BY <1>1, FarmInvariant, PTL

\* No worker finds MSG_LINES before it has trees and a matrix.
THEOREM NoLinesPassedOver == FarmSpec => []NoLinesIgnored
<1>1. FarmInv => NoLinesIgnored
  <2> SUFFICES ASSUME FarmInv, NEW s \in Slots, queue[s] # <<>>, Head(queue[s]).type = "LINES"
               PROVE  trees[s] /\ view[s] # NoFrame
    BY DEF NoLinesIgnored
  <2>1. SlotOK(s) /\ LinksTyped
    BY DEF FarmInv, FarmTypes, TalkInv
  <2>2. Alive(s)
    BY <2>1 DEF SlotOK, Lost
  <2>3. ~Started(s) /\ ~Building(s) /\ ~Built(s) /\ ~Loaded(s)
    BY <2>1, <2>2, DoStage
  <2>4. Talks(s)
    BY <2>1, <2>2 DEF SlotOK
  <2>5. ASSUME NEW p \in Seq(DownMsg), p # <<>>, Awaits(s, p) PROVE Head(p).type = "LINES"
    BY <2>1, <2>5, DoNext
  <2>6. ASSUME NEW f \in FrameNums, Loading(s, f) PROVE FALSE
    <3>1. Head(<<Gettrees>>).type # "LINES" /\ Head(<<Matrix(f), Gettrees>>).type # "LINES"
      BY StageTails, MsgFields
    <3>2. ~Awaits(s, <<>>)
      BY <2>1, DoNext
    <3>3. ~Awaits(s, <<Gettrees>>) /\ ~Awaits(s, <<Matrix(f), Gettrees>>)
      BY <2>5, <3>1, StageMsgs, StageTails, Zenon
    <3> QED
      BY <2>6, <3>2, <3>3 DEF Loading
  <2>7. ASSUME NEW x \in SpanSet, Rendering(s, x) PROVE trees[s] /\ view[s] # NoFrame
    <3>1. Head(<<Matrix(x.frame), Lines(x)>>).type # "LINES"
      BY StageTails, MsgFields
    <3>2. ~Awaits(s, <<>>)
      BY <2>1, DoNext
    <3>3. ~Awaits(s, <<Matrix(x.frame), Lines(x)>>)
      BY <2>5, <3>1, StageMsgs, StageTails, Zenon
    <3> QED
      BY <2>7, <3>2, <3>3, StageTypes DEF Rendering
  <2> QED
    BY <2>3, <2>4, <2>6, <2>7 DEF Talks
<1> QED
  BY <1>1, FarmInvariant, PTL

LEMMA InEither ==
  ASSUME NEW q \in Seq(DownMsg), NEW r \in Seq(DownMsg), NEW i \in 1 .. Len(q \o r)
  PROVE  \/ i \in DOMAIN q /\ (q \o r)[i] = q[i]
         \/ i - Len(q) \in DOMAIN r /\ (q \o r)[i] = r[i - Len(q)]
OBVIOUS

\* An assignment never evaporates: as long as its worker is there, it is on its way
\* to the worker, in WorkHead, or on its way back as pixels, however the worker
\* hangs and the others fare (task_server, drop_server, send_restart; ph_enqueue,
\* ph_lines).
THEOREM NoWorkEvaporates == FarmSpec => []WorkUnderWay
<1>1. FarmInv => WorkUnderWay
  <2> SUFFICES ASSUME FarmInv, NEW s \in Slots, Alive(s), state[s] \in Requeues,
                      work[s] # NoWork
               PROVE  \/ \E i \in DOMAIN down[s] : down[s][i] = Lines(work[s])
                      \/ \E i \in DOMAIN queue[s] : queue[s][i] = Lines(work[s])
                      \/ \E i \in DOMAIN up[s] :
                           up[s][i].type = "PIXELS" /\ up[s][i].span = work[s]
    BY DEF WorkUnderWay, Alive
  <2> DEFINE x == work[s]
  <2>1. SlotOK(s) /\ LinksTyped
    BY DEF FarmInv, FarmTypes, TalkInv
  <2>2. state[s] = "READY" /\ Rendering(s, x)
    BY <2>1 DEF SlotOK, Known, Talks, Requeues
  <2>3. /\ down[s] \in Seq(DownMsg) /\ queue[s] \in Seq(DownMsg)
        /\ Coming(s) = queue[s] \o down[s]
    <3>1. QueueMsg \subseteq DownMsg
      BY DEF DownMsg
    <3> QED
      BY <2>1, <3>1 DEF LinksTyped, Coming
  <2> HIDE DEF x
  <2>4. ASSUME NEW i \in 1 .. Len(Coming(s)), Coming(s)[i] = Lines(x)
        PROVE  \/ \E j \in DOMAIN down[s] : down[s][j] = Lines(x)
               \/ \E j \in DOMAIN queue[s] : queue[s][j] = Lines(x)
    <3> DEFINE q == queue[s]
               r == down[s]
    <3>1. q \in Seq(DownMsg) /\ r \in Seq(DownMsg) /\ i \in 1 .. Len(q \o r) /\ (q \o r)[i] = Lines(x)
      BY <2>3, <2>4
    <3> HIDE DEF q, r
    <3>2. \/ i \in DOMAIN q /\ q[i] = Lines(x)
          \/ i - Len(q) \in DOMAIN r /\ r[i - Len(q)] = Lines(x)
      BY <3>1, InEither
    <3> QED
      BY <3>2, Zenon DEF q, r
  <2>5. ASSUME NEW p \in Seq(DownMsg), NEW i \in 1 .. Len(p), p[i] = Lines(x), Awaits(s, p)
        PROVE  \/ \E j \in DOMAIN down[s] : down[s][j] = Lines(x)
               \/ \E j \in DOMAIN queue[s] : queue[s][j] = Lines(x)
    <3>1. Coming(s) \in Seq(DownMsg)
      BY <2>3
    <3> HIDE DEF Coming
    <3>2. i \in 1 .. Len(Coming(s)) /\ Coming(s)[i] = Lines(x)
      BY <2>5, <3>1 DEF Awaits, Ahead
    <3> QED
      BY <2>4, <3>2
  <2>6. CASE Awaits(s, <<Matrix(x.frame), Lines(x)>>) \/ Awaits(s, <<Lines(x)>>)
    <3>1. x \in SpanSet
      BY DEF x, FarmInv, FarmTypes, TypeInv, TypesOK, ServersOK
    <3>2. /\ <<Matrix(x.frame), Lines(x)>> \in Seq(DownMsg) /\ <<Lines(x)>> \in Seq(DownMsg)
          /\ 2 \in 1 .. Len(<<Matrix(x.frame), Lines(x)>>) /\ 1 \in 1 .. Len(<<Lines(x)>>)
          /\ <<Matrix(x.frame), Lines(x)>>[2] = Lines(x) /\ <<Lines(x)>>[1] = Lines(x)
      BY <3>1, StageMsgs
    <3>3. \/ \E j \in DOMAIN down[s] : down[s][j] = Lines(x)
          \/ \E j \in DOMAIN queue[s] : queue[s][j] = Lines(x)
      BY <2>5, <2>6, <3>2
    <3> QED
      BY <3>3, Zenon DEF x
  <2>7. CASE up[s] = <<PixelsMsg(x, x.frame)>>
    <3>1. 1 \in DOMAIN up[s] /\ up[s][1] = PixelsMsg(x, x.frame)
      BY <2>7
    <3> QED
      BY <3>1, MsgFields DEF x
  <2> QED
    BY <2>2, <2>6, <2>7 DEF Rendering
<1> QED
  BY <1>1, FarmInvariant, PTL

-----------------------------------------------------------------------------
(* What is safe of the job's pixels: with workers that speak as rtsrv does *)
(* only a "restart" command and a MSG_MATRIX that cannot be sent endanger  *)
(* them.                                                                   *)

\* The message that puts a slot back to VERSOK comes from a slot without work.
LEMMA VersionEarly ==
  ASSUME FarmInv, NEW s \in Slots, up[s] # <<>>, Head(up[s]) = Version
  PROVE  state[s] \notin Requeues
<1>1. up[s] = <<Version>>
  BY AnswerOne DEF FarmInv, FarmTypes, TalkInv
<1>2. Answers(s)
  BY Zenon DEF FarmInv, TalkInv, SlotOK
<1>3. /\ <<Version>> # <<>> /\ <<Version>> # <<DirbuildReply>> /\ <<Version>> # <<GettreesReply>>
      /\ \A x \in SpanSet : <<Version>> # <<PixelsMsg(x, x.frame)>>
  <2>1. /\ Version # DirbuildReply /\ Version # GettreesReply
        /\ \A x, f : Version # PixelsMsg(x, f)
    BY MsgFields
  <2> QED
    BY <2>1
<1>4. state[s] \in Leaving \cup {"NEW"}
  BY <1>1, <1>2, <1>3, Zenon DEF Answers
<1> QED
  BY <1>4 DEF Leaving, Requeues

LEMMA FarmSafeStep ==
  ASSUME ~Restarts, ~MatrixFails, FarmInv, NEW T, SafeBut(T), TypeInv', [FarmNext]_farmVars
  PROVE  SafeBut(T)'
<1>1. CASE FarmConnect
  BY <1>1, ConnectSafe DEF FarmConnect
<1>2. CASE FarmRestart
  BY <1>2 DEF FarmRestart
<1>3. CASE FarmPass
  <2>1. CASE \E failed \in 0 .. 2 : SendDirbuild(failed) \/ TaskGettrees(failed)
    BY <2>1, PassSafe
  <2>2. CASE \E lump \in 1 .. MaxLump : TaskAssign(lump) \/ TaskLinesFail(lump)
    BY <2>2, PassSafe
  <2>3. CASE \/ BeginSchedule \/ CheckSetup(FALSE) \/ PassConn \/ EndConn \/ FrameIsDone \/ FrameNotDone
             \/ EndFrames \/ TaskRefused \/ NextPass \/ NextFrame \/ EndAssign \/ EndInput
             \/ EndHosting
    BY <2>3, PassSafe
  <2> QED
    BY <1>3, <2>1, <2>2, <2>3 DEF FarmPass
<1>4. CASE FarmClose
  BY <1>4, PassSafe DEF FarmClose
<1>5. CASE DueTimeout \/ EarlyTimeout
  BY <1>5, PassSafe DEF DueTimeout, EarlyTimeout, Timeout
<1>6. ASSUME NEW s \in Slots, FarmReceive(s) PROVE SafeBut(T)'
  <2>1. Handle(s) /\ up[s] # <<>> /\ LinksTyped
    BY <1>6 DEF FarmReceive, FarmInv, FarmTypes
  <2>2. CASE Head(up[s]) = Version /\ PhVersion(s)
    BY <2>1, <2>2, VersionEarly, ReceiveSafe
  <2>3. CASE \/ PhDirbuildReply(s) \/ PhGettreesReply(s) \/ PixelsIgnored(s)
             \/ PixelsStored(s, FALSE) \/ \E x : PixelsMismatch(s, x, FALSE)
    BY <2>3, MismatchSame, ReceiveSafe
  <2> QED
    BY <2>1, <2>2, <2>3, HandleCases
<1>7. ASSUME NEW s \in Slots, FarmEof(s) PROVE SafeBut(T)'
  BY <1>7, ReceiveSafe DEF FarmEof
<1>8. CASE UNCHANGED vars
  <2>1. QuietStep
    BY <1>8 DEF vars, job, servers, loop, QuietStep, Listed, SafeBut, Slotted, NotRestarting
  <2> QED
    BY <2>1, QuietSafe
<1>9. UNCHANGED vars \/ FarmConnect \/ FarmRestart \/ FarmPass \/ FarmClose \/ DueTimeout
        \/ EarlyTimeout \/ \E s \in Slots : FarmReceive(s) \/ FarmEof(s)
  BY DEF FarmNext, FarmWorker, FarmFault, FarmOver, farmVars
<1> QED
  BY <1>1, <1>2, <1>3, <1>4, <1>5, <1>6, <1>7, <1>8, <1>9

LEMMA FarmSafe ==
  ASSUME ~Restarts, ~MatrixFails
  PROVE  FarmSpec => [](FarmInv /\ SafeInv)
<1>1. PICK T : T = NoneTorn
  OBVIOUS
<1>2. FarmInit => FarmInv /\ SafeBut(T)
  BY <1>1, FarmStarts, InitSafe, SafeNone DEF FarmInit
<1>3. FarmInv /\ SafeBut(T) /\ [FarmNext]_farmVars => (FarmInv /\ SafeBut(T))'
  <2> SUFFICES ASSUME FarmInv, SafeBut(T), [FarmNext]_farmVars
               PROVE  FarmInv' /\ SafeBut(T)'
    OBVIOUS
  <2>1. FarmInv'
    BY FarmTypeStep, TalkStep DEF FarmInv
  <2> QED
    BY <2>1, FarmSafeStep DEF FarmInv, FarmTypes
<1>4. SafeBut(T) => SafeInv
  BY <1>1, SafeNone
<1> QED
  BY <1>2, <1>3, <1>4, PTL DEF FarmSpec

\* With rtsrv workers that hang and exit as they like, a frame is declared done
\* and write-protected only with all its pixels on disk (frame_is_done).
THEOREM FarmFinishedComplete ==
  ASSUME ~Restarts, ~MatrixFails
  PROVE  FarmSpec => []FinishedComplete
<1>1. SafeInv => FinishedComplete
  BY DEF SafeInv
<1> QED
  BY <1>1, FarmSafe, PTL

\* "Any rtsrv worker (or network link) that fails has its outstanding work
\* reassigned": true unless servers are restarted with work, or MSG_MATRIX is
\* what could not be sent (drop_server, send_restart, task_server).
THEOREM FailedWorkReassigned ==
  ASSUME ~Restarts, ~MatrixFails
  PROVE  FarmSpec => []WorkReassigned
<1>1. SafeInv => WorkReassigned
  <2> SUFFICES ASSUME SafeInv, NEW f \in Listed, NEW p \in Image
               PROVE  p \in disk[f] \cup Pixels(todo[f])
                            \cup UNION {PixelsOf(work[s]) : s \in
                                          {t \in Slots : conn[t] # "none" /\ work[t].frame = f}}
    BY DEF WorkReassigned
  <2>1. p \in disk[f] \/ p \in Pixels(todo[f])
          \/ \E s \in Slots : work[s].frame = f /\ p \in PixelsOf(work[s])
    BY DEF SafeInv, NoPixelLost, OutOf
  <2>2. \A s \in Slots : p \in PixelsOf(work[s]) => conn[s] # "none"
    BY DEF SafeInv, Slotted, NoWorkStranded, PixelsOf, NoWork, Span
  <2> QED
    BY <2>1, <2>2
<1> QED
  BY <1>1, FarmSafe, PTL

=============================================================================
