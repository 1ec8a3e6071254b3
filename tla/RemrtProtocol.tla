--------------------------- MODULE RemrtProtocol ---------------------------
(***************************************************************************)
(* What the remrt dispatcher and its rtsrv workers share (protocol.h): the *)
(* size of the job and the messages that matter to the work distribution.  *)
(***************************************************************************)
EXTENDS Spans, FiniteSets

CONSTANTS
  NServers,   \* MAXSERVERS, the number of slots of servers[]
  NFrames,    \* frames queued by main() or eat_script()
  NPix        \* pixels of a frame, fr_width * fr_height

ASSUME ProtocolAssumption ==
  NServers \in Nat \ {0} /\ NFrames \in Nat \ {0} /\ NPix \in Nat \ {0}

Slots == 1 .. NServers
FrameNums == 1 .. NFrames
Image == 0 .. NPix - 1          \* the pixel numbers of a frame
NoFrame == 0                    \* FRAME_NULL
NoSlot == 0

SpanSet == [frame : FrameNums, start : Image, stop : Image]

\* Dispatcher to worker.
Dirbuild == [type |-> "DIRBUILD"]
Matrix(f) == [type |-> "MATRIX", frame |-> f]
Gettrees == [type |-> "GETTREES"]
Lines(x) == [type |-> "LINES", span |-> x]
Restart == [type |-> "RESTART"]

\* Worker to dispatcher; view is the frame whose matrix the pixels were
\* rendered under (implicit in the real message: the worker's view state).
Version == [type |-> "VERSION"]
DirbuildReply == [type |-> "DIRBUILD_REPLY"]
GettreesReply == [type |-> "GETTREES_REPLY"]
PixelsMsg(x, v) == [type |-> "PIXELS", span |-> x, view |-> v]

=============================================================================
