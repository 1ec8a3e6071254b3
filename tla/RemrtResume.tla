---------------------------- MODULE RemrtResume ----------------------------
(***************************************************************************)
(* The dispatcher killed and started again: what survives are the output   *)
(* files.  The new dispatcher skips the frames whose file is protected and *)
(* scans the others for finished (non-black) pixels; everything it had in  *)
(* memory, and its workers, are gone.                                      *)
(*                                                                         *)
(* write() counts bytes, three to a pixel: one that a full disk cuts short *)
(* or a kill interrupts may end inside a pixel.  disk holds the pixels     *)
(* whose three bytes are stored; what a cut leaves of one is in torn.      *)
(***************************************************************************)
EXTENDS RemrtEnv

CONSTANT FilePix   \* pixels of the files an earlier job may have left

ASSUME ResumeAssumption == FilePix \in Nat

VARIABLES
  torn,   \* of each file, the pixels stored in part that do not look black
  size    \* of each file, the pixels that lie in it with all three bytes

resumeVars == <<envVars, torn, size>>

\* scan_frame_for_finished_pixels: runs of non-black pixels, from the left.
RunStarts(D) == {p \in D : p - 1 \notin D}

\* Mutants of RunEnd: the last pixel of a run is missed; the black one after
\* it is taken along.
RunEndMutant(D, p) ==
  LET last == CHOOSE e \in D : p <= e /\ p .. e \subseteq D /\ e + 1 \notin D
  IN  IF last > p THEN last - 1 ELSE last
RunEndPast(D, p) ==
  1 + CHOOSE e \in D : p <= e /\ p .. e \subseteq D /\ e + 1 \notin D

RunEnd(D, p) == CHOOSE e \in D : p <= e /\ p .. e \subseteq D /\ e + 1 \notin D

\* The most pixels a file may hold.
FileLen == IF FilePix > NPix THEN FilePix ELSE NPix

\* prep_frame, then the scan of a file with the pixels D: what is left to do
\* once the runs that begin in its first p pixels are off fr_todo.
Scan(f, D) ==
  LET upTo[p \in 0 .. FileLen] ==
        IF p = 0 THEN <<Span(f, 0, NPix - 1)>>
        ELSE IF p - 1 \in RunStarts(D)
               THEN ListRemove(upTo[p - 1], p - 1, RunEnd(D, p - 1))
               ELSE upTo[p - 1]
  IN  upTo
Scanned(f, D) == Scan(f, D)[FileLen]

\* Mutant of Queued: a protected file is no reason to skip its frame.
QueuedMutant == [i \in FrameNums |-> i]

\* create_outputfilename, of one frame after the other: those whose file may be
\* written are queued.
Queue ==
  LET upTo[f \in 0 .. NFrames] ==
        IF f = 0 THEN <<>>
        ELSE IF f \in prot THEN upTo[f - 1] ELSE Append(upTo[f - 1], f)
  IN  upTo
Queued == Queue[NFrames]

\* The pixels that fread() finds in file f and that are not black: a last one
\* that is cut by the end of the file is not read.
Shown(f) == {p \in disk[f] \cup torn[f] : p < size[f]}

\* fr_todo of a frame whose file is there already.
Starting(f) == Scanned(f, Shown(f))

\* A fresh start in a directory with files of an earlier job.
ResumeInit ==
  /\ disk \in [FrameNums -> SUBSET (0 .. FilePix - 1)]
  /\ torn \in [FrameNums -> SUBSET (0 .. FilePix - 1)]
  /\ size \in [FrameNums -> 0 .. FilePix]
  /\ \A f \in FrameNums :
       /\ disk[f] \cap torn[f] = {}
       /\ disk[f] \subseteq 0 .. size[f] - 1 /\ torn[f] \subseteq 0 .. size[f]
  /\ todo = [f \in FrameNums |-> Starting(f)]
  /\ running = TRUE /\ method = MOVIE /\ prot = {} /\ frames = Queued
  /\ conn = [s \in Slots |-> "none"] /\ state = [s \in Slots |-> "UNUSED"]
  /\ work = [s \in Slots |-> NoWork] /\ cur = [s \in Slots |-> NoFrame]
  /\ nPipe = 0 /\ pipeEver = FALSE /\ prevServ = FALSE
  /\ phase = "start" /\ at = NoSlot /\ fpos = 1 /\ nxt = 0 /\ again = FALSE
  /\ hosting = FALSE /\ cmdFrom = NoSlot
  /\ sent = Nothing /\ hello = {}

\* What a write() of the pixels of x leaves in the file when n of them are
\* stored whole.  Of the next one there may be a part, which looks black or not;
\* a part of a pixel that was there already changes nothing, as a pixel is
\* rendered to the same value again.
Wrote(x, n) ==
  LET f == x.frame
      p == x.start + n
  IN  \/ n = 0 /\ UNCHANGED <<torn, size>>
      \/ /\ \E part \in SUBSET (({p} \cap PixelsOf(x)) \ disk[f]) :
              torn' = [torn EXCEPT ![f] = (@ \ (x.start .. p - 1)) \cup part]
         /\ size' = [size EXCEPT ![f] = IF p > @ THEN p ELSE @]

Extent(x) == x.stop - x.start + 1

\* ph_pixels writes the answer of slot s to the output file.
WritesFile(s, n) ==
  /\ \/ /\ n = Extent(work[s])
        /\ \/ PixelsStored(s, FALSE)
           \/ "slow" \in Faults /\ PixelsStored(s, TRUE)
     \/ "write" \in Faults /\ PixelsUnwritten(s, n)
  /\ UNCHANGED hello /\ Wrote(work[s], n)

\* Any other step of the dispatcher leaves the files alone.
LeavesFiles == Next /\ disk' = disk /\ torn' = torn /\ size' = size

\* What a kill leaves in the files: it may interrupt the write() of ph_pixels
\* after any of its bytes.
Survives ==
  \/ UNCHANGED <<disk, torn, size>>
  \/ \E s \in Slots : \E n \in 0 .. NPix :
       /\ Hearing(s) /\ Hears(s) /\ work[s].frame \in Listed
       /\ n <= Extent(work[s])
       /\ disk' = [disk EXCEPT ![work[s].frame] =
            @ \cup (work[s].start .. work[s].start + n - 1)]
       /\ Wrote(work[s], n)

\* The new dispatcher starts: main() or eat_script() sets up the frames.
Crash ==
  /\ Survives /\ UNCHANGED prot
  /\ todo' = [f \in FrameNums |->
       IF \E i \in DOMAIN Queued : Queued[i] = f THEN Starting(f)' ELSE <<>>]
  /\ running' = TRUE /\ method' = MOVIE /\ frames' = Queued
  /\ conn' = [s \in Slots |-> "none"] /\ state' = [s \in Slots |-> "UNUSED"]
  /\ work' = [s \in Slots |-> NoWork] /\ cur' = [s \in Slots |-> NoFrame]
  /\ nPipe' = 0 /\ pipeEver' = FALSE /\ prevServ' = FALSE
  /\ phase' = (IF Queued = <<>> THEN "exit" ELSE "start")
  /\ at' = NoSlot /\ fpos' = 1 /\ nxt' = 0 /\ again' = FALSE
  /\ hosting' = FALSE /\ cmdFrom' = NoSlot
  /\ sent' = Nothing /\ hello' = {}

ResumeNext ==
  LeavesFiles \/ (\E s \in Slots : \E n \in 0 .. NPix : WritesFile(s, n)) \/ Crash

ResumeSpec == ResumeInit /\ [][ResumeNext]_resumeVars

-----------------------------------------------------------------------------
(* Properties *)

\* "resumes from where it left off rather than recomputing finished pixels":
\* after a restart the pixels of the unprotected frames that the file shows black
\* wait, each once, and so no pixel that is stored whole.  A torn one is taken for
\* finished (scan_frame_for_finished_pixels, list_remove; NoPixelLost fails so).
BlackWaits ==
  /\ Listed = FrameNums \ prot
  /\ \A f \in Listed :
       /\ Pixels(todo[f]) = Image \ Shown(f) /\ Disjoint(todo[f])
       /\ Pixels(todo[f]) \cap disk[f] = {}
RestartResumes == [][Crash => BlackWaits']_resumeVars

\* Over kills and full disks, a frame in progress and a finished one lack no
\* pixel but what a write() has torn; all others are stored, waiting, or with
\* a server (ph_pixels, scan_frame_for_finished_pixels, drop_server).
OnlyTornMissing ==
  /\ \A f \in Listed :
       Image \subseteq disk[f] \cup torn[f] \cup Pixels(todo[f]) \cup OutOf(f)
  /\ \A f \in prot : Image \subseteq disk[f] \cup torn[f]

\* The file of a frame that was declared done is never written again, not by
\* a late answer, a command or a later dispatcher (ph_pixels, frame_is_done,
\* create_outputfilename).
FinishedUntouched ==
  [][\A f \in prot : f \in prot' /\ disk'[f] = disk[f] /\ torn'[f] = torn[f]]_resumeVars

\* "The span is inclusive, from start up to and including stop": no span of
\* fr_todo ends before it starts (list_remove, task_server).
SpansInclusive ==
  \A f \in FrameNums : \A i \in DOMAIN todo[f] : todo[f][i].start <= todo[f][i].stop

=============================================================================
