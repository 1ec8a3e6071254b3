------------------------------ MODULE WorkPool ------------------------------
(***************************************************************************)
(* What remrt promises about its work, whatever the servers and network    *)
(* do: every pixel of every frame waits, is out with one worker, or is     *)
(* stored; a worker's pixels are stored or wait again; a frame is finished *)
(* when nothing of it waits or is out.                                     *)
(***************************************************************************)
CONSTANTS Frames, PixelSet, Workers

VARIABLES
  waiting,    \* the units, <<frame, pixel>>, that wait to be handed out
  out,        \* the units each worker has been handed
  stored,     \* the units whose result is in the output file
  finished    \* the frames declared done

poolVars == <<waiting, out, stored, finished>>

UnitsOf(f) == {f} \X PixelSet
Units == Frames \X PixelSet

PoolTypeOK ==
  /\ waiting \subseteq Units /\ out \in [Workers -> SUBSET Units]
  /\ stored \subseteq Units /\ finished \subseteq Frames

PoolInit ==
  /\ waiting = Units /\ out = [w \in Workers |-> {}]
  /\ stored = {} /\ finished = {}

\* A free worker is handed pixels of one frame.
HandOut(w) ==
  /\ out[w] = {}
  /\ \E f \in Frames : \E P \in SUBSET (waiting \cap UnitsOf(f)) :
       /\ P # {}
       /\ waiting' = waiting \ P
       /\ out' = [out EXCEPT ![w] = P]
  /\ UNCHANGED <<stored, finished>>

\* A worker's pixels are all stored.
Store(w) ==
  /\ out[w] # {}
  /\ stored' = stored \cup out[w]
  /\ out' = [out EXCEPT ![w] = {}]
  /\ UNCHANGED <<waiting, finished>>

\* A worker is given up: some of its pixels may be stored, all wait again.
TakeBack(w) ==
  /\ out[w] # {}
  /\ \E P \in SUBSET out[w] : stored' = stored \cup P
  /\ waiting' = waiting \cup out[w]
  /\ out' = [out EXCEPT ![w] = {}]
  /\ UNCHANGED finished

Finish(f) ==
  /\ f \notin finished
  /\ waiting \cap UnitsOf(f) = {}
  /\ \A w \in Workers : out[w] \cap UnitsOf(f) = {}
  /\ finished' = finished \cup {f}
  /\ UNCHANGED <<waiting, out, stored>>

PoolNext ==
  \/ \E w \in Workers : HandOut(w) \/ Store(w) \/ TakeBack(w)
  \/ \E f \in Frames : Finish(f)

PoolSpec == PoolInit /\ [][PoolNext]_poolVars

-----------------------------------------------------------------------------
\* Every unit is accounted for (the promise behind NoPixelLost).
Accounted ==
  \A u \in Units : u \in waiting \/ u \in stored \/ \E w \in Workers : u \in out[w]

\* A finished frame is stored completely (the promise behind FinishedComplete).
FinishedStored == \A f \in finished : UnitsOf(f) \subseteq stored

=============================================================================
