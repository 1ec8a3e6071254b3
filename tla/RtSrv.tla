------------------------------- MODULE RtSrv -------------------------------
(***************************************************************************)
(* rtsrv, the ray-tracing workers of remrt (rtsrv.c), one per connection,  *)
(* and the two directions of the connection.  A worker reads packages as   *)
(* they come: MSG_DIRBUILD and MSG_RESTART take effect at once, the rest   *)
(* is queued on WorkHead and done one item per round of its main loop.     *)
(***************************************************************************)
EXTENDS RemrtProtocol

VARIABLES
  worker,   \* "none", "up", "hung" (reads and answers no more), or "gone"
  down,     \* messages on their way to the worker
  up,       \* messages on their way to the dispatcher
  queue,    \* WorkHead
  built,    \* seen_dirbuild
  trees,    \* seen_gettrees
  view      \* the frame of the last MSG_MATRIX; seen_matrix is view # NoFrame

link == <<down, up>>
memory == <<queue, built, trees, view>>
workerVars == <<worker, link, memory>>

WorkerInit ==
  /\ worker = [s \in Slots |-> "none"]
  /\ down = [s \in Slots |-> <<>>] /\ up = [s \in Slots |-> <<>>]
  /\ queue = [s \in Slots |-> <<>>] /\ built = [s \in Slots |-> FALSE]
  /\ trees = [s \in Slots |-> FALSE] /\ view = [s \in Slots |-> NoFrame]

Reset(s, w, msgs) ==
  /\ worker' = [worker EXCEPT ![s] = w]
  /\ down' = [down EXCEPT ![s] = <<>>] /\ up' = [up EXCEPT ![s] = msgs]
  /\ queue' = [queue EXCEPT ![s] = <<>>] /\ built' = [built EXCEPT ![s] = FALSE]
  /\ trees' = [trees EXCEPT ![s] = FALSE] /\ view' = [view EXCEPT ![s] = NoFrame]

\* main(): a new worker's first message is its protocol version.
StartWorker(s) == Reset(s, "up", <<Version>>)

\* The dispatcher closes its end: the worker reads EOF and exits.
CloseLink(s) == Reset(s, "none", <<>>)

\* The worker is gone (crash, failed rt_dirbuild() or grid_setup(), ph_end):
\* what it has not read or done is lost, what it has sent still arrives unless
\* the connection is reset.
Vanish(s) ==
  /\ worker' = [worker EXCEPT ![s] = "gone"]
  /\ up' \in {up, [up EXCEPT ![s] = <<>>]}
  /\ down' = [down EXCEPT ![s] = <<>>] /\ queue' = [queue EXCEPT ![s] = <<>>]

WorkerExit(s) == worker[s] \in {"up", "hung"} /\ Vanish(s) /\ UNCHANGED <<built, trees, view>>

\* "Black hole" mode: the connection stays, the answers do not come.
WorkerHang(s) ==
  worker[s] = "up" /\ worker' = [worker EXCEPT ![s] = "hung"] /\ UNCHANGED <<link, memory>>

\* pkg_process() of the next package: ph_dirbuild, ph_enqueue.
ReadDirbuild(s) ==
  /\ worker[s] = "up" /\ down[s] # <<>> /\ Head(down[s]) = Dirbuild
  /\ down' = [down EXCEPT ![s] = Tail(@)]
  /\ built' = [built EXCEPT ![s] = TRUE]
  /\ up' = IF built[s] THEN up ELSE [up EXCEPT ![s] = Append(@, DirbuildReply)]
  /\ UNCHANGED <<worker, queue, trees, view>>

Enqueue(s) ==
  /\ worker[s] = "up" /\ down[s] # <<>>
  /\ Head(down[s]).type \in {"MATRIX", "GETTREES", "LINES"}
  /\ down' = [down EXCEPT ![s] = Tail(@)]
  /\ queue' = [queue EXCEPT ![s] = Append(@, Head(down[s]))]
  /\ UNCHANGED <<worker, up, built, trees, view>>

\* ph_restart: close the connection, exec anew; queued work is lost.
ReadRestart(s) ==
  /\ worker[s] = "up" /\ down[s] # <<>> /\ Head(down[s]) = Restart
  /\ Vanish(s) /\ UNCHANGED <<built, trees, view>>

\* One item of WorkHead: ph_matrix, ph_gettrees, ph_lines.
Doing(s, type) ==
  /\ worker[s] = "up" /\ queue[s] # <<>> /\ Head(queue[s]).type = type
  /\ queue' = [queue EXCEPT ![s] = Tail(@)]
  /\ UNCHANGED <<worker, down, built>>

\* Mutant of DoMatrix: a new view discards what is queued behind it as well.
DoMatrixDiscards(s) ==
  /\ worker[s] = "up" /\ queue[s] # <<>> /\ Head(queue[s]).type = "MATRIX"
  /\ queue' = [queue EXCEPT ![s] = <<>>]
  /\ view' = [view EXCEPT ![s] = Head(queue[s]).frame]
  /\ UNCHANGED <<worker, down, built, up, trees>>

DoMatrix(s) ==
  /\ Doing(s, "MATRIX") /\ view' = [view EXCEPT ![s] = Head(queue[s]).frame]
  /\ UNCHANGED <<up, trees>>

DoGettrees(s) ==
  /\ Doing(s, "GETTREES") /\ trees' = [trees EXCEPT ![s] = TRUE]
  /\ up' = [up EXCEPT ![s] = Append(@, GettreesReply)] /\ UNCHANGED view

\* Nothing is sent back before the first MSG_GETTREES and MSG_MATRIX.
DoLines(s) ==
  /\ Doing(s, "LINES")
  /\ up' = IF trees[s] /\ view[s] # NoFrame
             THEN [up EXCEPT ![s] = Append(@, PixelsMsg(Head(queue[s]).span, view[s]))]
             ELSE up
  /\ UNCHANGED <<trees, view>>

WorkerStep(s) ==
  ReadDirbuild(s) \/ Enqueue(s) \/ ReadRestart(s)
    \/ DoMatrix(s) \/ DoGettrees(s) \/ DoLines(s)

=============================================================================
