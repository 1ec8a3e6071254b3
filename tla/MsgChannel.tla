------------------------------ MODULE MsgChannel ------------------------------
(* What libpkg promises of one direction of a connection: whole messages,   *)
(* in the order they were sent; when the connection breaks the last of them *)
(* are lost.                                                                *)
EXTENDS Naturals, Sequences

CONSTANTS
    Message,
    None            \* no message yet

VARIABLES
    queue,          \* sent and not handled
    last,           \* the message handled last
    open            \* more may be sent

Init == queue = <<>> /\ last = None /\ open = TRUE

Send(m) == /\ open
           /\ queue' = Append(queue, m)
           /\ UNCHANGED <<last, open>>

Handle == /\ queue # <<>>
          /\ last' = Head(queue)
          /\ queue' = Tail(queue)
          /\ UNCHANGED open

Break == /\ open
         /\ open' = FALSE
         /\ \E n \in 0 .. Len(queue) : queue' = SubSeq(queue, 1, n)
         /\ UNCHANGED last

Next == (\E m \in Message : Send(m)) \/ Handle \/ Break
Spec == Init /\ [][Next]_<<queue, last, open>>
=============================================================================
