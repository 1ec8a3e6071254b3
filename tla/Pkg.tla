--------------------------------- MODULE Pkg ---------------------------------
(* One direction of a libpkg connection, libpkg/pkg.c: a sender that calls  *)
(* pkg_send, pkg_stream, pkg_flush and pkg_close in any order, the stream   *)
(* between the two processes, and a receiver with the main loop of rtsrv.   *)
(* What the receiver sends itself matters here for one thing only: pkg_send *)
(* reads input that has arrived, and does not act on it.                    *)
EXTENDS Integers, Sequences

CONSTANTS
    Lengths,        \* of the data of a message
    Hdr,            \* sizeof(struct pkg_header)
    MaxQLen,        \* MAXQLEN, the largest message that is queued
    StreamLen,      \* PKG_STREAMLEN, of pkc_stream and of pkc_inbuf at first
    Slack,          \* the room that pkg_suckin wants: 10 headers
    Interrupted,    \* whose writes a signal may cut short: "flush", "send"
    MaxMessages     \* bound: messages sent

ASSUME PkgAssumption ==
    /\ Lengths \subseteq Nat
    /\ Hdr \in Nat \ {0} /\ MaxQLen \in Nat
    /\ StreamLen \in Nat \ {0} /\ Slack \in Nat \ {0}
    /\ Hdr + MaxQLen <= StreamLen   \* a queued message fits by itself
    /\ Interrupted \subseteq {"flush", "send"}
    /\ MaxMessages \in Nat

VARIABLES
    sender,         \* "open"; "failed": a call has failed; "closed"
    sent,           \* messages accepted
    stream,         \* pkc_stream up to pkc_strpos
    wire,           \* written and not read
    inbuf, incur, inlen,  \* pkc_inbuf: what is unread in it, where that begins,
                          \* and how long the buffer is
    got, left,      \* the message being read, header and data; pkc_left
    bad,            \* pkg_process has found a message without a handler
    at,             \* where rtsrv is in its loop
    work,           \* the messages on WorkHead
    handed          \* what was handed over last

output == <<sender, sent, stream>>
input == <<inbuf, incur, inlen>>
reading == <<got, left, bad, at, work, handed>>
vars == <<output, wire, input, reading>>

\* A message, the units it is sent as, and the ones that are whole in a stream:
\* those whose last unit is among its first n, for each n, and all of them.
Message == [id : 1 .. MaxMessages, len : Lengths, known : BOOLEAN]
Size(m) == Hdr + m.len
Units(m) == [k \in 1 .. Size(m) |-> [m |-> m, k |-> k]]
IsLast(u) == u.k = Size(u.m)
Done(s) == LET upTo[n \in 0 .. Len(s)] ==
                 IF n = 0 THEN <<>>
                 ELSE IF IsLast(s[n]) THEN Append(upTo[n - 1], s[n].m) ELSE upTo[n - 1]
           IN upTo
Whole(s) == Done(s)[Len(s)]
Nothing == <<>>

Init == /\ sender = "open" /\ sent = 0 /\ stream = <<>>
        /\ wire = <<>>
        /\ inbuf = <<>> /\ incur = 0 /\ inlen = StreamLen
        /\ got = <<>> /\ left = -1 /\ bad = FALSE
        /\ at = "first" /\ work = 0 /\ handed = Nothing
-----------------------------------------------------------------------------
(* The sender.                                                              *)

\* The room left in pkc_stream, as a size_t: below zero it is very large.
Room == StreamLen - Hdr - Len(stream)
Fits(n) == Room < 0 \/ n <= Room

\* _pkg_io_write, or writev, of s: all of it, or a first part of it if a signal
\* comes in between, or an error.
Put(s, k) == wire' = wire \o SubSeq(s, 1, k)
Wrote(s, k, whose) == /\ k \in 0 .. Len(s)
                      /\ 0 < k /\ k < Len(s) => whose \in Interrupted
                      /\ Put(s, k)

\* The part of pkg_flush after the write: what is left moves to the front.
Rest(s, k) == stream' = SubSeq(s, k + 1, Len(s))
Failed(k) == sender' = IF k = 0 THEN "failed" ELSE sender

\* pkg_stream of a small message.
Queue(m) ==
    /\ m.len <= MaxQLen
    /\ IF Fits(m.len)
       THEN stream' = stream \o Units(m) /\ UNCHANGED wire
       ELSE Put(stream, Len(stream)) /\ stream' = Units(m)
    /\ UNCHANGED sender

\* pkg_send, and pkg_stream of a larger one: a small message goes out with what
\* is queued, in one write.
Together(m) == stream # <<>> /\ m.len <= MaxQLen /\ Fits(m.len)
SendQueued(m) ==
    /\ Together(m)
    /\ LET s == stream \o Units(m)
       IN \E k \in 0 .. Len(s) : Wrote(s, k, "flush") /\ Rest(s, k) /\ Failed(k)

\* Mutant: what is queued is not flushed first.
SendDirectFirst(m) ==
    /\ ~Together(m)
    /\ Put(Units(m), Size(m))
    /\ UNCHANGED <<stream, sender>>
\* Otherwise what is queued is flushed, and the message is written after it,
\* whether the flush was complete or not.
SendDirect(m) ==
    /\ ~Together(m)
    /\ \E j \in 0 .. Len(stream) :
         /\ 0 < j /\ j < Len(stream) => "send" \in Interrupted
         /\ stream # <<>> => j > 0
         /\ Put(SubSeq(stream, 1, j) \o Units(m), j + Size(m))
         /\ Rest(stream, j)
    /\ UNCHANGED sender

Accept(m) == /\ sender = "open" /\ sent < MaxMessages /\ m.id = sent + 1
             /\ Queue(m) \/ SendQueued(m) \/ SendDirect(m)
             /\ sent' = sent + 1
             /\ UNCHANGED <<input, reading>>

\* pkg_send fails before the message, or within it: some of it may be out.
Refuse(m) == /\ sender = "open" /\ sent < MaxMessages /\ m.id = sent + 1
             /\ ~Together(m)
             /\ sender' = "failed"
             /\ \/ stream # <<>> /\ UNCHANGED <<stream, wire>>
                \/ /\ \E k \in 0 .. Size(m) - 1 :
                        Put(stream \o Units(m), Len(stream) + k)
                   /\ stream' = <<>>
             /\ UNCHANGED <<sent, input, reading>>

Flush == /\ sender = "open" /\ stream # <<>>
         /\ \E k \in 0 .. Len(stream) :
              Wrote(stream, k, "flush") /\ Rest(stream, k) /\ Failed(k)
         /\ UNCHANGED <<sent, input, reading>>

\* pkg_close flushes once; what does not go out then is lost. So is all that is
\* queued if the process ends.
Close == /\ sender # "closed"
         /\ sender' = "closed" /\ stream' = <<>>
         /\ \E k \in 0 .. Len(stream) : Wrote(stream, k, "flush")
         /\ UNCHANGED <<sent, input, reading>>
-----------------------------------------------------------------------------
(* The receiver.                                                            *)

\* pkg_suckin: where the unread input begins after "reset to beginning" and
\* "recopy data to buffer front", how long the buffer is then, and the room
\* behind the input.
Moved == IF inbuf = <<>> \/ incur >= (inlen * 7) \div 8 THEN 0 ELSE incur
Grown == IF inlen - (Moved + Len(inbuf)) < Slack THEN 2 * inlen ELSE inlen
\* Mutant: the room is measured from the start of the input.
AvailFromStart == Grown - Moved
Avail == Grown - (Moved + Len(inbuf))

\* The sender's end is closed and everything has been read.
AtEof == sender = "closed" /\ wire = <<>>
Readable == wire # <<>> \/ AtEof

\* read() of what has arrived by now, up to the room there is: nothing at the
\* end, or if there were no room.
Read(n) == /\ n <= Avail
           /\ n = 0 <=> AtEof \/ Avail = 0
           /\ inbuf' = inbuf \o SubSeq(wire, 1, n)
           /\ wire' = SubSeq(wire, n + 1, Len(wire))
Suckin(n) == Readable /\ Read(n) /\ incur' = Moved /\ inlen' = Grown

\* _pkg_checkin within pkg_send: input is read, but not acted upon.
Checkin == UNCHANGED <<wire, input>> \/ \E n \in 0 .. Len(wire) : Suckin(n)

Processing == at \in {"first", "third"}

\* _pkg_gethdr, once the whole header is in the input buffer.
GetHdr == /\ Processing /\ left < 0 /\ Len(inbuf) >= Hdr
          /\ got' = SubSeq(inbuf, 1, Hdr)
          /\ left' = inbuf[1].m.len
          /\ inbuf' = SubSeq(inbuf, Hdr + 1, Len(inbuf))
          /\ incur' = incur + Hdr
          /\ UNCHANGED <<output, wire, inlen, bad, at, work, handed>>

\* Take what is there, trimmed to the amount needed.
GetData ==
    LET n == IF Len(inbuf) > left THEN left ELSE Len(inbuf)
    IN /\ Processing /\ left > 0 /\ inbuf # <<>>
       /\ got' = got \o SubSeq(inbuf, 1, n)
       /\ left' = left - n
       /\ inbuf' = SubSeq(inbuf, n + 1, Len(inbuf))
       /\ incur' = incur + n
       /\ UNCHANGED <<output, wire, inlen, bad, at, work, handed>>

\* _pkg_dispatch: the connection's state is reset before the handler is called,
\* which queues the message, or answers it and so reads input.
Dispatch == /\ Processing /\ left = 0
            /\ handed' = got
            /\ got' = <<>> /\ left' = -1
            /\ LET m == got[1].m
               IN IF m.known
                  THEN /\ \/ work' = work + 1 /\ UNCHANGED <<wire, input>>
                          \/ UNCHANGED work /\ Checkin
                       /\ UNCHANGED bad
                  ELSE bad' = TRUE /\ UNCHANGED <<work, wire, input>>
            /\ UNCHANGED <<output, at>>

\* pkg_process returns once there is no whole header, or no more data. 
\* Mutant: after each message.
ProcessedEarly == left < 0 \/ (left > 0 /\ inbuf = <<>>)
Processed == (left < 0 /\ Len(inbuf) < Hdr) \/ (left > 0 /\ inbuf = <<>>)
Return == /\ Processing /\ Processed
          /\ at' = IF bad THEN "error" ELSE IF at = "first" THEN "select" ELSE "work"
          /\ UNCHANGED <<output, wire, input, got, left, bad, work, handed>>

\* select() waits for input, or only looks if there is work to do.
Select == /\ at = "select"
          /\ \/ \E n \in 0 .. Len(wire) :
                  Suckin(n) /\ at' = IF n = 0 THEN "eof" ELSE "third"
             \/ ~Readable /\ work > 0 /\ at' = "third" /\ UNCHANGED <<wire, input>>
          /\ UNCHANGED <<output, got, left, bad, work, handed>>

\* Mutant: the loop begins with select().
WorkThenSelect == /\ at = "work"
                  /\ IF work > 0 THEN work' = work - 1 /\ Checkin
                     ELSE UNCHANGED <<work, wire, input>>
                  /\ at' = "select"
                  /\ UNCHANGED <<output, got, left, bad, handed>>
\* One element of WorkHead: rendering, and an answer.
Work == /\ at = "work"
        /\ IF work > 0 THEN work' = work - 1 /\ Checkin
           ELSE UNCHANGED <<work, wire, input>>
        /\ at' = "first"
        /\ UNCHANGED <<output, got, left, bad, handed>>

Receive == GetHdr \/ GetData \/ Dispatch \/ Return \/ Select \/ Work
Over == sender = "closed" /\ at \in {"eof", "error"} /\ UNCHANGED vars

Next == \/ \E m \in Message : Accept(m) \/ Refuse(m)
        \/ Flush \/ Close \/ Receive \/ Over
Spec == Init /\ [][Next]_vars
\* The receiver is a process the system runs; the sender may do nothing more.
FairSpec == Spec /\ WF_vars(Receive)
-----------------------------------------------------------------------------
\* All there is of messages that have been sent and not handed over.
Pending == got \o inbuf \o wire \o stream

\* Every variable has its type; the buffers hold what they can hold; and what
\* pkc_left counts is missing from the message being read.
TypeOK == /\ sender \in {"open", "failed", "closed"}
          /\ sent \in 0 .. MaxMessages
          /\ Len(stream) <= StreamLen
          /\ inlen \in Nat /\ incur \in Nat /\ incur + Len(inbuf) <= inlen
          /\ IF got = <<>> THEN left = -1 ELSE Len(got) + left = Size(got[1].m)
          /\ left >= -1
          /\ bad \in BOOLEAN /\ work \in 0 .. MaxMessages
          /\ at \in {"first", "select", "third", "work", "eof", "error"}
          /\ handed \in {Nothing} \union {Units(m) : m \in Message}

\* The message in what was handed over last, if it is all there.
LastHanded == IF \E m \in Message : handed = Units(m) THEN handed[1].m ELSE Nothing

\* Through the two buffers and any cuts of the stream, messages of all lengths
\* stay whole and in order, streamed ones and others (pkg.h).
Channel == INSTANCE MsgChannel WITH
    Message <- Message, None <- Nothing,
    queue <- Whole(Pending), last <- LastHanded, open <- sender # "closed"
ChannelSpec == Channel!Spec

\* Before rtsrv waits, works or ends, every message that has arrived whole has
\* been handed over, also what pkg_send has read; at the end nothing is unread.
NoMessageWaits == /\ at \in {"select", "eof"} => Whole(got \o inbuf) = <<>>
                  /\ at = "eof" => wire = <<>>

\* A message that has left the sender is handed over, unless one before it has
\* no handler: then rtsrv gives up.
Arrived(n) == \E i \in DOMAIN wire : IsLast(wire[i]) /\ wire[i].m.id = n
HandedOver(n) == handed # Nothing /\ handed[1].m.id >= n
AllHandled == \A n \in 1 .. MaxMessages : Arrived(n) ~> (HandedOver(n) \/ at = "error")
=============================================================================
