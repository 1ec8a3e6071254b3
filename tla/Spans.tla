------------------------------- MODULE Spans -------------------------------
(***************************************************************************)
(* Pixel spans of the remrt dispatcher: struct list of remrt.c, an         *)
(* inclusive range of pixel numbers that belongs to one frame, and the     *)
(* lists of them (fr_todo) that the dispatcher trims and splits.           *)
(***************************************************************************)
EXTENDS Integers, Sequences

\* struct list: pixels start..stop, both inclusive, of a frame.
Span(f, a, b) == [frame |-> f, start |-> a, stop |-> b]

\* The pixels one span stands for.
PixelsOf(x) == x.start .. x.stop

\* The pixels some span of the list q stands for.
Pixels(q) == UNION {PixelsOf(q[i]) : i \in DOMAIN q}

\* No pixel is in two spans of the list.
Disjoint(q) ==
  \A i, j \in DOMAIN q : i # j => PixelsOf(q[i]) \cap PixelsOf(q[j]) = {}

\* BU_LIST_APPEND at the list head.
Push(x, q) == <<x>> \o q

\* task_server: the first lump pixels (at most) of the first span of q ...
Lump(q, lump) ==
  LET h == Head(q)
      last == h.start + lump - 1
  IN  Span(h.frame, h.start, IF last >= h.stop THEN h.stop ELSE last)

\* Mutant of WithoutLump: the remainder begins at b, not b + 1.
WithoutLumpMutant(q, lump) ==
  LET h == Head(q)
      b == h.start + lump - 1
  IN  IF b >= h.stop THEN Tail(q)
      ELSE Push([h EXCEPT !.start = b], Tail(q))

\* ... and what is left of q once that lump is handed out.
WithoutLump(q, lump) ==
  LET h == Head(q)
      b == h.start + lump - 1
  IN  IF b >= h.stop THEN Tail(q)
      ELSE Push([h EXCEPT !.start = b + 1], Tail(q))

\* Mutant of ListRemove: a span is only trimmed, never split in two.
ListRemoveMutant(q, a, b) ==
  [i \in DOMAIN q |->
     IF q[i].start <= a /\ a <= q[i].stop THEN [q[i] EXCEPT !.stop = a - 1] ELSE q[i]]

\* list_remove(): the first span of q that begins at a, ends at b or meets
\* a..b is dropped, trimmed or split.
ListRemove(q, a, b) ==
  LET hits == {i \in DOMAIN q : q[i].start = a \/ q[i].stop = b
                                 \/ (a <= q[i].stop /\ q[i].start <= b)}
      i == CHOOSE j \in hits : \A k \in hits : j <= k
      before == [q[i] EXCEPT !.stop = a - 1]
      after == [q[i] EXCEPT !.start = b + 1]
      kept == CASE q[i].start = a /\ q[i].stop = b -> <<>>
                [] q[i].start = a /\ q[i].stop # b -> <<after>>
                [] q[i].start # a /\ q[i].stop = b -> <<before>>
                [] OTHER -> <<before, after>>
  IN  IF hits = {} THEN q
      ELSE SubSeq(q, 1, i - 1) \o kept \o SubSeq(q, i + 1, Len(q))

=============================================================================
