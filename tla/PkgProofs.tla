------------------------------ MODULE PkgProofs ------------------------------
(* The proofs about Pkg, for messages and buffers of any size: what is sent *)
(* and not handed over is always whole messages one after the other.        *)
EXTENDS Pkg, TLAPS, WellFoundedInduction, SequenceTheorems

-----------------------------------------------------------------------------
(* Induction over the length of a sequence.                                *)

Below == {ss \in Nat \X Nat : ss[1] < ss[2]}

\* The order of the naturals, as a relation, is well founded.
LEMMA BelowWellFounded == IsWellFoundedOn(Below, Nat)
<1>1. OpToRel(<, Nat) = Below
  BY Zenon DEF OpToRel, Below
<1> QED
  BY <1>1, NatLessThanWellFounded, Zenon

\* A set that holds 0 and, with every number below N, the next one.
LEMMA Climbs ==
  ASSUME NEW N \in Nat, NEW T, 0 \in T, \A n \in 1 .. N : n - 1 \in T => n \in T
  PROVE  \A n \in 0 .. N : n \in T
<1> DEFINE Missed == {n \in 0 .. N : n \notin T}
<1> SUFFICES ASSUME Missed # {} PROVE FALSE
  OBVIOUS
<1>1. Missed \subseteq Nat
  OBVIOUS
<1>2. PICK n \in Missed : \A m \in Missed : ~(<<m, n>> \in Below)
  BY <1>1, BelowWellFounded, WFMin
<1>3. n # 0 /\ n \in 0 .. N /\ n \notin T
  OBVIOUS
<1>4. n \in 1 .. N /\ n - 1 \in 0 .. N /\ <<n - 1, n>> \in Below
  BY <1>3 DEF Below
<1>5. n - 1 \in T
  BY <1>2, <1>4
<1> QED
  BY <1>3, <1>4, <1>5

-----------------------------------------------------------------------------
(* The units of a message, and the messages that are whole in a stream.     *)

Unit == {u \in [m : Message, k : Nat] : u.k \in 1 .. Size(u.m)}
Stream == Seq(Unit)

\* Done is what its recursion says, for every stream.
LEMMA DoneIs ==
  ASSUME NEW s \in Stream
  PROVE  /\ Done(s) \in [0 .. Len(s) -> Seq(Message)]
         /\ Done(s)[0] = <<>>
         /\ \A n \in 1 .. Len(s) :
              Done(s)[n] = IF IsLast(s[n]) THEN Append(Done(s)[n - 1], s[n].m)
                           ELSE Done(s)[n - 1]
<1> DEFINE X == Seq(Message)
           E(u, n) == IF n = 0 THEN <<>>
                      ELSE IF IsLast(s[n]) THEN Append(u[n - 1], s[n].m) ELSE u[n - 1]
           P(u) == u = [n \in 0 .. Len(s) |-> E(u, n)]
           Upto(k, u) == \A n \in 0 .. k : u[n] = E(u, n)
           T == {k \in 0 .. Len(s) : \E u \in [0 .. Len(s) -> X] : Upto(k, u)}
<1>0. /\ Len(s) \in Nat
      /\ \A n \in 1 .. Len(s) : s[n] \in Unit /\ s[n].m \in Message
  BY DEF Stream, Unit
<1>1. 0 \in T
  <2>1. [n \in 0 .. Len(s) |-> <<>>] \in [0 .. Len(s) -> X]
    OBVIOUS
  <2>2. Upto(0, [n \in 0 .. Len(s) |-> <<>>])
    BY <1>0
  <2> HIDE DEF Upto, X
  <2> QED
    BY <1>0, <2>1, <2>2
<1>2. ASSUME NEW k \in 1 .. Len(s), k - 1 \in T PROVE k \in T
  <2>1. PICK u \in [0 .. Len(s) -> X] : Upto(k - 1, u)
    BY <1>2
  <2>2. k \in 0 .. Len(s) /\ k - 1 \in 0 .. Len(s) /\ k # 0
    BY <1>0
  <2>3. E(u, k) \in X
    BY <1>0, <2>2
  <2> DEFINE v == [u EXCEPT ![k] = E(u, k)]
  <2>4. v \in [0 .. Len(s) -> X]
    BY <2>2, <2>3
  <2>5. ASSUME NEW n \in 0 .. k PROVE v[n] = E(v, n)
    <3>1. n \in 0 .. Len(s) /\ (n # 0 => n - 1 \in 0 .. Len(s) /\ n - 1 # k)
      BY <1>0
    <3>2. n # 0 => v[n - 1] = u[n - 1]
      BY <3>1
    <3>3. E(v, n) = E(u, n)
      BY <3>2
    <3>4. v[n] = E(u, n)
      <4>1. CASE n = k
        BY <2>2, <4>1
      <4>2. CASE n # k
        <5>1. n \in 0 .. k - 1 /\ v[n] = u[n]
          BY <1>0, <3>1, <4>2
        <5> QED
          BY <2>1, <5>1
      <4> QED
        BY <4>1, <4>2
    <3> QED
      BY <3>3, <3>4
  <2> HIDE DEF v, E
  <2> QED
    BY <2>2, <2>4, <2>5
<1> HIDE DEF T
<1>3. Len(s) \in T
  <2>1. \A n \in 0 .. Len(s) : n \in T
    BY <1>0, <1>1, <1>2, Climbs
  <2> QED
    BY <1>0, <2>1
<1>4. PICK u \in [0 .. Len(s) -> X] : Upto(Len(s), u)
  BY <1>3 DEF T
<1>5. P(u)
  <2>1. u = [n \in 0 .. Len(s) |-> u[n]]
    BY <1>4
  <2> HIDE DEF E, X
  <2> QED
    BY <1>4, <2>1
<1>6. \E w : P(w)
  BY <1>5
<1>7. Done(s) = CHOOSE w : P(w)
  BY Zenon DEF Done
<1>8. P(CHOOSE w : P(w))
  BY <1>6, Zenon
<1>9. P(Done(s))
  BY <1>7, <1>8, Zenon
<1> DEFINE W == Done(s)
<1>10. W = [n \in 0 .. Len(s) |-> E(W, n)]
  BY <1>9
<1> HIDE DEF W, E
<1>11. \A n \in 0 .. Len(s) : W[n] = E(W, n)
  BY <1>10, Zenon
<1>12. \A n \in 0 .. Len(s) : W[n] \in X
  <2> DEFINE D == {n \in 0 .. Len(s) : W[n] \in X}
  <2>1. 0 \in D
    <3>1. 0 \in 0 .. Len(s) /\ <<>> \in Seq(Message)
      BY <1>0
    <3>2. W[0] = <<>>
      BY <1>11, <3>1, Zenon DEF E
    <3> QED
      BY <3>1, <3>2, Zenon
  <2>2. ASSUME NEW n \in 1 .. Len(s), n - 1 \in D PROVE n \in D
    <3>1. n \in 0 .. Len(s) /\ n # 0 /\ W[n - 1] \in X
      BY <1>0, <2>2
    <3>2. W[n] = E(W, n)
      BY <1>11, <3>1
    <3>3. E(W, n) \in X
      <4>1. n \in 1 .. Len(s) /\ s[n].m \in Message
        BY <1>0
      <4>2. \A q \in Seq(Message), m \in Message : Append(q, m) \in Seq(Message)
        OBVIOUS
      <4>3. IsLast(s[n]) => E(W, n) = Append(W[n - 1], s[n].m)
        BY <3>1 DEF E
      <4>4. ~IsLast(s[n]) => E(W, n) = W[n - 1]
        BY <3>1 DEF E
      <4> QED
        BY <3>1, <4>1, <4>2, <4>3, <4>4, Zenon
    <3> QED
      BY <3>1, <3>2, <3>3
  <2> HIDE DEF D
  <2>3. \A n \in 0 .. Len(s) : n \in D
    BY <1>0, <2>1, <2>2, Climbs
  <2> QED
    BY <2>3 DEF D
<1>13. W \in [0 .. Len(s) -> X]
  <2> HIDE DEF X
  <2>1. W = [n \in 0 .. Len(s) |-> W[n]]
    BY <1>10, <1>11, Zenon
  <2> QED
    BY <1>12, <2>1
<1>14. /\ W[0] = <<>>
       /\ \A n \in 1 .. Len(s) : W[n] = IF IsLast(s[n]) THEN Append(W[n - 1], s[n].m) ELSE W[n - 1]
  BY <1>0, <1>11 DEF E
<1> QED
  BY <1>13, <1>14 DEF W

\* What is whole in a stream and in another behind it.
LEMMA WholeCat ==
  ASSUME NEW s \in Stream, NEW t \in Stream
  PROVE  /\ Whole(s) \in Seq(Message)
         /\ Whole(s \o t) = Whole(s) \o Whole(t)
<1> DEFINE st == s \o t
           W == Done(st)
           S == Done(s)
           U == Done(t)
<1>1. /\ st \in Stream /\ Len(st) = Len(s) + Len(t)
      /\ Len(s) \in Nat /\ Len(t) \in Nat
      /\ \A i \in 1 .. Len(s) : st[i] = s[i]
      /\ \A i \in 1 .. Len(t) : st[Len(s) + i] = t[i]
  BY DEF Stream
<1>2. /\ S \in [0 .. Len(s) -> Seq(Message)] /\ S[0] = <<>>
      /\ \A n \in 1 .. Len(s) :
           S[n] = IF IsLast(s[n]) THEN Append(S[n - 1], s[n].m) ELSE S[n - 1]
  BY DoneIs
<1>3. /\ U \in [0 .. Len(t) -> Seq(Message)] /\ U[0] = <<>>
      /\ \A n \in 1 .. Len(t) :
           U[n] = IF IsLast(t[n]) THEN Append(U[n - 1], t[n].m) ELSE U[n - 1]
  BY DoneIs
<1>4. /\ W \in [0 .. Len(st) -> Seq(Message)] /\ W[0] = <<>>
      /\ \A n \in 1 .. Len(st) :
           W[n] = IF IsLast(st[n]) THEN Append(W[n - 1], st[n].m) ELSE W[n - 1]
  BY <1>1, DoneIs
<1>5. \A i \in 1 .. Len(t) : t[i].m \in Message
  BY DEF Stream, Unit
<1> HIDE DEF W, S, U, st
<1>6. \A n \in 0 .. Len(s) : W[n] = S[n]
  <2> DEFINE T == {n \in 0 .. Len(s) : W[n] = S[n]}
  <2>1. 0 \in T
    BY <1>1, <1>2, <1>4
  <2>2. ASSUME NEW n \in 1 .. Len(s), n - 1 \in T PROVE n \in T
    <3>1. n \in 1 .. Len(st) /\ n \in 0 .. Len(s) /\ W[n - 1] = S[n - 1] /\ st[n] = s[n]
      BY <1>1, <2>2
    <3> QED
      BY <1>2, <1>4, <3>1
  <2> HIDE DEF T
  <2>3. \A n \in 0 .. Len(s) : n \in T
    BY <1>1, <2>1, <2>2, Climbs
  <2> QED
    BY <2>3 DEF T
<1>7. \A n \in 0 .. Len(t) : W[Len(s) + n] = S[Len(s)] \o U[n]
  <2> DEFINE T == {n \in 0 .. Len(t) : W[Len(s) + n] = S[Len(s)] \o U[n]}
  <2>0. S[Len(s)] \in Seq(Message)
    BY <1>1, <1>2
  <2>1. 0 \in T
    <3>1. W[Len(s)] = S[Len(s)] /\ Len(s) + 0 = Len(s)
      BY <1>1, <1>6
    <3>2. S[Len(s)] \o U[0] = S[Len(s)]
      BY <1>3, <2>0, ConcatEmptySeq
    <3>3. W[Len(s) + 0] = S[Len(s)] \o U[0]
      BY <3>1, <3>2, Zenon
    <3>4. 0 \in 0 .. Len(t)
      BY <1>1
    <3> QED
      BY <3>3, <3>4, Zenon
  <2>2. ASSUME NEW n \in 1 .. Len(t), n - 1 \in T PROVE n \in T
    <3>1. /\ Len(s) + n \in 1 .. Len(st) /\ n \in 0 .. Len(t) /\ n - 1 \in 0 .. Len(t)
          /\ Len(s) + n - 1 = Len(s) + (n - 1) /\ (Len(s) + n) - 1 = Len(s) + (n - 1)
      BY <1>1
    <3>2. st[Len(s) + n] = t[n] /\ W[Len(s) + (n - 1)] = S[Len(s)] \o U[n - 1]
      BY <1>1, <2>2
    <3>3. U[n - 1] \in Seq(Message) /\ t[n].m \in Message
      BY <1>3, <1>5, <3>1
    <3>4. CASE IsLast(t[n])
      <4>1. W[Len(s) + n] = Append(S[Len(s)] \o U[n - 1], t[n].m)
        BY <1>4, <3>1, <3>2, <3>4
      <4>2. U[n] = Append(U[n - 1], t[n].m)
        BY <1>3, <3>4
      <4>3. Append(S[Len(s)] \o U[n - 1], t[n].m) = S[Len(s)] \o Append(U[n - 1], t[n].m)
        <5>1. ASSUME NEW a \in Seq(Message), NEW b \in Seq(Message), NEW m \in Message
              PROVE  Append(a \o b, m) = a \o Append(b, m)
          <6>1. a \o b \in Seq(Message) /\ <<m>> \in Seq(Message)
            OBVIOUS
          <6>2. Append(a \o b, m) = (a \o b) \o <<m>> /\ Append(b, m) = b \o <<m>>
            BY <6>1, AppendIsConcat
          <6> QED
            BY <6>1, <6>2, ConcatAssociative
        <5> QED
          BY <2>0, <3>3, <5>1
      <4> QED
        BY <3>1, <4>1, <4>2, <4>3
    <3>5. CASE ~IsLast(t[n])
      <4>1. W[Len(s) + n] = S[Len(s)] \o U[n - 1]
        BY <1>4, <3>1, <3>2, <3>5
      <4>2. U[n] = U[n - 1]
        BY <1>3, <3>5
      <4> QED
        BY <3>1, <4>1, <4>2
    <3> QED
      BY <3>4, <3>5
  <2> HIDE DEF T
  <2>3. \A n \in 0 .. Len(t) : n \in T
    BY <1>1, <2>1, <2>2, Climbs
  <2> QED
    BY <2>3 DEF T
<1>8. /\ Whole(s) = S[Len(s)] /\ Whole(t) = U[Len(t)]
      /\ Whole(st) = W[Len(s) + Len(t)]
  BY <1>1 DEF Whole, W, S, U
<1>9. Whole(s) \in Seq(Message)
  BY <1>1, <1>2, <1>8
<1>10. Whole(st) = Whole(s) \o Whole(t)
  <2>1. Len(t) \in 0 .. Len(t)
    BY <1>1
  <2> QED
    BY <1>7, <1>8, <2>1
<1> QED
  BY <1>9, <1>10 DEF st

\* The units of a message: only the last of them is last.
LEMMA UnitsAre ==
  ASSUME NEW m \in Message
  PROVE  /\ Size(m) \in Nat \ {0} /\ Hdr <= Size(m)
         /\ Units(m) \in Stream /\ Len(Units(m)) = Size(m)
         /\ \A k \in 1 .. Size(m) : /\ Units(m)[k] = [m |-> m, k |-> k]
                                    /\ Units(m)[k] \in Unit
                                    /\ IsLast(Units(m)[k]) <=> k = Size(m)
<1>1. Size(m) \in Nat \ {0} /\ Hdr <= Size(m)
  <2>1. m.len \in Lengths
    BY DEF Message
  <2>2. m.len \in Nat /\ Hdr \in Nat \ {0}
    BY <2>1, PkgAssumption
  <2> QED
    BY <2>2 DEF Size
<1>2. \A k \in 1 .. Size(m) : [m |-> m, k |-> k] \in Unit
  BY <1>1 DEF Unit
<1>3. Units(m) \in [1 .. Size(m) -> Unit]
  BY <1>2 DEF Units
<1>4. Units(m) \in Stream /\ Len(Units(m)) = Size(m)
  BY <1>1, <1>3 DEF Stream
<1>5. \A k \in 1 .. Size(m) : Units(m)[k] = [m |-> m, k |-> k]
  BY DEF Units
<1> QED
  BY <1>1, <1>2, <1>4, <1>5 DEF IsLast

\* A stream without a last unit holds nothing whole.
LEMMA NoEnd ==
  ASSUME NEW s \in Stream, \A i \in 1 .. Len(s) : ~IsLast(s[i])
  PROVE  Whole(s) = <<>>
<1> DEFINE T == {n \in 0 .. Len(s) : Done(s)[n] = <<>>}
<1>0. Len(s) \in Nat
  BY DEF Stream
<1>1. 0 \in T
  BY <1>0, DoneIs
<1>2. \A n \in 1 .. Len(s) : n - 1 \in T => n \in T
  BY <1>0, DoneIs
<1> HIDE DEF T
<1>3. \A n \in 0 .. Len(s) : n \in T
  BY <1>0, <1>1, <1>2, Climbs
<1> QED
  BY <1>0, <1>3 DEF T, Whole

\* A message is whole in its units, and not in the first of them only.
LEMMA WholeUnits ==
  ASSUME NEW m \in Message
  PROVE  /\ Whole(Units(m)) = <<m>>
         /\ \A n \in 0 .. Size(m) - 1 : Whole(SubSeq(Units(m), 1, n)) = <<>>
<1> DEFINE u == Units(m)
           z == Size(m)
           D == Done(u)
<1>1. /\ z \in Nat \ {0} /\ u \in Stream /\ Len(u) = z
      /\ \A k \in 1 .. z : u[k] = [m |-> m, k |-> k] /\ u[k] \in Unit /\ (IsLast(u[k]) <=> k = z)
  BY UnitsAre
<1>2. /\ D[0] = <<>>
      /\ \A n \in 1 .. z : D[n] = IF IsLast(u[n]) THEN Append(D[n - 1], u[n].m) ELSE D[n - 1]
  BY <1>1, DoneIs
<1>3. Whole(u) = D[z]
  BY <1>1 DEF Whole
<1> HIDE DEF u, z, D
<1>4. z - 1 \in Nat /\ z \in 1 .. z /\ \A n \in 1 .. z - 1 : n \in 1 .. z /\ n # z
  BY <1>1
<1>5. D[z - 1] = <<>>
  <2> DEFINE T == {n \in 0 .. z - 1 : D[n] = <<>>}
  <2>1. 0 \in T
    BY <1>2, <1>4
  <2>2. ASSUME NEW n \in 1 .. z - 1, n - 1 \in T PROVE n \in T
    <3>1. n \in 1 .. z /\ n # z /\ n \in 0 .. z - 1 /\ D[n - 1] = <<>>
      BY <1>4, <2>2
    <3> QED
      BY <1>1, <1>2, <3>1
  <2> HIDE DEF T
  <2>3. \A n \in 0 .. z - 1 : n \in T
    BY <1>4, <2>1, <2>2, Climbs
  <2> QED
    BY <1>4, <2>3 DEF T
<1>6. D[z] = <<m>>
  <2>1. IsLast(u[z]) /\ u[z].m = m
    BY <1>1, <1>4
  <2>2. D[z] = Append(<<>>, m)
    BY <1>2, <1>4, <1>5, <2>1, Zenon
  <2> QED
    BY <2>2
<1>7. ASSUME NEW n \in 0 .. z - 1 PROVE Whole(SubSeq(u, 1, n)) = <<>>
  <2>1. n \in Int /\ 1 \in Int /\ (\A i \in 1 .. n : i \in 1 .. z /\ i # z)
    BY <1>1
  <2>2. /\ SubSeq(u, 1, n) \in Seq(Unit) /\ Len(SubSeq(u, 1, n)) = n
        /\ \A i \in 1 .. n : SubSeq(u, 1, n)[i] = u[i]
    BY <1>1, <2>1 DEF Stream
  <2>3. \A i \in 1 .. Len(SubSeq(u, 1, n)) : ~IsLast(SubSeq(u, 1, n)[i])
    BY <1>1, <2>1, <2>2
  <2> QED
    BY <2>2, <2>3, NoEnd DEF Stream
<1> QED
  BY <1>3, <1>6, <1>7 DEF u, z

\* A stream cut in two.
LEMMA Cut ==
  ASSUME NEW s \in Stream, NEW n \in 0 .. Len(s)
  PROVE  /\ SubSeq(s, 1, n) \in Stream /\ Len(SubSeq(s, 1, n)) = n
         /\ \A i \in 1 .. n : SubSeq(s, 1, n)[i] = s[i]
         /\ SubSeq(s, n + 1, Len(s)) \in Stream
         /\ Len(SubSeq(s, n + 1, Len(s))) = Len(s) - n
         /\ SubSeq(s, 1, n) \o SubSeq(s, n + 1, Len(s)) = s
<1>1. Len(s) \in Nat /\ n \in Nat /\ (\A i \in 1 .. Len(s) : s[i] \in Unit)
  BY DEF Stream
<1>2. /\ SubSeq(s, 1, n) \in Stream /\ Len(SubSeq(s, 1, n)) = n
      /\ \A i \in 1 .. n : SubSeq(s, 1, n)[i] = s[i]
  BY <1>1 DEF Stream
<1>3. /\ SubSeq(s, n + 1, Len(s)) \in Stream
      /\ Len(SubSeq(s, n + 1, Len(s))) = Len(s) - n
  BY <1>1 DEF Stream
<1>4. SubSeq(s, 1, n) \o SubSeq(s, n + 1, Len(s)) = SubSeq(s, 1, Len(s))
  <2>1. 1 \in 1 .. Len(s) + 1 /\ n \in 1 - 1 .. Len(s) /\ Len(s) \in n .. Len(s)
    BY <1>1
  <2> QED
    BY <2>1, ConcatAdjacentSubSeq, Zenon DEF Stream
<1>5. SubSeq(s, 1, Len(s)) = s
  BY SubSeqFull DEF Stream
<1> QED
  BY <1>2, <1>3, <1>4, <1>5

\* Two streams one behind the other.
LEMMA Cat ==
  ASSUME NEW s \in Stream, NEW t \in Stream
  PROVE  /\ s \o t \in Stream /\ Len(s \o t) = Len(s) + Len(t)
         /\ \A i \in 1 .. Len(s) : (s \o t)[i] = s[i]
         /\ \A i \in 1 .. Len(t) : (s \o t)[Len(s) + i] = t[i]
BY DEF Stream

-----------------------------------------------------------------------------
(* Streams in which each unit has its place: the messages follow each other *)
(* unit by unit, the last one may be cut off.                               *)

NextTo(u, v) == IF IsLast(u) THEN v.k = 1 ELSE v.m = u.m /\ v.k = u.k + 1
Clean(s) == /\ s \in Stream
            /\ s # <<>> => s[1].k = 1
            /\ \A i \in 1 .. Len(s) - 1 : NextTo(s[i], s[i + 1])
Ended(s) == s # <<>> => IsLast(s[Len(s)])

\* A clean stream begins with a message, as much of it as there is.
LEMMA Framing ==
  ASSUME NEW s, Clean(s), NEW j \in 1 .. Len(s), j <= Size(s[1].m)
  PROVE  s[j] = [m |-> s[1].m, k |-> j]
<1> DEFINE m == s[1].m
           T == {n \in 0 .. j : n > 0 => s[n] = [m |-> m, k |-> n]}
<1>1. /\ Len(s) \in Nat /\ j \in Nat /\ s # <<>>
      /\ \A i \in 1 .. Len(s) : s[i] \in [m : Message, k : Nat]
      /\ 1 \in 1 .. Len(s)
  BY DEF Clean, Stream, Unit
<1>2. Size(m) \in Nat \ {0} /\ j <= Size(m)
  BY <1>1, UnitsAre
<1>3. 0 \in T
  BY <1>1
<1>4. ASSUME NEW n \in 1 .. j, n - 1 \in T PROVE n \in T
  <2>1. n \in 1 .. Len(s) /\ n \in 0 .. j /\ s[n] \in [m : Message, k : Nat]
    BY <1>1
  <2>2. CASE n = 1
    <3>1. s[n].m = m /\ s[n].k = 1
      BY <1>1, <2>2 DEF Clean
    <3> QED
      BY <2>1, <2>2, <3>1
  <2>3. CASE n # 1
    <3>1. n - 1 \in 1 .. Len(s) - 1 /\ n - 1 > 0 /\ (n - 1) + 1 = n /\ n - 1 < j
      BY <1>1, <2>1, <2>3
    <3>2. s[n - 1] = [m |-> m, k |-> n - 1]
      BY <1>4, <3>1
    <3>3. ~IsLast(s[n - 1])
      BY <1>1, <1>2, <3>1, <3>2 DEF IsLast
    <3>4. NextTo(s[n - 1], s[n])
      BY <3>1 DEF Clean
    <3>5. s[n].m = m /\ s[n].k = n
      BY <3>1, <3>2, <3>3, <3>4 DEF NextTo
    <3> QED
      BY <2>1, <3>5
  <2> QED
    BY <2>2, <2>3
<1> HIDE DEF T
<1>5. \A n \in 0 .. j : n \in T
  BY <1>1, <1>3, <1>4, Climbs
<1>6. j \in T /\ j > 0
  BY <1>1, <1>5
<1> QED
  BY <1>6 DEF T

\* As much of a clean stream as is short of its first message holds none.
LEMMA Short ==
  ASSUME NEW s, Clean(s), s # <<>> => Len(s) < Size(s[1].m)
  PROVE  Whole(s) = <<>>
<1>1. ASSUME NEW i \in 1 .. Len(s) PROVE ~IsLast(s[i])
  <2>1. s # <<>> /\ i \in Nat /\ Len(s) \in Nat /\ s[1].m \in Message
    BY DEF Clean, Stream, Unit
  <2>2. Size(s[1].m) \in Nat
    BY <2>1, UnitsAre
  <2>3. i < Size(s[1].m)
    BY <2>1, <2>2
  <2>4. s[i] = [m |-> s[1].m, k |-> i]
    BY <2>2, <2>3, Framing
  <2> QED
    BY <2>1, <2>2, <2>3, <2>4 DEF IsLast
<1> QED
  BY <1>1, NoEnd DEF Clean

\* The first part of a clean stream is clean.
LEMMA CleanPart ==
  ASSUME NEW s \in Stream, NEW t \in Stream, Clean(s \o t)
  PROVE  Clean(s)
<1>1. /\ Len(s) \in Nat /\ Len(t) \in Nat
      /\ Len(s \o t) = Len(s) + Len(t)
      /\ \A i \in 1 .. Len(s) : (s \o t)[i] = s[i]
  BY Cat DEF Stream
<1>2. ASSUME s # <<>> PROVE s[1].k = 1
  <2>1. 1 \in 1 .. Len(s) /\ s \o t # <<>>
    BY <1>1, <1>2 DEF Stream
  <2> QED
    BY <1>1, <2>1 DEF Clean
<1>3. ASSUME NEW i \in 1 .. Len(s) - 1 PROVE NextTo(s[i], s[i + 1])
  <2>1. i \in 1 .. Len(s) /\ i + 1 \in 1 .. Len(s) /\ i \in 1 .. Len(s \o t) - 1
    BY <1>1
  <2>2. (s \o t)[i] = s[i] /\ (s \o t)[i + 1] = s[i + 1]
    BY <1>1, <2>1
  <2>3. NextTo((s \o t)[i], (s \o t)[i + 1])
    BY <2>1 DEF Clean
  <2> QED
    BY <2>2, <2>3
<1> QED
  BY <1>2, <1>3 DEF Clean

\* Behind the last unit of a message, what follows is clean as well.
LEMMA CleanRest ==
  ASSUME NEW s \in Stream, NEW t \in Stream, Clean(s \o t), s # <<>>, Ended(s)
  PROVE  Clean(t)
<1>1. /\ Len(s) \in Nat \ {0} /\ Len(t) \in Nat
      /\ Len(s \o t) = Len(s) + Len(t)
      /\ \A i \in 1 .. Len(s) : (s \o t)[i] = s[i]
      /\ \A i \in 1 .. Len(t) : (s \o t)[Len(s) + i] = t[i]
  BY Cat DEF Stream
<1>2. ASSUME t # <<>> PROVE t[1].k = 1
  <2>1. 1 \in 1 .. Len(t) /\ Len(s) \in 1 .. Len(s) /\ Len(s) \in 1 .. Len(s \o t) - 1
    BY <1>1, <1>2 DEF Stream
  <2>2. (s \o t)[Len(s)] = s[Len(s)] /\ (s \o t)[Len(s) + 1] = t[1]
    BY <1>1, <2>1
  <2>3. NextTo(s[Len(s)], t[1])
    BY <2>1, <2>2 DEF Clean
  <2> QED
    BY <2>3 DEF NextTo, Ended
<1>3. ASSUME NEW i \in 1 .. Len(t) - 1 PROVE NextTo(t[i], t[i + 1])
  <2>1. /\ i \in 1 .. Len(t) /\ i + 1 \in 1 .. Len(t)
        /\ Len(s) + i \in 1 .. Len(s \o t) - 1
        /\ Len(s) + (i + 1) = (Len(s) + i) + 1
    BY <1>1
  <2>2. (s \o t)[Len(s) + i] = t[i] /\ (s \o t)[(Len(s) + i) + 1] = t[i + 1]
    BY <1>1, <2>1
  <2>3. NextTo((s \o t)[Len(s) + i], (s \o t)[(Len(s) + i) + 1])
    BY <2>1 DEF Clean
  <2> QED
    BY <2>2, <2>3
<1> QED
  BY <1>2, <1>3 DEF Clean

\* A message, or the first part of one, behind a stream that is at its end.
LEMMA CleanMore ==
  ASSUME NEW s, Clean(s), Ended(s), NEW t, Clean(t)
  PROVE  Clean(s \o t) /\ (t # <<>> => Ended(s \o t) = Ended(t))
<1>1. /\ s \in Stream /\ t \in Stream /\ s \o t \in Stream
      /\ Len(s) \in Nat /\ Len(t) \in Nat
      /\ Len(s \o t) = Len(s) + Len(t)
      /\ \A i \in 1 .. Len(s) : (s \o t)[i] = s[i]
      /\ \A i \in 1 .. Len(t) : (s \o t)[Len(s) + i] = t[i]
      /\ s = <<>> <=> Len(s) = 0
      /\ t = <<>> <=> Len(t) = 0
      /\ s \o t = <<>> <=> Len(s) = 0 /\ Len(t) = 0
  BY Cat DEF Clean, Stream
<1>2. ASSUME s \o t # <<>> PROVE (s \o t)[1].k = 1
  <2>1. CASE s # <<>>
    <3>1. 1 \in 1 .. Len(s)
      BY <1>1, <2>1
    <3> QED
      BY <1>1, <2>1, <3>1 DEF Clean
  <2>2. CASE s = <<>>
    <3>1. Len(s) = 0 /\ 1 \in 1 .. Len(t) /\ Len(s) + 1 = 1 /\ t # <<>>
      BY <1>1, <1>2, <2>2
    <3>2. (s \o t)[1] = t[1]
      BY <1>1, <3>1
    <3> QED
      BY <3>1, <3>2 DEF Clean
  <2> QED
    BY <2>1, <2>2
<1>3. ASSUME NEW i \in 1 .. Len(s \o t) - 1 PROVE NextTo((s \o t)[i], (s \o t)[i + 1])
  <2>1. CASE i < Len(s)
    <3>1. i \in 1 .. Len(s) - 1 /\ i \in 1 .. Len(s) /\ i + 1 \in 1 .. Len(s)
      BY <1>1, <2>1
    <3> QED
      BY <1>1, <3>1 DEF Clean
  <2>2. CASE i = Len(s)
    <3>1. i \in 1 .. Len(s) /\ 1 \in 1 .. Len(t) /\ s # <<>> /\ t # <<>>
      BY <1>1, <2>2
    <3>2. (s \o t)[i] = s[Len(s)] /\ (s \o t)[i + 1] = t[1]
      BY <1>1, <2>2, <3>1
    <3>3. IsLast(s[Len(s)]) /\ t[1].k = 1
      BY <3>1 DEF Clean, Ended
    <3> QED
      BY <3>2, <3>3 DEF NextTo
  <2>3. CASE i > Len(s)
    <3> DEFINE j == i - Len(s)
    <3>1. /\ j \in 1 .. Len(t) - 1 /\ j \in 1 .. Len(t) /\ j + 1 \in 1 .. Len(t)
          /\ Len(s) + j = i /\ Len(s) + (j + 1) = i + 1
      BY <1>1, <2>3
    <3> HIDE DEF j
    <3>2. (s \o t)[i] = t[j] /\ (s \o t)[i + 1] = t[j + 1]
      BY <1>1, <3>1
    <3> QED
      BY <3>1, <3>2 DEF Clean
  <2> QED
    BY <1>1, <2>1, <2>2, <2>3
<1>4. ASSUME t # <<>> PROVE Ended(s \o t) = Ended(t)
  <2>1. Len(t) \in 1 .. Len(t) /\ s \o t # <<>>
    BY <1>1, <1>4
  <2>2. (s \o t)[Len(s \o t)] = t[Len(t)]
    BY <1>1, <2>1
  <2> QED
    BY <1>4, <2>1, <2>2 DEF Ended
<1> QED
  BY <1>1, <1>2, <1>3, <1>4 DEF Clean

\* The units of a message are clean, and so are the first of them.
LEMMA CleanUnits ==
  ASSUME NEW m \in Message
  PROVE  /\ Clean(Units(m)) /\ Ended(Units(m)) /\ Units(m) # <<>>
         /\ \A n \in 0 .. Size(m) : /\ SubSeq(Units(m), 1, n) \in Stream
                                    /\ Clean(SubSeq(Units(m), 1, n))
<1> DEFINE u == Units(m)
           z == Size(m)
<1>1. /\ z \in Nat \ {0} /\ u \in Stream /\ Len(u) = z
      /\ \A k \in 1 .. z : u[k] = [m |-> m, k |-> k] /\ (IsLast(u[k]) <=> k = z)
  BY UnitsAre
<1> HIDE DEF u, z
<1>2. u # <<>> /\ 1 \in 1 .. z /\ z \in 1 .. z
  BY <1>1 DEF Stream
<1>3. ASSUME NEW i \in 1 .. Len(u) - 1 PROVE NextTo(u[i], u[i + 1])
  <2>1. i \in 1 .. z /\ i + 1 \in 1 .. z /\ i # z
    BY <1>1
  <2> QED
    BY <1>1, <2>1 DEF NextTo
<1>4. Clean(u) /\ Ended(u)
  BY <1>1, <1>2, <1>3 DEF Clean, Ended
<1>5. ASSUME NEW n \in 0 .. z
      PROVE  SubSeq(u, 1, n) \in Stream /\ Clean(SubSeq(u, 1, n))
  <2>1. /\ SubSeq(u, 1, n) \in Stream /\ SubSeq(u, n + 1, Len(u)) \in Stream
        /\ SubSeq(u, 1, n) \o SubSeq(u, n + 1, Len(u)) = u
    BY <1>1, Cut
  <2> QED
    BY <1>4, <2>1, CleanPart
<1> QED
  BY <1>2, <1>4, <1>5 DEF u, z

\* What _pkg_dispatch hands over is a message, header and data, and what is
\* behind it is as clean as it was with it.
LEMMA FirstWhole ==
  ASSUME NEW s \in Stream, NEW t \in Stream, Clean(s \o t),
         s # <<>>, Len(s) = Size(s[1].m)
  PROVE  /\ s[1].m \in Message /\ s = Units(s[1].m)
         /\ Clean(t) /\ Whole(s \o t) = <<s[1].m>> \o Whole(t)
         /\ t # <<>> => Ended(s \o t) = Ended(t)
<1> DEFINE m == s[1].m
<1>1. /\ Clean(s) /\ Len(s) \in Nat /\ 1 \in 1 .. Len(s) /\ m \in Message
  BY CleanPart DEF Stream, Unit
<1>2. /\ Size(m) \in Nat \ {0} /\ Units(m) \in Stream /\ Len(Units(m)) = Size(m)
      /\ \A k \in 1 .. Size(m) : Units(m)[k] = [m |-> m, k |-> k]
  BY <1>1, UnitsAre
<1>3. \A k \in 1 .. Len(s) : s[k] = [m |-> m, k |-> k]
  BY <1>1, <1>2, Framing
<1> HIDE DEF m
<1>4. s = Units(m)
  <2>1. Len(s) = Len(Units(m)) /\ \A k \in 1 .. Len(s) : s[k] = Units(m)[k]
    BY <1>2, <1>3 DEF m
  <2> QED
    BY <1>2, <2>1, SeqEqual DEF Stream
<1>5. Ended(s)
  BY <1>1, <1>4, CleanUnits
<1>6. Clean(t)
  BY <1>5, CleanRest
<1>7. Whole(s) = <<m>> /\ Whole(s \o t) = Whole(s) \o Whole(t)
  BY <1>1, <1>4, WholeUnits, WholeCat
<1>8. t # <<>> => Ended(s \o t) = Ended(t)
  BY <1>1, <1>5, <1>6, CleanMore
<1> QED
  BY <1>1, <1>4, <1>6, <1>7, <1>8 DEF m

-----------------------------------------------------------------------------
(* The inductive invariant.                                                 *)

TypeInv == /\ sender \in {"open", "failed", "closed"}
           /\ sent \in 0 .. MaxMessages
           /\ got \in Stream /\ inbuf \in Stream /\ wire \in Stream /\ stream \in Stream
           /\ incur \in Nat /\ inlen \in Nat \ {0} /\ incur + Len(inbuf) <= inlen
           /\ bad \in BOOLEAN /\ work \in Nat
           /\ at \in {"first", "select", "third", "work", "eof", "error"}
           /\ handed \in {Nothing} \cup {Units(m) : m \in Message}

\* What is on its way is clean, and a sender that may go on is between messages.
Framed == /\ Clean(Pending)
          /\ sender = "open" => Ended(Pending)

\* pkc_left is what is missing from the message being read.
Reading == IF got = <<>> THEN left = -1
           ELSE left \in Nat /\ Len(got) + left = Size(got[1].m)

\* rtsrv waits, or has ended, only once all is processed and, at the end, read.
Looping == /\ at \in {"select", "eof"} => Processed
           /\ at = "eof" => sender = "closed" /\ wire = <<>>

\* The messages on WorkHead have been sent, and are not on their way any more.
Counted == work + Len(Whole(Pending)) <= sent

PkgInv == TypeInv /\ Framed /\ Reading /\ Looping /\ Counted

-----------------------------------------------------------------------------
(* What each step does to all that is on its way.                           *)

\* Concatenation does not depend on the grouping.
LEMMA Assoc ==
  ASSUME NEW a \in Stream, NEW b \in Stream, NEW c \in Stream
  PROVE  (a \o b) \o c = a \o (b \o c)
BY ConcatAssociative DEF Stream

\* The empty stream, in front of another and behind it.
LEMMA NoneBehind ==
  /\ <<>> \in Stream
  /\ \A s \in Stream : s \o <<>> = s /\ <<>> \o s = s
  /\ \A s \in Stream : Len(s) \in Nat /\ (s = <<>> <=> Len(s) = 0)
<1>1. \A s \in Seq(Unit) : s \o <<>> = s /\ <<>> \o s = s
  BY ConcatEmptySeq
<1>2. <<>> \in Seq(Unit) /\ \A s \in Seq(Unit) : Len(s) \in Nat /\ (s = <<>> <=> Len(s) = 0)
  OBVIOUS
<1> QED
  BY <1>1, <1>2, Zenon DEF Stream

\* All that is on its way is a stream.
LEMMA Four ==
  ASSUME NEW a \in Stream, NEW b \in Stream, NEW c \in Stream, NEW d \in Stream
  PROVE  ((a \o b) \o c) \o d \in Stream
<1>1. a \o b \in Stream
  BY Cat
<1>2. (a \o b) \o c \in Stream
  BY <1>1, Cat
<1> QED
  BY <1>2, Cat

\* What the sender adds to the wire and its buffer is behind all that is there.
LEMMA Behind ==
  ASSUME TypeInv, NEW x \in Stream, wire' \in Stream, stream' \in Stream,
         UNCHANGED <<got, inbuf>>, wire' \o stream' = (wire \o stream) \o x
  PROVE  Pending' = Pending \o x
<1> DEFINE e == got \o inbuf
           y == wire \o stream
<1>1. got \in Stream /\ inbuf \in Stream /\ wire \in Stream /\ stream \in Stream
  BY DEF TypeInv
<1>2. e \in Stream
  BY ONLY <1>1, Cat
<1>3. y \in Stream
  BY ONLY <1>1, Cat
<1> HIDE DEF e
<1>4. (e \o wire') \o stream' = e \o (wire' \o stream')
  <2>1. e \in Stream /\ wire' \in Stream /\ stream' \in Stream
    BY <1>2
  <2> QED
    BY ONLY <2>1, Assoc
<1>5. (e \o wire) \o stream = e \o y
  <2>1. e \in Stream /\ wire \in Stream /\ stream \in Stream
    BY <1>1, <1>2
  <2> QED
    BY ONLY <2>1, Assoc
<1> HIDE DEF y
<1>6. (e \o y) \o x = e \o (y \o x)
  <2>1. e \in Stream /\ y \in Stream /\ x \in Stream
    BY <1>2, <1>3
  <2> QED
    BY ONLY <2>1, Assoc
<1>7. wire' \o stream' = y \o x
  BY DEF y
<1>8. Pending = (e \o wire) \o stream
  BY DEF Pending, e
<1>9. Pending' = (e \o wire') \o stream'
  BY DEF Pending, e
<1> QED
  BY <1>4, <1>5, <1>6, <1>7, <1>8, <1>9, Zenon

\* A write of the first k units of s, and what is left of it.
LEMMA Writes ==
  ASSUME TypeInv, NEW s \in Stream, NEW k \in 0 .. Len(s), Put(s, k)
  PROVE  /\ wire' \in Stream
         /\ wire' \o SubSeq(s, k + 1, Len(s)) = wire \o s
         /\ k = Len(s) => wire' = wire \o s
<1> DEFINE p == SubSeq(s, 1, k)
           r == SubSeq(s, k + 1, Len(s))
<1>1. p \in Stream /\ r \in Stream /\ p \o r = s
  BY Cut
<1>2. k = Len(s) => p = s
  BY SubSeqFull DEF Stream
<1>3. wire' = wire \o p
  BY DEF Put
<1> HIDE DEF p, r
<1>4. wire \in Stream /\ p \in Stream /\ r \in Stream
  BY <1>1 DEF TypeInv
<1>5. (wire \o p) \o r = wire \o (p \o r)
  BY ONLY <1>4, Assoc
<1>6. wire \o p \in Stream
  BY ONLY <1>4, Cat
<1>7. wire' \in Stream /\ wire' \o r = wire \o s /\ (k = Len(s) => wire' = wire \o s)
  BY <1>1, <1>2, <1>3, <1>5, <1>6, Zenon
<1> QED
  BY <1>7 DEF r

\* pkg_stream and pkg_send put a message they accept behind all that is there.
LEMMA AcceptAdds ==
  ASSUME TypeInv, NEW m \in Message, Accept(m), "send" \notin Interrupted
  PROVE  /\ Pending' = Pending \o Units(m)
         /\ stream' \in Stream /\ wire' \in Stream
         /\ sender = "open" /\ sender' \in {"open", "failed"}
         /\ sent' = sent + 1 /\ sent < MaxMessages
         /\ UNCHANGED <<input, reading>>
<1> DEFINE u == Units(m)
           su == stream \o u
<1>1. /\ u \in Stream /\ stream \in Stream /\ wire \in Stream /\ got \in Stream /\ inbuf \in Stream
      /\ Len(u) = Size(m) /\ Size(m) \in Nat \ {0}
  BY UnitsAre DEF TypeInv
<1> HIDE DEF u
<1>2. /\ su \in Stream /\ Len(su) = Len(stream) + Len(u)
      /\ Len(stream) \in Nat /\ (wire \o stream) \o u = wire \o su
  <2>1. su \in Stream /\ Len(su) = Len(stream) + Len(u)
    BY <1>1, Cat
  <2>2. (wire \o stream) \o u = wire \o su
    BY <1>1, Assoc
  <2>3. Len(stream) \in Nat
    BY <1>1, NoneBehind
  <2> QED
    BY <2>1, <2>2, <2>3
<1>3. /\ sender = "open" /\ sent < MaxMessages /\ sent' = sent + 1
      /\ UNCHANGED <<input, reading>>
      /\ Queue(m) \/ SendQueued(m) \/ SendDirect(m)
  BY DEF Accept
<1> HIDE DEF su
<1>4. /\ wire' \in Stream /\ stream' \in Stream
      /\ wire' \o stream' = (wire \o stream) \o u
      /\ sender' \in {"open", "failed"}
  <2>1. CASE Queue(m) /\ Fits(m.len)
    BY <1>1, <1>2, <1>3, <2>1 DEF Queue, u, su
  <2>2. CASE Queue(m) /\ ~Fits(m.len)
    <3>1. Put(stream, Len(stream)) /\ stream' = u /\ sender' = sender
      BY <2>2 DEF Queue, u
    <3>2. wire' \in Stream /\ wire' = wire \o stream
      BY <1>1, <1>2, <3>1, Writes
    <3> QED
      BY <1>1, <1>3, <3>1, <3>2
  <2>3. CASE SendQueued(m)
    <3>1. PICK k \in 0 .. Len(su) : Put(su, k) /\ Rest(su, k) /\ Failed(k)
      BY <2>3 DEF SendQueued, Wrote, u, su
    <3>2. stream' = SubSeq(su, k + 1, Len(su)) /\ stream' \in Stream
      BY <1>2, <3>1, Cut DEF Rest
    <3>3. wire' \in Stream /\ wire' \o stream' = wire \o su
      BY <1>2, <3>1, <3>2, Writes
    <3>4. sender' \in {"open", "failed"}
      BY <1>3, <3>1 DEF Failed
    <3> QED
      BY <1>2, <3>2, <3>3, <3>4
  <2>4. CASE SendDirect(m)
    <3>1. PICK j \in 0 .. Len(stream) :
            /\ ~(0 < j /\ j < Len(stream))
            /\ stream # <<>> => j > 0
            /\ Put(SubSeq(stream, 1, j) \o u, j + Size(m))
            /\ Rest(stream, j)
      BY <2>4 DEF SendDirect, u
    <3>2. j = Len(stream)
      BY <1>1, <1>2, <3>1 DEF Stream
    <3>3. SubSeq(stream, 1, j) = stream /\ stream' = <<>>
      BY <1>1, <1>2, <3>1, <3>2, SubSeqFull, SubSeqEmpty DEF Rest, Stream
    <3>4. Put(su, Len(su))
      BY <1>1, <1>2, <3>1, <3>2, <3>3 DEF su
    <3>5. wire' \in Stream /\ wire' = wire \o su
      BY <1>1, <1>2, <3>4, Writes
    <3>6. wire' \o <<>> = wire' /\ <<>> \in Stream /\ sender' = sender
      BY <2>4, <3>5 DEF Stream, SendDirect
    <3> QED
      BY <1>2, <1>3, <3>3, <3>5, <3>6
  <2> QED
    BY <1>3, <2>1, <2>2, <2>3, <2>4
<1>5. Pending' = Pending \o u
  BY <1>1, <1>3, <1>4, Behind DEF input, reading
<1> QED
  BY <1>3, <1>4, <1>5 DEF u

\* A call that fails leaves at most the first part of its message behind.
LEMMA RefuseAdds ==
  ASSUME TypeInv, NEW m \in Message, Refuse(m)
  PROVE  /\ \/ Pending' = Pending
            \/ \E k \in 0 .. Size(m) - 1 : Pending' = Pending \o SubSeq(Units(m), 1, k)
         /\ stream' \in Stream /\ wire' \in Stream
         /\ sender = "open" /\ sender' = "failed"
         /\ UNCHANGED <<sent, input, reading>>
<1> DEFINE u == Units(m)
<1>1. /\ u \in Stream /\ stream \in Stream /\ wire \in Stream /\ got \in Stream /\ inbuf \in Stream
      /\ Len(u) = Size(m) /\ Size(m) \in Nat \ {0} /\ Len(stream) \in Nat
  BY UnitsAre, NoneBehind DEF TypeInv
<1> HIDE DEF u
<1>2. /\ sender = "open" /\ sender' = "failed" /\ UNCHANGED <<sent, input, reading>>
      /\ got' = got /\ inbuf' = inbuf
  BY DEF Refuse, input, reading
<1>3. CASE UNCHANGED <<stream, wire>>
  BY <1>1, <1>2, <1>3 DEF Pending
<1>4. CASE \E k \in 0 .. Size(m) - 1 : Put(stream \o u, Len(stream) + k) /\ stream' = <<>>
  <2>1. PICK k \in 0 .. Size(m) - 1 : Put(stream \o u, Len(stream) + k)
    BY <1>4
  <2> DEFINE v == SubSeq(u, 1, k)
             r == SubSeq(u, k + 1, Len(u))
  <2>2. v \in Stream /\ r \in Stream /\ Len(v) = k /\ u = v \o r /\ k \in Nat
    <3>1. k \in 0 .. Len(u) /\ k \in Nat
      BY <1>1
    <3> QED
      BY <1>1, <3>1, Cut, Zenon
  <2> HIDE DEF v, r
  <2>3. /\ stream \o v \in Stream /\ Len(stream \o v) = Len(stream) + k
        /\ stream \o u = (stream \o v) \o r
    <3>1. stream \o v \in Stream /\ Len(stream \o v) = Len(stream) + k
      BY <1>1, <2>2, Cat
    <3>2. stream \in Stream /\ v \in Stream /\ r \in Stream
      BY <1>1, <2>2
    <3>3. (stream \o v) \o r = stream \o (v \o r)
      BY ONLY <3>2, Assoc
    <3> QED
      BY <2>2, <3>1, <3>3, Zenon
  <2>4. SubSeq((stream \o v) \o r, 1, Len(stream) + k) = stream \o v
    <3>1. \A s \in Stream, t \in Stream : SubSeq(s \o t, 1, Len(s)) = s
      <4> SUFFICES ASSUME NEW s \in Stream, NEW t \in Stream
                   PROVE  SubSeq(s \o t, 1, Len(s)) = s
        OBVIOUS
      <4>1. /\ s \o t \in Stream /\ Len(s) \in 0 .. Len(s \o t) /\ Len(s) \in Nat
            /\ \A i \in 1 .. Len(s) : (s \o t)[i] = s[i]
        BY Cat DEF Stream
      <4>2. /\ SubSeq(s \o t, 1, Len(s)) \in Stream /\ Len(SubSeq(s \o t, 1, Len(s))) = Len(s)
            /\ \A i \in 1 .. Len(s) : SubSeq(s \o t, 1, Len(s))[i] = s[i]
        BY <4>1, Cut
      <4> QED
        BY <4>2, SeqEqual DEF Stream
    <3> QED
      BY <2>2, <2>3, <3>1
  <2>5. wire' = wire \o (stream \o v) /\ stream' = <<>>
    BY <1>4, <2>1, <2>3, <2>4 DEF Put
  <2>6. wire' \in Stream /\ stream' \in Stream
    <3>1. wire' \in Stream
      BY <1>1, <2>3, <2>5, Cat
    <3> QED
      BY <2>5, <3>1, NoneBehind, Zenon
  <2>7. wire' \o stream' = (wire \o stream) \o v
    <3>1. wire' \o <<>> = wire'
      BY <2>6, NoneBehind, Zenon
    <3>2. wire \in Stream /\ stream \in Stream /\ v \in Stream
      BY <1>1, <2>2
    <3>3. (wire \o stream) \o v = wire \o (stream \o v)
      BY ONLY <3>2, Assoc
    <3> QED
      BY <2>5, <3>1, <3>3, Zenon
  <2>8. Pending' = Pending \o v
    BY <1>2, <2>2, <2>6, <2>7, Behind
  <2> QED
    BY <1>2, <2>6, <2>8 DEF u, v
<1> QED
  BY <1>3, <1>4 DEF Refuse, u

\* pkg_flush moves what is queued, or a first part of it, and loses nothing.
LEMMA FlushKeeps ==
  ASSUME TypeInv, Flush
  PROVE  /\ Pending' = Pending
         /\ stream' \in Stream /\ wire' \in Stream
         /\ sender = "open" /\ sender' \in {"open", "failed"}
         /\ UNCHANGED <<sent, input, reading>>
<1>1. PICK k \in 0 .. Len(stream) : Put(stream, k) /\ Rest(stream, k) /\ Failed(k)
  BY DEF Flush, Wrote
<1>2. /\ sender = "open" /\ sender' \in {"open", "failed"}
      /\ UNCHANGED <<sent, input, reading>>
      /\ stream \in Stream /\ wire \in Stream /\ Len(stream) \in Nat
  BY <1>1, NoneBehind DEF Flush, Failed, TypeInv
<1>3. stream' = SubSeq(stream, k + 1, Len(stream)) /\ stream' \in Stream
  BY <1>1, <1>2, Cut DEF Rest
<1>4. wire' \in Stream /\ wire' \o stream' = wire \o stream
  BY <1>1, <1>2, <1>3, Writes
<1>5. Pending' = Pending
  <2>1. (wire \o stream) \o <<>> = wire \o stream
    <3>1. wire \o stream \in Stream
      BY <1>2, Cat
    <3> QED
      BY <3>1, NoneBehind, Zenon
  <2>2. <<>> \in Stream
    BY NoneBehind
  <2>3. Pending' = Pending \o <<>>
    BY <1>2, <1>3, <1>4, <2>1, <2>2, Behind DEF input, reading
  <2>4. Pending \in Stream
    BY Four DEF TypeInv, Pending
  <2> QED
    BY <2>3, <2>4, NoneBehind, Zenon
<1> QED
  BY <1>2, <1>3, <1>4, <1>5

\* pkg_close, or the end of the process: the last units are lost.
LEMMA CloseCuts ==
  ASSUME TypeInv, Close
  PROVE  /\ \E lost \in Stream : Pending = Pending' \o lost
         /\ Pending' \in Stream
         /\ stream' \in Stream /\ wire' \in Stream
         /\ sender # "closed" /\ sender' = "closed"
         /\ UNCHANGED <<sent, input, reading>>
<1>1. PICK k \in 0 .. Len(stream) : Put(stream, k)
  BY DEF Close, Wrote
<1>2. /\ sender # "closed" /\ sender' = "closed" /\ stream' = <<>>
      /\ UNCHANGED <<sent, input, reading>> /\ got' = got /\ inbuf' = inbuf
      /\ got \in Stream /\ inbuf \in Stream /\ stream \in Stream /\ wire \in Stream
      /\ stream' \in Stream
  BY NoneBehind DEF Close, TypeInv, input, reading
<1> DEFINE p == SubSeq(stream, 1, k)
           lost == SubSeq(stream, k + 1, Len(stream))
           e == (got \o inbuf) \o wire
<1>3. p \in Stream /\ lost \in Stream /\ p \o lost = stream /\ wire' = wire \o p
  BY <1>1, <1>2, Cut DEF Put
<1> HIDE DEF p, lost
<1>4. wire' \in Stream
  BY <1>2, <1>3, Cat
<1>5. got \o inbuf \in Stream
  BY <1>2, Cat
<1>6. e \in Stream
  BY <1>2, <1>5, Cat
<1>7. ((got \o inbuf) \o wire) \o p = (got \o inbuf) \o (wire \o p)
  <2>1. got \o inbuf \in Stream /\ wire \in Stream /\ p \in Stream
    BY <1>2, <1>3, <1>5
  <2> QED
    BY ONLY <2>1, Assoc
<1> HIDE DEF e
<1>8. e \o (p \o lost) = (e \o p) \o lost
  <2>1. e \in Stream /\ p \in Stream /\ lost \in Stream
    BY <1>3, <1>6
  <2> QED
    BY ONLY <2>1, Assoc
<1>9. e \o p \in Stream
  BY <1>3, <1>6, Cat
<1>10. Pending' = e \o p
  <2>1. Pending' = ((got \o inbuf) \o wire') \o <<>>
    BY <1>2 DEF Pending
  <2>2. Pending' = (e \o p) \o <<>>
    BY <1>3, <1>7, <2>1, Zenon DEF e
  <2> QED
    BY <1>9, <2>2, NoneBehind, Zenon
<1>11. Pending = (e \o p) \o lost
  BY <1>3, <1>8, Zenon DEF Pending, e
<1> QED
  BY <1>2, <1>3, <1>4, <1>9, <1>10, <1>11

-----------------------------------------------------------------------------
(* The receiver.                                                            *)

\* pkg_suckin moves input into the buffer, and makes room in it for more.
LEMMA SuckinMoves ==
  ASSUME TypeInv, NEW n \in 0 .. Len(wire), Suckin(n)
  PROVE  /\ inbuf' \in Stream /\ wire' \in Stream /\ inbuf' \o wire' = inbuf \o wire
         /\ incur' \in Nat /\ inlen' \in Nat \ {0} /\ incur' + Len(inbuf') <= inlen'
         /\ n = 0 => sender = "closed" /\ wire = <<>> /\ inbuf' = inbuf /\ wire' = wire
<1>1. /\ inbuf \in Stream /\ wire \in Stream /\ Len(inbuf) \in Nat /\ Len(wire) \in Nat
      /\ incur \in Nat /\ inlen \in Nat \ {0} /\ incur + Len(inbuf) <= inlen
      /\ Slack \in Nat \ {0} /\ n \in Nat
  BY PkgAssumption, NoneBehind DEF TypeInv
<1>2. /\ inbuf' = inbuf \o SubSeq(wire, 1, n) /\ wire' = SubSeq(wire, n + 1, Len(wire))
      /\ incur' = Moved /\ inlen' = Grown /\ n <= Avail
      /\ n = 0 => AtEof \/ Avail = 0
  BY DEF Suckin, Read
<1>3. /\ Moved \in Nat /\ Moved + Len(inbuf) <= inlen
  BY <1>1 DEF Moved
<1>4. /\ Grown \in Nat \ {0} /\ Avail \in Nat /\ Avail > 0 /\ Moved + Len(inbuf) + Avail = Grown
  <2>1. CASE inlen - (Moved + Len(inbuf)) < Slack
    <3>1. Grown = 2 * inlen
      BY <2>1 DEF Grown
    <3> HIDE DEF Moved
    <3> QED
      BY <1>1, <1>3, <3>1 DEF Avail
  <2>2. CASE ~(inlen - (Moved + Len(inbuf)) < Slack)
    <3>1. Grown = inlen
      BY <2>2 DEF Grown
    <3> HIDE DEF Moved
    <3> QED
      BY <1>1, <1>3, <2>2, <3>1 DEF Avail
  <2> QED
    BY <2>1, <2>2
<1> DEFINE p == SubSeq(wire, 1, n)
           r == SubSeq(wire, n + 1, Len(wire))
<1>5. p \in Stream /\ r \in Stream /\ p \o r = wire /\ Len(p) = n
  BY <1>1, Cut
<1>6. inbuf' = inbuf \o p /\ wire' = r
  BY <1>2
<1> HIDE DEF p, r
<1>7. inbuf' \in Stream /\ wire' \in Stream /\ Len(inbuf') = Len(inbuf) + n
  BY <1>1, <1>5, <1>6, Cat
<1>8. (inbuf \o p) \o r = inbuf \o (p \o r)
  <2>1. inbuf \in Stream /\ p \in Stream /\ r \in Stream
    BY <1>1, <1>5
  <2> QED
    BY ONLY <2>1, Assoc
<1>9. inbuf' \o wire' = inbuf \o wire
  BY <1>5, <1>6, <1>8, Zenon
<1>10. incur' \in Nat /\ inlen' \in Nat \ {0} /\ incur' + Len(inbuf') <= inlen'
  BY <1>1, <1>2, <1>3, <1>4, <1>7
<1>11. ASSUME n = 0
       PROVE  sender = "closed" /\ wire = <<>> /\ inbuf' = inbuf /\ wire' = wire
  <2>1. AtEof
    BY <1>2, <1>4, <1>11
  <2>2. p = <<>> /\ p \in Stream
    BY <1>5, <1>11, NoneBehind
  <2>3. inbuf \o <<>> = inbuf /\ <<>> \o r = r
    BY <1>1, <1>5, NoneBehind, Zenon
  <2> QED
    BY <1>5, <1>6, <2>1, <2>2, <2>3, Zenon DEF AtEof
<1> QED
  BY <1>7, <1>9, <1>10, <1>11

\* So does pkg_send on the receiver's side, which looks for input first.
LEMMA CheckinMoves ==
  ASSUME TypeInv, Checkin
  PROVE  /\ inbuf' \in Stream /\ wire' \in Stream /\ inbuf' \o wire' = inbuf \o wire
         /\ incur' \in Nat /\ inlen' \in Nat \ {0} /\ incur' + Len(inbuf') <= inlen'
         /\ wire = <<>> => wire' = <<>>
<1>1. CASE UNCHANGED <<wire, input>>
  BY <1>1 DEF TypeInv, input
<1>2. CASE \E n \in 0 .. Len(wire) : Suckin(n)
  <2>1. PICK n \in 0 .. Len(wire) : Suckin(n)
    BY <1>2
  <2>2. ASSUME wire = <<>> PROVE wire' = <<>>
    <3>1. n = 0
      BY <2>1, <2>2, NoneBehind
    <3> QED
      BY <2>1, <3>1, SuckinMoves
  <2> QED
    BY <2>1, <2>2, SuckinMoves
<1> QED
  BY <1>1, <1>2 DEF Checkin

\* What moves from the wire to the input buffer stays in its place.
LEMMA Arrives ==
  ASSUME TypeInv, inbuf' \in Stream, wire' \in Stream,
         inbuf' \o wire' = inbuf \o wire, UNCHANGED <<got, stream>>
  PROVE  Pending' = Pending
<1>1. got \in Stream /\ inbuf \in Stream /\ wire \in Stream /\ stream \in Stream
  BY DEF TypeInv
<1>2. (got \o inbuf) \o wire = got \o (inbuf \o wire)
  BY ONLY <1>1, Assoc
<1>3. (got \o inbuf') \o wire' = got \o (inbuf' \o wire')
  <2>1. got \in Stream /\ inbuf' \in Stream /\ wire' \in Stream
    BY <1>1
  <2> QED
    BY ONLY <2>1, Assoc
<1>4. Pending = (got \o (inbuf \o wire)) \o stream
  BY <1>2 DEF Pending
<1>5. Pending' = (got \o (inbuf' \o wire')) \o stream
  BY <1>3 DEF Pending
<1> QED
  BY <1>4, <1>5

\* The header is taken, and with it the number of units still missing.
LEMMA GetHdrKeeps ==
  ASSUME TypeInv, Reading, GetHdr
  PROVE  TypeInv' /\ Reading' /\ Pending' = Pending
<1> DEFINE p == SubSeq(inbuf, 1, Hdr)
           r == SubSeq(inbuf, Hdr + 1, Len(inbuf))
<1>1. /\ inbuf \in Stream /\ Len(inbuf) \in Nat /\ Hdr \in Nat \ {0} /\ Hdr \in 0 .. Len(inbuf)
      /\ incur \in Nat /\ inlen \in Nat /\ incur + Len(inbuf) <= inlen
      /\ got = <<>>
  <2>1. got = <<>>
    BY DEF GetHdr, Reading
  <2>2. inbuf \in Stream /\ Len(inbuf) \in Nat /\ Hdr \in Nat \ {0} /\ Len(inbuf) >= Hdr
    BY PkgAssumption, NoneBehind DEF TypeInv, GetHdr
  <2> QED
    BY <2>1, <2>2 DEF TypeInv
<1>2. /\ p \in Stream /\ Len(p) = Hdr /\ r \in Stream /\ Len(r) = Len(inbuf) - Hdr
      /\ p \o r = inbuf /\ (\A i \in 1 .. Hdr : p[i] = inbuf[i])
  BY <1>1, Cut
<1>3. /\ got' = p /\ inbuf' = r /\ left' = inbuf[1].m.len /\ incur' = incur + Hdr
      /\ UNCHANGED <<output, wire, inlen, bad, at, work, handed>>
  BY DEF GetHdr
<1> HIDE DEF p, r
<1>4. TypeInv'
  BY <1>1, <1>2, <1>3 DEF TypeInv, output
<1>5. Reading'
  <2>1. 1 \in 1 .. Hdr /\ 1 \in 1 .. Len(inbuf)
    BY <1>1
  <2>2. inbuf[1].m \in Message
    BY <1>1, <2>1 DEF Stream, Unit
  <2>3. inbuf[1].m.len \in Nat
    BY <2>2, PkgAssumption DEF Message
  <2>4. p # <<>> /\ p[1] = inbuf[1]
    BY <1>1, <1>2, <2>1, NoneBehind
  <2> QED
    BY <1>2, <1>3, <2>3, <2>4 DEF Reading, Size
<1>6. Pending' = Pending
  <2>1. Pending = ((<<>> \o inbuf) \o wire) \o stream
    BY <1>1 DEF Pending
  <2>2. <<>> \o inbuf = inbuf
    BY <1>1, NoneBehind, Zenon
  <2>3. Pending' = ((p \o r) \o wire) \o stream
    BY <1>3 DEF Pending, output
  <2> QED
    BY <1>2, <2>1, <2>2, <2>3, Zenon
<1> QED
  BY <1>4, <1>5, <1>6

\* So is as much of the data as there is.
LEMMA GetDataKeeps ==
  ASSUME TypeInv, Reading, GetData
  PROVE  TypeInv' /\ Reading' /\ Pending' = Pending
<1> DEFINE n == IF Len(inbuf) > left THEN left ELSE Len(inbuf)
           p == SubSeq(inbuf, 1, n)
           r == SubSeq(inbuf, n + 1, Len(inbuf))
<1>1. /\ inbuf \in Stream /\ got \in Stream /\ Len(inbuf) \in Nat /\ Len(got) \in Nat
      /\ incur \in Nat /\ inlen \in Nat /\ incur + Len(inbuf) <= inlen
      /\ got # <<>> /\ left \in Nat /\ left > 0 /\ Len(got) + left = Size(got[1].m)
  <2>1. inbuf \in Stream /\ got \in Stream /\ Len(inbuf) \in Nat /\ Len(got) \in Nat
    BY NoneBehind DEF TypeInv
  <2>2. got # <<>> /\ left > 0 /\ left \in Nat /\ Len(got) + left = Size(got[1].m)
    BY DEF GetData, Reading
  <2> QED
    BY <2>1, <2>2 DEF TypeInv
<1>2. n \in 0 .. Len(inbuf) /\ left - n \in Nat /\ n \in Nat
  BY <1>1
<1>3. /\ got' = got \o p /\ inbuf' = r /\ left' = left - n /\ incur' = incur + n
      /\ UNCHANGED <<output, wire, inlen, bad, at, work, handed>>
  BY Zenon DEF GetData
<1> HIDE DEF n
<1>4. p \in Stream /\ Len(p) = n /\ r \in Stream /\ Len(r) = Len(inbuf) - n /\ p \o r = inbuf
  BY <1>1, <1>2, Cut
<1> HIDE DEF p, r
<1>5. /\ got \o p \in Stream /\ Len(got \o p) = Len(got) + n
      /\ (\A i \in 1 .. Len(got) : (got \o p)[i] = got[i])
  BY <1>1, <1>4, Cat
<1>6. TypeInv'
  BY <1>1, <1>2, <1>3, <1>4, <1>5 DEF TypeInv, output
<1>7. Reading'
  <2>1. 1 \in 1 .. Len(got) /\ got \o p # <<>>
    BY <1>1, <1>2, <1>5, NoneBehind
  <2>2. (got \o p)[1] = got[1]
    BY <1>5, <2>1
  <2> QED
    BY <1>1, <1>2, <1>3, <1>5, <2>1, <2>2 DEF Reading
<1>8. Pending' = Pending
  <2>1. got \in Stream /\ p \in Stream /\ r \in Stream
    BY <1>1, <1>4
  <2>2. (got \o p) \o r = got \o (p \o r)
    BY ONLY <2>1, Assoc
  <2>3. Pending' = (((got \o p) \o r) \o wire) \o stream
    BY <1>3 DEF Pending, output
  <2> QED
    BY <1>4, <2>2, <2>3, Zenon DEF Pending
<1> QED
  BY <1>6, <1>7, <1>8

\* The message that is whole is handed over, and what is behind it is left.
LEMMA DispatchKeeps ==
  ASSUME TypeInv, Framed, Reading, Dispatch
  PROVE  /\ TypeInv' /\ Reading'
         /\ Pending' \in Stream /\ Clean(Pending') /\ (sender = "open" => Ended(Pending'))
         /\ \E m \in Message : /\ handed' = Units(m)
                               /\ Whole(Pending) = <<m>> \o Whole(Pending')
         /\ work' \in {work, work + 1} /\ UNCHANGED <<output, at>>
<1> DEFINE m == got[1].m
           rest == (inbuf \o wire) \o stream
<1>1. /\ got \in Stream /\ inbuf \in Stream /\ wire \in Stream /\ stream \in Stream
      /\ work \in Nat
  BY DEF TypeInv
<1>2. got # <<>> /\ Len(got) = Size(m) /\ Len(got) \in Nat
  <2>1. left = 0 /\ got # <<>> /\ Len(got) + left = Size(m)
    BY DEF Dispatch, Reading
  <2> QED
    BY <1>1, <2>1, NoneBehind
<1>3. /\ handed' = got /\ got' = <<>> /\ left' = -1 /\ UNCHANGED <<output, at>>
      /\ \/ work' \in {work, work + 1} /\ bad' \in BOOLEAN /\ Checkin
  BY DEF Dispatch, Checkin, TypeInv
<1>4. /\ inbuf' \in Stream /\ wire' \in Stream /\ inbuf' \o wire' = inbuf \o wire
      /\ incur' \in Nat /\ inlen' \in Nat \ {0} /\ incur' + Len(inbuf') <= inlen'
  BY <1>3, CheckinMoves
<1>5. inbuf \o wire \in Stream
  BY <1>1, Cat
<1>6. rest \in Stream
  BY <1>1, <1>5, Cat
<1>7. Pending = got \o rest
  <2>1. got \in Stream /\ inbuf \in Stream /\ wire \in Stream /\ stream \in Stream
    BY <1>1
  <2>2. (got \o inbuf) \o wire = got \o (inbuf \o wire)
    BY ONLY <2>1, Assoc
  <2> DEFINE e == inbuf \o wire
  <2>3. got \in Stream /\ e \in Stream /\ stream \in Stream
    BY <1>1, <1>5
  <2> HIDE DEF e
  <2>4. (got \o e) \o stream = got \o (e \o stream)
    BY ONLY <2>3, Assoc
  <2> QED
    BY <2>2, <2>4, Zenon DEF Pending, rest, e
<1>8. Pending' = rest
  <2>1. <<>> \o inbuf' = inbuf'
    BY <1>4, NoneBehind, Zenon
  <2>2. stream' = stream
    BY <1>3 DEF output
  <2>3. Pending' = ((<<>> \o inbuf') \o wire') \o stream
    BY <1>3, <2>2 DEF Pending
  <2> QED
    BY <1>4, <2>1, <2>3, Zenon
<1> HIDE DEF rest
<1>9. /\ m \in Message /\ got = Units(m)
      /\ Clean(rest) /\ Whole(got \o rest) = <<m>> \o Whole(rest)
      /\ rest # <<>> => Ended(got \o rest) = Ended(rest)
  BY <1>1, <1>2, <1>6, <1>7, FirstWhole DEF Framed
<1> HIDE DEF m
<1>10. sender = "open" => Ended(rest)
  BY <1>7, <1>9 DEF Framed, Ended
<1>11. TypeInv'
  BY <1>1, <1>3, <1>4, <1>9, NoneBehind DEF TypeInv, output
<1>12. Reading'
  BY <1>3 DEF Reading
<1> QED
  BY <1>3, <1>6, <1>7, <1>8, <1>9, <1>10, <1>11, <1>12

-----------------------------------------------------------------------------
(* The invariant holds.                                                     *)

\* Before anything is sent or read.
LEMMA InitInv == Init => PkgInv
<1> SUFFICES ASSUME Init PROVE PkgInv
  OBVIOUS
<1> USE DEF Init
<1>1. <<>> \in Stream /\ <<>> \o <<>> = <<>> /\ Len(<<>>) = 0
  BY NoneBehind
<1>2. Pending = <<>>
  BY <1>1 DEF Pending
<1>3. Clean(<<>>) /\ Ended(<<>>)
  BY <1>1 DEF Clean, Ended
<1>4. Whole(<<>>) = <<>>
  BY <1>3, Short
<1>5. TypeInv
  <2>1. handed \in {Nothing} \cup {Units(m) : m \in Message}
    BY Zenon DEF Nothing
  <2>2. StreamLen \in Nat \ {0} /\ MaxMessages \in Nat
    BY PkgAssumption
  <2>3. incur \in Nat /\ inlen \in Nat \ {0} /\ incur + Len(inbuf) <= inlen /\ sent \in 0 .. MaxMessages
    BY <1>1, <2>2
  <2> HIDE DEF Init
  <2>4. /\ got \in Stream /\ inbuf \in Stream /\ wire \in Stream /\ stream \in Stream
        /\ sender = "open" /\ bad = FALSE /\ work = 0 /\ at = "first"
    BY <1>1 DEF Init
  <2> QED
    BY <2>1, <2>3, <2>4 DEF TypeInv
<1>6. Framed /\ Reading /\ Looping /\ Counted
  BY <1>1, <1>2, <1>3, <1>4 DEF Framed, Reading, Looping, Counted
<1> QED
  BY <1>5, <1>6 DEF PkgInv

\* What is whole of all that is on its way is a sequence of messages.
LEMMA PendingWhole ==
  ASSUME TypeInv
  PROVE  Pending \in Stream /\ Whole(Pending) \in Seq(Message)
         /\ Len(Whole(Pending)) \in Nat
<1>1. Pending \in Stream
  <2>1. got \in Stream /\ inbuf \in Stream /\ wire \in Stream /\ stream \in Stream
    BY DEF TypeInv
  <2> QED
    BY ONLY <2>1, Four, Zenon DEF Pending
<1>2. Whole(Pending) \in Seq(Message)
  BY <1>1, WholeCat
<1> QED
  BY <1>1, <1>2

\* A step that leaves all that is on its way where it is in the sequence.
LEMMA SameKeeps ==
  ASSUME PkgInv, Pending' = Pending, sender' = "open" => sender = "open",
         work' \in Nat, work' <= work, sent' = sent
  PROVE  Framed' /\ Counted'
<1>1. Framed'
  BY DEF PkgInv, Framed
<1>2. Len(Whole(Pending)) \in Nat /\ work \in Nat /\ sent \in Nat
  BY PendingWhole DEF PkgInv, TypeInv
<1>3. work + Len(Whole(Pending)) <= sent
  BY DEF PkgInv, Counted
<1>4. work' + Len(Whole(Pending)) <= sent
  BY <1>2, <1>3
<1>5. Counted'
  BY <1>4 DEF Counted
<1> QED
  BY <1>1, <1>5

\* The sender's steps leave the receiver where it is.
LEMMA SenderSpares ==
  ASSUME PkgInv, UNCHANGED <<input, reading>>,
         wire' = wire \/ at # "eof", at = "eof" => sender' = "closed"
  PROVE  Reading' /\ Looping'
BY DEF PkgInv, Reading, Looping, Processed, input, reading

\* A message that is accepted is whole behind those on their way.
LEMMA AcceptInv ==
  ASSUME PkgInv, NEW m \in Message, Accept(m), "send" \notin Interrupted
  PROVE  PkgInv' /\ Whole(Pending') = Append(Whole(Pending), m)
<1>1. TypeInv /\ Framed
  BY DEF PkgInv
<1>2. /\ Pending' = Pending \o Units(m)
      /\ stream' \in Stream /\ wire' \in Stream
      /\ sender = "open" /\ sender' \in {"open", "failed"}
      /\ sent' = sent + 1 /\ sent < MaxMessages
      /\ UNCHANGED <<input, reading>>
  BY <1>1, AcceptAdds
<1>3. Units(m) \in Stream /\ Pending \in Stream /\ Whole(Pending) \in Seq(Message)
  BY <1>1, UnitsAre, PendingWhole
<1>4. TypeInv'
  BY <1>1, <1>2, PkgAssumption DEF TypeInv, input, reading
<1>5. Framed'
  <2>1. /\ Clean(Pending) /\ Ended(Pending)
        /\ Clean(Units(m)) /\ Ended(Units(m)) /\ Units(m) # <<>>
    BY <1>1, <1>2, CleanUnits DEF Framed
  <2>2. Clean(Pending \o Units(m)) /\ Ended(Pending \o Units(m)) = Ended(Units(m))
    BY <2>1, CleanMore
  <2> QED
    BY <1>2, <2>1, <2>2 DEF Framed
<1>6. Reading' /\ Looping'
  <2>1. at # "eof"
    BY <1>2 DEF PkgInv, Looping
  <2> QED
    BY <1>2, <2>1, SenderSpares
<1>7. Whole(Pending') = Append(Whole(Pending), m)
  <2>1. Whole(Pending \o Units(m)) = Whole(Pending) \o Whole(Units(m))
    BY <1>3, WholeCat
  <2>2. Whole(Units(m)) = <<m>>
    BY WholeUnits
  <2>3. Append(Whole(Pending), m) = Whole(Pending) \o <<m>>
    BY <1>3, AppendIsConcat
  <2> QED
    BY <1>2, <2>1, <2>2, <2>3, Zenon
<1>8. Counted'
  <2>1. Len(Append(Whole(Pending), m)) = Len(Whole(Pending)) + 1 /\ Len(Whole(Pending)) \in Nat
    BY <1>3
  <2>2. work' = work /\ work \in Nat /\ sent \in Nat
    BY <1>1, <1>2 DEF TypeInv, reading
  <2>3. work + Len(Whole(Pending)) <= sent
    BY DEF PkgInv, Counted
  <2>4. work' + Len(Append(Whole(Pending), m)) <= sent'
    BY <1>2, <2>1, <2>2, <2>3
  <2> QED
    BY <1>7, <2>4 DEF Counted
<1> QED
  BY <1>4, <1>5, <1>6, <1>7, <1>8 DEF PkgInv

\* A call that fails adds no whole message.
LEMMA RefuseInv ==
  ASSUME PkgInv, NEW m \in Message, Refuse(m)
  PROVE  PkgInv' /\ Whole(Pending') = Whole(Pending)
<1>1. TypeInv /\ Framed
  BY DEF PkgInv
<1>2. /\ \/ Pending' = Pending
         \/ \E k \in 0 .. Size(m) - 1 : Pending' = Pending \o SubSeq(Units(m), 1, k)
      /\ stream' \in Stream /\ wire' \in Stream
      /\ sender = "open" /\ sender' = "failed"
      /\ UNCHANGED <<sent, input, reading>>
  BY <1>1, RefuseAdds
<1>3. TypeInv'
  BY <1>1, <1>2 DEF TypeInv, input, reading
<1>4. Clean(Pending') /\ Whole(Pending') = Whole(Pending)
  <2>1. CASE Pending' = Pending
    BY <1>1, <2>1 DEF Framed
  <2>2. CASE \E k \in 0 .. Size(m) - 1 : Pending' = Pending \o SubSeq(Units(m), 1, k)
    <3>1. PICK k \in 0 .. Size(m) - 1 : Pending' = Pending \o SubSeq(Units(m), 1, k)
      BY <2>2
    <3> DEFINE v == SubSeq(Units(m), 1, k)
    <3>2. k \in 0 .. Size(m)
      BY UnitsAre
    <3>3. v \in Stream /\ Clean(v) /\ Whole(v) = <<>>
      BY <3>2, CleanUnits, WholeUnits
    <3> HIDE DEF v
    <3>4. /\ Pending \in Stream /\ Whole(Pending) \in Seq(Message)
          /\ Clean(Pending) /\ Ended(Pending)
      BY <1>1, <1>2, PendingWhole DEF Framed
    <3>5. Clean(Pending \o v)
      BY <3>3, <3>4, CleanMore
    <3>6. Whole(Pending \o v) = Whole(Pending) \o <<>>
      BY <3>3, <3>4, WholeCat
    <3>7. Whole(Pending) \o <<>> = Whole(Pending)
      BY <3>4, ConcatEmptySeq
    <3> QED
      BY <3>1, <3>5, <3>6, <3>7, Zenon DEF v
  <2> QED
    BY <1>2, <2>1, <2>2
<1>5. Framed'
  BY <1>2, <1>4 DEF Framed
<1>6. Reading' /\ Looping'
  <2>1. at # "eof"
    BY <1>2 DEF PkgInv, Looping
  <2> QED
    BY <1>2, <2>1, SenderSpares
<1>7. Counted'
  BY <1>2, <1>4 DEF PkgInv, Counted, reading
<1> QED
  BY <1>3, <1>4, <1>5, <1>6, <1>7 DEF PkgInv

\* A flush changes only where the messages are.
LEMMA FlushInv ==
  ASSUME PkgInv, Flush
  PROVE  PkgInv' /\ Whole(Pending') = Whole(Pending)
<1>1. TypeInv
  BY DEF PkgInv
<1>2. /\ Pending' = Pending
      /\ stream' \in Stream /\ wire' \in Stream
      /\ sender = "open" /\ sender' \in {"open", "failed"}
      /\ UNCHANGED <<sent, input, reading>>
  BY <1>1, FlushKeeps
<1>3. TypeInv'
  BY <1>1, <1>2 DEF TypeInv, input, reading
<1>4. Framed' /\ Counted'
  <2>1. work' = work /\ work' \in Nat /\ work' <= work
    BY <1>1, <1>2 DEF TypeInv, reading
  <2> QED
    BY <1>2, <2>1, SameKeeps
<1>5. Reading' /\ Looping'
  <2>1. at # "eof"
    BY <1>2 DEF PkgInv, Looping
  <2> QED
    BY <1>2, <2>1, SenderSpares
<1> QED
  BY <1>2, <1>3, <1>4, <1>5 DEF PkgInv

\* A close leaves the first of the messages on their way.
LEMMA CloseInv ==
  ASSUME PkgInv, Close
  PROVE  /\ PkgInv'
         /\ \E n \in 0 .. Len(Whole(Pending)) : Whole(Pending') = SubSeq(Whole(Pending), 1, n)
<1>1. TypeInv
  BY DEF PkgInv
<1>2. PICK lost \in Stream : Pending = Pending' \o lost
  BY <1>1, CloseCuts
<1>3. /\ Pending' \in Stream
      /\ stream' \in Stream /\ wire' \in Stream
      /\ sender # "closed" /\ sender' = "closed"
      /\ UNCHANGED <<sent, input, reading>>
  BY <1>1, CloseCuts
<1> DEFINE P == Pending'
<1>4. P \in Stream /\ Pending = P \o lost
  BY <1>2, <1>3
<1> HIDE DEF P
<1>5. Clean(P)
  BY <1>4, CleanPart DEF PkgInv, Framed
<1> DEFINE w == Whole(P)
           l == Whole(lost)
<1>6. Whole(Pending) = w \o l /\ w \in Seq(Message) /\ l \in Seq(Message)
  <2>1. Whole(P \o lost) = w \o l /\ w \in Seq(Message)
    BY <1>4, WholeCat
  <2>2. l \in Seq(Message)
    BY <1>4, WholeCat
  <2> QED
    BY <1>4, <2>1, <2>2
<1> HIDE DEF w, l
<1>7. /\ Len(w) \in Nat /\ Len(l) \in Nat /\ Len(w \o l) = Len(w) + Len(l)
      /\ SubSeq(w \o l, 1, Len(w)) = w
  <2>1. /\ Len(w) \in Nat /\ Len(l) \in Nat /\ Len(w \o l) = Len(w) + Len(l)
        /\ w \o l \in Seq(Message)
    BY <1>6
  <2>2. \A i \in 1 .. Len(w) : (w \o l)[i] = w[i]
    BY <1>6, ConcatProperties
  <2>3. /\ SubSeq(w \o l, 1, Len(w)) \in Seq(Message)
        /\ Len(SubSeq(w \o l, 1, Len(w))) = Len(w)
        /\ \A i \in 1 .. Len(w) : SubSeq(w \o l, 1, Len(w))[i] = (w \o l)[i]
    BY <2>1
  <2> QED
    BY <1>6, <2>1, <2>2, <2>3, SeqEqual
<1>8. TypeInv'
  BY <1>1, <1>3 DEF TypeInv, input, reading
<1>9. Framed'
  BY <1>3, <1>5 DEF Framed, P
<1>10. Reading' /\ Looping'
  <2>1. at # "eof"
    BY <1>3 DEF PkgInv, Looping
  <2> QED
    BY <1>3, <2>1, SenderSpares
<1>11. Counted'
  <2>1. work' = work /\ sent' = sent /\ work \in Nat /\ sent \in Nat
    BY <1>1, <1>3 DEF TypeInv, reading
  <2>2. work + (Len(w) + Len(l)) <= sent
    BY <1>6, <1>7 DEF PkgInv, Counted
  <2>3. work' + Len(w) <= sent'
    BY <1>7, <2>1, <2>2
  <2> QED
    BY <2>3 DEF Counted, w, P
<1>12. \E n \in 0 .. Len(Whole(Pending)) : Whole(Pending') = SubSeq(Whole(Pending), 1, n)
  <2>1. Len(w) \in 0 .. Len(Whole(Pending)) /\ w = SubSeq(Whole(Pending), 1, Len(w))
    BY <1>6, <1>7
  <2> QED
    BY <2>1 DEF w, P
<1> QED
  BY <1>8, <1>9, <1>10, <1>11, <1>12 DEF PkgInv

\* Taking header and data changes only where the message is.
LEMMA GetInv ==
  ASSUME PkgInv, GetHdr \/ GetData
  PROVE  PkgInv' /\ Whole(Pending') = Whole(Pending) /\ UNCHANGED <<sender, handed>>
<1>1. TypeInv /\ Reading
  BY DEF PkgInv
<1>2. TypeInv' /\ Reading' /\ Pending' = Pending
  BY <1>1, GetHdrKeeps, GetDataKeeps
<1>3. UNCHANGED <<sender, sent, work, handed, at>> /\ at \in {"first", "third"}
  BY DEF GetHdr, GetData, Processing, output
<1>4. Framed' /\ Counted'
  <2>1. work' \in Nat /\ work' <= work
    BY <1>1, <1>3 DEF TypeInv
  <2> QED
    BY <1>2, <1>3, <2>1, SameKeeps
<1>5. Looping'
  BY <1>3 DEF Looping
<1> QED
  BY <1>2, <1>3, <1>4, <1>5 DEF PkgInv

\* A message that is handed over was the first on its way.
LEMMA DispatchInv ==
  ASSUME PkgInv, Dispatch
  PROVE  /\ PkgInv' /\ UNCHANGED sender
         /\ \E m \in Message : handed' = Units(m) /\ Whole(Pending) = <<m>> \o Whole(Pending')
<1>1. TypeInv /\ Framed /\ Reading
  BY DEF PkgInv
<1>2. /\ TypeInv' /\ Reading'
      /\ Pending' \in Stream /\ Clean(Pending') /\ (sender = "open" => Ended(Pending'))
      /\ work' \in {work, work + 1} /\ UNCHANGED <<output, at>>
  BY <1>1, DispatchKeeps
<1>3. PICK m \in Message : handed' = Units(m) /\ Whole(Pending) = <<m>> \o Whole(Pending')
  BY <1>1, DispatchKeeps
<1>4. Framed'
  BY <1>2 DEF Framed, output
<1>5. Looping'
  <2>1. at' \in {"first", "third"}
    BY <1>2 DEF Dispatch, Processing
  <2> QED
    BY <2>1 DEF Looping
<1>6. Counted'
  <2> DEFINE P == Pending'
             w == Whole(P)
  <2>1. P \in Stream /\ Whole(Pending) = <<m>> \o w
    BY <1>2, <1>3
  <2> HIDE DEF P
  <2>2. w \in Seq(Message)
    BY <2>1, WholeCat
  <2> HIDE DEF w
  <2>3. Len(<<m>> \o w) = 1 + Len(w) /\ Len(w) \in Nat
    BY <2>2
  <2>4. work \in Nat /\ sent \in Nat /\ sent' = sent /\ work + Len(Whole(Pending)) <= sent
    BY <1>1, <1>2 DEF TypeInv, output, PkgInv, Counted
  <2>5. work' + Len(w) <= sent'
    BY <1>2, <2>1, <2>3, <2>4
  <2> QED
    BY <2>5 DEF Counted, w, P
<1> QED
  BY <1>2, <1>3, <1>4, <1>5, <1>6 DEF PkgInv, output

\* The rest of rtsrv's loop moves input, and waits once all is processed.
LEMMA LoopInv ==
  ASSUME PkgInv, Return \/ Select \/ Work
  PROVE  PkgInv' /\ Whole(Pending') = Whole(Pending) /\ UNCHANGED <<sender, handed>>
<1>1. TypeInv /\ Reading /\ Looping
  BY DEF PkgInv
<1>2. /\ UNCHANGED <<sender, sent, stream, got, left, bad, handed>>
      /\ work' \in Nat /\ work' <= work
      /\ at' \in {"first", "select", "third", "work", "eof", "error"}
  BY <1>1 DEF Return, Select, Work, output, input, TypeInv
<1>3. /\ inbuf' \in Stream /\ wire' \in Stream /\ inbuf' \o wire' = inbuf \o wire
      /\ incur' \in Nat /\ inlen' \in Nat \ {0} /\ incur' + Len(inbuf') <= inlen'
  <2>1. CASE Checkin
    BY <1>1, <2>1, CheckinMoves
  <2>2. Return => Checkin
    BY Zenon DEF Return, Checkin
  <2>3. Work => Checkin
    BY Zenon DEF Work, Checkin
  <2>4. Select => Checkin
    BY Zenon DEF Select, Checkin
  <2> QED
    BY <2>1, <2>2, <2>3, <2>4
<1>4. TypeInv'
  BY <1>1, <1>2, <1>3 DEF TypeInv
<1>5. Pending' = Pending
  BY <1>1, <1>2, <1>3, Arrives
<1>6. Framed' /\ Counted'
  BY <1>2, <1>5, SameKeeps
<1>7. Reading'
  BY <1>1, <1>2 DEF Reading
<1>8. Looping'
  <2>1. CASE Return
    <3>1. Processed' /\ at' # "eof"
      BY <2>1 DEF Return, Processed, input
    <3> QED
      BY <3>1 DEF Looping
  <2>2. CASE Select
    <3>1. CASE at' = "eof"
      <4>1. PICK n \in 0 .. Len(wire) : Suckin(n) /\ n = 0
        BY <2>2, <3>1 DEF Select
      <4>2. sender = "closed" /\ wire = <<>> /\ inbuf' = inbuf /\ wire' = wire
        BY <1>1, <4>1, SuckinMoves
      <4>3. Processed'
        BY <1>1, <1>2, <2>2, <4>2 DEF Looping, Select, Processed
      <4> QED
        BY <1>2, <4>2, <4>3 DEF Looping
    <3>2. CASE at' # "eof"
      BY <2>2, <3>2 DEF Select, Looping
    <3> QED
      BY <3>1, <3>2
  <2>3. CASE Work
    BY <2>3 DEF Work, Looping
  <2> QED
    BY <2>1, <2>2, <2>3
<1> QED
  BY <1>2, <1>4, <1>5, <1>6, <1>7, <1>8 DEF PkgInv

\* Nothing happens.
LEMMA StillInv ==
  ASSUME PkgInv, UNCHANGED vars
  PROVE  PkgInv' /\ Whole(Pending') = Whole(Pending) /\ UNCHANGED <<sender, handed>>
<1>1. /\ UNCHANGED <<sender, sent, stream, wire, inbuf, incur, inlen>>
      /\ UNCHANGED <<got, left, bad, at, work, handed>>
  BY DEF vars, output, input, reading
<1>2. Pending' = Pending
  BY <1>1 DEF Pending
<1> QED
  BY <1>1, <1>2 DEF PkgInv, TypeInv, Framed, Reading, Looping, Processed, Counted

\* Every step keeps the invariant, unless a write of pkg_send can be cut short.
LEMMA NextInv ==
  ASSUME PkgInv, [Next]_vars, "send" \notin Interrupted
  PROVE  PkgInv'
<1>1. ASSUME NEW m \in Message, Accept(m) PROVE PkgInv'
  BY <1>1, AcceptInv
<1>2. ASSUME NEW m \in Message, Refuse(m) PROVE PkgInv'
  BY <1>2, RefuseInv
<1>3. CASE Flush
  BY <1>3, FlushInv
<1>4. CASE Close
  BY <1>4, CloseInv
<1>5. CASE GetHdr \/ GetData
  BY <1>5, GetInv
<1>6. CASE Dispatch
  BY <1>6, DispatchInv
<1>7. CASE Return \/ Select \/ Work
  BY <1>7, LoopInv
<1>8. CASE Over \/ UNCHANGED vars
  BY <1>8, StillInv DEF Over
<1> QED
  BY <1>1, <1>2, <1>3, <1>4, <1>5, <1>6, <1>7, <1>8 DEF Next, Receive

\* The invariant holds in every state.
LEMMA InvHolds ==
  ASSUME "send" \notin Interrupted
  PROVE  Spec => []PkgInv
<1>1. PkgInv /\ [Next]_vars => PkgInv'
  BY NextInv
<1> QED
  BY <1>1, InitInv, PTL DEF Spec

-----------------------------------------------------------------------------
(* What the receiver has when it waits.                                     *)

\* Before rtsrv waits in select() or ends, no message that has arrived whole is
\* left in the buffers, and at the end nothing is left to read: all four loops
\* of pkg_process and the one of rtsrv together, for any lengths and cuts.
THEOREM NothingWaits ==
  ASSUME "send" \notin Interrupted
  PROVE  Spec => []NoMessageWaits
<1>1. PkgInv => NoMessageWaits
  <2> SUFFICES ASSUME PkgInv PROVE NoMessageWaits
    OBVIOUS
  <2>1. TypeInv /\ Framed /\ Reading /\ Looping
    BY DEF PkgInv
  <2> DEFINE a == got \o inbuf
             b == wire \o stream
  <2>2. got \in Stream /\ inbuf \in Stream /\ wire \in Stream /\ stream \in Stream
    BY <2>1 DEF TypeInv
  <2>3. a \in Stream /\ b \in Stream
    BY <2>2, Cat
  <2>4. Clean(a)
    <3> HIDE DEF a
    <3>1. a \in Stream /\ wire \in Stream /\ stream \in Stream
      BY <2>2, <2>3
    <3>2. (a \o wire) \o stream = a \o (wire \o stream)
      BY ONLY <3>1, Assoc
    <3>3. Clean(a \o b)
      BY <2>1, <3>2 DEF Framed, Pending, a
    <3> QED
      BY <2>3, <3>3, CleanPart
  <2>5. ASSUME Processed PROVE Whole(a) = <<>>
    <3>1. CASE left < 0 /\ Len(inbuf) < Hdr
      <4>1. got = <<>>
        BY <2>1, <3>1 DEF Reading
      <4>2. <<>> \o inbuf = inbuf
        BY <2>2, NoneBehind, Zenon
      <4>3. a = inbuf
        BY <4>1, <4>2
      <4> HIDE DEF a
      <4>4. ASSUME a # <<>> PROVE Len(a) < Size(a[1].m)
        <5>1. a[1].m \in Message /\ Len(a) \in Nat
          BY <2>3, <4>4 DEF Stream, Unit
        <5>2. Hdr <= Size(a[1].m) /\ Size(a[1].m) \in Nat /\ Hdr \in Nat
          BY <5>1, UnitsAre, PkgAssumption
        <5> QED
          BY <3>1, <4>3, <5>1, <5>2
      <4> QED
        BY <2>4, <4>4, Short
    <3>2. CASE left > 0 /\ inbuf = <<>>
      <4>1. got # <<>> /\ left \in Nat /\ Len(got) + left = Size(got[1].m) /\ Len(got) \in Nat
        BY <2>1, <2>2, <3>2, NoneBehind DEF Reading
      <4>2. got \o <<>> = got
        BY <2>2, NoneBehind, Zenon
      <4>3. a = got
        BY <3>2, <4>2
      <4> HIDE DEF a
      <4>4. Len(a) < Size(a[1].m)
        BY <3>2, <4>1, <4>3
      <4> QED
        BY <2>4, <4>4, Short
    <3> QED
      BY <2>5, <3>1, <3>2 DEF Processed
  <2> QED
    BY <2>1, <2>5 DEF Looping, NoMessageWaits
<1> QED
  BY <1>1, InvHolds, PTL

-----------------------------------------------------------------------------
(* The connection is a channel of whole messages.                           *)

\* The message handed over last is the one whose units were.
LEMMA LastHandedIs ==
  /\ \A m \in Message : handed = Units(m) => LastHanded = m
  /\ handed = Nothing => LastHanded = Nothing
<1>1. ASSUME NEW m \in Message, handed = Units(m) PROVE LastHanded = m
  <2>1. Size(m) \in Nat \ {0} /\ Units(m)[1] = [m |-> m, k |-> 1]
    BY UnitsAre
  <2>2. handed[1].m = m
    BY <1>1, <2>1
  <2> QED
    BY <1>1, <2>2, Zenon DEF LastHanded
<1>2. ASSUME handed = Nothing PROVE LastHanded = Nothing
  <2>1. ASSUME NEW m \in Message PROVE handed # Units(m)
    <3>1. Units(m) # <<>>
      BY CleanUnits
    <3> QED
      BY <1>2, <3>1 DEF Nothing
  <2> QED
    BY <2>1, Zenon DEF LastHanded
<1> QED
  BY <1>1, <1>2

\* A step at one end or the other is a step of the channel, or none.
LEMMA StepIsChannel ==
  ASSUME PkgInv, [Next]_vars, "send" \notin Interrupted
  PROVE  [Channel!Next]_<<Whole(Pending), LastHanded, sender # "closed">>
<1> DEFINE Same == /\ Whole(Pending)' = Whole(Pending) /\ LastHanded' = LastHanded
                   /\ (sender # "closed")' = (sender # "closed")
<1>0. handed' = handed => LastHanded' = LastHanded
  BY DEF LastHanded
<1>1. ASSUME NEW m \in Message, Accept(m) PROVE Channel!Send(m)
  <2>1. Whole(Pending)' = Append(Whole(Pending), m)
    BY <1>1, AcceptInv
  <2>2. /\ sender = "open" /\ sender' \in {"open", "failed"}
        /\ UNCHANGED <<input, reading>>
    BY <1>1, AcceptAdds DEF PkgInv
  <2>3. LastHanded' = LastHanded
    BY <1>0, <2>2 DEF reading
  <2> QED
    BY <2>1, <2>2, <2>3 DEF Channel!Send
<1>2. ASSUME NEW m \in Message, Refuse(m) PROVE Same
  <2>1. Whole(Pending') = Whole(Pending)
    BY <1>2, RefuseInv
  <2>2. sender = "open" /\ sender' = "failed" /\ UNCHANGED <<input, reading>>
    BY <1>2, RefuseAdds DEF PkgInv
  <2>3. LastHanded' = LastHanded
    BY <1>0, <2>2 DEF reading
  <2> QED
    BY <2>1, <2>2, <2>3
<1>3. CASE Flush
  <2>1. Whole(Pending') = Whole(Pending)
    BY <1>3, FlushInv
  <2>2. sender = "open" /\ sender' \in {"open", "failed"} /\ UNCHANGED <<input, reading>>
    BY <1>3, FlushKeeps DEF PkgInv
  <2>3. LastHanded' = LastHanded
    BY <1>0, <2>2 DEF reading
  <2>4. Same
    BY <2>1, <2>2, <2>3
  <2> QED
    BY <2>4
<1>4. CASE Close
  <2>1. \E n \in 0 .. Len(Whole(Pending)) : Whole(Pending') = SubSeq(Whole(Pending), 1, n)
    BY <1>4, CloseInv
  <2>2. sender # "closed" /\ sender' = "closed" /\ UNCHANGED <<input, reading>>
    BY <1>4, CloseCuts DEF PkgInv
  <2>3. LastHanded' = LastHanded
    BY <1>0, <2>2 DEF reading
  <2>4. Channel!Break
    BY <2>1, <2>2, <2>3 DEF Channel!Break
  <2> QED
    BY <2>4 DEF Channel!Next
<1>5. CASE Dispatch
  <2>1. PICK m \in Message : handed' = Units(m) /\ Whole(Pending) = <<m>> \o Whole(Pending')
    BY <1>5, DispatchInv
  <2>2. LastHanded' = m
    <3>1. Size(m) \in Nat \ {0} /\ Units(m)[1] = [m |-> m, k |-> 1]
      BY UnitsAre
    <3>2. handed'[1].m = m
      BY <2>1, <3>1
    <3> QED
      BY <2>1, <3>2, Zenon DEF LastHanded
  <2>3. sender' = sender
    BY <1>5, DispatchInv
  <2> DEFINE P == Pending'
             w == Whole(P)
  <2>4. w \in Seq(Message)
    <3>1. P \in Stream
      BY <1>5, DispatchKeeps DEF PkgInv
    <3> HIDE DEF P
    <3> QED
      BY <3>1, WholeCat
  <2> HIDE DEF w
  <2>5. <<m>> \o w # <<>> /\ Head(<<m>> \o w) = m /\ Tail(<<m>> \o w) = w
    BY <2>4
  <2>6. Channel!Handle
    BY <2>1, <2>2, <2>3, <2>5 DEF Channel!Handle, w, P
  <2> QED
    BY <2>6 DEF Channel!Next
<1>6. CASE GetHdr \/ GetData
  <2>1. Same
    BY <1>0, <1>6, GetInv
  <2> QED
    BY <2>1
<1>7. CASE Return \/ Select \/ Work
  <2>1. Same
    BY <1>0, <1>7, LoopInv
  <2> QED
    BY <2>1
<1>8. CASE Over \/ UNCHANGED vars
  <2>1. Same
    BY <1>0, <1>8, StillInv DEF Over
  <2> QED
    BY <2>1
<1>9. CASE \E m \in Message : Accept(m) \/ Refuse(m)
  <2>1. PICK m \in Message : Accept(m) \/ Refuse(m)
    BY <1>9
  <2>2. CASE Accept(m)
    BY <1>1, <2>2 DEF Channel!Next
  <2>3. CASE Refuse(m)
    BY <1>2, <2>3
  <2> QED
    BY <2>1, <2>2, <2>3
<1> QED
  BY <1>3, <1>4, <1>5, <1>6, <1>7, <1>8, <1>9 DEF Next, Receive

\* pkg.h promises that messages arrive whole and in order, whether they are sent
\* or streamed, cut anywhere on the way, and read while the receiver sends: what
\* is accepted is handed over in that order, and what a close loses is the last.
\* pkg_send does not go on after a write that a signal has cut short.
THEOREM MessagesStayWhole ==
  ASSUME "send" \notin Interrupted
  PROVE  Spec => ChannelSpec
<1>1. Init => Channel!Init
  <2> SUFFICES ASSUME Init PROVE Channel!Init
    OBVIOUS
  <2>1. <<>> \in Stream /\ <<>> \o <<>> = <<>>
    BY NoneBehind
  <2>2. Pending = <<>>
    BY <2>1 DEF Init, Pending
  <2>3. Whole(<<>>) = <<>>
    BY <2>1, NoEnd
  <2>4. LastHanded = Nothing
    BY LastHandedIs DEF Init
  <2> QED
    BY <2>2, <2>3, <2>4 DEF Channel!Init, Init
<1>2. PkgInv /\ [Next]_vars => [Channel!Next]_<<Whole(Pending), LastHanded, sender # "closed">>
  BY StepIsChannel
<1> QED
  BY <1>1, <1>2, InvHolds, PTL DEF Spec, ChannelSpec, Channel!Spec

-----------------------------------------------------------------------------
(* The types, and what the sender's buffer can hold.                        *)

\* With the sender's buffer within its length, every variable has its type.
LEMMA TypesFollow ==
  ASSUME PkgInv, Len(stream) <= StreamLen
  PROVE  TypeOK
<1>1. TypeInv /\ Reading /\ Counted
  BY DEF PkgInv
<1>2. left >= -1
  BY <1>1 DEF Reading
<1>3. work \in 0 .. MaxMessages
  <2>1. work \in Nat /\ sent \in 0 .. MaxMessages /\ Len(Whole(Pending)) \in Nat /\ MaxMessages \in Nat
    BY <1>1, PendingWhole, PkgAssumption DEF TypeInv
  <2> QED
    BY <1>1, <2>1 DEF Counted
<1>4. IF got = <<>> THEN left = -1 ELSE Len(got) + left = Size(got[1].m)
  BY <1>1 DEF Reading
<1> QED
  BY <1>1, <1>2, <1>3, <1>4 DEF TypeOK, TypeInv

\* What is queued fits, if there is room for a header whenever a message comes.
LEMMA StreamFits ==
  ASSUME TypeInv, Len(stream) <= StreamLen, [Next]_vars,
         (\E m \in Message : Accept(m)) => Room >= 0
  PROVE  /\ Len(stream') <= StreamLen
         /\ Len(stream') <= Len(stream) \/ (sent' = sent + 1 /\ Len(stream') <= Len(stream) + (Hdr + MaxQLen))
<1> DEFINE Holds == /\ Len(stream') <= StreamLen
                    /\ \/ Len(stream') <= Len(stream)
                       \/ sent' = sent + 1 /\ Len(stream') <= Len(stream) + (Hdr + MaxQLen)
<1>1. /\ stream \in Stream /\ Len(stream) \in Nat /\ Len(<<>>) = 0
      /\ Hdr \in Nat \ {0} /\ MaxQLen \in Nat /\ StreamLen \in Nat /\ Hdr + MaxQLen <= StreamLen
  BY NoneBehind, PkgAssumption DEF TypeInv
<1>2. ASSUME NEW k \in 0 .. Len(stream), Rest(stream, k) PROVE Len(stream') <= Len(stream)
  <2>1. Len(stream') = Len(stream) - k
    BY <1>1, <1>2, Cut DEF Rest
  <2> QED
    BY <1>1, <2>1
<1>3. stream' = stream => Holds
  BY <1>1
<1>4. stream' = <<>> => Holds
  BY <1>1
<1>5. ASSUME NEW m \in Message, Accept(m) PROVE Holds
  <2> DEFINE u == Units(m)
             su == stream \o u
  <2>1. u \in Stream /\ Len(u) = Hdr + m.len /\ m.len \in Nat
    <3>1. m.len \in Lengths
      BY DEF Message
    <3> QED
      BY <3>1, UnitsAre, PkgAssumption DEF Size
  <2> HIDE DEF u
  <2>2. su \in Stream /\ Len(su) = Len(stream) + (Hdr + m.len)
    <3>1. stream \in Stream /\ u \in Stream
      BY <1>1, <2>1
    <3>2. stream \o u \in Stream /\ Len(stream \o u) = Len(stream) + Len(u)
      BY ONLY <3>1, Cat
    <3> QED
      BY <2>1, <3>2
  <2>3. ASSUME m.len <= MaxQLen, Fits(m.len)
        PROVE  Len(su) <= StreamLen /\ Len(su) <= Len(stream) + (Hdr + MaxQLen)
    <3>1. Room >= 0 /\ Room = StreamLen - Hdr - Len(stream)
      BY <1>5 DEF Room
    <3>2. m.len <= StreamLen - Hdr - Len(stream)
      BY <1>1, <2>1, <2>3, <3>1 DEF Fits
    <3> QED
      BY <1>1, <2>1, <2>2, <2>3, <3>2
  <2>4. sent' = sent + 1
    BY <1>5 DEF Accept
  <2>5. CASE Queue(m)
    <3>1. CASE Fits(m.len)
      <4>1. stream' = su /\ m.len <= MaxQLen
        BY <2>5, <3>1 DEF Queue, u
      <4> QED
        BY <2>3, <2>4, <3>1, <4>1
    <3>2. CASE ~Fits(m.len)
      <4>1. stream' = u /\ m.len <= MaxQLen
        BY <2>5, <3>2 DEF Queue, u
      <4> QED
        BY <1>1, <2>1, <2>4, <4>1
    <3> QED
      BY <3>1, <3>2
  <2>6. CASE SendQueued(m)
    <3>1. m.len <= MaxQLen /\ Fits(m.len)
      BY <2>6 DEF SendQueued, Together
    <3>2. PICK k \in 0 .. Len(su) : Rest(su, k)
      BY <2>6 DEF SendQueued, u
    <3> HIDE DEF su
    <3>3. Len(stream') = Len(su) - k
      BY <2>2, <3>2, Cut DEF Rest
    <3>4. Len(su) \in Nat /\ Len(stream') <= Len(su) /\ Len(stream') \in Int
      BY <2>2, <3>2, <3>3, NoneBehind
    <3>5. Len(su) <= StreamLen /\ Len(su) <= Len(stream) + (Hdr + MaxQLen)
      BY <2>3, <3>1
    <3> QED
      BY <1>1, <2>4, <3>4, <3>5
  <2>7. CASE SendDirect(m)
    <3>1. PICK j \in 0 .. Len(stream) : Rest(stream, j)
      BY <2>7 DEF SendDirect
    <3>2. Len(stream') <= Len(stream) /\ Len(stream') \in Nat
      BY <1>1, <1>2, <3>1, Cut DEF Rest
    <3> QED
      BY <1>1, <3>2
  <2> QED
    BY <1>5, <2>5, <2>6, <2>7 DEF Accept
<1>6. ASSUME NEW m \in Message, Refuse(m) PROVE Holds
  <2>1. stream' = stream \/ stream' = <<>>
    BY <1>6 DEF Refuse
  <2> HIDE DEF Holds
  <2> QED
    BY <1>3, <1>4, <2>1
<1>7. ASSUME Flush PROVE Holds
  <2>1. PICK k \in 0 .. Len(stream) : Rest(stream, k)
    BY <1>7 DEF Flush
  <2>2. Len(stream') <= Len(stream) /\ Len(stream') \in Nat
    BY <1>1, <1>2, <2>1, Cut DEF Rest
  <2> QED
    BY <1>1, <2>2
<1>8. ASSUME Close PROVE Holds
  BY <1>4, <1>8 DEF Close
<1>9. ASSUME Receive \/ Over \/ UNCHANGED vars PROVE Holds
  <2>1. stream' = stream
    BY <1>9 DEF Receive, GetHdr, GetData, Dispatch, Return, Select, Work, Over, vars, output
  <2> QED
    BY <1>3, <2>1
<1> HIDE DEF Holds
<1>10. Holds
  <2>1. \/ \E m \in Message : Accept(m) \/ Refuse(m)
        \/ Flush \/ Close \/ Receive \/ Over \/ UNCHANGED vars
    BY DEF Next
  <2> QED
    BY <1>5, <1>6, <1>7, <1>8, <1>9, <2>1, Zenon
<1> QED
  BY <1>10 DEF Holds

\* With room for a header whenever a message is accepted, as the length in
\* pkg_stream and pkg_send needs it, no buffer ever holds more than it can, and
\* what pkc_left says is missing is missing.
THEOREM BuffersHold ==
  ASSUME "send" \notin Interrupted
  PROVE  Spec /\ [][(\E m \in Message : Accept(m)) => Room >= 0]_vars => []TypeOK
<1>1. Init => Len(stream) <= StreamLen
  BY PkgAssumption, NoneBehind DEF Init
<1>2. PkgInv /\ Len(stream) <= StreamLen /\ [Next]_vars
        /\ [(\E m \in Message : Accept(m)) => Room >= 0]_vars => (Len(stream) <= StreamLen)'
  <2> SUFFICES ASSUME PkgInv, Len(stream) <= StreamLen, [Next]_vars,
                      [(\E m \in Message : Accept(m)) => Room >= 0]_vars
               PROVE  Len(stream') <= StreamLen
    OBVIOUS
  <2>1. CASE UNCHANGED vars
    BY <2>1 DEF vars, output
  <2>2. CASE (\E m \in Message : Accept(m)) => Room >= 0
    BY <2>2, StreamFits DEF PkgInv
  <2> QED
    BY <2>1, <2>2
<1>3. PkgInv /\ Len(stream) <= StreamLen => TypeOK
  BY TypesFollow
<1> QED
  BY <1>1, <1>2, <1>3, InvHolds, PTL DEF Spec

\* Streaming so few messages that they cannot fill the buffer to its last header
\* is enough for that, whether they are flushed or not.
THEOREM FewMessagesFit ==
  ASSUME "send" \notin Interrupted,
         (MaxMessages - 1) * (Hdr + MaxQLen) <= StreamLen - Hdr
  PROVE  Spec => []TypeOK
<1> DEFINE Q == Hdr + MaxQLen
           Few == Len(stream) <= sent * Q /\ Len(stream) <= StreamLen
<1>1. Init => Few
  BY PkgAssumption, NoneBehind DEF Init
<1>2. PkgInv /\ Few /\ [Next]_vars => Few'
  <2> SUFFICES ASSUME PkgInv, Few, [Next]_vars PROVE Few'
    OBVIOUS
  <2>1. /\ Len(stream) \in Nat /\ sent \in 0 .. MaxMessages /\ sent \in Nat /\ MaxMessages \in Nat
        /\ Hdr \in Nat /\ Q \in Nat /\ StreamLen \in Nat
    BY NoneBehind, PkgAssumption DEF PkgInv, TypeInv
  <2>2. (\E m \in Message : Accept(m)) => Room >= 0
    <3> SUFFICES ASSUME sent < MaxMessages PROVE Room >= 0
      BY DEF Accept
    <3>1. sent <= MaxMessages - 1 /\ MaxMessages - 1 \in Nat
      BY <2>1
    <3> HIDE DEF Q
    <3>2. \A a \in Nat, b \in Nat, q \in Nat : a <= b => a * q <= b * q
      OBVIOUS
    <3>3. sent * Q <= (MaxMessages - 1) * Q
      BY <2>1, <3>1, <3>2
    <3>4. (MaxMessages - 1) * Q <= StreamLen - Hdr
      BY DEF Q
    <3>5. sent * Q \in Nat /\ (MaxMessages - 1) * Q \in Nat
      BY <2>1, <3>1
    <3>6. Len(stream) <= StreamLen - Hdr
      BY <2>1, <3>3, <3>4, <3>5
    <3> QED
      BY <2>1, <3>6 DEF Room
  <2>3. /\ Len(stream') <= StreamLen
        /\ Len(stream') <= Len(stream) \/ (sent' = sent + 1 /\ Len(stream') <= Len(stream) + Q)
    BY <2>2, StreamFits DEF PkgInv
  <2>4. PkgInv'
    BY NextInv
  <2>5. Len(stream') \in Nat /\ sent' \in Nat
    BY <2>4, NoneBehind DEF PkgInv, TypeInv
  <2>6. sent' = sent \/ sent' = sent + 1
    BY DEF Next, Accept, Refuse, Flush, Close, Receive, GetHdr, GetData, Dispatch, Return,
           Select, Work, Over, vars, output
  <2> HIDE DEF Q
  <2>7. (sent + 1) * Q = sent * Q + Q /\ sent * Q \in Nat
    BY <2>1
  <2>8. Len(stream') <= sent' * Q
    BY <2>1, <2>3, <2>5, <2>6, <2>7
  <2> QED
    BY <2>3, <2>8 DEF Q
<1>3. PkgInv /\ Few => TypeOK
  BY TypesFollow
<1> QED
  BY <1>1, <1>2, <1>3, InvHolds, PTL DEF Spec

=============================================================================
