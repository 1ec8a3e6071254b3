----------------------------- MODULE MCDatabase -----------------------------
EXTENDS Database
\* What the process may find: no object, one, two records of one name, free
\* records that have not been merged, a last record whose end is missing.
MCFiles ==
  {<<>>} \cup
  UNION {{Record(x, 2), Record(x, 2) \o Record(x, 1),
          Record(x, 1) \o Record(Free, 1) \o Record(Free, 2) \o Record(y, 1),
          Record(x, 2) \o SubSeq(Record(y, 3), 1, 2)} : x, y \in Names}
\* A file of two objects, the length in the header of the first being zero.
MCDamaged == {[(Record(x, 2) \o Record(y, 2)) EXCEPT ![1].len = 0] : x, y \in Names}
==============================================================================
