---------------------------- MODULE MCIoBuffers ----------------------------
(***************************************************************************)
(* Files of at most four records of two bytes, two buffers, and large      *)
(* requests of three records: one write of marked bytes is followed among  *)
(* any number of others.                                                   *)
(***************************************************************************)
EXTENDS IoBuffers

Bytes(pos, gsize) == [ pos |-> pos, gsize |-> gsize, n |-> 1, offset |-> 0 ]
ByGroups(pos, gsize, n, offset) ==
  [ pos |-> pos, gsize |-> gsize, n |-> n, offset |-> offset ]

\* Single bytes of two records, a request over two, a large one that begins
\* within a record, and groups that straddle records on the way up and down.
MCRequests ==
  { Bytes(6, 1), Bytes(1, 3), Bytes(1, 6),
    ByGroups(0, 2, 3, 1), ByGroups(5, 2, 3, -4) }

\* A read backwards, from the first byte of a record to that of the last one.
DocRequests == { Bytes(1, 6), ByGroups(4, 2, 3, -4) }

\* More records than buffers, and reads of the last byte of the second one.
TornRequests == { Bytes(1, 3), Bytes(3, 1), Bytes(4, 1), Bytes(6, 1) }

MCData == { [ i \in 1 .. n |-> 0 ] : n \in { 1, 3, 6 } } \cup
          { [ i \in 1 .. n |-> (i % 2) + 1 ] : n \in { 1, 3, 6 } }

\* What a call may do depends on the file alone, not on the call before it.
FptrOnly == Fptr
=============================================================================
