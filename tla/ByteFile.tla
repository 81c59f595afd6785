------------------------------ MODULE ByteFile ------------------------------
(***************************************************************************)
(* What cfitsio promises of an open file, whatever its input and output    *)
(* buffers do: a sequence of bytes, a whole number of records long, that   *)
(* calls extend, overwrite, read and truncate.  The file below follows:    *)
(* each of its records is as it was, or as the program sees it before or   *)
(* after the call, and a flush brings all of them up to date.              *)
(*                                                                         *)
(* The program may die in any call.  It then loses what is not kept, which *)
(* is nothing after a flush, and one record may be left half written.      *)
(*                                                                         *)
(* A request is a record [pos, gsize, n, offset]: n groups of gsize bytes, *)
(* the first at byte pos, offset bytes apart.                              *)
(***************************************************************************)
EXTENDS Integers, Sequences, SequencesExt

CONSTANTS
  RecordLen,   \* the bytes of a record
  Fill,        \* the byte that positions nobody wrote hold
  Large,       \* the size from which a get goes to the disk itself
  Requests,    \* the requests that callers make
  Data         \* what they write

VARIABLES
  bytes,       \* the file as the program sees it
  stored,      \* the file as the bytes given to the driver make it
  kept,        \* the file that is left at least if the program dies
  call         \* the last call: its op, request and data

vars == << bytes, stored, kept, call >>

----------------------------------------------------------------------------
\* The bytes pos .. pos+n-1 of a file, counted from 0, as far as they are there.
Slice(file, pos, n) ==
  SubSeq(file, pos + 1, IF pos + n > Len(file) THEN Len(file) ELSE pos + n)

\* A file with fill bytes added up to size bytes.
Extended(file, size) ==
  IF size <= Len(file) THEN file
                       ELSE file \o [ i \in 1 .. size - Len(file) |-> Fill ]

\* A file with the bytes from pos on overwritten, or added.
Written(file, pos, data) ==
  LET room == Extended(file, pos + Len(data))
  IN [ i \in DOMAIN room |-> IF i - pos \in DOMAIN data THEN data[i - pos] ELSE room[i] ]

\* The end of the record that byte pos is in.
RecordEnd(pos) == (pos \div RecordLen + 1) * RecordLen

\* Where group k of a request begins, and the end of the last one.
GroupAt(req, k) == req.pos + (k - 1) * (req.gsize + req.offset)
ReqEnd(req) == IF req.offset + req.gsize < 0 THEN req.pos + req.gsize
                                             ELSE GroupAt(req, req.n) + req.gsize

AllWritten(file, req, data) ==
  FoldLeft(LAMBDA f, k : Written(f, GroupAt(req, k), Slice(data, (k - 1) * req.gsize, req.gsize)),
           file, [ k \in 1 .. req.n |-> k ])

AllRead(file, req) ==
  FlattenSeq([ k \in 1 .. req.n |-> Slice(file, GroupAt(req, k), req.gsize) ])

----------------------------------------------------------------------------
Record(file, r) == Slice(file, r * RecordLen, RecordLen)
Records(file) == 0 .. Len(file) \div RecordLen - 1

\* A file that is made of records of others, each in its place.
MadeOf(file, others) ==
  /\ Len(file) % RecordLen = 0
  /\ \A r \in Records(file) : \E other \in others : Record(file, r) = Record(other, r)

\* Records may be written back in any call, nothing else ever is, and they are
\* kept from some later time on.
Follows ==
  /\ MadeOf(stored', { stored, bytes, bytes' }) /\ Len(stored') <= Len(bytes')
  /\ MadeOf(kept', { kept, stored, bytes, bytes' }) /\ Len(kept') <= Len(stored')

\* The program dies in a call that would have made the file the next one, and
\* another one finds what is left: records of the files that were there, but
\* for one that is partly from each of them.
Dies(next) ==
  LET there == { kept, stored, bytes, next }
  IN /\ call' = [ op |-> "died" ]
     /\ bytes' = stored' /\ kept' = stored'
     /\ Len(stored') % RecordLen = 0
     /\ Len(stored') >= Len(kept) \/ Len(stored') >= Len(next)
     /\ Len(stored') <= Len(bytes) \/ Len(stored') <= Len(next)
     /\ \E torn \in Records(stored') :
          \A r \in Records(stored') \ {torn} :
            \E file \in there : Record(stored', r) = Record(file, r)
     /\ \A i \in DOMAIN stored' : \E file \in there : i \in DOMAIN file /\ stored'[i] = file[i]

Init == /\ bytes = Extended(<<>>, RecordLen) /\ stored = <<>> /\ kept = <<>>
        /\ call = [ op |-> "open" ]

\* Moving past the end extends the file up to the record moved to.
Move(req) ==
  LET next == Extended(bytes, RecordEnd(req.pos))
  IN \/ /\ call' = [ op |-> "move", req |-> req ]
        /\ bytes' = next /\ Follows
     \/ Dies(next)

\* A put writes its groups, after adding the records that they need.
Put(req, data) ==
  LET next == AllWritten(Extended(bytes, RecordEnd(ReqEnd(req) - 1)), req, data)
  IN /\ Len(data) = req.n * req.gsize
     /\ \/ /\ call' = [ op |-> "put", req |-> req, data |-> data ]
           /\ bytes' = next /\ Follows
        \/ Dies(next)

\* A get returns the bytes in place.
Get(req) == /\ call' = [ op |-> "get", req |-> req, data |-> AllRead(bytes, req) ]
            /\ bytes' = bytes /\ Follows

\* A move or a get fails when it goes past the end of the file: the end the
\* program sees, or the end of the file stored if the get is a large one.
Fail(req) == /\ call' = [ op |-> "failed", req |-> req ]
             /\ \/ ReqEnd(req) > Len(bytes)
                \/ req.n * req.gsize >= Large /\ ReqEnd(req) > Len(stored)
             /\ bytes' = bytes /\ Follows

Flush == /\ call' = [ op |-> "flush" ]
         /\ bytes' = bytes /\ stored' = bytes /\ kept' = bytes

Truncate(req) ==
  LET next == Slice(bytes, 0, req.pos)
  IN \/ /\ call' = [ op |-> "truncate", req |-> req ]
        /\ bytes' = next /\ stored' = next /\ kept' = next
     \/ Dies(next)

Next == \/ Flush \/ Dies(bytes)
        \/ \E req \in Requests :
             \/ Move(req) \/ Get(req) \/ Fail(req) \/ Truncate(req)
             \/ \E data \in Data : Put(req, data)

Spec == Init /\ [][Next]_vars
=============================================================================
