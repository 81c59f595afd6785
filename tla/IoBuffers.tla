------------------------------ MODULE IoBuffers -----------------------------
(***************************************************************************)
(* The input and output buffers of cfitsio: src/c_src/cfitsio/buffers.c.   *)
(* An open file has NIOBUF buffers of one record each.  Small reads and    *)
(* writes go through them; large ones go to the disk, around them; a       *)
(* buffer is written back when it is reused, or flushed, and a buffer      *)
(* past the end of the file may first need others, or fill, before it.     *)
(*                                                                         *)
(* The driver gives the bytes to the C library's stream, which keeps some  *)
(* of them until the stream seeks, reads or is flushed: a program that     *)
(* dies, in a call or between two, leaves a file without them, or with     *)
(* some.  (The system does not die: what it has is on disk.)               *)
(*                                                                         *)
(* The file is an image or a binary table, whose fill byte is zero, opened *)
(* for writing, on a disk that never fails.  One program has it open.      *)
(* Status is zero when a call of the library begins, and its caller has    *)
(* dealt with it when the next one does.                                   *)
(***************************************************************************)
EXTENDS Integers, Sequences, FiniteSets, SequencesExt

CONSTANTS
  NIOBUF,      \* the number of buffers
  IOBUFLEN,    \* the bytes of one
  MINDIRECT,   \* the size from which reads and writes bypass them
  Fill,        \* the byte that new records are filled with
  Requests,    \* the requests of callers: [pos, gsize, n, offset]
  Data         \* the sequences of bytes that they write

ASSUME BufferSizes == /\ NIOBUF \in Nat \ {0} /\ IOBUFLEN \in Nat \ {0}
                      /\ MINDIRECT \in Nat /\ MINDIRECT >= 3 * IOBUFLEN

\* Writes by groups are of groups of at most a record: "ffpbytoff can't handle"
\* larger ones (putcols.c:98).
ASSUME RequestsAssumption ==
  \A req \in Requests : /\ req.pos \in Nat /\ req.gsize \in Nat /\ req.n \in Nat
                        /\ req.offset \in Int
                        /\ req.n # 1 => req.gsize <= IOBUFLEN

ASSUME DataAssumption ==
  \A data \in Data : Len(data) \in Nat /\ data = [ i \in 1 .. Len(data) |-> data[i] ]

VARIABLES
  Fptr,        \* FITSfile: the buffers, and the file under them
  call         \* the last call: what it asked for and what it returned

vars == << Fptr, call >>

Bufs == 0 .. NIOBUF - 1
REPORT_EOF == 0
IGNORE_EOF == 1
END_OF_FILE == 107

Least(a, b) == IF a < b THEN a ELSE b
Most(a, b) == IF a > b THEN a ELSE b
Blank(n) == [ i \in 1 .. n |-> Fill ]
Slice(file, pos, n) == [ i \in 1 .. n |-> file[pos + i] ]

\* file with data at pos, and fill bytes where that leaves a gap.
Over(file, pos, data) ==
  [ i \in 1 .. Most(Len(file), pos + Len(data)) |->
      IF i - pos \in DOMAIN data THEN data[i - pos]
      ELSE IF i \in DOMAIN file THEN file[i] ELSE Fill ]

\* A loop of n turns, from F.
Loop(Turn(_, _), F, n) ==
  LET after[i \in 0 .. n] == IF i = 0 THEN F ELSE Turn(after[i-1], i)
  IN after[n]

----------------------------------------------------------------------------
(* The driver: the stream, that is the file and the position in it.  The   *)
(* system has os.file, and os.past during the call; the stream has written *)
(* the bytes from os.from up to its position over it.                      *)

\* The files that the system has, depending on how many of these it has got.
Kept(F) ==
  { [ i \in 1 .. Most(Len(F.os.file), k) |-> IF i <= k THEN F.disk[i] ELSE F.os.file[i] ] :
      k \in { Least(got, Len(F.disk)) : got \in F.os.from .. F.at } }

\* It gets all of them, and the stream goes on at pos.
Synced(F, pos) == [ file |-> F.disk, from |-> pos, past |-> F.os.past \cup Kept(F) ]

ffseek(F, pos) == [ F EXCEPT !.at = pos, !.os = Synced(F, pos) ]

ffwrite(F, data) == [ F EXCEPT !.disk = Over(@, F.at, data), !.at = @ + Len(data) ]

\* A read past the end fails and leaves the position at the end.
Readable(F, n) == F.at + n <= Len(F.disk)
ffread(F, n) ==
  IF Readable(F, n) THEN [ F EXCEPT !.at = @ + n, !.os = Synced(F, F.at + n) ]
  ELSE [ F EXCEPT !.at = Len(F.disk), !.os = Synced(F, Len(F.disk)), !.status = END_OF_FILE ]

ffflushx(F) == [ F EXCEPT !.os = Synced(F, F.at) ]

SeekTo(F, pos) == IF F.io_pos # pos THEN ffseek(F, pos) ELSE F

----------------------------------------------------------------------------
(* Writing buffers back.                                                   *)

Start(F, n) == F.rec[n] * IOBUFLEN

WriteInside(F, n) ==
  LET W == ffwrite(SeekTo(F, Start(F, n)), F.buf[n])
  IN [ W EXCEPT !.io_pos = Start(F, n) + IOBUFLEN,
                !.filesize = IF Start(F, n) = @ THEN @ + IOBUFLEN ELSE @,
                !.dirty[n] = FALSE ]

\* The buffers past the end of the file that come before buffer n.
Waiting(F, n) == { m \in Bufs : F.rec[m] \in F.filesize \div IOBUFLEN .. F.rec[n] - 1 }
Lowest(F, n) == IF Waiting(F, n) = {} THEN n
                ELSE CHOOSE m \in Waiting(F, n) : \A k \in Waiting(F, n) : F.rec[m] <= F.rec[k]

Append1(F, n) ==
  LET gap == Start(F, n) - F.filesize
  IN [ ffwrite(ffwrite(F, Blank(gap)), F.buf[n])
       EXCEPT !.filesize = Start(F, n) + IOBUFLEN, !.dirty[n] = FALSE ]

\* They are appended, the lowest first, until buffer n, which is dirty, is written.
AppendLowest(G, n) == IF G.dirty[n] THEN Append1(G, Lowest(G, n)) ELSE G

WriteBeyond(F, n) ==
  LET W == Loop(LAMBDA G, i : AppendLowest(G, n), SeekTo(F, F.filesize), NIOBUF)
  IN [ W EXCEPT !.io_pos = W.filesize ]

ffbfwt(F, n) == IF Start(F, n) <= F.filesize THEN WriteInside(F, n) ELSE WriteBeyond(F, n)

\* ffbfwt for each of the dirty buffers of some records, in order.
WriteDirty(G, n) == IF G.dirty[n] THEN ffbfwt(G, n) ELSE G
WriteIf(G, n, records) == IF G.rec[n] \in records THEN WriteDirty(G, n) ELSE G
WriteBack(F, records) == Loop(LAMBDA G, i : WriteIf(G, i - 1, records), F, NIOBUF)

----------------------------------------------------------------------------
(* Loading records.                                                        *)

\* The buffer becomes the current, and the youngest, one.
Used(F, n) ==
  LET k == CHOOSE i \in 1 .. NIOBUF : F.age[i] = n
  IN [ F EXCEPT !.cur = n,
                !.age = [ i \in 1 .. NIOBUF |-> IF i < k THEN F.age[i]
                                               ELSE IF i < NIOBUF THEN F.age[i+1] ELSE n ] ]

ReadRecord(F, n, record) ==
  LET S == SeekTo(F, record * IOBUFLEN)
  IN [ ffread(S, IOBUFLEN)
       EXCEPT !.buf[n] = IF Readable(S, IOBUFLEN) THEN Slice(S.disk, S.at, IOBUFLEN)
                         ELSE Over(@, 0, Slice(S.disk, S.at, Len(S.disk) - S.at)),
              !.io_pos = (record + 1) * IOBUFLEN ]

NewRecord(F, n, record) ==
  [ F EXCEPT !.buf[n] = Blank(IOBUFLEN), !.dirty[n] = TRUE,
             !.logfilesize = Most(@, (record + 1) * IOBUFLEN) ]

\* The oldest buffer is reused, after it is written back.
Loaded(F, record) ==
  LET n == F.age[1]
      G == WriteDirty(F, n)
      L == IF record * IOBUFLEN >= G.filesize THEN NewRecord(G, n, record)
                                              ELSE ReadRecord(G, n, record)
  IN Used([ L EXCEPT !.rec[n] = record ], n)

\* The youngest of the buffers that hold the record.
Holders(F, record) == { i \in 1 .. NIOBUF : F.rec[F.age[i]] = record }
Youngest(F, record) == F.age[Max(Holders(F, record))]

ffldrc(F, record, err_mode) ==
  IF Holders(F, record) # {} THEN Used(F, Youngest(F, record))
  ELSE IF err_mode = REPORT_EOF /\ record * IOBUFLEN >= F.logfilesize
       THEN [ F EXCEPT !.status = END_OF_FILE ]
       ELSE Loaded(F, record)

ffmbyt(F, pos, err_mode) ==
  LET record == pos \div IOBUFLEN
      M == IF record # F.rec[F.cur] THEN ffldrc(F, record, err_mode) ELSE F
  IN IF M.status = 0 THEN [ M EXCEPT !.bytepos = pos ] ELSE M

----------------------------------------------------------------------------
(* Writing bytes at the current position.                                  *)

Room(F) == IOBUFLEN - (F.bytepos - Start(F, F.cur))

\* Some bytes are put in the current buffer, which has room for `room' more.
Fill1(F, room, data) == [ F EXCEPT !.buf[F.cur] = Over(@, IOBUFLEN - room, data) ]
Dirtied(F) == [ F EXCEPT !.dirty[F.cur] = TRUE ]

\* One turn of the loop of a small write.
PutChunk(G, i) ==
  LET k == Least(Len(G.todo), G.room)
      rest == Slice(G.todo, k, Len(G.todo) - k)
      W == [ Dirtied(Fill1(G.F, G.room, Slice(G.todo, 0, k))) EXCEPT !.bytepos = @ + k ]
  IN IF G.todo = <<>> THEN G
     ELSE [ F    |-> IF rest = <<>> THEN W
                                    ELSE ffldrc(W, W.bytepos \div IOBUFLEN, IGNORE_EOF),
            todo |-> rest,
            room |-> IOBUFLEN ]

\* Enough turns for n bytes.
Turns(n) == n \div IOBUFLEN + 2

PutSmall(F, data) ==
  Loop(PutChunk, [ F |-> F, todo |-> data, room |-> Room(F) ], Turns(Len(data))).F

\* Mutant: buffers around a large write keep their records.
EvictedKept(F, from, to) == WriteBack(F, from .. to)

\* The buffers of the records from one to another are written back and let go.
EvictIf(G, n, records) ==
  IF G.rec[n] \in records THEN [ WriteDirty(G, n) EXCEPT !.rec[n] = -1 ] ELSE G
Evicted(F, from, to) == Loop(LAMBDA G, i : EvictIf(G, i - 1, from .. to), F, NIOBUF)

\* A large write fills the current buffer, writes it back, writes all but the
\* last of the other records around the buffers, and buffers the last one.
PutDirect(F, data) ==
  LET n == F.cur
      space == Room(F)
      recend == (F.bytepos + Len(data) - 1) \div IOBUFLEN
      filepos == F.bytepos + space
      nwrite == ((Len(data) - space - 1) \div IOBUFLEN) * IOBUFLEN
      full == IF space = 0 THEN F ELSE Dirtied(Fill1(F, space, Slice(data, 0, space)))
      E == [ ffwrite(SeekTo(Evicted(full, F.rec[n], recend), filepos), Slice(data, space, nwrite))
             EXCEPT !.io_pos = filepos + nwrite ]
      B == IF E.io_pos >= E.filesize
           THEN [ E EXCEPT !.filesize = E.io_pos, !.buf[n] = Blank(IOBUFLEN) ]
           ELSE [ ffread(E, IOBUFLEN)
                  EXCEPT !.buf[n] = Slice(E.disk, E.at, IOBUFLEN), !.io_pos = @ + IOBUFLEN ]
  IN [ B EXCEPT !.buf[n] = Over(@, 0, Slice(data, space + nwrite, Len(data) - space - nwrite)),
                !.dirty[n] = TRUE,
                !.rec[n] = recend,
                !.logfilesize = Most(@, (recend + 1) * IOBUFLEN),
                !.bytepos = @ + Len(data) ]

ffpbyt(F, data) ==
  IF F.status # 0 THEN F
  ELSE IF Len(data) >= MINDIRECT THEN PutDirect(F, data) ELSE PutSmall(F, data)

\* One group of a write by groups: what does not fit goes to the next record,
\* and the record where the next group begins is loaded.
PutGroup(req, data, G, i) ==
  LET group == Slice(data, (i - 1) * req.gsize, req.gsize)
      k == Least(req.gsize, G.room)
      A == Fill1(G.F, G.room, Slice(group, 0, k))
      spilt == k < req.gsize
      B == IF spilt THEN Fill1(ffldrc(Dirtied(A), G.record + 1, IGNORE_EOF), IOBUFLEN,
                               Slice(group, k, req.gsize - k))
           ELSE A
      record == IF spilt THEN G.record + 1 ELSE G.record
      room == (IF spilt THEN IOBUFLEN - (req.gsize - k) ELSE G.room - k) - req.offset
      next == record + (IOBUFLEN - room) \div IOBUFLEN
  IN IF i = req.n \/ room > 0 THEN [ F |-> B, record |-> record, room |-> room ]
     ELSE [ F      |-> ffldrc(Dirtied(B), next, IGNORE_EOF),
            record |-> next,
            room   |-> IOBUFLEN - ((0 - room) % IOBUFLEN) ]

Moved(F, req) ==
  [ F EXCEPT !.bytepos = @ + req.n * req.gsize + (req.n - 1) * req.offset ]

ffpbytoff(F, req, data) ==
  IF F.status # 0 THEN F
  ELSE LET G == Loop(LAMBDA g, i : PutGroup(req, data, g, i),
                     [ F |-> F, record |-> F.rec[F.cur], room |-> Room(F) ], req.n)
       IN Moved(Dirtied(G.F), req)

----------------------------------------------------------------------------
(* Reading bytes: each operator yields the file, and the bytes.            *)

Taken(F, room, n) == Slice(F.buf[F.cur], IOBUFLEN - room, n)

GetChunk(G, i) ==
  LET k == Least(G.todo, G.room)
      R == [ G.F EXCEPT !.bytepos = @ + k ]
  IN IF G.todo = 0 THEN G
     ELSE [ F    |-> IF G.todo = k THEN R
                                   ELSE ffldrc(R, R.bytepos \div IOBUFLEN, REPORT_EOF),
            data |-> G.data \o Taken(G.F, G.room, k),
            todo |-> G.todo - k,
            room |-> IOBUFLEN ]

GetSmall(F, n) ==
  Loop(GetChunk, [ F |-> F, data |-> <<>>, todo |-> n, room |-> Room(F) ], Turns(n))

\* Mutant: a large read goes to disk past the buffers that hold later bytes.
GetDirectUnflushed(F, n) ==
  LET S == SeekTo(F, F.bytepos)
  IN [ F    |-> [ ffread(S, n) EXCEPT !.io_pos = F.bytepos + n ],
       data |-> IF Readable(S, n) THEN Slice(S.disk, S.at, n) ELSE <<>> ]

\* A large read goes to disk, after the buffers of its records are written back.
GetDirect(F, n) ==
  LET records == F.bytepos \div IOBUFLEN .. (F.bytepos + n - 1) \div IOBUFLEN
      S == SeekTo(WriteBack(F, records), F.bytepos)
  IN [ F    |-> [ ffread(S, n) EXCEPT !.io_pos = F.bytepos + n ],
       data |-> IF Readable(S, n) THEN Slice(S.disk, S.at, n) ELSE <<>> ]

ffgbyt(F, n) ==
  IF F.status # 0 THEN [ F |-> F, data |-> <<>> ]
  ELSE IF n >= MINDIRECT THEN GetDirect(F, n) ELSE GetSmall(F, n)

\* A large read leaves the position where it was.
ffgi1b(F, pos, n) ==
  IF n < MINDIRECT THEN ffgbyt(ffmbyt(F, pos, REPORT_EOF), n)
  ELSE LET R == ffgbyt([ F EXCEPT !.bytepos = pos ], n)
       IN [ R EXCEPT !.F.bytepos = F.bytepos ]

\* One group of a read by groups, whose offset may be negative.
GetGroup(req, G, i) ==
  LET k == Least(req.gsize, G.room)
      spilt == k < req.gsize
      B == IF spilt THEN ffldrc(G.F, G.record + 1, REPORT_EOF) ELSE G.F
      data == G.data \o Taken(G.F, G.room, k) \o
              (IF spilt THEN Taken(B, IOBUFLEN, req.gsize - k) ELSE <<>>)
      record == IF spilt THEN G.record + 1 ELSE G.record
      room == (IF spilt THEN IOBUFLEN - (req.gsize - k) ELSE G.room - k) - req.offset
      next == IF room <= 0 THEN record + (IOBUFLEN - room) \div IOBUFLEN
                           ELSE record - (room - 1) \div IOBUFLEN
      bufpos == IF room <= 0 THEN (0 - room) % IOBUFLEN ELSE IOBUFLEN - (room % IOBUFLEN)
  IN IF i = req.n \/ room \in 1 .. IOBUFLEN
     THEN [ F |-> B, data |-> data, record |-> record, room |-> room ]
     ELSE [ F      |-> ffldrc(B, next, REPORT_EOF),
            data   |-> data,
            record |-> next,
            room   |-> IOBUFLEN - bufpos ]

ffgbytoff(F, req) ==
  IF F.status # 0 THEN [ F |-> F, data |-> <<>> ]
  ELSE LET G == Loop(LAMBDA g, i : GetGroup(req, g, i),
                     [ F |-> F, data |-> <<>>, record |-> F.rec[F.cur], room |-> Room(F) ], req.n)
       IN [ F |-> Moved(G.F, req), data |-> G.data ]

----------------------------------------------------------------------------
(* Flushing, truncating, opening and closing.                              *)

\* Mutant: the stream is not flushed.
ffflshUnsynced(F, clearbuf) ==
  LET W == WriteBack(F, Nat)
  IN IF clearbuf THEN [ W EXCEPT !.rec = [ n \in Bufs |-> -1 ] ] ELSE W

ffflsh(F, clearbuf) ==
  LET W == ffflushx(WriteBack(F, Nat))
  IN IF clearbuf THEN [ W EXCEPT !.rec = [ n \in Bufs |-> -1 ] ] ELSE W

ffbfeof(F) ==
  [ F EXCEPT !.rec = [ n \in Bufs |-> IF Start(F, n) >= F.filesize THEN -1 ELSE F.rec[n] ] ]

fftrun(F, size) ==
  LET T == ffbfeof([ ffflsh(F, FALSE) EXCEPT !.filesize = size, !.io_pos = size,
                                             !.logfilesize = size, !.bytepos = size ])
      D == [ T EXCEPT !.disk = Slice(@, 0, size), !.at = size ]
  IN [ D EXCEPT !.os = [ file |-> D.disk, from |-> size, past |-> D.os.past \cup Kept(T) ] ]

\* ffopen and ffinit: the file is there, or it is new.
OpenFile(disk, err_mode) ==
  ffldrc([ disk        |-> disk,
           at          |-> 0,
           os          |-> [ file |-> disk, from |-> 0, past |-> {} ],
           buf         |-> [ n \in Bufs |-> Blank(IOBUFLEN) ],
           rec         |-> [ n \in Bufs |-> -1 ],
           dirty       |-> [ n \in Bufs |-> FALSE ],
           age         |-> [ i \in 1 .. NIOBUF |-> i - 1 ],
           cur         |-> -1,
           bytepos     |-> 0,
           io_pos      |-> 0,
           filesize    |-> Len(disk),
           logfilesize |-> Len(disk),
           status      |-> 0 ], 0, err_mode)

----------------------------------------------------------------------------
\* Another program opens the file that one which died has left: in this
\* specification, if it is one of whole records.
Reopened(file) == [ OpenFile(file, REPORT_EOF) EXCEPT !.os.past = {} ]
Found(file, records) == Len(file) = records * IOBUFLEN

\* A call returns: what it did to the file stays, its status is dealt with.
\* Or the program dies before that, and another one opens the file as the
\* system has it.
Returns(F, returned) ==
  \/ /\ Fptr' = [ F EXCEPT !.status = 0, !.os.past = {} ]
     /\ call' = IF F.status = 0 THEN returned
                ELSE [ op |-> "failed", req |-> returned.req ]
  \/ /\ \E file \in F.os.past \cup Kept(F) : \E records \in 1 .. F.logfilesize \div IOBUFLEN :
          /\ Found(file, records)
          /\ Fptr' = Reopened(Slice(file, 0, records * IOBUFLEN))
     /\ call' = [ op |-> "died" ]

Init == /\ Fptr = OpenFile(<<>>, IGNORE_EOF)
        /\ call = [ op |-> "open" ]

Single(req) == req.n = 1 /\ req.gsize = 1

\* The code never looks at the bytes, so that it is enough to follow one write
\* of bytes other than Fill at a time: the bound on the contents of the file.
Marks(bytes) == SelectSeq(bytes, LAMBDA byte : byte # Fill) # <<>>
Followed(data) ==
  Marks(data) => ~ Marks(Fptr.disk) /\ ~ Marks(Fptr.os.file) /\ \A n \in Bufs : ~ Marks(Fptr.buf[n])

Move(req, err_mode) ==
  /\ Single(req)
  /\ Returns(ffmbyt(Fptr, req.pos, err_mode), [ op |-> "move", req |-> req ])

\* Callers move before they write, past the end if need be ...
PutAt(req, data) ==
  LET M == ffmbyt(Fptr, req.pos, IGNORE_EOF)
  IN /\ Followed(data) /\ Len(data) = req.n * req.gsize /\ req.offset >= 0
     /\ Returns(IF req.n = 1 THEN ffpbyt(M, data) ELSE ffpbytoff(M, req, data),
                [ op |-> "put", req |-> req, data |-> data ])

\* ... or go on where the last call left the current buffer.
PutOn(req, data) ==
  /\ req.pos = Fptr.bytepos /\ Room(Fptr) \in 0 .. IOBUFLEN /\ Fptr.rec[Fptr.cur] >= 0
  /\ Followed(data) /\ Len(data) = req.gsize /\ req.n = 1
  /\ Returns(ffpbyt(Fptr, data), [ op |-> "put", req |-> req, data |-> data ])

Got(req) == IF req.n = 1 THEN ffgi1b(Fptr, req.pos, req.gsize)
            ELSE ffgbytoff(ffmbyt(Fptr, req.pos, REPORT_EOF), req)

GetAt(req) == Returns(Got(req).F, [ op |-> "get", req |-> req, data |-> Got(req).data ])

Flush(clearbuf) == Returns(ffflsh(Fptr, clearbuf), [ op |-> "flush" ])

\* Only ever to a smaller number of records.
Truncate(req) ==
  /\ Single(req)
  /\ req.pos % IOBUFLEN = 0 /\ req.pos \in 1 .. Fptr.logfilesize - 1
  /\ Returns(fftrun(Fptr, req.pos), [ op |-> "truncate", req |-> req ])

\* The file is closed and opened again.
Reopen == Returns(OpenFile(ffflsh(Fptr, TRUE).disk, REPORT_EOF), [ op |-> "flush" ])

Next ==
  \/ \E req \in Requests :
       \/ \E err_mode \in { REPORT_EOF, IGNORE_EOF } : Move(req, err_mode)
       \/ \E data \in Data : PutAt(req, data) \/ PutOn(req, data)
       \/ GetAt(req)
       \/ Truncate(req)
  \/ \E clearbuf \in BOOLEAN : Flush(clearbuf)
  \/ Reopen

Spec == Init /\ [][Next]_vars

\* The file that is left may also end within a record.  It can be opened if the
\* first one is whole.
OpenTorn ==
  /\ \E file \in Kept(Fptr) :
       OpenFile(file, REPORT_EOF).status = 0 /\ Fptr' = Reopened(file)
  /\ call' = [ op |-> "died" ]

NextTorn == Next \/ OpenTorn

SpecTorn == Init /\ [][NextTorn]_vars

----------------------------------------------------------------------------
(* What the buffers must keep true.                                        *)

\* The file as the program sees it: the buffers over the disk over fill.
Seen ==
  LET Shown(i, record, holders) ==
        IF holders # {} THEN Fptr.buf[Fptr.age[Max(holders)]][i - record * IOBUFLEN]
        ELSE IF i \in DOMAIN Fptr.disk THEN Fptr.disk[i] ELSE Fill
  IN [ i \in 1 .. Fptr.logfilesize |->
         Shown(i, (i - 1) \div IOBUFLEN, Holders(Fptr, (i - 1) \div IOBUFLEN)) ]

File == INSTANCE ByteFile WITH bytes <- Seen, stored <- Fptr.disk, kept <- Fptr.os.file,
                               RecordLen <- IOBUFLEN, Large <- MINDIRECT

\* Whatever is buffered, and whichever way the bytes go, reads return what was
\* written last, writes touch nothing else, each record on disk is one the file
\* has had since it was flushed, and a flush leaves nothing behind (ffpbyt,
\* ffgbyt, ffpbytoff, ffgbytoff, ffbfwt and ffflsh implement a file of bytes).
ImplementsByteFile == File!Spec

\* Two buffers never hold the same record; a buffer that is not dirty holds
\* what is on disk; the sizes and the position that Fptr keeps are those of the
\* file on disk, where the next record to be read or written is expected; and
\* unless a buffer is dirty the logical size is the size on disk.
BuffersCoherent ==
  /\ { Fptr.age[i] : i \in 1 .. NIOBUF } = Bufs /\ Len(Fptr.age) = NIOBUF
  /\ \A m, n \in Bufs : Fptr.rec[m] = Fptr.rec[n] /\ Fptr.rec[m] >= 0 => m = n
  /\ \A n \in Bufs : Fptr.dirty[n] => Fptr.rec[n] \in 0 .. Fptr.logfilesize \div IOBUFLEN - 1
  /\ \A n \in Bufs : Fptr.rec[n] >= 0 /\ ~ Fptr.dirty[n] =>
       Fptr.buf[n] = Slice(Fptr.disk, Start(Fptr, n), IOBUFLEN)
  /\ Fptr.filesize = Len(Fptr.disk) /\ Fptr.filesize <= Fptr.logfilesize
  /\ Fptr.io_pos <= Fptr.filesize => Fptr.at = Fptr.io_pos
  /\ (\A n \in Bufs : ~ Fptr.dirty[n]) => Fptr.filesize = Fptr.logfilesize

\* A read by groups that succeeds returns the bytes of each of its groups, also
\* when they go backwards: "offset ... size of gap between groups (may be < 0)"
\* (buffers.c:366).  The code loses a step of a whole record back to the first
\* byte of one.
GroupsAsDocumented ==
  \A req \in Requests : req.n > 1 /\ Got(req).F.status = 0 =>
    Got(req).data = File!AllRead(Seen, req)

\* A read that succeeds while no buffer is dirty returns what is on disk, all of
\* it: ffgbyt is to "get (read) the requested number of bytes from the file,
\* starting at the current file position" (buffers.c:281).  But a record that
\* ends with the file fails to load once only: ffldrc labels the buffer with it
\* although the read before failed, and the next read is served from there.
ReadsAsDocumented ==
  (\A n \in Bufs : ~ Fptr.dirty[n]) =>
    \A req \in Requests : req.n = 1 /\ Got(req).F.status = 0 =>
      Got(req).data = File!Slice(Fptr.disk, req.pos, req.gsize)
=============================================================================
