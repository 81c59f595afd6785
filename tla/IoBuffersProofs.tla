--------------------------- MODULE IoBuffersProofs --------------------------
(***************************************************************************)
(* The buffers of IoBuffers stay coherent with the file on disk and with   *)
(* each other, for every number and size of buffers, every request and     *)
(* every sequence of calls, with the program dying in some of them.        *)
(***************************************************************************)
EXTENDS IoBuffers, NaturalsInduction, WellFoundedInduction, FiniteSetTheorems, TLAPS

----------------------------------------------------------------------------
(* Numbers.                                                                *)

\* Induction over the naturals, for a set.
LEMMA NatSetInduction ==
  ASSUME NEW S, 0 \in S, \A n \in Nat : n \in S => n + 1 \in S
  PROVE  \A n \in Nat : n \in S
<1> DEFINE T == { n \in Nat : n \notin S }
<1>1. SUFFICES ASSUME T # {}
               PROVE  FALSE
  OBVIOUS
<1>2. PICK x \in T : \A y \in T : ~ (<< y, x >> \in OpToRel(<, Nat))
  <2>1. T \subseteq Nat
    OBVIOUS
  <2> HIDE DEF T
  <2> QED
    BY <1>1, <2>1, NatLessThanWellFounded, WFMin
<1>3. x \in Nat \ {0} /\ x - 1 \in Nat /\ (x - 1) + 1 = x
  OBVIOUS
<1>4. x - 1 \in T
  BY <1>3
<1>5. << x - 1, x >> \in OpToRel(<, Nat)
  BY <1>3 DEF OpToRel
<1> QED
  BY <1>2, <1>4, <1>5

\* Sizes are counted in records.
Recs(size) == size \div IOBUFLEN

\* A whole number of records, and the place of one among others.
LEMMA Records ==
  ASSUME NEW a \in Int
  PROVE  /\ Recs(a * IOBUFLEN) = a /\ a * IOBUFLEN \in Int
         /\ (a + 1) * IOBUFLEN = a * IOBUFLEN + IOBUFLEN
         /\ a >= 0 <=> a * IOBUFLEN >= 0
<1> USE BufferSizes
<1>1. a * IOBUFLEN \in Int /\ (a + 1) * IOBUFLEN = a * IOBUFLEN + IOBUFLEN
  OBVIOUS
<1>2. Recs(a * IOBUFLEN) = a
  BY DEF Recs
<1>3. a >= 0 => a * IOBUFLEN >= 0
  OBVIOUS
<1>4. a < 0 => a * IOBUFLEN < 0
  OBVIOUS
<1> QED
  BY <1>1, <1>2, <1>3, <1>4

LEMMA RecordStart ==
  ASSUME NEW r \in Nat
  PROVE  r * IOBUFLEN \in Nat
BY BufferSizes

LEMMA RecordsOrdered ==
  ASSUME NEW a \in Int, NEW b \in Int
  PROVE  /\ a < b <=> a * IOBUFLEN < b * IOBUFLEN
         /\ a <= b <=> a * IOBUFLEN <= b * IOBUFLEN
         /\ a = b <=> a * IOBUFLEN = b * IOBUFLEN
         /\ a < b <=> a * IOBUFLEN + IOBUFLEN <= b * IOBUFLEN
<1> USE BufferSizes
<1>0. a * IOBUFLEN \in Int /\ b * IOBUFLEN \in Int
  OBVIOUS
<1>1. ASSUME a < b PROVE a * IOBUFLEN + IOBUFLEN <= b * IOBUFLEN
  <2>1. b - a - 1 \in Nat
    BY <1>1
  <2>2. (b - a - 1) * IOBUFLEN >= 0
    BY <2>1
  <2>3. (b - a - 1) * IOBUFLEN = b * IOBUFLEN - a * IOBUFLEN - IOBUFLEN
    OBVIOUS
  <2> QED
    BY <1>0, <2>2, <2>3
<1>2. ASSUME b < a PROVE b * IOBUFLEN + IOBUFLEN <= a * IOBUFLEN
  <2>1. a - b - 1 \in Nat
    BY <1>2
  <2>2. (a - b - 1) * IOBUFLEN >= 0
    BY <2>1
  <2>3. (a - b - 1) * IOBUFLEN = a * IOBUFLEN - b * IOBUFLEN - IOBUFLEN
    OBVIOUS
  <2> QED
    BY <1>0, <2>2, <2>3
<1>3. a = b => a * IOBUFLEN = b * IOBUFLEN
  OBVIOUS
<1> DEFINE x == a * IOBUFLEN
           y == b * IOBUFLEN
<1>4. x \in Int /\ y \in Int /\ (a < b => x + IOBUFLEN <= y) /\ (b < a => y + IOBUFLEN <= x)
      /\ (a = b => x = y)
  BY <1>0, <1>1, <1>2, <1>3
<1> HIDE DEF x, y
<1>5. /\ a < b <=> x < y
      /\ a <= b <=> x <= y
      /\ a = b <=> x = y
      /\ a < b <=> x + IOBUFLEN <= y
  BY <1>4
<1> QED
  BY <1>5 DEF x, y

\* The record of a position.
LEMMA RecordOf ==
  ASSUME NEW pos \in Int
  PROVE  /\ Recs(pos) \in Int /\ Recs(pos) * IOBUFLEN \in Int
         /\ Recs(pos) * IOBUFLEN <= pos /\ pos < Recs(pos) * IOBUFLEN + IOBUFLEN
         /\ pos >= 0 <=> Recs(pos) >= 0
<1> USE BufferSizes
<1> DEFINE q == pos \div IOBUFLEN
<1>1. q \in Int /\ IOBUFLEN * q <= pos /\ pos < IOBUFLEN * (q + 1)
  OBVIOUS
<1> HIDE DEF q
<1>2. q * IOBUFLEN \in Int /\ q * IOBUFLEN <= pos /\ pos < q * IOBUFLEN + IOBUFLEN
  BY <1>1
<1>3. q >= 0 <=> q * IOBUFLEN >= 0
  BY <1>1, Records
<1>4. q < 0 => q * IOBUFLEN + IOBUFLEN <= 0
  <2>1. 0 * IOBUFLEN = 0
    OBVIOUS
  <2> QED
    BY <1>1, <2>1, RecordsOrdered
<1> DEFINE x == q * IOBUFLEN
<1>5. x \in Int /\ x <= pos /\ pos < x + IOBUFLEN /\ (q >= 0 <=> x >= 0) /\ (q < 0 => x + IOBUFLEN <= 0)
  BY <1>2, <1>3, <1>4
<1> HIDE DEF x
<1>6. pos >= 0 <=> q >= 0
  BY <1>1, <1>5
<1> QED
  BY <1>1, <1>2, <1>6 DEF Recs, q

LEMMA Remainder ==
  ASSUME NEW pos \in Int
  PROVE  pos % IOBUFLEN \in 0 .. IOBUFLEN - 1
BY BufferSizes
----------------------------------------------------------------------------
(* Sequences of bytes.                                                     *)

IsSequence(s) == Len(s) \in Nat /\ s = [ i \in 1 .. Len(s) |-> s[i] ]

LEMMA FunctionIsSequence ==
  ASSUME NEW n \in Nat, NEW f, f = [ i \in 1 .. n |-> f[i] ]
  PROVE  IsSequence(f) /\ Len(f) = n
<1>1. DOMAIN f = 1 .. n
  OBVIOUS
<1>2. Len(f) = n
  <2>1. f \in Seq({ f[i] : i \in 1 .. n })
    OBVIOUS
  <2> QED
    BY <1>1, <2>1
<1> QED
  BY <1>2 DEF IsSequence

LEMMA BlankIs ==
  ASSUME NEW n \in Nat
  PROVE  /\ IsSequence(Blank(n)) /\ Len(Blank(n)) = n
         /\ \A i \in 1 .. n : Blank(n)[i] = Fill
<1>1. /\ Blank(n) = [ i \in 1 .. n |-> Blank(n)[i] ]
      /\ \A i \in 1 .. n : Blank(n)[i] = Fill
  BY DEF Blank
<1> QED
  BY <1>1, FunctionIsSequence

LEMMA SliceIs ==
  ASSUME NEW file, NEW pos \in Int, NEW n \in Nat
  PROVE  /\ IsSequence(Slice(file, pos, n)) /\ Len(Slice(file, pos, n)) = n
         /\ \A i \in 1 .. n : Slice(file, pos, n)[i] = file[pos + i]
<1>1. /\ Slice(file, pos, n) = [ i \in 1 .. n |-> Slice(file, pos, n)[i] ]
      /\ \A i \in 1 .. n : Slice(file, pos, n)[i] = file[pos + i]
  BY DEF Slice
<1> QED
  BY <1>1, FunctionIsSequence

LEMMA OverIs ==
  ASSUME NEW file, IsSequence(file), NEW data, IsSequence(data), NEW pos \in Nat
  PROVE  LET over == Over(file, pos, data)
         IN  /\ IsSequence(over) /\ Len(over) = Most(Len(file), pos + Len(data))
             /\ \A i \in 1 .. Len(over) :
                  over[i] = IF i - pos \in 1 .. Len(data) THEN data[i - pos]
                            ELSE IF i <= Len(file) THEN file[i] ELSE Fill
<1> DEFINE over == Over(file, pos, data)
           n == Most(Len(file), pos + Len(data))
<1>1. Len(file) \in Nat /\ Len(data) \in Nat /\ DOMAIN file = 1 .. Len(file) /\ DOMAIN data = 1 .. Len(data)
  BY DEF IsSequence
<1>2. n \in Nat
  BY <1>1 DEF Most
<1>3. over = [ i \in 1 .. n |->
                 IF i - pos \in DOMAIN data THEN data[i - pos]
                 ELSE IF i \in DOMAIN file THEN file[i] ELSE Fill ]
  BY DEF Over
<1> HIDE DEF over, n
<1>4. over = [ i \in 1 .. n |-> over[i] ]
  BY <1>3
<1>5. IsSequence(over) /\ Len(over) = n
  BY <1>2, <1>4, FunctionIsSequence
<1>6. ASSUME NEW i \in 1 .. n
      PROVE  over[i] = IF i - pos \in 1 .. Len(data) THEN data[i - pos]
                       ELSE IF i <= Len(file) THEN file[i] ELSE Fill
  <2>1. over[i] = IF i - pos \in DOMAIN data THEN data[i - pos]
                  ELSE IF i \in DOMAIN file THEN file[i] ELSE Fill
    BY <1>3
  <2>2. i \in 1 .. Len(file) <=> i <= Len(file)
    BY <1>1, <1>2
  <2> QED
    BY <1>1, <2>1, <2>2
<1> QED
  BY <1>5, <1>6 DEF over, n

\* A sequence is known by its length and its elements.
LEMMA SameSequence ==
  ASSUME NEW s, IsSequence(s), NEW t, IsSequence(t), Len(s) = Len(t),
         \A i \in 1 .. Len(s) : s[i] = t[i]
  PROVE  s = t
BY DEF IsSequence


----------------------------------------------------------------------------
(* The inductive invariant.                                                *)

Fields(F) ==
  F = [ disk |-> F.disk, at |-> F.at, os |-> F.os, buf |-> F.buf, rec |-> F.rec, dirty |-> F.dirty,
        age |-> F.age, cur |-> F.cur, bytepos |-> F.bytepos, io_pos |-> F.io_pos,
        filesize |-> F.filesize, logfilesize |-> F.logfilesize, status |-> F.status ]

\* The buffers are held in their order of age, each of them once.
Typed(F) ==
  /\ Fields(F)
  /\ IsSequence(F.disk)
  /\ F.at \in Int /\ F.io_pos \in Int /\ F.bytepos \in Int
  /\ F.buf = [ n \in Bufs |-> F.buf[n] ] /\ F.rec \in [ Bufs -> Int ]
  /\ F.dirty \in [ Bufs -> BOOLEAN ]
  /\ F.age \in [ 1 .. NIOBUF -> Bufs ] /\ \A n \in Bufs : \E i \in 1 .. NIOBUF : F.age[i] = n

\* No two buffers hold the same record.
Alone(F) == \A m, n \in Bufs : F.rec[m] = F.rec[n] /\ F.rec[m] >= 0 => m = n

\* A buffer that holds a record holds a whole one.
Whole(F) == \A n \in Bufs : F.rec[n] >= 0 => IsSequence(F.buf[n]) /\ Len(F.buf[n]) = IOBUFLEN

DirtyInFile(F) ==
  \A n \in Bufs : F.dirty[n] => F.rec[n] \in Int /\ 0 <= F.rec[n] /\ F.rec[n] < Recs(F.logfilesize)

CleanOnDisk(F) ==
  \A n \in Bufs : F.rec[n] >= 0 /\ ~ F.dirty[n] =>
    F.rec[n] < Recs(F.filesize) /\ F.buf[n] = Slice(F.disk, Start(F, n), IOBUFLEN)

Sizes(F) ==
  /\ F.filesize = Len(F.disk) /\ F.filesize \in Nat /\ F.logfilesize \in Nat
  /\ F.filesize = Recs(F.filesize) * IOBUFLEN /\ F.logfilesize = Recs(F.logfilesize) * IOBUFLEN
  /\ Recs(F.filesize) <= Recs(F.logfilesize)

\* What the disk is short of is still in a buffer: that of the last record.
LastDirty(F) ==
  Recs(F.filesize) < Recs(F.logfilesize) =>
    \E n \in Bufs : F.dirty[n] /\ F.rec[n] = Recs(F.logfilesize) - 1

Body(F) ==
  /\ Typed(F) /\ Alone(F) /\ Whole(F) /\ DirtyInFile(F) /\ CleanOnDisk(F) /\ Sizes(F) /\ LastDirty(F)

\* The next read or write begins where the library thinks it does.
AtPlace(F) == F.io_pos <= F.filesize => F.at = F.io_pos

Coh(F) == Body(F) /\ AtPlace(F)

\* An open file: a buffer is the current one, and there is a record.
Open(F) == Coh(F) /\ F.cur \in Bufs /\ 1 <= Recs(F.logfilesize)

IInv == Open(Fptr)

----------------------------------------------------------------------------
(* Writing buffers back.                                                   *)

\* All but the disk, its size and position, and what is dirty.
SameBuffers(F, G) ==
  /\ G.buf = F.buf /\ G.rec = F.rec /\ G.age = F.age /\ G.cur = F.cur
  /\ G.bytepos = F.bytepos /\ G.logfilesize = F.logfilesize /\ G.status = F.status

\* Buffer m is written to its place, past fill bytes if it is beyond the end.
Wrote(F, G, m) ==
  /\ Fields(G) /\ SameBuffers(F, G) /\ G.at \in Int /\ G.io_pos \in Int
  /\ G.dirty = [ F.dirty EXCEPT ![m] = FALSE ]
  /\ G.disk = Over(F.disk, Start(F, m), F.buf[m])
  /\ G.filesize = Most(F.filesize, Start(F, m) + IOBUFLEN)

\* Two records have no byte in common.
LEMMA RecordsApart ==
  ASSUME NEW a \in Int, NEW b \in Int, a # b, NEW i \in 1 .. IOBUFLEN
  PROVE  (a * IOBUFLEN + i) - b * IOBUFLEN \notin 1 .. IOBUFLEN
<1> DEFINE x == a * IOBUFLEN
           y == b * IOBUFLEN
<1>1. x \in Int /\ y \in Int /\ (a < b => x + IOBUFLEN <= y) /\ (b < a => y + IOBUFLEN <= x)
  BY Records, RecordsOrdered
<1> HIDE DEF x, y
<1>2. (x + i) - y \notin 1 .. IOBUFLEN
  BY <1>1, BufferSizes
<1> QED
  BY <1>2 DEF x, y

\* The size of a file whose record r is written.
LEMMA SizeAfter ==
  ASSUME NEW size \in Nat, size = Recs(size) * IOBUFLEN, NEW r \in Nat
  PROVE  LET after == Most(size, r * IOBUFLEN + IOBUFLEN)
         IN  /\ after \in Nat /\ after = Recs(after) * IOBUFLEN
             /\ Recs(after) = Most(Recs(size), r + 1)
<1> DEFINE s == Recs(size)
           m == Most(s, r + 1)
<1>1. s \in Nat
  BY RecordOf
<1>2. m \in Nat /\ m \in Int /\ (m = s \/ m = r + 1) /\ s <= m /\ r + 1 <= m
  BY <1>1 DEF Most
<1>3. Most(s * IOBUFLEN, (r + 1) * IOBUFLEN) = m * IOBUFLEN
  <2> DEFINE x == s * IOBUFLEN
             y == (r + 1) * IOBUFLEN
             z == m * IOBUFLEN
  <2>1. x \in Int /\ y \in Int /\ x <= z /\ y <= z /\ (x = z \/ y = z)
    <3>1. s \in Int /\ r + 1 \in Int /\ m \in Int /\ (m = s \/ m = r + 1) /\ s <= m /\ r + 1 <= m
      BY <1>1, <1>2
    <3> HIDE DEF s, m
    <3>2. s * IOBUFLEN <= m * IOBUFLEN
      BY <3>1, RecordsOrdered
    <3>3. (r + 1) * IOBUFLEN <= m * IOBUFLEN
      BY <3>1, RecordsOrdered
    <3>4. s * IOBUFLEN \in Int /\ (r + 1) * IOBUFLEN \in Int
      BY <3>1, Records
    <3>5. m = s => s * IOBUFLEN = m * IOBUFLEN
      OBVIOUS
    <3>6. m = r + 1 => (r + 1) * IOBUFLEN = m * IOBUFLEN
      OBVIOUS
    <3> QED
      BY <3>1, <3>2, <3>3, <3>4, <3>5, <3>6
  <2> HIDE DEF x, y, z
  <2>2. Most(x, y) = z
    BY <2>1 DEF Most
  <2> QED
    BY <2>2 DEF x, y, z
<1>4. (r + 1) * IOBUFLEN = r * IOBUFLEN + IOBUFLEN /\ Recs(m * IOBUFLEN) = m /\ m * IOBUFLEN >= 0
      /\ m * IOBUFLEN \in Int
  BY <1>2, Records
<1> HIDE DEF m
<1> QED
  BY <1>3, <1>4 DEF m


\* A record as it is in one file is as it is in another with the same bytes there.
LEMMA SameSlice ==
  ASSUME NEW file, NEW other, NEW pos \in Int, NEW n \in Nat,
         \A i \in 1 .. n : file[pos + i] = other[pos + i]
  PROVE  Slice(file, pos, n) = Slice(other, pos, n)
BY DEF Slice

\* What is written over a record of a file changes that record only.
LEMMA RecordWritten ==
  ASSUME NEW disk, IsSequence(disk), NEW bytes, IsSequence(bytes), Len(bytes) = IOBUFLEN,
         NEW r \in Nat, NEW q \in Nat
  PROVE  LET after == Over(disk, r * IOBUFLEN, bytes)
         IN  /\ q = r => Slice(after, q * IOBUFLEN, IOBUFLEN) = bytes
             /\ q # r /\ q * IOBUFLEN + IOBUFLEN <= Len(disk) =>
                  Slice(after, q * IOBUFLEN, IOBUFLEN) = Slice(disk, q * IOBUFLEN, IOBUFLEN)
<1> DEFINE x == r * IOBUFLEN
           y == q * IOBUFLEN
           after == Over(disk, x, bytes)
<1>0. /\ x \in Int /\ x >= 0 /\ y \in Int /\ y >= 0
      /\ q # r => \A i \in 1 .. IOBUFLEN : (y + i) - x \notin 1 .. IOBUFLEN
  <2>1. x \in Int /\ x >= 0 /\ y \in Int /\ y >= 0
    <3>1. x \in Nat /\ y \in Nat
      BY RecordStart
    <3> QED
      BY <3>1
  <2>2. q # r => \A i \in 1 .. IOBUFLEN : (y + i) - x \notin 1 .. IOBUFLEN
    BY RecordsApart
  <2> QED
    BY <2>1, <2>2
<1>1. q = r => x = y
  OBVIOUS
<1>2. x \in Nat /\ IOBUFLEN \in Nat /\ Len(disk) \in Nat
  BY <1>0, BufferSizes DEF IsSequence
<1> HIDE DEF x, y
<1>3. /\ IsSequence(after) /\ Len(after) = Most(Len(disk), x + IOBUFLEN)
      /\ \A i \in 1 .. Len(after) :
           after[i] = IF i - x \in 1 .. IOBUFLEN THEN bytes[i - x]
                      ELSE IF i <= Len(disk) THEN disk[i] ELSE Fill
  BY <1>2, OverIs
<1>4. ASSUME q = r
      PROVE  Slice(after, y, IOBUFLEN) = bytes
  <2>1. ASSUME NEW i \in 1 .. IOBUFLEN
        PROVE  Slice(after, y, IOBUFLEN)[i] = bytes[i]
    <3>1. y + i \in 1 .. Len(after) /\ (y + i) - x = i
      BY <1>0, <1>1, <1>2, <1>3, <1>4 DEF Most
    <3>2. Slice(after, y, IOBUFLEN)[i] = after[y + i]
      BY <1>0, <1>2, SliceIs
    <3> HIDE DEF after
    <3> QED
      BY <1>3, <3>1, <3>2
  <2>2. IsSequence(Slice(after, y, IOBUFLEN)) /\ Len(Slice(after, y, IOBUFLEN)) = IOBUFLEN
    BY <1>0, <1>2, SliceIs
  <2> QED
    BY <2>1, <2>2, SameSequence
<1>5. ASSUME q # r, y + IOBUFLEN <= Len(disk)
      PROVE  Slice(after, y, IOBUFLEN) = Slice(disk, y, IOBUFLEN)
  <2>1. ASSUME NEW i \in 1 .. IOBUFLEN
        PROVE  after[y + i] = disk[y + i]
    <3> DEFINE size == Len(disk)
               size2 == Len(after)
    <3>0. size \in Nat /\ size2 = Most(size, x + IOBUFLEN) /\ y + IOBUFLEN <= size
          /\ (y + i) - x \notin 1 .. IOBUFLEN
      BY <1>0, <1>2, <1>3, <1>5
    <3> HIDE DEF after, size, size2
    <3>2. y + i \in 1 .. size2 /\ y + i <= size /\ (y + i) - x \notin 1 .. IOBUFLEN
      BY <1>0, <1>2, <3>0 DEF Most
    <3>1. y + i \in 1 .. Len(after) /\ y + i <= Len(disk) /\ (y + i) - x \notin 1 .. IOBUFLEN
      BY <3>2 DEF size, size2
    <3> QED
      BY <1>3, <3>1
  <2> HIDE DEF after
  <2> QED
    BY <1>0, <1>2, <2>1, SameSlice
<1> QED
  BY <1>4, <1>5 DEF x, y

\* Writing a dirty buffer to its place keeps all but the position.
LEMMA WroteKeeps ==
  ASSUME NEW F, Body(F), NEW m \in Bufs, F.dirty[m], NEW G, Wrote(F, G, m)
  PROVE  /\ Body(G) /\ SameBuffers(F, G)
         /\ \A n \in Bufs : G.dirty[n] <=> F.dirty[n] /\ n # m
         /\ F.filesize <= G.filesize
         /\ Recs(G.filesize) = Most(Recs(F.filesize), F.rec[m] + 1)
<1> DEFINE r == F.rec[m]
<1>1. /\ r \in Int /\ 0 <= r /\ r < Recs(F.logfilesize) /\ r \in Nat /\ Start(F, m) = r * IOBUFLEN
      /\ IsSequence(F.buf[m]) /\ Len(F.buf[m]) = IOBUFLEN
  BY DEF Body, DirtyInFile, Whole, Start
<1>2. /\ IsSequence(F.disk) /\ F.filesize = Len(F.disk) /\ F.filesize \in Nat
      /\ F.logfilesize \in Nat /\ F.filesize = Recs(F.filesize) * IOBUFLEN
      /\ Recs(F.filesize) <= Recs(F.logfilesize)
      /\ Recs(F.filesize) \in Int /\ Recs(F.logfilesize) \in Int
  <2>1. /\ IsSequence(F.disk) /\ F.filesize = Len(F.disk) /\ F.filesize \in Nat
        /\ F.logfilesize \in Nat /\ F.filesize = Recs(F.filesize) * IOBUFLEN
        /\ Recs(F.filesize) <= Recs(F.logfilesize)
    BY DEF Body, Typed, Sizes
  <2>2. F.filesize \in Int /\ F.logfilesize \in Int
    BY <2>1
  <2>3. Recs(F.filesize) \in Int /\ Recs(F.logfilesize) \in Int
    BY <2>2, RecordOf
  <2> QED
    BY <2>1, <2>3
<1>3. /\ G.filesize \in Nat /\ G.filesize = Recs(G.filesize) * IOBUFLEN
      /\ Recs(G.filesize) = Most(Recs(F.filesize), r + 1)
  <2>1. G.filesize = Most(F.filesize, r * IOBUFLEN + IOBUFLEN)
    BY <1>1 DEF Wrote
  <2> HIDE DEF r
  <2> QED
    BY <1>1, <1>2, <2>1, SizeAfter
<1>4. IsSequence(G.disk) /\ Len(G.disk) = G.filesize
  <2> DEFINE x == r * IOBUFLEN
  <2>1. x \in Nat
    BY <1>1, RecordStart
  <2>2. G.disk = Over(F.disk, x, F.buf[m]) /\ G.filesize = Most(F.filesize, x + IOBUFLEN)
    BY <1>1 DEF Wrote
  <2> HIDE DEF x, r
  <2> QED
    <3>1. IsSequence(F.disk) /\ IsSequence(F.buf[m]) /\ Len(F.buf[m]) = IOBUFLEN
      BY <1>1, <1>2
    <3>2. IsSequence(G.disk) /\ Len(G.disk) = Most(Len(F.disk), x + IOBUFLEN)
      BY <2>1, <2>2, <3>1, OverIs
    <3> QED
      BY <1>2, <2>2, <3>2
<1>5. F.filesize <= G.filesize
  <2>1. r * IOBUFLEN \in Int
    BY <1>1, Records
  <2> DEFINE x == r * IOBUFLEN
  <2>2. x \in Int /\ G.filesize = Most(F.filesize, x + IOBUFLEN)
    BY <1>1, <2>1 DEF Wrote
  <2> HIDE DEF x
  <2> QED
    BY <1>2, <2>2, BufferSizes DEF Most
<1>6. \A n \in Bufs : G.dirty[n] <=> F.dirty[n] /\ n # m
  BY DEF Wrote, Body, Typed
<1>7. SameBuffers(F, G) /\ G.rec = F.rec /\ G.buf = F.buf /\ G.logfilesize = F.logfilesize
  BY DEF Wrote, SameBuffers
<1>8. Typed(G)
  BY <1>4, <1>7 DEF Wrote, SameBuffers, Body, Typed
<1>9. Alone(G) /\ Whole(G)
  BY <1>7 DEF Body, Alone, Whole
<1>10. DirtyInFile(G)
  BY <1>6, <1>7 DEF Body, DirtyInFile
<1>11. Sizes(G)
  <2>1. Recs(G.filesize) <= Recs(F.logfilesize)
    BY <1>1, <1>2, <1>3 DEF Most
  <2> QED
    BY <1>2, <1>3, <1>4, <1>7, <2>1 DEF Body, Sizes
<1>12. LastDirty(G)
  BY <1>1, <1>2, <1>3, <1>6, <1>7 DEF Body, LastDirty, Most
<1>13. CleanOnDisk(G)
  <2> SUFFICES ASSUME NEW n \in Bufs, F.rec[n] >= 0, ~ G.dirty[n]
               PROVE  /\ F.rec[n] < Recs(G.filesize)
                      /\ F.buf[n] = Slice(G.disk, F.rec[n] * IOBUFLEN, IOBUFLEN)
    BY <1>7 DEF CleanOnDisk, Start
  <2>1. G.disk = Over(F.disk, r * IOBUFLEN, F.buf[m])
    BY <1>1 DEF Wrote
  <2>2. F.rec[n] \in Nat
    BY DEF Body, Typed
  <2>3. CASE n = m
    <3>1. F.rec[n] < Recs(G.filesize)
      BY <1>1, <1>2, <1>3, <2>3 DEF Most
    <3> QED
      <4> DEFINE bytes == F.buf[m]
      <4>1. /\ IsSequence(F.disk) /\ IsSequence(bytes) /\ Len(bytes) = IOBUFLEN /\ r \in Nat
            /\ G.disk = Over(F.disk, r * IOBUFLEN, bytes)
        BY <1>1, <1>2, <2>1
      <4> HIDE DEF r, bytes
      <4>2. bytes = Slice(G.disk, r * IOBUFLEN, IOBUFLEN)
        BY <4>1, RecordWritten
      <4> QED
        BY <2>3, <3>1, <4>2 DEF r, bytes
  <2>4. CASE n # m
    <3>1. F.rec[n] # r /\ F.rec[n] < Recs(F.filesize)
          /\ F.buf[n] = Slice(F.disk, F.rec[n] * IOBUFLEN, IOBUFLEN)
      BY <1>1, <1>6, <2>2, <2>4 DEF Body, Alone, CleanOnDisk, Start
    <3>2. F.rec[n] < Recs(G.filesize)
      BY <1>1, <1>2, <1>3, <2>2, <3>1 DEF Most
    <3>3. F.rec[n] * IOBUFLEN + IOBUFLEN <= Len(F.disk)
      BY <1>2, <2>2, <3>1, RecordsOrdered
    <3> DEFINE q == F.rec[n]
    <3>4. /\ r \in Nat /\ q \in Nat /\ q # r /\ q * IOBUFLEN + IOBUFLEN <= Len(F.disk)
          /\ IsSequence(F.disk) /\ IsSequence(F.buf[m]) /\ Len(F.buf[m]) = IOBUFLEN
      BY <1>1, <1>2, <2>2, <3>1, <3>3
    <3> HIDE DEF q, r
    <3>5. Slice(G.disk, q * IOBUFLEN, IOBUFLEN) = Slice(F.disk, q * IOBUFLEN, IOBUFLEN)
      <4>1. Slice(Over(F.disk, r * IOBUFLEN, F.buf[m]), q * IOBUFLEN, IOBUFLEN)
              = Slice(F.disk, q * IOBUFLEN, IOBUFLEN)
        BY <3>4, RecordWritten
      <4> QED
        BY <2>1, <4>1
    <3> QED
      BY <3>1, <3>2, <3>5 DEF q
  <2> QED
    BY <2>3, <2>4
<1> QED
  BY <1>3, <1>5, <1>6, <1>7, <1>8, <1>9, <1>10, <1>11, <1>12, <1>13 DEF Body


LEMMA SeekToIs ==
  ASSUME NEW F, Fields(F), NEW pos
  PROVE  LET S == SeekTo(F, pos)
         IN  /\ Fields(S) /\ SameBuffers(F, S) /\ S.dirty = F.dirty /\ S.disk = F.disk
             /\ S.filesize = F.filesize /\ S.io_pos = F.io_pos
             /\ S.at = IF F.io_pos # pos THEN pos ELSE F.at
<1> DEFINE s == Synced(F, pos)
<1>1. SeekTo(F, pos) = IF F.io_pos # pos THEN [ F EXCEPT !.at = pos, !.os = s ] ELSE F
  BY DEF SeekTo, ffseek
<1> HIDE DEF s
<1> QED
  BY <1>1 DEF Fields, SameBuffers

LEMMA ffwriteIs ==
  ASSUME NEW F, Fields(F), NEW data
  PROVE  LET W == ffwrite(F, data)
         IN  /\ Fields(W) /\ SameBuffers(F, W) /\ W.dirty = F.dirty
             /\ W.filesize = F.filesize /\ W.io_pos = F.io_pos
             /\ W.disk = Over(F.disk, F.at, data) /\ W.at = F.at + Len(data)
<1> DEFINE a == Over(F.disk, F.at, data)
           b == F.at + Len(data)
           W == ffwrite(F, data)
<1>1. W = [ F EXCEPT !.disk = a, !.at = b ]
  BY DEF ffwrite
<1> HIDE DEF a, b, W
<1>2. /\ Fields(W) /\ SameBuffers(F, W) /\ W.dirty = F.dirty
      /\ W.filesize = F.filesize /\ W.io_pos = F.io_pos /\ W.disk = a /\ W.at = b
  BY <1>1 DEF Fields, SameBuffers
<1> QED
  BY <1>2 DEF a, b, W

LEMMA WriteInsideWrote ==
  ASSUME NEW F, Coh(F), NEW m \in Bufs, F.dirty[m], Start(F, m) <= F.filesize
  PROVE  LET G == WriteInside(F, m)
         IN  Wrote(F, G, m) /\ AtPlace(G)
<1> DEFINE start == Start(F, m)
           S == SeekTo(F, start)
           bytes == F.buf[m]
           W == ffwrite(S, bytes)
           G == WriteInside(F, m)
<1>0. /\ Fields(F) /\ F.io_pos \in Int /\ F.at \in Int /\ F.filesize \in Nat
      /\ F.dirty \in [ Bufs -> BOOLEAN ]
  BY DEF Coh, Body, Typed, Sizes
<1>1. /\ F.rec[m] \in Nat /\ F.rec[m] \in Int /\ start = F.rec[m] * IOBUFLEN /\ Len(F.buf[m]) = IOBUFLEN
  BY DEF Coh, Body, DirtyInFile, Whole, Start
<1>2. start \in Nat
  BY <1>1, RecordStart
<1>3. /\ Fields(S) /\ SameBuffers(F, S) /\ S.dirty = F.dirty /\ S.disk = F.disk
      /\ S.filesize = F.filesize /\ S.at = start
  <2>1. F.io_pos = start => F.at = start
    BY <1>0 DEF Coh, AtPlace
  <2> HIDE DEF start
  <2> QED
    BY <1>0, <2>1, SeekToIs
<1> HIDE DEF S
<1>4. /\ Fields(W) /\ SameBuffers(F, W) /\ W.dirty = F.dirty /\ W.filesize = F.filesize
      /\ W.disk = Over(F.disk, start, F.buf[m]) /\ W.at = start + IOBUFLEN
  <2>1. /\ Fields(W) /\ SameBuffers(S, W) /\ W.dirty = S.dirty
        /\ W.filesize = S.filesize /\ W.disk = Over(S.disk, S.at, bytes)
        /\ W.at = S.at + Len(bytes)
    <3> HIDE DEF start, bytes
    <3>1. Fields(S)
      BY <1>3
    <3> QED
      BY <3>1, ffwriteIs
  <2> HIDE DEF W, start
  <2> QED
    BY <1>1, <1>3, <2>1 DEF SameBuffers
<1> HIDE DEF W
<1>5. G = [ W EXCEPT !.io_pos = start + IOBUFLEN,
                     !.filesize = IF start = @ THEN @ + IOBUFLEN ELSE @,
                     !.dirty[m] = FALSE ]
  BY DEF WriteInside, W, S
<1> HIDE DEF G
<1>6. /\ Fields(G) /\ SameBuffers(F, G) /\ G.disk = Over(F.disk, start, F.buf[m])
      /\ G.dirty = [ F.dirty EXCEPT ![m] = FALSE ] /\ G.at = start + IOBUFLEN
      /\ G.io_pos = start + IOBUFLEN
      /\ G.filesize = IF start = F.filesize THEN F.filesize + IOBUFLEN ELSE F.filesize
  BY <1>4, <1>5 DEF Fields, SameBuffers
<1>7. start < F.filesize => start + IOBUFLEN <= F.filesize
  <2>1. F.filesize = Recs(F.filesize) * IOBUFLEN
    BY DEF Coh, Body, Sizes
  <2>2. Recs(F.filesize) \in Int
    BY <1>0, RecordOf
  <2> DEFINE a == F.rec[m]
             b == Recs(F.filesize)
  <2>3. a \in Int /\ b \in Int /\ start = a * IOBUFLEN /\ F.filesize = b * IOBUFLEN
    BY <1>1, <2>1, <2>2
  <2> HIDE DEF a, b, start
  <2>4. a * IOBUFLEN < b * IOBUFLEN => a * IOBUFLEN + IOBUFLEN <= b * IOBUFLEN
    BY <2>3, RecordsOrdered
  <2> QED
    BY <2>3, <2>4
<1>8. start \in Nat /\ start <= F.filesize
  BY <1>2
<1> HIDE DEF start
<1>9. G.filesize = Most(F.filesize, start + IOBUFLEN)
  BY <1>0, <1>6, <1>7, <1>8, BufferSizes DEF Most
<1> QED
  BY <1>6, <1>8, <1>9, BufferSizes DEF Wrote, AtPlace, start, G


\* Fill bytes written up to the place of what is written next.
LEMMA OverGap ==
  ASSUME NEW file, IsSequence(file), NEW data, IsSequence(data),
         NEW pos \in Nat, Len(file) <= pos, NEW size, size = Len(file), Len(data) # 0
  PROVE  Over(Over(file, size, Blank(pos - size)), pos, data) = Over(file, pos, data)
<1> DEFINE gap == Blank(pos - size)
           mid == Over(file, size, gap)
           one == Over(mid, pos, data)
           two == Over(file, pos, data)
           n == Len(data)
<1>0. n \in Nat /\ n # 0 /\ size \in Nat /\ pos - size \in Nat /\ Len(file) = size /\ size <= pos
  BY DEF IsSequence
<1>1. IsSequence(gap) /\ Len(gap) = pos - size /\ \A i \in 1 .. pos - size : gap[i] = Fill
  BY <1>0, BlankIs
<1> HIDE DEF gap
<1>2. /\ IsSequence(mid) /\ Len(mid) = Most(size, size + (pos - size))
      /\ \A i \in 1 .. Len(mid) :
           mid[i] = IF i - size \in 1 .. pos - size THEN gap[i - size]
                    ELSE IF i <= size THEN file[i] ELSE Fill
  <2>1. /\ IsSequence(mid) /\ Len(mid) = Most(Len(file), size + Len(gap))
        /\ \A i \in 1 .. Len(mid) :
             mid[i] = IF i - size \in 1 .. Len(gap) THEN gap[i - size]
                      ELSE IF i <= Len(file) THEN file[i] ELSE Fill
    BY <1>0, <1>1, OverIs
  <2> HIDE DEF mid
  <2> QED
    BY <1>0, <1>1, <2>1
<1>3. Len(mid) = pos
  BY <1>0, <1>2 DEF Most
<1> HIDE DEF mid
<1>4. /\ IsSequence(one) /\ Len(one) = Most(pos, pos + n)
      /\ \A i \in 1 .. Len(one) :
           one[i] = IF i - pos \in 1 .. n THEN data[i - pos]
                    ELSE IF i <= pos THEN mid[i] ELSE Fill
  BY <1>0, <1>2, <1>3, OverIs
<1>5. /\ IsSequence(two) /\ Len(two) = Most(size, pos + n)
      /\ \A i \in 1 .. Len(two) :
           two[i] = IF i - pos \in 1 .. n THEN data[i - pos]
                    ELSE IF i <= size THEN file[i] ELSE Fill
  BY <1>0, OverIs
<1> HIDE DEF one, two, n
<1>6. Len(one) = pos + n /\ Len(two) = pos + n
  BY <1>0, <1>4, <1>5 DEF Most
<1>7. ASSUME NEW i \in 1 .. Len(one)
      PROVE  one[i] = two[i]
  <2>0. i \in 1 .. Len(one) /\ i \in 1 .. Len(two) /\ i \in Int /\ i >= 1
    BY <1>0, <1>6
  <2>1. CASE i > pos
    <3>1. i - pos \in 1 .. n
      BY <1>0, <1>6, <2>0, <2>1
    <3> QED
      BY <1>4, <1>5, <2>0, <3>1
  <2>2. CASE i <= pos
    <3>1. i - pos \notin 1 .. n /\ i \in 1 .. Len(mid)
      BY <1>0, <1>3, <2>0, <2>2
    <3>2. one[i] = mid[i]
      BY <1>4, <2>0, <2>2, <3>1
    <3>3. two[i] = IF i <= size THEN file[i] ELSE Fill
      BY <1>5, <2>0, <3>1
    <3>4. mid[i] = IF i - size \in 1 .. pos - size THEN Fill
                   ELSE IF i <= size THEN file[i] ELSE Fill
      BY <1>1, <1>2, <3>1
    <3> QED
      BY <1>0, <2>0, <3>2, <3>3, <3>4
  <2> QED
    BY <1>0, <2>0, <2>1, <2>2
<1> QED
  BY <1>4, <1>5, <1>6, <1>7, SameSequence DEF one, two, mid, gap

LEMMA Append1Wrote ==
  ASSUME NEW F, Body(F), NEW m \in Bufs, F.dirty[m], F.at = F.filesize,
         Recs(F.filesize) <= F.rec[m]
  PROVE  LET G == Append1(F, m)
         IN  Wrote(F, G, m) /\ G.at = G.filesize /\ G.io_pos = F.io_pos
<1> DEFINE start == Start(F, m)
           size == F.filesize
           gap == Blank(start - size)
           V == ffwrite(F, gap)
           W == ffwrite(V, F.buf[m])
           G == Append1(F, m)
<1>0. /\ Fields(F) /\ F.io_pos \in Int /\ F.at = size /\ size \in Nat /\ size = Len(F.disk)
      /\ IsSequence(F.disk) /\ F.dirty \in [ Bufs -> BOOLEAN ]
  BY DEF Body, Typed, Sizes
<1>1. /\ F.rec[m] \in Nat /\ start = F.rec[m] * IOBUFLEN
      /\ Len(F.buf[m]) = IOBUFLEN /\ IsSequence(F.buf[m])
  BY DEF Body, DirtyInFile, Whole, Start
<1>2. start \in Nat /\ size <= start
  <2>1. start \in Nat
    BY <1>1, RecordStart
  <2>2. size = Recs(size) * IOBUFLEN /\ Recs(size) \in Int
    BY <1>0, RecordOf DEF Body, Sizes
  <2>3. Recs(size) * IOBUFLEN <= F.rec[m] * IOBUFLEN
    <3>1. F.rec[m] \in Int /\ Recs(size) \in Int /\ Recs(size) <= F.rec[m]
      BY <1>1, <2>2
    <3> QED
      BY <3>1, RecordsOrdered
  <2> QED
    BY <1>1, <2>1, <2>2, <2>3
<1> HIDE DEF start
<1>3. Len(gap) = start - size
  <2>1. start - size \in Nat
    BY <1>0, <1>2
  <2> QED
    BY <2>1, BlankIs
<1>4. /\ Fields(V) /\ SameBuffers(F, V) /\ V.dirty = F.dirty /\ V.filesize = size
      /\ V.io_pos = F.io_pos /\ V.disk = Over(F.disk, size, gap) /\ V.at = size + Len(gap)
  <2>1. Fields(F)
    BY <1>0
  <2>2. /\ Fields(V) /\ SameBuffers(F, V) /\ V.dirty = F.dirty /\ V.filesize = F.filesize
        /\ V.io_pos = F.io_pos /\ V.disk = Over(F.disk, F.at, gap) /\ V.at = F.at + Len(gap)
    BY <2>1, ffwriteIs
  <2> QED
    BY <1>0, <2>2
<1>5. V.at = start
  <2>1. V.at = size + (start - size)
    BY <1>3, <1>4
  <2> HIDE DEF V, size
  <2> QED
    BY <1>0, <1>2, <2>1
<1> HIDE DEF V
<1>6. /\ Fields(W) /\ SameBuffers(F, W) /\ W.dirty = F.dirty /\ W.filesize = size
      /\ W.io_pos = F.io_pos /\ W.disk = Over(V.disk, start, F.buf[m]) /\ W.at = start + IOBUFLEN
  <2>1. Fields(V)
    BY <1>4
  <2> DEFINE bytes == F.buf[m]
  <2>2. /\ Fields(W) /\ SameBuffers(V, W) /\ W.dirty = V.dirty /\ W.filesize = V.filesize
        /\ W.io_pos = V.io_pos /\ W.disk = Over(V.disk, V.at, bytes)
        /\ W.at = V.at + Len(bytes)
    <3> HIDE DEF bytes
    <3>1. W = ffwrite(V, bytes)
      BY DEF bytes
    <3> HIDE DEF W
    <3> QED
      BY <2>1, <3>1, ffwriteIs
  <2> HIDE DEF W
  <2>3. SameBuffers(F, W)
    BY <1>4, <2>2 DEF SameBuffers
  <2>4. W.dirty = F.dirty /\ W.filesize = size /\ W.io_pos = F.io_pos
    BY <1>4, <2>2
  <2>5. W.disk = Over(V.disk, start, bytes) /\ W.at = start + IOBUFLEN
    BY <1>1, <1>5, <2>2
  <2> QED
    BY <2>2, <2>3, <2>4, <2>5
<1>7. W.disk = Over(F.disk, start, F.buf[m])
  <2> DEFINE bytes == F.buf[m]
             disk == F.disk
  <2>1. /\ IsSequence(disk) /\ size = Len(disk) /\ size \in Nat /\ start \in Nat /\ size <= start
        /\ IsSequence(bytes) /\ Len(bytes) = IOBUFLEN /\ IOBUFLEN > 0
    BY <1>0, <1>1, <1>2, BufferSizes
  <2>2. W.disk = Over(Over(disk, size, gap), start, bytes)
    BY <1>4, <1>6
  <2> HIDE DEF bytes, disk, gap, W, size
  <2>3. Over(Over(disk, size, gap), start, bytes) = Over(disk, start, bytes)
    BY <2>1, OverGap DEF gap
  <2> QED
    BY <2>2, <2>3 DEF bytes, disk
<1> HIDE DEF W
<1>8. G = [ W EXCEPT !.filesize = start + IOBUFLEN, !.dirty[m] = FALSE ]
  BY DEF Append1, W, V, start
<1> HIDE DEF G
<1>9. /\ Fields(G) /\ SameBuffers(F, G) /\ G.disk = W.disk /\ G.at = start + IOBUFLEN
      /\ G.io_pos = F.io_pos /\ G.filesize = start + IOBUFLEN
      /\ G.dirty = [ F.dirty EXCEPT ![m] = FALSE ]
  BY <1>6, <1>8 DEF Fields, SameBuffers
<1>10. Most(size, start + IOBUFLEN) = start + IOBUFLEN
  BY <1>0, <1>2, BufferSizes DEF Most
<1> QED
  BY <1>0, <1>2, <1>7, <1>9, <1>10, BufferSizes DEF Wrote, start, G


----------------------------------------------------------------------------
(* What the turns of a loop are.                                           *)

\* The turns of each loop: WriteBeyond appends buffers ...
LEMMA AppendTurns ==
  ASSUME NEW F, NEW n, NIOBUF \in Nat
  PROVE  \E h : /\ h[0] = SeekTo(F, F.filesize)
                /\ \A i \in 1 .. NIOBUF : h[i] = AppendLowest(h[i-1], n)
                /\ WriteBeyond(F, n) = [ h[NIOBUF] EXCEPT !.io_pos = h[NIOBUF].filesize ]
<1> DEFINE base == SeekTo(F, F.filesize)
           Step(f, i) == IF i = 0 THEN base ELSE AppendLowest(f[i-1], n)
           S == { j \in Nat : \E f : f = [ i \in 0 .. j |-> Step(f, i) ] }
           after == CHOOSE f : f = [ i \in 0 .. NIOBUF |-> Step(f, i) ]
<1>1. 0 \in S
  <2> DEFINE f == [ i \in 0 .. 0 |-> base ]
  <2>1. f = [ i \in 0 .. 0 |-> Step(f, i) ]
    OBVIOUS
  <2> HIDE DEF f
  <2> QED
    BY <2>1
<1>2. ASSUME NEW j \in Nat, j \in S
      PROVE  j + 1 \in S
  <2>1. PICK f : f = [ i \in 0 .. j |-> Step(f, i) ]
    BY <1>2
  <2> DEFINE g == [ i \in 0 .. j + 1 |-> Step(f, i) ]
  <2>2. \A i \in 0 .. j : g[i] = f[i]
    <3> HIDE DEF Step
    <3> QED
      BY <2>1
  <2>3. ASSUME NEW i \in 0 .. j + 1
        PROVE  Step(f, i) = Step(g, i)
    <3>1. CASE i = 0
      BY <3>1
    <3>2. CASE i # 0
      <4>1. i - 1 \in 0 .. j
        BY <3>2
      <4>2. g[i-1] = f[i-1]
        BY <2>2, <4>1
      <4> HIDE DEF g
      <4> QED
        BY <3>2, <4>2
    <3> QED
      BY <3>1, <3>2
  <2>4. g = [ i \in 0 .. j + 1 |-> Step(g, i) ]
    <3> HIDE DEF Step
    <3> QED
      BY <2>3
  <2> HIDE DEF g, Step
  <2> QED
    BY <2>4
<1>3. NIOBUF \in S
  <2> HIDE DEF S
  <2> QED
    BY <1>1, <1>2, NatSetInduction
<1>4. after = [ i \in 0 .. NIOBUF |-> Step(after, i) ]
  <2> HIDE DEF Step
  <2> QED
    BY <1>3
<1>5. WriteBeyond(F, n) = [ after[NIOBUF] EXCEPT !.io_pos = after[NIOBUF].filesize ]
  BY DEF Loop, WriteBeyond
<1> HIDE DEF after
<1>6. after[0] = SeekTo(F, F.filesize)
  BY <1>4
<1>7. ASSUME NEW i \in 1 .. NIOBUF
      PROVE  after[i] = AppendLowest(after[i-1], n)
  <2>1. i \in 0 .. NIOBUF /\ i # 0
    OBVIOUS
  <2> QED
    BY <1>4, <2>1
<1> QED
  BY <1>5, <1>6, <1>7

\* ... WriteBack goes through the buffers ...
LEMMA WriteTurns ==
  ASSUME NEW F, NEW records, NIOBUF \in Nat
  PROVE  \E h : /\ h[0] = F
                /\ \A i \in 1 .. NIOBUF : h[i] = WriteIf(h[i-1], i - 1, records)
                /\ WriteBack(F, records) = h[NIOBUF]
<1> DEFINE base == F
           Step(f, i) == IF i = 0 THEN base ELSE WriteIf(f[i-1], i - 1, records)
           S == { j \in Nat : \E f : f = [ i \in 0 .. j |-> Step(f, i) ] }
           after == CHOOSE f : f = [ i \in 0 .. NIOBUF |-> Step(f, i) ]
<1>1. 0 \in S
  <2> DEFINE f == [ i \in 0 .. 0 |-> base ]
  <2>1. f = [ i \in 0 .. 0 |-> Step(f, i) ]
    OBVIOUS
  <2> HIDE DEF f
  <2> QED
    BY <2>1
<1>2. ASSUME NEW j \in Nat, j \in S
      PROVE  j + 1 \in S
  <2>1. PICK f : f = [ i \in 0 .. j |-> Step(f, i) ]
    BY <1>2
  <2> DEFINE g == [ i \in 0 .. j + 1 |-> Step(f, i) ]
  <2>2. \A i \in 0 .. j : g[i] = f[i]
    <3> HIDE DEF Step
    <3> QED
      BY <2>1
  <2>3. ASSUME NEW i \in 0 .. j + 1
        PROVE  Step(f, i) = Step(g, i)
    <3>1. CASE i = 0
      BY <3>1
    <3>2. CASE i # 0
      <4>1. i - 1 \in 0 .. j
        BY <3>2
      <4>2. g[i-1] = f[i-1]
        BY <2>2, <4>1
      <4> HIDE DEF g
      <4> QED
        BY <3>2, <4>2
    <3> QED
      BY <3>1, <3>2
  <2>4. g = [ i \in 0 .. j + 1 |-> Step(g, i) ]
    <3> HIDE DEF Step
    <3> QED
      BY <2>3
  <2> HIDE DEF g, Step
  <2> QED
    BY <2>4
<1>3. NIOBUF \in S
  <2> HIDE DEF S
  <2> QED
    BY <1>1, <1>2, NatSetInduction
<1>4. after = [ i \in 0 .. NIOBUF |-> Step(after, i) ]
  <2> HIDE DEF Step
  <2> QED
    BY <1>3
<1>5. WriteBack(F, records) = after[NIOBUF]
  BY DEF Loop, WriteBack
<1> HIDE DEF after
<1>6. after[0] = F
  BY <1>4
<1>7. ASSUME NEW i \in 1 .. NIOBUF
      PROVE  after[i] = WriteIf(after[i-1], i - 1, records)
  <2>1. i \in 0 .. NIOBUF /\ i # 0
    OBVIOUS
  <2> QED
    BY <1>4, <2>1
<1> QED
  BY <1>5, <1>6, <1>7

\* ... and so does Evicted ...
EvictHistory(F, from, to, h) ==
  /\ h[0] = F
  /\ \A i \in 1 .. NIOBUF : h[i] = EvictIf(h[i-1], i - 1, from .. to)
  /\ Evicted(F, from, to) = h[NIOBUF]

LEMMA EvictTurns ==
  ASSUME NEW F, NEW from, NEW to, NIOBUF \in Nat
  PROVE  \E h : EvictHistory(F, from, to, h)
<1> DEFINE base == F
           Step(f, i) == IF i = 0 THEN base ELSE EvictIf(f[i-1], i - 1, from .. to)
           S == { j \in Nat : \E f : f = [ i \in 0 .. j |-> Step(f, i) ] }
           after == CHOOSE f : f = [ i \in 0 .. NIOBUF |-> Step(f, i) ]
<1>1. 0 \in S
  <2> DEFINE f == [ i \in 0 .. 0 |-> base ]
  <2>1. f = [ i \in 0 .. 0 |-> Step(f, i) ]
    OBVIOUS
  <2> HIDE DEF f
  <2> QED
    BY <2>1
<1>2. ASSUME NEW j \in Nat, j \in S
      PROVE  j + 1 \in S
  <2>1. PICK f : f = [ i \in 0 .. j |-> Step(f, i) ]
    BY <1>2
  <2> DEFINE g == [ i \in 0 .. j + 1 |-> Step(f, i) ]
  <2>2. \A i \in 0 .. j : g[i] = f[i]
    <3> HIDE DEF Step
    <3> QED
      BY <2>1
  <2>3. ASSUME NEW i \in 0 .. j + 1
        PROVE  Step(f, i) = Step(g, i)
    <3>1. CASE i = 0
      BY <3>1
    <3>2. CASE i # 0
      <4>1. i - 1 \in 0 .. j
        BY <3>2
      <4>2. g[i-1] = f[i-1]
        BY <2>2, <4>1
      <4> HIDE DEF g
      <4> QED
        BY <3>2, <4>2
    <3> QED
      BY <3>1, <3>2
  <2>4. g = [ i \in 0 .. j + 1 |-> Step(g, i) ]
    <3> HIDE DEF Step
    <3> QED
      BY <2>3
  <2> HIDE DEF g, Step
  <2> QED
    BY <2>4
<1>3. NIOBUF \in S
  <2> HIDE DEF S
  <2> QED
    BY <1>1, <1>2, NatSetInduction
<1>4. after = [ i \in 0 .. NIOBUF |-> Step(after, i) ]
  <2> HIDE DEF Step
  <2> QED
    BY <1>3
<1>5. Evicted(F, from, to) = after[NIOBUF]
  BY DEF Loop, Evicted
<1> HIDE DEF after
<1>6. after[0] = F
  BY <1>4
<1>7. ASSUME NEW i \in 1 .. NIOBUF
      PROVE  after[i] = EvictIf(after[i-1], i - 1, from .. to)
  <2>1. i \in 0 .. NIOBUF /\ i # 0
    OBVIOUS
  <2> QED
    BY <1>4, <2>1
<1> QED
  BY <1>5, <1>6, <1>7 DEF EvictHistory

\* ... PutSmall and GetSmall take chunks ...
LEMMA PutChunkTurns ==
  ASSUME NEW F, NEW data, Turns(Len(data)) \in Nat
  PROVE  \E h : /\ h[0] = [ F |-> F, todo |-> data, room |-> Room(F) ]
                /\ \A i \in 1 .. Turns(Len(data)) : h[i] = PutChunk(h[i-1], i)
                /\ PutSmall(F, data) = h[Turns(Len(data))].F
<1> DEFINE base == [ F |-> F, todo |-> data, room |-> Room(F) ]
           Step(f, i) == IF i = 0 THEN base ELSE PutChunk(f[i-1], i)
           S == { j \in Nat : \E f : f = [ i \in 0 .. j |-> Step(f, i) ] }
           after == CHOOSE f : f = [ i \in 0 .. Turns(Len(data)) |-> Step(f, i) ]
<1>1. 0 \in S
  <2> DEFINE f == [ i \in 0 .. 0 |-> base ]
  <2>1. f = [ i \in 0 .. 0 |-> Step(f, i) ]
    OBVIOUS
  <2> HIDE DEF f
  <2> QED
    BY <2>1
<1>2. ASSUME NEW j \in Nat, j \in S
      PROVE  j + 1 \in S
  <2>1. PICK f : f = [ i \in 0 .. j |-> Step(f, i) ]
    BY <1>2
  <2> DEFINE g == [ i \in 0 .. j + 1 |-> Step(f, i) ]
  <2>2. \A i \in 0 .. j : g[i] = f[i]
    <3> HIDE DEF Step
    <3> QED
      BY <2>1
  <2>3. ASSUME NEW i \in 0 .. j + 1
        PROVE  Step(f, i) = Step(g, i)
    <3>1. CASE i = 0
      BY <3>1
    <3>2. CASE i # 0
      <4>1. i - 1 \in 0 .. j
        BY <3>2
      <4>2. g[i-1] = f[i-1]
        BY <2>2, <4>1
      <4> HIDE DEF g
      <4> QED
        BY <3>2, <4>2
    <3> QED
      BY <3>1, <3>2
  <2>4. g = [ i \in 0 .. j + 1 |-> Step(g, i) ]
    <3> HIDE DEF Step
    <3> QED
      BY <2>3
  <2> HIDE DEF g, Step
  <2> QED
    BY <2>4
<1>3. Turns(Len(data)) \in S
  <2> HIDE DEF S
  <2> QED
    BY <1>1, <1>2, NatSetInduction
<1>4. after = [ i \in 0 .. Turns(Len(data)) |-> Step(after, i) ]
  <2> HIDE DEF Step
  <2> QED
    BY <1>3
<1>5. PutSmall(F, data) = after[Turns(Len(data))].F
  BY DEF Loop, PutSmall
<1> HIDE DEF after
<1>6. after[0] = [ F |-> F, todo |-> data, room |-> Room(F) ]
  BY <1>4
<1>7. ASSUME NEW i \in 1 .. Turns(Len(data))
      PROVE  after[i] = PutChunk(after[i-1], i)
  <2>1. i \in 0 .. Turns(Len(data)) /\ i # 0
    OBVIOUS
  <2> QED
    BY <1>4, <2>1
<1> QED
  BY <1>5, <1>6, <1>7

\* ... of what is left ...
LEMMA GetChunkTurns ==
  ASSUME NEW F, NEW n, Turns(n) \in Nat
  PROVE  \E h : /\ h[0] = [ F |-> F, data |-> <<>>, todo |-> n, room |-> Room(F) ]
                /\ \A i \in 1 .. Turns(n) : h[i] = GetChunk(h[i-1], i)
                /\ GetSmall(F, n) = h[Turns(n)]
<1> DEFINE base == [ F |-> F, data |-> <<>>, todo |-> n, room |-> Room(F) ]
           Step(f, i) == IF i = 0 THEN base ELSE GetChunk(f[i-1], i)
           S == { j \in Nat : \E f : f = [ i \in 0 .. j |-> Step(f, i) ] }
           after == CHOOSE f : f = [ i \in 0 .. Turns(n) |-> Step(f, i) ]
<1>1. 0 \in S
  <2> DEFINE f == [ i \in 0 .. 0 |-> base ]
  <2>1. f = [ i \in 0 .. 0 |-> Step(f, i) ]
    OBVIOUS
  <2> HIDE DEF f
  <2> QED
    BY <2>1
<1>2. ASSUME NEW j \in Nat, j \in S
      PROVE  j + 1 \in S
  <2>1. PICK f : f = [ i \in 0 .. j |-> Step(f, i) ]
    BY <1>2
  <2> DEFINE g == [ i \in 0 .. j + 1 |-> Step(f, i) ]
  <2>2. \A i \in 0 .. j : g[i] = f[i]
    <3> HIDE DEF Step
    <3> QED
      BY <2>1
  <2>3. ASSUME NEW i \in 0 .. j + 1
        PROVE  Step(f, i) = Step(g, i)
    <3>1. CASE i = 0
      BY <3>1
    <3>2. CASE i # 0
      <4>1. i - 1 \in 0 .. j
        BY <3>2
      <4>2. g[i-1] = f[i-1]
        BY <2>2, <4>1
      <4> HIDE DEF g
      <4> QED
        BY <3>2, <4>2
    <3> QED
      BY <3>1, <3>2
  <2>4. g = [ i \in 0 .. j + 1 |-> Step(g, i) ]
    <3> HIDE DEF Step
    <3> QED
      BY <2>3
  <2> HIDE DEF g, Step
  <2> QED
    BY <2>4
<1>3. Turns(n) \in S
  <2> HIDE DEF S
  <2> QED
    BY <1>1, <1>2, NatSetInduction
<1>4. after = [ i \in 0 .. Turns(n) |-> Step(after, i) ]
  <2> HIDE DEF Step
  <2> QED
    BY <1>3
<1>5. GetSmall(F, n) = after[Turns(n)]
  BY DEF Loop, GetSmall
<1> HIDE DEF after
<1>6. after[0] = [ F |-> F, data |-> <<>>, todo |-> n, room |-> Room(F) ]
  BY <1>4
<1>7. ASSUME NEW i \in 1 .. Turns(n)
      PROVE  after[i] = GetChunk(after[i-1], i)
  <2>1. i \in 0 .. Turns(n) /\ i # 0
    OBVIOUS
  <2> QED
    BY <1>4, <2>1
<1> QED
  BY <1>5, <1>6, <1>7

\* ... ffpbytoff writes groups ...
LEMMA PutGroupTurns ==
  ASSUME NEW F, NEW req, NEW data, F.status = 0, req.n \in Nat
  PROVE  \E h : /\ h[0] = [ F |-> F, record |-> F.rec[F.cur], room |-> Room(F) ]
                /\ \A i \in 1 .. req.n : h[i] = PutGroup(req, data, h[i-1], i)
                /\ ffpbytoff(F, req, data) = Moved(Dirtied(h[req.n].F), req)
<1> DEFINE base == [ F |-> F, record |-> F.rec[F.cur], room |-> Room(F) ]
           Step(f, i) == IF i = 0 THEN base ELSE PutGroup(req, data, f[i-1], i)
           S == { j \in Nat : \E f : f = [ i \in 0 .. j |-> Step(f, i) ] }
           after == CHOOSE f : f = [ i \in 0 .. req.n |-> Step(f, i) ]
<1>1. 0 \in S
  <2> DEFINE f == [ i \in 0 .. 0 |-> base ]
  <2>1. f = [ i \in 0 .. 0 |-> Step(f, i) ]
    OBVIOUS
  <2> HIDE DEF f
  <2> QED
    BY <2>1
<1>2. ASSUME NEW j \in Nat, j \in S
      PROVE  j + 1 \in S
  <2>1. PICK f : f = [ i \in 0 .. j |-> Step(f, i) ]
    BY <1>2
  <2> DEFINE g == [ i \in 0 .. j + 1 |-> Step(f, i) ]
  <2>2. \A i \in 0 .. j : g[i] = f[i]
    <3> HIDE DEF Step
    <3> QED
      BY <2>1
  <2>3. ASSUME NEW i \in 0 .. j + 1
        PROVE  Step(f, i) = Step(g, i)
    <3>1. CASE i = 0
      BY <3>1
    <3>2. CASE i # 0
      <4>1. i - 1 \in 0 .. j
        BY <3>2
      <4>2. g[i-1] = f[i-1]
        BY <2>2, <4>1
      <4> HIDE DEF g
      <4> QED
        BY <3>2, <4>2
    <3> QED
      BY <3>1, <3>2
  <2>4. g = [ i \in 0 .. j + 1 |-> Step(g, i) ]
    <3> HIDE DEF Step
    <3> QED
      BY <2>3
  <2> HIDE DEF g, Step
  <2> QED
    BY <2>4
<1>3. req.n \in S
  <2> HIDE DEF S
  <2> QED
    BY <1>1, <1>2, NatSetInduction
<1>4. after = [ i \in 0 .. req.n |-> Step(after, i) ]
  <2> HIDE DEF Step
  <2> QED
    BY <1>3
<1>5. ffpbytoff(F, req, data) = Moved(Dirtied(after[req.n].F), req)
  BY DEF Loop, ffpbytoff
<1> HIDE DEF after
<1>6. after[0] = [ F |-> F, record |-> F.rec[F.cur], room |-> Room(F) ]
  BY <1>4
<1>7. ASSUME NEW i \in 1 .. req.n
      PROVE  after[i] = PutGroup(req, data, after[i-1], i)
  <2>1. i \in 0 .. req.n /\ i # 0
    OBVIOUS
  <2> QED
    BY <1>4, <2>1
<1> QED
  BY <1>5, <1>6, <1>7

\* ... and ffgbytoff reads them.
LEMMA GetGroupTurns ==
  ASSUME NEW F, NEW req, F.status = 0, req.n \in Nat
  PROVE  \E h : /\ h[0] = [ F |-> F, data |-> <<>>, record |-> F.rec[F.cur], room |-> Room(F) ]
                /\ \A i \in 1 .. req.n : h[i] = GetGroup(req, h[i-1], i)
                /\ ffgbytoff(F, req) = [ F |-> Moved(h[req.n].F, req), data |-> h[req.n].data ]
<1> DEFINE base == [ F |-> F, data |-> <<>>, record |-> F.rec[F.cur], room |-> Room(F) ]
           Step(f, i) == IF i = 0 THEN base ELSE GetGroup(req, f[i-1], i)
           S == { j \in Nat : \E f : f = [ i \in 0 .. j |-> Step(f, i) ] }
           after == CHOOSE f : f = [ i \in 0 .. req.n |-> Step(f, i) ]
<1>1. 0 \in S
  <2> DEFINE f == [ i \in 0 .. 0 |-> base ]
  <2>1. f = [ i \in 0 .. 0 |-> Step(f, i) ]
    OBVIOUS
  <2> HIDE DEF f
  <2> QED
    BY <2>1
<1>2. ASSUME NEW j \in Nat, j \in S
      PROVE  j + 1 \in S
  <2>1. PICK f : f = [ i \in 0 .. j |-> Step(f, i) ]
    BY <1>2
  <2> DEFINE g == [ i \in 0 .. j + 1 |-> Step(f, i) ]
  <2>2. \A i \in 0 .. j : g[i] = f[i]
    <3> HIDE DEF Step
    <3> QED
      BY <2>1
  <2>3. ASSUME NEW i \in 0 .. j + 1
        PROVE  Step(f, i) = Step(g, i)
    <3>1. CASE i = 0
      BY <3>1
    <3>2. CASE i # 0
      <4>1. i - 1 \in 0 .. j
        BY <3>2
      <4>2. g[i-1] = f[i-1]
        BY <2>2, <4>1
      <4> HIDE DEF g
      <4> QED
        BY <3>2, <4>2
    <3> QED
      BY <3>1, <3>2
  <2>4. g = [ i \in 0 .. j + 1 |-> Step(g, i) ]
    <3> HIDE DEF Step
    <3> QED
      BY <2>3
  <2> HIDE DEF g, Step
  <2> QED
    BY <2>4
<1>3. req.n \in S
  <2> HIDE DEF S
  <2> QED
    BY <1>1, <1>2, NatSetInduction
<1>4. after = [ i \in 0 .. req.n |-> Step(after, i) ]
  <2> HIDE DEF Step
  <2> QED
    BY <1>3
<1>5. ffgbytoff(F, req) = [ F |-> Moved(after[req.n].F, req), data |-> after[req.n].data ]
  BY DEF Loop, ffgbytoff
<1> HIDE DEF after
<1>6. after[0] = [ F |-> F, data |-> <<>>, record |-> F.rec[F.cur], room |-> Room(F) ]
  BY <1>4
<1>7. ASSUME NEW i \in 1 .. req.n
      PROVE  after[i] = GetGroup(req, after[i-1], i)
  <2>1. i \in 0 .. req.n /\ i # 0
    OBVIOUS
  <2> QED
    BY <1>4, <2>1
<1> QED
  BY <1>5, <1>6, <1>7

----------------------------------------------------------------------------
(* ffbfwt.                                                                 *)

\* Only what is dirty, and what the disk holds, is different.
Flushed(F, G) ==
  /\ SameBuffers(F, G) /\ F.filesize \in Int /\ F.filesize <= G.filesize
  /\ \A m \in Bufs : G.dirty[m] => F.dirty[m]

LEMMA BufsFinite ==
  /\ IsFiniteSet(Bufs) /\ Cardinality(Bufs) = NIOBUF
  /\ \A S : S \subseteq Bufs => IsFiniteSet(S) /\ Cardinality(S) \in Nat
<1>1. 0 \in Int /\ NIOBUF - 1 \in Int /\ 0 <= NIOBUF - 1 /\ (NIOBUF - 1) - 0 + 1 = NIOBUF
  BY BufferSizes
<1>2. IsFiniteSet(Bufs) /\ Cardinality(Bufs) = NIOBUF
  BY <1>1, FS_Interval DEF Bufs
<1> QED
  BY <1>2, FS_Subset, FS_CardinalityType

\* The buffer that is appended is the one asked for or one that waits before it.
LEMMA LowestIs ==
  ASSUME NEW F, F.rec \in [ Bufs -> Int ], F.filesize \in Int, NEW n \in Bufs
  PROVE  /\ Waiting(F, n) = {} => Lowest(F, n) = n
         /\ Waiting(F, n) # {} => Lowest(F, n) \in Waiting(F, n)
<1> DEFINE W == Waiting(F, n)
<1>1. ASSUME W # {}
      PROVE  Lowest(F, n) \in W
  <2> DEFINE base == F.filesize \div IOBUFLEN
             T == { k \in Nat : \E m \in W : F.rec[m] = base + k }
  <2>0. \A m \in W : m \in Bufs /\ F.rec[m] \in Int /\ base <= F.rec[m]
    BY DEF Waiting
  <2>1. base \in Int
    BY BufferSizes
  <2> QED
    <3>1. PICK m \in W : TRUE
      BY <1>1
    <3>2. F.rec[m] - base \in T
      <4>1. F.rec[m] - base \in Nat /\ F.rec[m] = base + (F.rec[m] - base)
        BY <2>0, <2>1, <3>1
      <4> QED
        BY <3>1, <4>1
    <3>3. PICK k \in T : \A j \in T : ~ (<< j, k >> \in OpToRel(<, Nat))
      <4>1. T \subseteq Nat
        OBVIOUS
      <4> HIDE DEF T
      <4> QED
        BY <3>2, <4>1, NatLessThanWellFounded, WFMin
    <3>4. PICK l \in W : F.rec[l] = base + k /\ k \in Nat
      BY <3>3
    <3>5. \A j \in W : F.rec[l] <= F.rec[j]
      <4> SUFFICES ASSUME NEW j \in W, F.rec[j] < F.rec[l]
                   PROVE  FALSE
        BY <2>0, <3>4
      <4>1. F.rec[j] - base \in Nat /\ F.rec[j] = base + (F.rec[j] - base) /\ F.rec[j] - base < k
        BY <2>0, <2>1, <3>4
      <4>2. F.rec[j] - base \in T
        BY <4>1
      <4> QED
        BY <3>3, <3>4, <4>1, <4>2 DEF OpToRel
    <3> QED
      BY <1>1, <3>4, <3>5 DEF Lowest
<1> QED
  BY <1>1 DEF Lowest


\* The state of WriteBeyond's loop after some turns.
Appending(F, n, G, turns) ==
  /\ Body(G) /\ Flushed(F, G) /\ G.at = G.filesize
  /\ G.dirty[n] => /\ Recs(G.filesize) <= G.rec[n]
                   /\ Cardinality(Waiting(G, n)) <= NIOBUF - 1 - turns

LEMMA AppendStep ==
  ASSUME NEW F, NEW n \in Bufs, NEW i \in Nat, NEW G, Appending(F, n, G, i)
  PROVE  Appending(F, n, AppendLowest(G, n), i + 1)
<1> DEFINE H == AppendLowest(G, n)
           m == Lowest(G, n)
<1>1. CASE ~ G.dirty[n]
  BY <1>1 DEF AppendLowest, Appending
<1>2. CASE G.dirty[n]
  <2>0. /\ Body(G) /\ Flushed(F, G) /\ G.at = G.filesize /\ Recs(G.filesize) <= G.rec[n]
        /\ Cardinality(Waiting(G, n)) <= NIOBUF - 1 - i
        /\ G.rec \in [ Bufs -> Int ] /\ G.filesize \in Int /\ Recs(G.filesize) \in Int
        /\ G.rec[n] \in Int /\ G.dirty \in [ Bufs -> BOOLEAN ]
    <3>1. /\ Body(G) /\ Flushed(F, G) /\ G.at = G.filesize /\ Recs(G.filesize) <= G.rec[n]
          /\ Cardinality(Waiting(G, n)) <= NIOBUF - 1 - i
      BY <1>2 DEF Appending
    <3>2. G.rec \in [ Bufs -> Int ] /\ G.filesize \in Int /\ G.dirty \in [ Bufs -> BOOLEAN ]
      BY <3>1 DEF Body, Typed, Sizes
    <3> QED
      BY <3>1, <3>2, RecordOf
  <2>1. /\ m \in Bufs /\ Recs(G.filesize) <= G.rec[m] /\ G.rec[m] <= G.rec[n] /\ G.rec[m] \in Int
        /\ m # n => G.rec[m] < G.rec[n] /\ m \in Waiting(G, n)
        /\ m = n => Waiting(G, n) = {}
    <3>1. \A l \in Waiting(G, n) : /\ l \in Bufs /\ G.rec[l] \in Int /\ Recs(G.filesize) <= G.rec[l]
                                   /\ G.rec[l] < G.rec[n]
      BY <2>0 DEF Waiting, Recs
    <3>2. /\ Waiting(G, n) = {} => m = n
          /\ Waiting(G, n) # {} => m \in Waiting(G, n)
      BY <2>0, LowestIs
    <3> HIDE DEF m
    <3> QED
      BY <2>0, <3>1, <3>2
  <2> HIDE DEF m
  <2>2. G.dirty[m]
    <3>1. G.rec[m] >= 0 /\ ~ (G.rec[m] < Recs(G.filesize))
      <4>1. Recs(G.filesize) >= 0
        <5>1. G.filesize \in Int /\ G.filesize >= 0
          BY <2>0 DEF Body, Sizes
        <5> QED
          BY <5>1, RecordOf
      <4> QED
        BY <2>0, <2>1, <4>1
    <3> QED
      BY <2>0, <2>1, <3>1 DEF Body, CleanOnDisk
  <2>3. H = Append1(G, m)
    BY <1>2 DEF AppendLowest, m
  <2> HIDE DEF H
  <2>4. Wrote(G, H, m) /\ H.at = H.filesize
    BY <2>0, <2>1, <2>2, <2>3, Append1Wrote
  <2>5. /\ Body(H) /\ SameBuffers(G, H) /\ G.filesize <= H.filesize
        /\ \A l \in Bufs : H.dirty[l] <=> G.dirty[l] /\ l # m
        /\ Recs(H.filesize) = Most(Recs(G.filesize), G.rec[m] + 1)
    BY <2>0, <2>1, <2>2, <2>4, WroteKeeps
  <2>6. Flushed(F, H)
    <3>1. F.filesize <= H.filesize
      <4>1. /\ F.filesize <= G.filesize /\ G.filesize <= H.filesize
            /\ F.filesize \in Int /\ H.filesize \in Int
        BY <2>0, <2>5 DEF Flushed, Body, Sizes
      <4> QED
        BY <2>0, <4>1
    <3> QED
      BY <2>0, <2>5, <3>1 DEF Flushed, SameBuffers
  <2>7. ASSUME H.dirty[n]
        PROVE  /\ Recs(H.filesize) <= H.rec[n]
               /\ Cardinality(Waiting(H, n)) <= NIOBUF - 1 - (i + 1)
    <3>1. m # n /\ m \in Waiting(G, n) /\ G.rec[m] < G.rec[n] /\ H.rec = G.rec
      BY <2>1, <2>5, <2>7 DEF SameBuffers
    <3>2. /\ Recs(H.filesize) <= H.rec[n] /\ Recs(G.filesize) <= Recs(H.filesize)
          /\ G.rec[m] < Recs(H.filesize) /\ Recs(H.filesize) \in Int
      BY <2>0, <2>1, <2>5, <3>1 DEF Most
    <3>3. Waiting(H, n) \subseteq Waiting(G, n) \ {m}
      <4> SUFFICES ASSUME NEW l \in Bufs, G.rec[l] \in Recs(H.filesize) .. G.rec[n] - 1
                   PROVE  G.rec[l] \in Recs(G.filesize) .. G.rec[n] - 1 /\ l # m
        BY <3>1 DEF Waiting, Recs
      <4> QED
        BY <2>0, <2>1, <3>2
    <3>4. /\ IsFiniteSet(Waiting(G, n)) /\ Cardinality(Waiting(G, n)) \in Nat
          /\ Cardinality(Waiting(G, n) \ {m}) = Cardinality(Waiting(G, n)) - 1
          /\ Cardinality(Waiting(H, n)) \in Nat
          /\ Cardinality(Waiting(H, n)) <= Cardinality(Waiting(G, n) \ {m})
      <4>1. Waiting(G, n) \subseteq Bufs /\ Waiting(H, n) \subseteq Bufs
        BY DEF Waiting
      <4>2. IsFiniteSet(Waiting(G, n)) /\ IsFiniteSet(Waiting(G, n) \ {m})
        BY <4>1, BufsFinite, FS_Subset
      <4>3. Cardinality(Waiting(H, n)) <= Cardinality(Waiting(G, n) \ {m})
        BY <3>3, <4>2, FS_Subset
      <4>4. Cardinality(Waiting(G, n) \ {m}) = Cardinality(Waiting(G, n)) - 1
        BY <3>1, <4>2, FS_RemoveElement
      <4> QED
        BY <4>1, <4>2, <4>3, <4>4, BufsFinite
    <3> QED
      BY <2>0, <3>2, <3>4, BufferSizes
  <2> QED
    BY <2>4, <2>5, <2>6, <2>7 DEF Appending, H
<1> QED
  BY <1>1, <1>2

LEMMA WriteBeyondKeeps ==
  ASSUME NEW F, Coh(F), NEW n \in Bufs, F.dirty[n], ~ (Start(F, n) <= F.filesize)
  PROVE  LET G == WriteBeyond(F, n)
         IN  Coh(G) /\ Flushed(F, G) /\ ~ G.dirty[n]
<1> DEFINE S == SeekTo(F, F.filesize)
           G == WriteBeyond(F, n)
<1>0. /\ Fields(F) /\ F.io_pos \in Int /\ F.at \in Int /\ F.filesize \in Nat /\ F.filesize \in Int
      /\ Recs(F.filesize) \in Int /\ F.filesize = Recs(F.filesize) * IOBUFLEN
      /\ F.rec[n] \in Int /\ Start(F, n) = F.rec[n] * IOBUFLEN
  <2>1. /\ Fields(F) /\ F.io_pos \in Int /\ F.at \in Int /\ F.filesize \in Nat /\ F.filesize \in Int
        /\ F.filesize = Recs(F.filesize) * IOBUFLEN /\ F.rec[n] \in Int
    BY DEF Coh, Body, Typed, Sizes
  <2> QED
    BY <2>1, RecordOf DEF Start
<1>1. /\ Fields(S) /\ SameBuffers(F, S) /\ S.dirty = F.dirty /\ S.disk = F.disk
      /\ S.filesize = F.filesize /\ S.at = F.filesize /\ S.io_pos = F.io_pos
  <2>1. F.io_pos = F.filesize => F.at = F.filesize
    BY <1>0 DEF Coh, AtPlace
  <2>2. Fields(F)
    BY <1>0
  <2> QED
    BY <2>1, <2>2, SeekToIs
<1> HIDE DEF S
<1>2. Body(S)
  <2>1. Typed(S)
    BY <1>0, <1>1 DEF Coh, Body, Typed, SameBuffers
  <2>2. Alone(S) /\ Whole(S) /\ DirtyInFile(S)
    BY <1>1 DEF Coh, Body, SameBuffers, Alone, Whole, DirtyInFile
  <2>3. CleanOnDisk(S) /\ Sizes(S) /\ LastDirty(S)
    BY <1>1 DEF Coh, Body, SameBuffers, CleanOnDisk, Sizes, LastDirty, Start
  <2> QED
    BY <2>1, <2>2, <2>3 DEF Body
<1>3. Appending(F, n, S, 0)
  <2>1. Recs(S.filesize) <= S.rec[n]
    <3>1. ~ (F.rec[n] * IOBUFLEN <= Recs(F.filesize) * IOBUFLEN)
      BY <1>0
    <3>2. ~ (F.rec[n] <= Recs(F.filesize))
      BY <1>0, <3>1, RecordsOrdered
    <3> QED
      BY <1>0, <1>1, <3>2 DEF SameBuffers
  <2>2. Cardinality(Waiting(S, n)) <= NIOBUF - 1
    <3>1. Waiting(S, n) \subseteq Bufs \ {n}
      <4>1. S.rec[n] \in Int
        BY <1>0, <1>1 DEF SameBuffers
      <4> QED
        BY <4>1 DEF Waiting
    <3>2. IsFiniteSet(Bufs \ {n}) /\ Cardinality(Bufs \ {n}) = NIOBUF - 1
      BY BufsFinite, FS_Subset, FS_RemoveElement
    <3> QED
      BY <3>1, <3>2, FS_Subset
  <2>3. Flushed(F, S)
    BY <1>0, <1>1 DEF Flushed
  <2>4. NIOBUF - 1 - 0 = NIOBUF - 1
    BY BufferSizes
  <2> QED
    BY <1>1, <1>2, <2>1, <2>2, <2>3, <2>4 DEF Appending
<1>4. NIOBUF \in Nat
  BY BufferSizes
<1>5. PICK h : /\ h[0] = SeekTo(F, F.filesize)
               /\ \A i \in 1 .. NIOBUF : h[i] = AppendLowest(h[i-1], n)
               /\ WriteBeyond(F, n) = [ h[NIOBUF] EXCEPT !.io_pos = h[NIOBUF].filesize ]
  <2> HIDE DEF G
  <2> QED
    BY <1>4, AppendTurns
<1>6. Appending(F, n, h[NIOBUF], NIOBUF)
  <2> DEFINE T == { i \in Nat : i <= NIOBUF => Appending(F, n, h[i], i) }
  <2>1. 0 \in T
    BY <1>3, <1>5 DEF S
  <2>2. ASSUME NEW i \in Nat, i \in T
        PROVE  i + 1 \in T
    <3> SUFFICES ASSUME i + 1 <= NIOBUF
                 PROVE  Appending(F, n, h[i+1], i + 1)
      OBVIOUS
    <3>1. i + 1 \in 1 .. NIOBUF /\ (i + 1) - 1 = i /\ i <= NIOBUF
      BY <1>4
    <3>2. h[i+1] = AppendLowest(h[i], n)
      BY <1>5, <3>1
    <3> QED
      BY <2>2, <3>1, <3>2, AppendStep
  <2> HIDE DEF T
  <2>3. NIOBUF \in T
    BY <1>4, <2>1, <2>2, NatSetInduction
  <2> QED
    BY <1>4, <2>3 DEF T
<1> DEFINE W == h[NIOBUF]
<1>7. G = [ W EXCEPT !.io_pos = W.filesize ]
  BY <1>5
<1>8. ~ W.dirty[n]
  <2> SUFFICES ASSUME W.dirty[n]
               PROVE  FALSE
    OBVIOUS
  <2>1. Cardinality(Waiting(W, n)) <= NIOBUF - 1 - NIOBUF
    BY <1>6 DEF Appending
  <2>2. Cardinality(Waiting(W, n)) \in Nat
    BY BufsFinite DEF Waiting
  <2> QED
    BY <1>4, <2>1, <2>2
<1> HIDE DEF W, G
<1>9. Body(W) /\ Flushed(F, W) /\ W.at = W.filesize
  BY <1>6 DEF Appending, W
<1>10. /\ Fields(G) /\ SameBuffers(W, G) /\ G.dirty = W.dirty /\ G.disk = W.disk /\ G.at = W.filesize
       /\ G.filesize = W.filesize /\ G.io_pos = W.filesize
  BY <1>7, <1>9 DEF Body, Typed, Fields, SameBuffers
<1>11. Coh(G)
  <2>0. W.filesize \in Int
    BY <1>9 DEF Body, Sizes
  <2>1. Typed(G)
    BY <1>9, <1>10, <2>0 DEF Body, Typed, SameBuffers
  <2>2. Alone(G) /\ Whole(G) /\ DirtyInFile(G)
    BY <1>9, <1>10 DEF Body, SameBuffers, Alone, Whole, DirtyInFile
  <2>3. CleanOnDisk(G) /\ Sizes(G) /\ LastDirty(G)
    BY <1>9, <1>10 DEF Body, SameBuffers, CleanOnDisk, Sizes, LastDirty, Start
  <2> QED
    BY <1>10, <2>1, <2>2, <2>3 DEF Coh, Body, AtPlace
<1>12. Flushed(F, G)
  BY <1>9, <1>10 DEF Flushed, SameBuffers
<1> QED
  BY <1>8, <1>10, <1>11, <1>12 DEF G


LEMMA ffbfwtKeeps ==
  ASSUME NEW F, Coh(F), NEW n \in Bufs, F.dirty[n]
  PROVE  LET G == ffbfwt(F, n)
         IN  Coh(G) /\ Flushed(F, G) /\ ~ G.dirty[n]
<1>1. CASE Start(F, n) <= F.filesize
  <2> DEFINE G == WriteInside(F, n)
  <2>1. Wrote(F, G, n) /\ AtPlace(G)
    BY <1>1, WriteInsideWrote
  <2>2. Body(F)
    BY DEF Coh
  <2>3. /\ Body(G) /\ SameBuffers(F, G) /\ F.filesize <= G.filesize
        /\ \A m \in Bufs : G.dirty[m] <=> F.dirty[m] /\ m # n
    <3> HIDE DEF G
    <3> QED
      BY <2>1, <2>2, WroteKeeps
  <2>4. F.filesize \in Int
    BY <2>2 DEF Body, Sizes
  <2>5. ffbfwt(F, n) = G
    BY <1>1 DEF ffbfwt
  <2> HIDE DEF G
  <2> QED
    BY <2>1, <2>3, <2>4, <2>5 DEF Coh, Flushed
<1>2. CASE ~ (Start(F, n) <= F.filesize)
  <2>1. ffbfwt(F, n) = WriteBeyond(F, n)
    BY <1>2 DEF ffbfwt
  <2> QED
    BY <1>2, <2>1, WriteBeyondKeeps
<1> QED
  BY <1>1, <1>2

LEMMA FlushedSelf ==
  ASSUME NEW F, Coh(F)
  PROVE  Flushed(F, F)
<1>1. F.filesize \in Int /\ F.filesize <= F.filesize
  BY DEF Coh, Body, Sizes
<1> QED
  BY <1>1 DEF Flushed, SameBuffers

LEMMA FlushedTwice ==
  ASSUME NEW F, NEW G, NEW H, Flushed(F, G), Flushed(G, H), Coh(H)
  PROVE  Flushed(F, H)
<1>1. F.filesize <= H.filesize
  <2>1. /\ F.filesize \in Int /\ G.filesize \in Int /\ H.filesize \in Int
        /\ F.filesize <= G.filesize /\ G.filesize <= H.filesize
    BY DEF Flushed, Coh, Body, Sizes
  <2> QED
    BY <2>1
<1> QED
  BY <1>1 DEF Flushed, SameBuffers

LEMMA WriteDirtyKeeps ==
  ASSUME NEW F, Coh(F), NEW n \in Bufs
  PROVE  LET G == WriteDirty(F, n)
         IN  Coh(G) /\ Flushed(F, G) /\ ~ G.dirty[n]
<1>1. CASE F.dirty[n]
  BY <1>1, ffbfwtKeeps DEF WriteDirty
<1>2. CASE ~ F.dirty[n]
  BY <1>2, FlushedSelf DEF WriteDirty
<1> QED
  BY <1>1, <1>2

\* The buffers, in order: turn i is that of buffer i - 1.
LEMMA BufferOfTurn ==
  ASSUME NEW i \in 1 .. NIOBUF
  PROVE  i - 1 \in Bufs /\ \A n \in Bufs : n < i <=> n < i - 1 \/ n = i - 1
BY BufferSizes DEF Bufs

LEMMA WriteBackKeeps ==
  ASSUME NEW F, Coh(F), NEW records
  PROVE  LET G == WriteBack(F, records)
         IN  /\ Coh(G) /\ Flushed(F, G)
             /\ \A n \in Bufs : F.rec[n] \in records => ~ G.dirty[n]
<1> DEFINE Done(G, i) == /\ Coh(G) /\ Flushed(F, G)
                         /\ \A n \in Bufs : n < i /\ F.rec[n] \in records => ~ G.dirty[n]
<1>0. NIOBUF \in Nat
  BY BufferSizes
<1>1. PICK h : /\ h[0] = F
               /\ \A i \in 1 .. NIOBUF : h[i] = WriteIf(h[i-1], i - 1, records)
               /\ WriteBack(F, records) = h[NIOBUF]
  BY <1>0, WriteTurns
<1>2. Done(h[0], 0)
  <2>1. \A n \in Bufs : ~ (n < 0)
    BY BufferSizes DEF Bufs
  <2> QED
    BY <1>1, <2>1, FlushedSelf
<1>3. ASSUME NEW i \in 1 .. NIOBUF, Done(h[i-1], i - 1)
      PROVE  Done(h[i], i)
  <2> DEFINE G == h[i-1]
             H == h[i]
             m == i - 1
  <2>0. m \in Bufs /\ \A n \in Bufs : n < i <=> n < m \/ n = m
    BY BufferOfTurn
  <2>1. /\ Coh(G) /\ Flushed(F, G)
        /\ \A n \in Bufs : n < m /\ F.rec[n] \in records => ~ G.dirty[n]
    BY <1>3
  <2>2. H = IF G.rec[m] \in records THEN WriteDirty(G, m) ELSE G
    BY <1>1 DEF WriteIf
  <2>3. G.rec = F.rec
    BY <2>1 DEF Flushed, SameBuffers
  <2> HIDE DEF G, H, m
  <2>4. CASE F.rec[m] \in records
    <3>1. Coh(H) /\ Flushed(G, H) /\ ~ H.dirty[m]
      BY <2>0, <2>1, <2>2, <2>3, <2>4, WriteDirtyKeeps
    <3>2. Flushed(F, H)
      BY <2>1, <3>1, FlushedTwice
    <3>3. \A n \in Bufs : H.dirty[n] => G.dirty[n]
      BY <3>1 DEF Flushed
    <3>4. Done(H, i)
      BY <2>0, <2>1, <3>1, <3>2, <3>3
    <3> QED
      BY <3>4 DEF H
  <2>5. CASE F.rec[m] \notin records
    <3>1. Done(H, i)
      BY <2>0, <2>1, <2>2, <2>3, <2>5
    <3> QED
      BY <3>1 DEF H
  <2> QED
    BY <2>4, <2>5
<1> HIDE DEF Done
<1>4. Done(h[NIOBUF], NIOBUF)
  <2> DEFINE T == { i \in Nat : i <= NIOBUF => Done(h[i], i) }
  <2>1. 0 \in T
    BY <1>2
  <2>2. ASSUME NEW i \in Nat, i \in T
        PROVE  i + 1 \in T
    <3> SUFFICES ASSUME i + 1 <= NIOBUF
                 PROVE  Done(h[i+1], i + 1)
      OBVIOUS
    <3>1. i + 1 \in 1 .. NIOBUF /\ (i + 1) - 1 = i /\ i <= NIOBUF
      BY <1>0
    <3>2. Done(h[(i+1)-1], (i + 1) - 1)
      BY <2>2, <3>1
    <3> QED
      BY <1>3, <3>1, <3>2
  <2> HIDE DEF T
  <2>3. NIOBUF \in T
    BY <1>0, <2>1, <2>2, NatSetInduction
  <2> QED
    BY <1>0, <2>3 DEF T
<1>5. \A n \in Bufs : n < NIOBUF
  BY BufferSizes DEF Bufs
<1> QED
  BY <1>1, <1>4, <1>5 DEF Done

----------------------------------------------------------------------------
(* Letting records go.                                                     *)

\* A buffer that is not dirty may be let go of.
LEMMA DropKeeps ==
  ASSUME NEW F, Coh(F), NEW n \in Bufs, ~ F.dirty[n]
  PROVE  LET G == [ F EXCEPT !.rec[n] = -1 ]
         IN  /\ Coh(G) /\ G.rec = [ F.rec EXCEPT ![n] = -1 ] /\ G.dirty = F.dirty
             /\ G.buf = F.buf /\ G.age = F.age /\ G.cur = F.cur /\ G.bytepos = F.bytepos
             /\ G.filesize = F.filesize /\ G.logfilesize = F.logfilesize /\ G.status = F.status
<1> DEFINE G == [ F EXCEPT !.rec[n] = -1 ]
<1>0. Typed(F)
  BY DEF Coh, Body
<1>1. /\ Fields(G) /\ G.rec = [ F.rec EXCEPT ![n] = -1 ] /\ G.dirty = F.dirty
      /\ G.buf = F.buf /\ G.age = F.age /\ G.cur = F.cur /\ G.bytepos = F.bytepos
      /\ G.filesize = F.filesize /\ G.logfilesize = F.logfilesize /\ G.status = F.status
      /\ G.disk = F.disk /\ G.at = F.at /\ G.io_pos = F.io_pos
  <2> DEFINE rec == [ F.rec EXCEPT ![n] = -1 ]
  <2>1. G = [ F EXCEPT !.rec = rec ]
    OBVIOUS
  <2> HIDE DEF G, rec
  <2>2. /\ Fields(G) /\ G.rec = rec /\ G.dirty = F.dirty
        /\ G.buf = F.buf /\ G.age = F.age /\ G.cur = F.cur /\ G.bytepos = F.bytepos
        /\ G.filesize = F.filesize /\ G.logfilesize = F.logfilesize /\ G.status = F.status
        /\ G.disk = F.disk /\ G.at = F.at /\ G.io_pos = F.io_pos
    BY <1>0, <2>1 DEF Typed, Fields
  <2> QED
    BY <2>2 DEF rec
<1> HIDE DEF G
<1>2. \A m \in Bufs : G.rec[m] = IF m = n THEN -1 ELSE F.rec[m]
  BY <1>0, <1>1 DEF Typed
<1>3. Typed(G)
  BY <1>0, <1>1 DEF Typed
<1>4. Alone(G) /\ Whole(G) /\ DirtyInFile(G)
  BY <1>1, <1>2 DEF Coh, Body, Alone, Whole, DirtyInFile
<1>5. CleanOnDisk(G) /\ Sizes(G)
  BY <1>1, <1>2 DEF Coh, Body, CleanOnDisk, Sizes, Start
<1>6. LastDirty(G)
  BY <1>1, <1>2 DEF Coh, Body, LastDirty
<1>7. AtPlace(G)
  BY <1>1 DEF Coh, AtPlace
<1> QED
  BY <1>1, <1>3, <1>4, <1>5, <1>6, <1>7 DEF Coh, Body, G


\* All but the disk, its size and position, what is dirty, and records let go of.
LetGo(F, G) ==
  /\ G.buf = F.buf /\ G.age = F.age /\ G.cur = F.cur /\ G.bytepos = F.bytepos
  /\ G.logfilesize = F.logfilesize /\ G.status = F.status
  /\ F.filesize \in Int /\ F.filesize <= G.filesize
  /\ \A n \in Bufs : G.dirty[n] => F.dirty[n]

\* Files of whole records compare as their numbers of records.
LEMMA RecsOrdered ==
  ASSUME NEW x \in Int, NEW y \in Int, x = Recs(x) * IOBUFLEN, y = Recs(y) * IOBUFLEN
  PROVE  /\ Recs(x) \in Int /\ Recs(y) \in Int
         /\ x <= y <=> Recs(x) <= Recs(y)
         /\ x < y <=> Recs(x) < Recs(y)
         /\ x = y <=> Recs(x) = Recs(y)
<1>1. Recs(x) \in Int /\ Recs(y) \in Int
  BY RecordOf
<1> DEFINE a == Recs(x)
           b == Recs(y)
<1>2. a \in Int /\ b \in Int /\ x = a * IOBUFLEN /\ y = b * IOBUFLEN
  BY <1>1
<1> HIDE DEF a, b
<1>3. /\ x <= y <=> a <= b
      /\ x < y <=> a < b
      /\ x = y <=> a = b
  BY <1>2, RecordsOrdered
<1> QED
  BY <1>2, <1>3 DEF a, b

\* The buffers of the first turns have been let go of, and are on disk.
Evicting(F, from, to, G, i) ==
  /\ Coh(G) /\ LetGo(F, G)
  /\ \A n \in Bufs :
       /\ G.rec[n] = IF n < i /\ F.rec[n] \in from .. to THEN -1 ELSE F.rec[n]
       /\ n < i /\ F.rec[n] \in from .. to /\ F.rec[n] >= 0 => F.rec[n] < Recs(G.filesize)

LEMMA EvictStep ==
  ASSUME NEW F, NEW from \in Int, NEW to \in Int, NEW i \in 1 .. NIOBUF,
         NEW G, Evicting(F, from, to, G, i - 1)
  PROVE  Evicting(F, from, to, EvictIf(G, i - 1, from .. to), i)
<1> DEFINE m == i - 1
           H == EvictIf(G, m, from .. to)
<1>0. m \in Bufs /\ (\A n \in Bufs : n < i <=> n < m \/ n = m) /\ ~ (m < m) /\ m < i
  BY BufferOfTurn, BufferSizes
<1>1. /\ Coh(G) /\ LetGo(F, G)
      /\ \A n \in Bufs :
           /\ G.rec[n] = IF n < m /\ F.rec[n] \in from .. to THEN -1 ELSE F.rec[n]
           /\ n < m /\ F.rec[n] \in from .. to /\ F.rec[n] >= 0 => F.rec[n] < Recs(G.filesize)
  BY DEF Evicting
<1> HIDE DEF m
<1>2. G.rec[m] = F.rec[m]
  BY <1>0, <1>1
<1>3. CASE F.rec[m] \in from .. to
  <2> DEFINE W == WriteDirty(G, m)
  <2>1. Coh(W) /\ Flushed(G, W) /\ ~ W.dirty[m]
    BY <1>0, <1>1, WriteDirtyKeeps
  <2>2. H = [ W EXCEPT !.rec[m] = -1 ]
    BY <1>2, <1>3 DEF EvictIf
  <2> HIDE DEF W, H
  <2>3. /\ Coh(H) /\ H.rec = [ W.rec EXCEPT ![m] = -1 ] /\ H.dirty = W.dirty
        /\ H.buf = W.buf /\ H.age = W.age /\ H.cur = W.cur /\ H.bytepos = W.bytepos
        /\ H.filesize = W.filesize /\ H.logfilesize = W.logfilesize /\ H.status = W.status
    BY <1>0, <2>1, <2>2, DropKeeps
  <2>4. /\ F.filesize \in Int /\ G.filesize \in Int /\ H.filesize \in Int
        /\ F.filesize <= G.filesize /\ G.filesize <= H.filesize
        /\ H.filesize = Recs(H.filesize) * IOBUFLEN /\ G.filesize = Recs(G.filesize) * IOBUFLEN
    <3>1. G.filesize \in Int /\ H.filesize \in Int
          /\ H.filesize = Recs(H.filesize) * IOBUFLEN /\ G.filesize = Recs(G.filesize) * IOBUFLEN
      BY <1>1, <2>3 DEF Coh, Body, Sizes
    <3> QED
      BY <1>1, <2>1, <2>3, <3>1 DEF LetGo, Flushed
  <2>5. LetGo(F, H)
    <3>1. F.filesize <= H.filesize
      BY <2>4
    <3>2. SameBuffers(G, W) /\ \A n \in Bufs : W.dirty[n] => G.dirty[n]
      BY <2>1 DEF Flushed
    <3> QED
      BY <1>1, <2>3, <2>4, <3>1, <3>2 DEF LetGo, SameBuffers
  <2>6. Recs(G.filesize) <= Recs(H.filesize) /\ Recs(G.filesize) \in Int /\ Recs(H.filesize) \in Int
    BY <2>4, RecsOrdered
  <2>7. W.rec = G.rec /\ G.rec \in [ Bufs -> Int ]
    BY <1>1, <2>1 DEF Flushed, SameBuffers, Coh, Body, Typed
  <2>8. F.rec[m] >= 0 => F.rec[m] < Recs(H.filesize)
    <3>1. W.rec[m] >= 0 => W.rec[m] < Recs(W.filesize)
      BY <1>0, <2>1 DEF Coh, Body, CleanOnDisk
    <3> QED
      BY <1>2, <2>3, <2>7, <3>1
  <2>9. \A n \in Bufs : H.rec[n] = IF n = m THEN -1 ELSE G.rec[n]
    BY <2>3, <2>7
  <2>10. ASSUME NEW n \in Bufs
         PROVE  /\ H.rec[n] = IF n < i /\ F.rec[n] \in from .. to THEN -1 ELSE F.rec[n]
                /\ n < i /\ F.rec[n] \in from .. to /\ F.rec[n] >= 0 => F.rec[n] < Recs(H.filesize)
    <3>1. CASE n = m
      BY <1>0, <1>3, <2>8, <2>9, <3>1
    <3>2. CASE n # m
      <4>1. n < i <=> n < m
        BY <1>0, <3>2
      <4>2. n < m /\ F.rec[n] \in from .. to /\ F.rec[n] >= 0 => F.rec[n] < Recs(H.filesize)
        <5>1. F.rec[n] \in from .. to => F.rec[n] \in Int
          OBVIOUS
        <5> QED
          BY <1>1, <2>6, <5>1
      <4> QED
        BY <1>1, <2>9, <3>2, <4>1, <4>2
    <3> QED
      BY <3>1, <3>2
  <2> QED
    BY <2>3, <2>5, <2>10 DEF Evicting, H, m
<1>4. CASE F.rec[m] \notin from .. to
  <2>1. H = G
    BY <1>2, <1>4 DEF EvictIf
  <2> HIDE DEF H
  <2>2. ASSUME NEW n \in Bufs
        PROVE  /\ H.rec[n] = IF n < i /\ F.rec[n] \in from .. to THEN -1 ELSE F.rec[n]
               /\ n < i /\ F.rec[n] \in from .. to /\ F.rec[n] >= 0 => F.rec[n] < Recs(H.filesize)
    BY <1>0, <1>1, <1>2, <1>4, <2>1
  <2> QED
    BY <1>1, <2>1, <2>2 DEF Evicting, H, m
<1> QED
  BY <1>3, <1>4

LEMMA EvictedKeeps ==
  ASSUME NEW F, Coh(F), NEW from \in Int, NEW to \in Int
  PROVE  LET G == Evicted(F, from, to)
         IN  /\ Coh(G) /\ LetGo(F, G)
             /\ \A n \in Bufs :
                  /\ G.rec[n] = IF F.rec[n] \in from .. to THEN -1 ELSE F.rec[n]
                  /\ F.rec[n] \in from .. to /\ F.rec[n] >= 0 => F.rec[n] < Recs(G.filesize)
<1>0. NIOBUF \in Nat
  BY BufferSizes
<1>a. PICK h : EvictHistory(F, from, to, h)
  BY <1>0, EvictTurns
<1>1. /\ h[0] = F
      /\ \A i \in 1 .. NIOBUF : h[i] = EvictIf(h[i-1], i - 1, from .. to)
      /\ Evicted(F, from, to) = h[NIOBUF]
  BY <1>a DEF EvictHistory
<1>2. Evicting(F, from, to, h[0], 0)
  <2>1. \A n \in Bufs : ~ (n < 0)
    BY BufferSizes DEF Bufs
  <2>2. LetGo(F, F)
    BY FlushedSelf DEF Flushed, LetGo
  <2> QED
    BY <1>1, <2>1, <2>2 DEF Evicting
<1>3. Evicting(F, from, to, h[NIOBUF], NIOBUF)
  <2> DEFINE T == { i \in Nat : i <= NIOBUF => Evicting(F, from, to, h[i], i) }
  <2>1. 0 \in T
    BY <1>2
  <2>2. ASSUME NEW i \in Nat, i \in T
        PROVE  i + 1 \in T
    <3> SUFFICES ASSUME i + 1 <= NIOBUF
                 PROVE  Evicting(F, from, to, h[i+1], i + 1)
      OBVIOUS
    <3>1. i + 1 \in 1 .. NIOBUF /\ (i + 1) - 1 = i /\ i <= NIOBUF
      BY <1>0
    <3>2. Evicting(F, from, to, h[(i+1)-1], (i + 1) - 1)
      BY <2>2, <3>1
    <3> QED
      BY <1>1, <3>1, <3>2, EvictStep
  <2> HIDE DEF T
  <2>3. NIOBUF \in T
    BY <1>0, <2>1, <2>2, NatSetInduction
  <2> QED
    BY <1>0, <2>3 DEF T
<1>4. \A n \in Bufs : n < NIOBUF
  BY BufferSizes DEF Bufs
<1> QED
  BY <1>1, <1>3, <1>4 DEF Evicting


----------------------------------------------------------------------------
(* Loading records.                                                        *)

\* All but the age of buffers, the current one, the position and the status.
SameFile(F, G) ==
  /\ G.disk = F.disk /\ G.at = F.at /\ G.buf = F.buf /\ G.rec = F.rec /\ G.dirty = F.dirty
  /\ G.io_pos = F.io_pos /\ G.filesize = F.filesize /\ G.logfilesize = F.logfilesize

LEMMA SameFileKeeps ==
  ASSUME NEW F, Coh(F), NEW G, Fields(G), SameFile(F, G), G.bytepos \in Int,
         G.age \in [ 1 .. NIOBUF -> Bufs ],
         \A n \in Bufs : \E i \in 1 .. NIOBUF : G.age[i] = n
  PROVE  Coh(G)
<1>1. Typed(G)
  BY DEF Coh, Body, Typed, SameFile
<1>2. Alone(G) /\ Whole(G) /\ DirtyInFile(G)
  BY DEF Coh, Body, SameFile, Alone, Whole, DirtyInFile
<1>3. CleanOnDisk(G) /\ Sizes(G) /\ LastDirty(G) /\ AtPlace(G)
  BY DEF Coh, Body, SameFile, CleanOnDisk, Sizes, LastDirty, AtPlace, Start
<1> QED
  BY <1>1, <1>2, <1>3 DEF Coh, Body

\* The buffer in use becomes the youngest, the others keep their order.
LEMMA UsedKeeps ==
  ASSUME NEW F, Coh(F), NEW n \in Bufs
  PROVE  LET G == Used(F, n)
         IN  /\ Coh(G) /\ SameFile(F, G) /\ G.cur = n
             /\ G.bytepos = F.bytepos /\ G.status = F.status
<1> DEFINE k == CHOOSE i \in 1 .. NIOBUF : F.age[i] = n
           age == [ i \in 1 .. NIOBUF |-> IF i < k THEN F.age[i]
                                          ELSE IF i < NIOBUF THEN F.age[i+1] ELSE n ]
           G == Used(F, n)
<1>0. NIOBUF \in Nat /\ NIOBUF >= 1
  BY BufferSizes
<1>1. /\ Fields(F) /\ F.bytepos \in Int /\ F.age \in [ 1 .. NIOBUF -> Bufs ]
      /\ \A m \in Bufs : \E i \in 1 .. NIOBUF : F.age[i] = m
  BY DEF Coh, Body, Typed
<1>2. k \in 1 .. NIOBUF /\ F.age[k] = n
  BY <1>1
<1>3. G = [ F EXCEPT !.cur = n, !.age = age ]
  BY DEF Used
<1> HIDE DEF k
<1>4. age \in [ 1 .. NIOBUF -> Bufs ]
  <2> SUFFICES ASSUME NEW i \in 1 .. NIOBUF
               PROVE  age[i] \in Bufs
    OBVIOUS
  <2>1. CASE i < k
    BY <1>0, <1>1, <1>2, <2>1
  <2>2. CASE ~ (i < k) /\ i < NIOBUF
    <3>1. i + 1 \in 1 .. NIOBUF
      BY <1>0, <2>2
    <3> QED
      BY <1>1, <2>2, <3>1
  <2>3. CASE ~ (i < k) /\ ~ (i < NIOBUF)
    BY <2>3
  <2> QED
    BY <2>1, <2>2, <2>3
<1>5. ASSUME NEW m \in Bufs
      PROVE  \E i \in 1 .. NIOBUF : age[i] = m
  <2>1. CASE m = n
    <3>1. NIOBUF \in 1 .. NIOBUF /\ ~ (NIOBUF < k) /\ ~ (NIOBUF < NIOBUF)
      BY <1>0, <1>2
    <3>2. age[NIOBUF] = n
      BY <3>1
    <3> QED
      BY <2>1, <3>1, <3>2
  <2>2. CASE m # n
    <3>1. PICK i \in 1 .. NIOBUF : F.age[i] = m
      BY <1>1
    <3>2. i # k
      BY <1>2, <2>2, <3>1
    <3>3. CASE i < k
      <4>1. age[i] = m
        BY <3>1, <3>3
      <4> QED
        BY <4>1
    <3>4. CASE i > k
      <4>1. i - 1 \in 1 .. NIOBUF /\ ~ (i - 1 < k) /\ i - 1 < NIOBUF /\ (i - 1) + 1 = i
        BY <1>0, <1>2, <3>4
      <4>2. age[i-1] = m
        BY <3>1, <4>1
      <4> QED
        BY <4>1, <4>2
    <3> QED
      BY <1>2, <3>2, <3>3, <3>4
  <2> QED
    BY <2>1, <2>2
<1> HIDE DEF age, G
<1>6. /\ Fields(G) /\ SameFile(F, G) /\ G.cur = n /\ G.age = age
      /\ G.bytepos = F.bytepos /\ G.status = F.status
  BY <1>1, <1>3 DEF Fields, SameFile
<1>7. Coh(G)
  BY <1>1, <1>4, <1>5, <1>6, SameFileKeeps
<1> QED
  BY <1>6, <1>7 DEF G

\* What loading leaves: a record in the current buffer, and maybe a larger file.
Loads(F, G) ==
  /\ G.bytepos = F.bytepos /\ G.cur \in Bufs
  /\ F.logfilesize \in Int /\ F.logfilesize <= G.logfilesize

\* A new record beyond the end of the file, in a buffer that is not dirty.
LEMMA NewRecordKeeps ==
  ASSUME NEW F, Coh(F), NEW n \in Bufs, ~ F.dirty[n], NEW record \in Int,
         \A m \in Bufs : F.rec[m] # record, record * IOBUFLEN >= F.filesize
  PROVE  LET G == [ NewRecord(F, n, record) EXCEPT !.rec[n] = record ]
         IN  /\ Coh(G) /\ G.rec[n] = record /\ G.bytepos = F.bytepos /\ G.status = F.status
             /\ F.logfilesize \in Int /\ F.logfilesize <= G.logfilesize
<1> DEFINE G == [ NewRecord(F, n, record) EXCEPT !.rec[n] = record ]
           buf == [ F.buf EXCEPT ![n] = Blank(IOBUFLEN) ]
           dirty == [ F.dirty EXCEPT ![n] = TRUE ]
           rec == [ F.rec EXCEPT ![n] = record ]
           size == Most(F.logfilesize, (record + 1) * IOBUFLEN)
<1>0. /\ Typed(F) /\ Fields(F) /\ F.rec \in [ Bufs -> Int ] /\ F.dirty \in [ Bufs -> BOOLEAN ]
      /\ F.buf = [ m \in Bufs |-> F.buf[m] ]
      /\ F.filesize \in Nat /\ F.logfilesize \in Nat /\ F.filesize = Recs(F.filesize) * IOBUFLEN
      /\ F.logfilesize = Recs(F.logfilesize) * IOBUFLEN /\ Recs(F.filesize) <= Recs(F.logfilesize)
  BY DEF Coh, Body, Typed, Sizes
<1>1. G = [ F EXCEPT !.buf = buf, !.dirty = dirty, !.logfilesize = size, !.rec = rec ]
  <2>1. NewRecord(F, n, record) = [ F EXCEPT !.buf = buf, !.dirty = dirty, !.logfilesize = size ]
    BY DEF NewRecord
  <2>2. NewRecord(F, n, record).rec = F.rec
    <3> HIDE DEF buf, dirty, size
    <3> QED
      BY <1>0, <2>1 DEF Fields
  <2>3. G = [ NewRecord(F, n, record) EXCEPT !.rec = rec ]
    BY <2>2
  <2> HIDE DEF buf, dirty, size, rec, G
  <2> QED
    BY <1>0, <2>1, <2>3 DEF Fields
<1>2. /\ record \in Nat /\ Recs(F.filesize) <= record
      /\ Recs(F.filesize) \in Nat /\ Recs(F.logfilesize) \in Nat
  <2>1. Recs(F.filesize) \in Int /\ Recs(F.filesize) >= 0
    BY <1>0, RecordOf
  <2>2. Recs(F.filesize) * IOBUFLEN <= record * IOBUFLEN
    BY <1>0
  <2>3. Recs(F.filesize) <= record
    BY <2>1, <2>2, RecordsOrdered
  <2>4. Recs(F.logfilesize) \in Int
    BY <1>0, RecordOf
  <2> QED
    BY <1>0, <2>1, <2>3, <2>4
<1>3. /\ size \in Nat /\ size = Recs(size) * IOBUFLEN
      /\ Recs(size) = Most(Recs(F.logfilesize), record + 1)
  <2>1. (record + 1) * IOBUFLEN = record * IOBUFLEN + IOBUFLEN
    BY <1>2, Records
  <2> QED
    BY <1>0, <1>2, <2>1, SizeAfter
<1>4. F.logfilesize <= size
  <2>1. (record + 1) * IOBUFLEN \in Int
    BY <1>2, Records
  <2> DEFINE x == (record + 1) * IOBUFLEN
  <2> HIDE DEF x
  <2>2. F.logfilesize <= Most(F.logfilesize, x)
    BY <1>0, <2>1 DEF Most, x
  <2> QED
    BY <2>2 DEF x
<1>5. /\ \A m \in Bufs : /\ buf[m] = IF m = n THEN Blank(IOBUFLEN) ELSE F.buf[m]
                         /\ rec[m] = IF m = n THEN record ELSE F.rec[m]
                         /\ dirty[m] <=> m = n \/ F.dirty[m]
      /\ buf = [ m \in Bufs |-> buf[m] ] /\ rec \in [ Bufs -> Int ] /\ dirty \in [ Bufs -> BOOLEAN ]
  BY <1>0
<1> HIDE DEF buf, dirty, rec, size, G
<1>6. /\ Fields(G) /\ G.disk = F.disk /\ G.at = F.at /\ G.buf = buf /\ G.rec = rec
      /\ G.dirty = dirty /\ G.age = F.age /\ G.cur = F.cur /\ G.bytepos = F.bytepos
      /\ G.io_pos = F.io_pos /\ G.filesize = F.filesize /\ G.logfilesize = size
      /\ G.status = F.status
  BY <1>0, <1>1 DEF Fields
<1>7. Typed(G)
  <2>1. G.buf = [ m \in Bufs |-> G.buf[m] ]
    BY <1>5, <1>6
  <2>2. /\ IsSequence(G.disk) /\ G.at \in Int /\ G.io_pos \in Int /\ G.bytepos \in Int
        /\ G.age \in [ 1 .. NIOBUF -> Bufs ] /\ \A m \in Bufs : \E i \in 1 .. NIOBUF : G.age[i] = m
    BY <1>0, <1>6 DEF Typed
  <2>3. G.rec \in [ Bufs -> Int ] /\ G.dirty \in [ Bufs -> BOOLEAN ]
    BY <1>5, <1>6
  <2> QED
    BY <1>6, <2>1, <2>2, <2>3 DEF Typed
<1>8. Alone(G) /\ Whole(G)
  <2>1. IsSequence(Blank(IOBUFLEN)) /\ Len(Blank(IOBUFLEN)) = IOBUFLEN
    BY BlankIs, BufferSizes
  <2>2. \A m \in Bufs : F.rec[m] # record
    BY DEF Coh
  <2>3. Alone(G)
    BY <1>5, <1>6, <2>2 DEF Coh, Body, Alone
  <2> DEFINE blank == Blank(IOBUFLEN)
  <2>4. \A m \in Bufs : /\ m # n => G.rec[m] = F.rec[m]
                        /\ G.buf[m] = IF m = n THEN blank ELSE F.buf[m]
    BY <1>5, <1>6
  <2>5. IsSequence(blank) /\ Len(blank) = IOBUFLEN
    BY <2>1
  <2> HIDE DEF blank
  <2>6. Whole(G)
    BY <2>4, <2>5 DEF Coh, Body, Whole
  <2> QED
    BY <2>3, <2>6
<1>9. DirtyInFile(G)
  <2>1. record < Recs(size) /\ Recs(F.logfilesize) <= Recs(size) /\ Recs(size) \in Int
    BY <1>2, <1>3 DEF Most
  <2> QED
    BY <1>2, <1>5, <1>6, <2>1 DEF Coh, Body, DirtyInFile
<1>10. CleanOnDisk(G)
  BY <1>5, <1>6 DEF Coh, Body, CleanOnDisk, Start
<1>11. Sizes(G)
  <2>1. Recs(F.filesize) <= Recs(size)
    BY <1>0, <1>2, <1>3 DEF Most
  <2> QED
    BY <1>3, <1>6, <2>1 DEF Coh, Body, Sizes
<1>12. LastDirty(G)
  <2>1. CASE Recs(size) = record + 1
    <3>1. G.dirty[n] /\ G.rec[n] = Recs(size) - 1
      BY <1>2, <1>5, <1>6, <2>1
    <3> QED
      BY <1>6, <3>1 DEF LastDirty
  <2>2. CASE Recs(size) # record + 1
    <3>1. Recs(size) = Recs(F.logfilesize)
      BY <1>3, <2>2 DEF Most
    <3> QED
      BY <1>5, <1>6, <3>1 DEF Coh, Body, LastDirty
  <2> QED
    BY <2>1, <2>2
<1>13. AtPlace(G)
  BY <1>6 DEF Coh, AtPlace
<1> QED
  BY <1>0, <1>4, <1>5, <1>6, <1>7, <1>8, <1>9, <1>10, <1>11, <1>12, <1>13 DEF Coh, Body, G


\* A record of the file on disk is read into a buffer that is not dirty.
LEMMA ReadRecordKeeps ==
  ASSUME NEW F, Coh(F), NEW n \in Bufs, ~ F.dirty[n], NEW record \in Int,
         \A m \in Bufs : record >= 0 => F.rec[m] # record, ~ (record * IOBUFLEN >= F.filesize)
  PROVE  LET G == [ ReadRecord(F, n, record) EXCEPT !.rec[n] = record ]
         IN  /\ Coh(G) /\ G.rec[n] = record /\ G.bytepos = F.bytepos /\ G.status = F.status
             /\ F.logfilesize \in Int /\ F.logfilesize <= G.logfilesize
<1> DEFINE G == [ ReadRecord(F, n, record) EXCEPT !.rec[n] = record ]
           pos == record * IOBUFLEN
           S == SeekTo(F, pos)
           R == ffread(S, IOBUFLEN)
           bytes == Slice(F.disk, pos, IOBUFLEN)
           buf == [ F.buf EXCEPT ![n] = bytes ]
           rec == [ F.rec EXCEPT ![n] = record ]
           next == (record + 1) * IOBUFLEN
<1>0. /\ Typed(F) /\ Fields(F) /\ F.rec \in [ Bufs -> Int ] /\ F.dirty \in [ Bufs -> BOOLEAN ]
      /\ F.buf = [ m \in Bufs |-> F.buf[m] ] /\ F.io_pos \in Int
      /\ F.filesize \in Nat /\ F.logfilesize \in Nat /\ F.filesize = Recs(F.filesize) * IOBUFLEN
      /\ F.filesize = Len(F.disk)
  BY DEF Coh, Body, Typed, Sizes
<1>1. record < Recs(F.filesize) /\ pos \in Int /\ pos + IOBUFLEN <= F.filesize /\ next = pos + IOBUFLEN
  <2>1. Recs(F.filesize) \in Int /\ pos \in Int /\ next = pos + IOBUFLEN
    <3>1. F.filesize \in Int
      BY <1>0
    <3>2. Recs(F.filesize) \in Int
      BY <3>1, RecordOf
    <3> QED
      BY <3>2, Records
  <2>2. pos < Recs(F.filesize) * IOBUFLEN
    BY <1>0, <2>1
  <2>3. record < Recs(F.filesize) /\ pos + IOBUFLEN <= Recs(F.filesize) * IOBUFLEN
    BY <2>1, <2>2, RecordsOrdered
  <2> QED
    BY <1>0, <2>1, <2>3
<1>2. IsSequence(bytes) /\ Len(bytes) = IOBUFLEN
  BY <1>1, BufferSizes, SliceIs
<1> HIDE DEF pos, next
<1>3. /\ Fields(S) /\ SameBuffers(F, S) /\ S.dirty = F.dirty /\ S.disk = F.disk
      /\ S.filesize = F.filesize /\ S.at = pos
  <2>1. F.io_pos = pos => F.at = pos
    BY <1>0, <1>1, BufferSizes DEF Coh, AtPlace
  <2>2. Fields(F)
    BY <1>0
  <2> QED
    BY <2>1, <2>2, SeekToIs
<1> HIDE DEF S
<1>4. Readable(S, IOBUFLEN)
  BY <1>0, <1>1, <1>3 DEF Readable
<1> DEFINE os == Synced(S, next)
<1>5. R = [ S EXCEPT !.at = next, !.os = os ]
  BY <1>1, <1>3, <1>4 DEF ffread
<1>6. Slice(S.disk, S.at, IOBUFLEN) = bytes
  BY <1>3
<1>7. ReadRecord(F, n, record) = [ R EXCEPT !.buf[n] = bytes, !.io_pos = next ]
  BY <1>4, <1>6 DEF ReadRecord, R, S, pos, next
<1> HIDE DEF bytes, R, G, buf, rec, os
<1>8. /\ Fields(R) /\ R.disk = F.disk /\ R.at = next /\ R.buf = F.buf /\ R.rec = F.rec
      /\ R.dirty = F.dirty /\ R.age = F.age /\ R.cur = F.cur /\ R.bytepos = F.bytepos
      /\ R.filesize = F.filesize /\ R.logfilesize = F.logfilesize /\ R.status = F.status
  BY <1>3, <1>5 DEF Fields, SameBuffers
<1>9. ReadRecord(F, n, record) = [ R EXCEPT !.buf = buf, !.io_pos = next ]
  BY <1>7, <1>8 DEF buf
<1>10. G = [ ReadRecord(F, n, record) EXCEPT !.rec = rec ]
  <2> DEFINE Q == ReadRecord(F, n, record)
  <2>1. Q.rec = F.rec
    <3> HIDE DEF Q
    <3> QED
      BY <1>8, <1>9 DEF Fields, Q
  <2> QED
    BY <2>1 DEF G, rec
<1>11. /\ Fields(G) /\ G.disk = F.disk /\ G.at = next /\ G.buf = buf /\ G.rec = rec
       /\ G.dirty = F.dirty /\ G.age = F.age /\ G.cur = F.cur /\ G.bytepos = F.bytepos
       /\ G.io_pos = next /\ G.filesize = F.filesize /\ G.logfilesize = F.logfilesize
       /\ G.status = F.status
  <2> DEFINE Q == ReadRecord(F, n, record)
  <2>1. Q = [ R EXCEPT !.buf = buf, !.io_pos = next ] /\ G = [ Q EXCEPT !.rec = rec ]
    BY <1>9, <1>10
  <2> HIDE DEF Q
  <2> QED
    BY <1>8, <2>1 DEF Fields
<1>12. /\ \A m \in Bufs : /\ buf[m] = IF m = n THEN bytes ELSE F.buf[m]
                          /\ rec[m] = IF m = n THEN record ELSE F.rec[m]
       /\ buf = [ m \in Bufs |-> buf[m] ] /\ rec \in [ Bufs -> Int ]
  BY <1>0 DEF buf, rec
<1>13. Typed(G)
  <2>1. G.buf = [ m \in Bufs |-> G.buf[m] ]
    BY <1>11, <1>12
  <2>2. /\ IsSequence(G.disk) /\ G.at \in Int /\ G.io_pos \in Int /\ G.bytepos \in Int
        /\ G.age \in [ 1 .. NIOBUF -> Bufs ] /\ \A m \in Bufs : \E i \in 1 .. NIOBUF : G.age[i] = m
    <3>1. next \in Int
      BY <1>1, BufferSizes
    <3> QED
      BY <1>0, <1>11, <3>1 DEF Typed
  <2>3. G.rec \in [ Bufs -> Int ] /\ G.dirty \in [ Bufs -> BOOLEAN ]
    BY <1>0, <1>11, <1>12
  <2> QED
    BY <1>11, <2>1, <2>2, <2>3 DEF Typed
<1>14. Alone(G) /\ Whole(G) /\ DirtyInFile(G)
  <2>1. Alone(G)
    BY <1>11, <1>12 DEF Coh, Body, Alone
  <2>2. Whole(G)
    BY <1>2, <1>11, <1>12 DEF Coh, Body, Whole
  <2>3. DirtyInFile(G)
    BY <1>11, <1>12 DEF Coh, Body, DirtyInFile
  <2> QED
    BY <2>1, <2>2, <2>3
<1>15. CleanOnDisk(G)
  BY <1>1, <1>11, <1>12 DEF Coh, Body, CleanOnDisk, Start, bytes, pos
<1>16. Sizes(G) /\ LastDirty(G)
  <2>1. Sizes(G)
    BY <1>11 DEF Coh, Body, Sizes
  <2>2. LastDirty(G)
    BY <1>11, <1>12 DEF Coh, Body, LastDirty
  <2> QED
    BY <2>1, <2>2
<1>17. AtPlace(G)
  BY <1>11 DEF AtPlace
<1>18. G.rec[n] = record /\ F.logfilesize \in Int /\ F.logfilesize <= G.logfilesize
  BY <1>0, <1>11, <1>12
<1> QED
  BY <1>11, <1>13, <1>14, <1>15, <1>16, <1>17, <1>18 DEF Coh, Body, G

LEMMA LoadedKeeps ==
  ASSUME NEW F, Coh(F), NEW record \in Int, \A m \in Bufs : F.rec[m] # record
  PROVE  LET G == Loaded(F, record)
         IN  Coh(G) /\ Loads(F, G) /\ G.rec[G.cur] = record /\ G.status = F.status
<1> DEFINE n == F.age[1]
           W == WriteDirty(F, n)
           L == IF record * IOBUFLEN >= W.filesize THEN NewRecord(W, n, record)
                                                   ELSE ReadRecord(W, n, record)
           R == [ L EXCEPT !.rec[n] = record ]
           G == Loaded(F, record)
<1>1. n \in Bufs
  BY BufferSizes DEF Coh, Body, Typed
<1>2. G = Used(R, n)
  BY DEF Loaded
<1> HIDE DEF n
<1>3. Coh(W) /\ Flushed(F, W) /\ ~ W.dirty[n]
  BY <1>1, WriteDirtyKeeps
<1> HIDE DEF W
<1>4. \A m \in Bufs : W.rec[m] # record
  BY <1>3 DEF Flushed, SameBuffers
<1>5. /\ Coh(R) /\ R.rec[n] = record /\ R.bytepos = W.bytepos /\ R.status = W.status
      /\ W.logfilesize \in Int /\ W.logfilesize <= R.logfilesize
  <2>1. CASE record * IOBUFLEN >= W.filesize
    <3>1. R = [ NewRecord(W, n, record) EXCEPT !.rec[n] = record ]
      BY <2>1
    <3> HIDE DEF R, L
    <3> QED
      BY <1>1, <1>3, <1>4, <2>1, <3>1, NewRecordKeeps
  <2>2. CASE ~ (record * IOBUFLEN >= W.filesize)
    <3>1. R = [ ReadRecord(W, n, record) EXCEPT !.rec[n] = record ]
      BY <2>2
    <3> HIDE DEF R, L
    <3> QED
      BY <1>1, <1>3, <1>4, <2>2, <3>1, ReadRecordKeeps
  <2> QED
    BY <2>1, <2>2
<1> HIDE DEF R, G
<1>6. /\ Coh(G) /\ SameFile(R, G) /\ G.cur = n /\ G.bytepos = R.bytepos /\ G.status = R.status
  BY <1>1, <1>2, <1>5, UsedKeeps
<1> QED
  BY <1>1, <1>3, <1>5, <1>6 DEF Loads, Flushed, SameBuffers, SameFile, G


\* A record that is held is in the buffer found, and one not found is not held.
LEMMA YoungestIs ==
  ASSUME NEW F, Coh(F), NEW record
  PROVE  /\ Holders(F, record) # {} =>
              Youngest(F, record) \in Bufs /\ F.rec[Youngest(F, record)] = record
         /\ Holders(F, record) = {} => \A m \in Bufs : F.rec[m] # record
<1> DEFINE H == Holders(F, record)
<1>0. /\ NIOBUF \in Nat /\ F.age \in [ 1 .. NIOBUF -> Bufs ]
      /\ \A m \in Bufs : \E i \in 1 .. NIOBUF : F.age[i] = m
  BY BufferSizes DEF Coh, Body, Typed
<1>1. ASSUME H # {}
      PROVE  Max(H) \in H
  <2> DEFINE T == { k \in Nat : NIOBUF - k \in H }
  <2>1. PICK i \in H : TRUE
    BY <1>1
  <2>2. NIOBUF - i \in T
    <3>1. NIOBUF - i \in Nat /\ NIOBUF - (NIOBUF - i) = i
      BY <1>0 DEF Holders
    <3> QED
      BY <2>1, <3>1
  <2>3. PICK k \in T : \A j \in T : ~ (<< j, k >> \in OpToRel(<, Nat))
    <3>1. T \subseteq Nat
      OBVIOUS
    <3> HIDE DEF T
    <3> QED
      BY <2>2, <3>1, NatLessThanWellFounded, WFMin
  <2>4. ASSUME NEW j \in H
        PROVE  NIOBUF - k >= j
    <3> SUFFICES ASSUME NIOBUF - k < j
                 PROVE  FALSE
      BY <1>0 DEF Holders
    <3>1. NIOBUF - j \in Nat /\ NIOBUF - (NIOBUF - j) = j /\ NIOBUF - j < k
      BY <1>0 DEF Holders
    <3>2. NIOBUF - j \in T
      BY <3>1
    <3> QED
      BY <2>3, <3>1, <3>2 DEF OpToRel
  <2> QED
    BY <2>3, <2>4 DEF Max
<1>2. ASSUME H # {}
      PROVE  Youngest(F, record) \in Bufs /\ F.rec[Youngest(F, record)] = record
  BY <1>0, <1>1, <1>2 DEF Holders, Youngest
<1>3. ASSUME H = {}, NEW m \in Bufs
      PROVE  F.rec[m] # record
  BY <1>0, <1>3 DEF Holders
<1> QED
  BY <1>2, <1>3

LEMMA ffldrcKeeps ==
  ASSUME NEW F, Coh(F), NEW record \in Int, NEW err_mode
  PROVE  LET G == ffldrc(F, record, err_mode)
         IN  /\ Coh(G) /\ G.bytepos = F.bytepos
             /\ F.logfilesize \in Int /\ F.logfilesize <= G.logfilesize
             /\ F.cur \in Bufs => G.cur \in Bufs
             /\ \/ G.cur \in Bufs /\ G.rec[G.cur] = record /\ G.status = F.status
                \/ err_mode = REPORT_EOF /\ G.status # 0 /\ record * IOBUFLEN >= F.logfilesize
<1> DEFINE G == ffldrc(F, record, err_mode)
<1>0. F.logfilesize \in Int /\ F.logfilesize <= F.logfilesize
  BY DEF Coh, Body, Sizes
<1>1. CASE Holders(F, record) # {}
  <2> DEFINE n == Youngest(F, record)
  <2>1. n \in Bufs /\ F.rec[n] = record
    BY <1>1, YoungestIs
  <2>2. G = Used(F, n)
    BY <1>1 DEF ffldrc
  <2> HIDE DEF n, G
  <2>3. /\ Coh(G) /\ SameFile(F, G) /\ G.cur = n /\ G.bytepos = F.bytepos /\ G.status = F.status
    BY <2>1, <2>2, UsedKeeps
  <2>4. G.rec = F.rec /\ G.logfilesize = F.logfilesize
    BY <2>3 DEF SameFile
  <2> QED
    BY <1>0, <2>1, <2>3, <2>4 DEF G
<1>2. CASE /\ Holders(F, record) = {}
           /\ err_mode = REPORT_EOF /\ record * IOBUFLEN >= F.logfilesize
  <2>1. G = [ F EXCEPT !.status = END_OF_FILE ]
    BY <1>2 DEF ffldrc
  <2>2. Fields(F) /\ F.bytepos \in Int /\ F.age \in [ 1 .. NIOBUF -> Bufs ]
        /\ \A n \in Bufs : \E i \in 1 .. NIOBUF : F.age[i] = n
    BY DEF Coh, Body, Typed
  <2> HIDE DEF G
  <2>3. /\ Fields(G) /\ SameFile(F, G) /\ G.age = F.age /\ G.bytepos = F.bytepos
        /\ G.cur = F.cur /\ G.status = END_OF_FILE
    BY <2>1, <2>2 DEF Fields, SameFile
  <2>4. Coh(G)
    BY <2>2, <2>3, SameFileKeeps
  <2>5. G.logfilesize = F.logfilesize /\ G.status # 0
    BY <2>3 DEF SameFile, END_OF_FILE
  <2> QED
    BY <1>0, <1>2, <2>3, <2>4, <2>5 DEF G
<1>3. CASE /\ Holders(F, record) = {}
           /\ ~ (err_mode = REPORT_EOF /\ record * IOBUFLEN >= F.logfilesize)
  <2>1. G = Loaded(F, record)
    BY <1>3 DEF ffldrc
  <2>2. \A m \in Bufs : F.rec[m] # record
    BY <1>3, YoungestIs
  <2> HIDE DEF G
  <2>3. Coh(G) /\ Loads(F, G) /\ G.rec[G.cur] = record /\ G.status = F.status
    BY <2>1, <2>2, LoadedKeeps
  <2> QED
    BY <2>3 DEF Loads, G
<1> QED
  BY <1>1, <1>2, <1>3


----------------------------------------------------------------------------
(* Moving.                                                                 *)

LEMMA StillOpen ==
  ASSUME NEW F, Open(F), NEW G, Coh(G), G.cur \in Bufs, F.logfilesize <= G.logfilesize
  PROVE  Open(G)
<1>1. /\ F.logfilesize \in Int /\ G.logfilesize \in Int
      /\ F.logfilesize = Recs(F.logfilesize) * IOBUFLEN
      /\ G.logfilesize = Recs(G.logfilesize) * IOBUFLEN
  BY DEF Open, Coh, Body, Sizes
<1>2. /\ Recs(F.logfilesize) <= Recs(G.logfilesize)
      /\ Recs(F.logfilesize) \in Int /\ Recs(G.logfilesize) \in Int
  BY <1>1, RecsOrdered
<1> QED
  BY <1>2 DEF Open

LEMMA ffldrcOpen ==
  ASSUME NEW F, Open(F), NEW record \in Int, NEW err_mode
  PROVE  LET G == ffldrc(F, record, err_mode)
         IN  /\ Open(G) /\ G.bytepos = F.bytepos
             /\ \/ G.rec[G.cur] = record /\ G.status = F.status
                \/ err_mode = REPORT_EOF /\ G.status # 0
<1> DEFINE G == ffldrc(F, record, err_mode)
<1>1. Coh(F) /\ F.cur \in Bufs
  BY DEF Open
<1>2. /\ Coh(G) /\ G.bytepos = F.bytepos /\ F.logfilesize <= G.logfilesize /\ G.cur \in Bufs
      /\ \/ G.rec[G.cur] = record /\ G.status = F.status
         \/ err_mode = REPORT_EOF /\ G.status # 0
  BY <1>1, ffldrcKeeps
<1> HIDE DEF G
<1>3. Open(G)
  BY <1>2, StillOpen
<1> QED
  BY <1>2, <1>3 DEF G

\* The position is no concern of the buffers.
LEMMA BytePosKeeps ==
  ASSUME NEW F, Open(F), NEW pos \in Int
  PROVE  LET G == [ F EXCEPT !.bytepos = pos ]
         IN  /\ Open(G) /\ G.bytepos = pos /\ G.rec = F.rec /\ G.cur = F.cur
             /\ G.status = F.status /\ G.dirty = F.dirty /\ G.buf = F.buf
<1> DEFINE G == [ F EXCEPT !.bytepos = pos ]
<1>1. /\ Fields(F) /\ F.age \in [ 1 .. NIOBUF -> Bufs ]
      /\ \A n \in Bufs : \E i \in 1 .. NIOBUF : F.age[i] = n
      /\ Coh(F) /\ F.logfilesize \in Int
  BY DEF Open, Coh, Body, Typed, Sizes
<1>2. /\ Fields(G) /\ SameFile(F, G) /\ G.bytepos = pos /\ G.age = F.age /\ G.cur = F.cur
      /\ G.status = F.status
  BY <1>1 DEF Fields, SameFile
<1> HIDE DEF G
<1>3. Coh(G)
  BY <1>1, <1>2, SameFileKeeps
<1>4. Open(G)
  BY <1>2, <1>3 DEF Open, SameFile
<1> QED
  BY <1>2, <1>4 DEF SameFile, G

LEMMA StatusKeeps ==
  ASSUME NEW F, Open(F), NEW status
  PROVE  Open([ F EXCEPT !.status = status ])
<1> DEFINE G == [ F EXCEPT !.status = status ]
<1>1. /\ Fields(F) /\ F.age \in [ 1 .. NIOBUF -> Bufs ] /\ F.bytepos \in Int /\ Coh(F)
      /\ \A n \in Bufs : \E i \in 1 .. NIOBUF : F.age[i] = n
  BY DEF Open, Coh, Body, Typed
<1>2. /\ Fields(G) /\ SameFile(F, G) /\ G.bytepos = F.bytepos /\ G.age = F.age /\ G.cur = F.cur
  BY <1>1 DEF Fields, SameFile
<1> HIDE DEF G
<1>3. Coh(G)
  BY <1>1, <1>2, SameFileKeeps DEF Open
<1>4. Open(G)
  BY <1>2, <1>3 DEF Open, SameFile
<1> QED
  BY <1>4 DEF G

\* What the system has of the stream matters to the program only when it dies.
LEMMA SyncKeeps ==
  ASSUME NEW F, Coh(F), NEW os
  PROVE  LET G == [ F EXCEPT !.os = os ]
         IN  /\ Coh(G) /\ Fields(G) /\ SameFile(F, G) /\ G.age = F.age /\ G.cur = F.cur
             /\ G.bytepos = F.bytepos /\ G.status = F.status
<1> DEFINE G == [ F EXCEPT !.os = os ]
<1>1. /\ Fields(F) /\ F.age \in [ 1 .. NIOBUF -> Bufs ] /\ F.bytepos \in Int
      /\ \A n \in Bufs : \E i \in 1 .. NIOBUF : F.age[i] = n
  BY DEF Coh, Body, Typed
<1>2. /\ Fields(G) /\ SameFile(F, G) /\ G.bytepos = F.bytepos /\ G.age = F.age /\ G.cur = F.cur
      /\ G.status = F.status
  BY <1>1 DEF Fields, SameFile
<1> HIDE DEF G
<1>3. Coh(G)
  BY <1>1, <1>2, SameFileKeeps
<1> QED
  BY <1>2, <1>3 DEF G

LEMMA OsKeeps ==
  ASSUME NEW F, Open(F), NEW os
  PROVE  Open([ F EXCEPT !.os = os ])
<1> DEFINE G == [ F EXCEPT !.os = os ]
<1>1. Coh(G) /\ SameFile(F, G) /\ G.cur = F.cur
  BY SyncKeeps DEF Open
<1> HIDE DEF G
<1>2. Open(G)
  BY <1>1 DEF Open, SameFile
<1> QED
  BY <1>2 DEF G

LEMMA ffmbytKeeps ==
  ASSUME NEW F, Open(F), NEW pos \in Int, NEW err_mode
  PROVE  LET G == ffmbyt(F, pos, err_mode)
         IN  /\ Open(G)
             /\ G.status = 0 => /\ G.bytepos = pos /\ G.rec[G.cur] = Recs(pos)
                                /\ Room(G) \in 1 .. IOBUFLEN
<1> DEFINE record == pos \div IOBUFLEN
           M == IF record # F.rec[F.cur] THEN ffldrc(F, record, err_mode) ELSE F
           G == ffmbyt(F, pos, err_mode)
<1>0. record \in Int /\ record = Recs(pos)
  BY RecordOf DEF Recs
<1>1. G = IF M.status = 0 THEN [ M EXCEPT !.bytepos = pos ] ELSE M
  BY DEF ffmbyt
<1> HIDE DEF record
<1>2. Open(M) /\ (M.status = 0 => M.rec[M.cur] = record)
  <2>1. CASE record # F.rec[F.cur]
    BY <1>0, <2>1, ffldrcOpen
  <2>2. CASE record = F.rec[F.cur]
    BY <2>2
  <2> QED
    BY <2>1, <2>2
<1> HIDE DEF M, G
<1>3. CASE M.status = 0
  <2>1. Open(G) /\ G.bytepos = pos /\ G.rec = M.rec /\ G.cur = M.cur
    BY <1>1, <1>2, <1>3, BytePosKeeps
  <2>2. G.rec[G.cur] = Recs(pos)
    BY <1>0, <1>2, <1>3, <2>1
  <2>3. Room(G) = IOBUFLEN - (pos - Recs(pos) * IOBUFLEN)
    BY <2>1, <2>2 DEF Room, Start
  <2>4. Room(G) \in 1 .. IOBUFLEN
    <3>1. Recs(pos) * IOBUFLEN \in Int /\ Recs(pos) * IOBUFLEN <= pos
          /\ pos < Recs(pos) * IOBUFLEN + IOBUFLEN
      BY RecordOf
    <3> QED
      BY <2>3, <3>1, BufferSizes
  <2> QED
    BY <2>1, <2>2, <2>4 DEF G
<1>4. CASE M.status # 0
  BY <1>1, <1>2, <1>4 DEF G
<1> QED
  BY <1>3, <1>4

----------------------------------------------------------------------------
(* Writing through the buffers.                                            *)

\* New bytes in a buffer that holds a record, and is marked dirty.
LEMMA BufferKeeps ==
  ASSUME NEW F, Coh(F), NEW n \in Bufs, F.rec[n] >= 0,
         NEW bytes, IsSequence(bytes), Len(bytes) = IOBUFLEN,
         NEW G, Fields(G),
         G.buf = [ F.buf EXCEPT ![n] = bytes ], G.dirty = [ F.dirty EXCEPT ![n] = TRUE ],
         G.disk = F.disk, G.at = F.at, G.rec = F.rec, G.age = F.age, G.bytepos = F.bytepos,
         G.io_pos = F.io_pos, G.filesize = F.filesize, G.logfilesize = F.logfilesize
  PROVE  Coh(G)
<1>0. /\ F.buf = [ m \in Bufs |-> F.buf[m] ] /\ F.dirty \in [ Bufs -> BOOLEAN ]
      /\ F.rec \in [ Bufs -> Int ] /\ Recs(F.filesize) \in Int /\ Recs(F.logfilesize) \in Int
      /\ Recs(F.filesize) <= Recs(F.logfilesize)
  <2>1. F.filesize \in Int /\ F.logfilesize \in Int
    BY DEF Coh, Body, Sizes
  <2> QED
    BY <2>1, RecordOf DEF Coh, Body, Typed, Sizes
<1>1. /\ \A m \in Bufs : /\ G.buf[m] = IF m = n THEN bytes ELSE F.buf[m]
                         /\ G.dirty[m] <=> m = n \/ F.dirty[m]
      /\ G.buf = [ m \in Bufs |-> G.buf[m] ] /\ G.dirty \in [ Bufs -> BOOLEAN ]
  <2>1. \A m \in Bufs : G.buf[m] = IF m = n THEN bytes ELSE F.buf[m]
    BY <1>0
  <2>2. \A m \in Bufs : G.dirty[m] <=> m = n \/ F.dirty[m]
    BY <1>0
  <2>3. G.buf = [ m \in Bufs |-> G.buf[m] ]
    BY <1>0
  <2>4. G.dirty \in [ Bufs -> BOOLEAN ]
    BY <1>0
  <2> QED
    BY <2>1, <2>2, <2>3, <2>4
<1>2. Typed(G)
  <2>1. /\ IsSequence(G.disk) /\ G.at \in Int /\ G.io_pos \in Int /\ G.bytepos \in Int
        /\ G.age \in [ 1 .. NIOBUF -> Bufs ] /\ \A m \in Bufs : \E i \in 1 .. NIOBUF : G.age[i] = m
    <3>1. /\ IsSequence(F.disk) /\ F.at \in Int /\ F.io_pos \in Int /\ F.bytepos \in Int
          /\ F.age \in [ 1 .. NIOBUF -> Bufs ] /\ \A m \in Bufs : \E i \in 1 .. NIOBUF : F.age[i] = m
      BY DEF Coh, Body, Typed
    <3> QED
      BY <3>1
  <2>2. G.rec \in [ Bufs -> Int ]
    BY <1>0
  <2> QED
    BY <1>1, <2>1, <2>2 DEF Typed
<1>3. Alone(G) /\ Whole(G)
  BY <1>1 DEF Coh, Body, Alone, Whole
<1>4. DirtyInFile(G)
  <2>1. ~ F.dirty[n] => F.rec[n] < Recs(F.filesize)
    BY DEF Coh, Body, CleanOnDisk
  <2>2. F.rec[n] < Recs(F.logfilesize)
    BY <1>0, <2>1 DEF Coh, Body, DirtyInFile
  <2> QED
    BY <1>0, <1>1, <2>2 DEF Coh, Body, DirtyInFile
<1>5. CleanOnDisk(G)
  BY <1>1 DEF Coh, Body, CleanOnDisk, Start
<1>6. Sizes(G) /\ AtPlace(G)
  BY DEF Coh, Body, Sizes, AtPlace
<1>7. LastDirty(G)
  BY <1>1 DEF Coh, Body, LastDirty
<1> QED
  BY <1>2, <1>3, <1>4, <1>5, <1>6, <1>7 DEF Coh, Body


\* The current buffer holds a record, and is coherent once it is marked dirty.
Writable(F) == Fields(F) /\ Open(Dirtied(F)) /\ F.rec[F.cur] >= 0

LEMMA DirtiedIs ==
  ASSUME NEW F, Fields(F)
  PROVE  LET G == Dirtied(F)
         IN  /\ Fields(G) /\ G.dirty = [ F.dirty EXCEPT ![F.cur] = TRUE ]
             /\ G.disk = F.disk /\ G.at = F.at /\ G.buf = F.buf /\ G.rec = F.rec /\ G.age = F.age
             /\ G.cur = F.cur /\ G.bytepos = F.bytepos /\ G.io_pos = F.io_pos
             /\ G.filesize = F.filesize /\ G.logfilesize = F.logfilesize /\ G.status = F.status
<1> DEFINE dirty == [ F.dirty EXCEPT ![F.cur] = TRUE ]
           G == Dirtied(F)
<1>1. G = [ F EXCEPT !.dirty = dirty ]
  BY DEF Dirtied
<1> HIDE DEF dirty, G
<1>2. /\ Fields(G) /\ G.dirty = dirty
      /\ G.disk = F.disk /\ G.at = F.at /\ G.buf = F.buf /\ G.rec = F.rec /\ G.age = F.age
      /\ G.cur = F.cur /\ G.bytepos = F.bytepos /\ G.io_pos = F.io_pos
      /\ G.filesize = F.filesize /\ G.logfilesize = F.logfilesize /\ G.status = F.status
  BY <1>1 DEF Fields
<1> QED
  BY <1>2 DEF dirty, G

LEMMA FillIs ==
  ASSUME NEW F, Fields(F), NEW room, NEW data
  PROVE  LET G == Fill1(F, room, data)
         IN  /\ Fields(G)
             /\ G.buf = [ F.buf EXCEPT ![F.cur] = Over(F.buf[F.cur], IOBUFLEN - room, data) ]
             /\ G.disk = F.disk /\ G.at = F.at /\ G.dirty = F.dirty /\ G.rec = F.rec
             /\ G.age = F.age /\ G.cur = F.cur /\ G.bytepos = F.bytepos /\ G.io_pos = F.io_pos
             /\ G.filesize = F.filesize /\ G.logfilesize = F.logfilesize /\ G.status = F.status
<1> DEFINE bytes == Over(F.buf[F.cur], IOBUFLEN - room, data)
           buf == [ F.buf EXCEPT ![F.cur] = bytes ]
           G == Fill1(F, room, data)
<1>1. G = [ F EXCEPT !.buf = buf ]
  BY DEF Fill1
<1> HIDE DEF buf, G
<1>2. /\ Fields(G) /\ G.buf = buf
      /\ G.disk = F.disk /\ G.at = F.at /\ G.dirty = F.dirty /\ G.rec = F.rec
      /\ G.age = F.age /\ G.cur = F.cur /\ G.bytepos = F.bytepos /\ G.io_pos = F.io_pos
      /\ G.filesize = F.filesize /\ G.logfilesize = F.logfilesize /\ G.status = F.status
  BY <1>1 DEF Fields
<1> QED
  BY <1>2 DEF buf, G

\* A buffer that holds a record may be marked dirty.
LEMMA OpenWritable ==
  ASSUME NEW F, Open(F), F.rec[F.cur] >= 0
  PROVE  Writable(F)
<1> DEFINE n == F.cur
           bytes == F.buf[n]
           G == Dirtied(F)
<1>1. /\ Coh(F) /\ n \in Bufs /\ Fields(F) /\ F.buf = [ m \in Bufs |-> F.buf[m] ]
      /\ IsSequence(bytes) /\ Len(bytes) = IOBUFLEN
  BY DEF Open, Coh, Body, Typed, Whole
<1>2. F.buf = [ F.buf EXCEPT ![n] = bytes ]
  BY <1>1
<1>3. /\ Fields(G) /\ G.dirty = [ F.dirty EXCEPT ![n] = TRUE ]
      /\ G.disk = F.disk /\ G.at = F.at /\ G.buf = F.buf /\ G.rec = F.rec /\ G.age = F.age
      /\ G.cur = F.cur /\ G.bytepos = F.bytepos /\ G.io_pos = F.io_pos
      /\ G.filesize = F.filesize /\ G.logfilesize = F.logfilesize /\ G.status = F.status
  BY <1>1, DirtiedIs
<1> HIDE DEF bytes, G
<1>4. G.buf = [ F.buf EXCEPT ![n] = bytes ]
  BY <1>2, <1>3
<1>5. Coh(G)
  BY <1>1, <1>3, <1>4, BufferKeeps
<1> QED
  BY <1>1, <1>3, <1>5 DEF Writable, Open, G

\* Bytes are put in the room that is left.
LEMMA FillKeeps ==
  ASSUME NEW F, Writable(F), NEW room \in 0 .. IOBUFLEN,
         NEW data, IsSequence(data), Len(data) <= room
  PROVE  LET G == Fill1(F, room, data)
         IN  /\ Writable(G) /\ G.rec = F.rec /\ G.cur = F.cur /\ G.bytepos = F.bytepos
             /\ G.status = F.status /\ G.dirty = F.dirty /\ G.logfilesize = F.logfilesize
<1> DEFINE n == F.cur
           bytes == Over(F.buf[n], IOBUFLEN - room, data)
           G == Fill1(F, room, data)
           D == Dirtied(F)
           E == Dirtied(G)
<1>1. Fields(F) /\ Open(D) /\ F.rec[n] >= 0
  BY DEF Writable
<1>2. /\ Fields(D) /\ D.dirty = [ F.dirty EXCEPT ![n] = TRUE ]
      /\ D.disk = F.disk /\ D.at = F.at /\ D.buf = F.buf /\ D.rec = F.rec /\ D.age = F.age
      /\ D.cur = F.cur /\ D.bytepos = F.bytepos /\ D.io_pos = F.io_pos
      /\ D.filesize = F.filesize /\ D.logfilesize = F.logfilesize /\ D.status = F.status
  BY <1>1, DirtiedIs
<1>3. /\ Fields(G) /\ G.buf = [ F.buf EXCEPT ![n] = bytes ]
      /\ G.disk = F.disk /\ G.at = F.at /\ G.dirty = F.dirty /\ G.rec = F.rec
      /\ G.age = F.age /\ G.cur = F.cur /\ G.bytepos = F.bytepos /\ G.io_pos = F.io_pos
      /\ G.filesize = F.filesize /\ G.logfilesize = F.logfilesize /\ G.status = F.status
  BY <1>1, FillIs
<1> HIDE DEF bytes, D, G
<1>4. /\ Fields(E) /\ E.dirty = [ G.dirty EXCEPT ![G.cur] = TRUE ]
      /\ E.disk = G.disk /\ E.at = G.at /\ E.buf = G.buf /\ E.rec = G.rec /\ E.age = G.age
      /\ E.cur = G.cur /\ E.bytepos = G.bytepos /\ E.io_pos = G.io_pos
      /\ E.filesize = G.filesize /\ E.logfilesize = G.logfilesize /\ E.status = G.status
  BY <1>3, DirtiedIs
<1> HIDE DEF E
<1>5. /\ Coh(D) /\ n \in Bufs /\ D.rec[n] >= 0 /\ IsSequence(D.buf[n]) /\ Len(D.buf[n]) = IOBUFLEN
      /\ D.dirty \in [ Bufs -> BOOLEAN ]
  BY <1>1, <1>2 DEF Open, Coh, Body, Typed, Whole
<1>6. IsSequence(bytes) /\ Len(bytes) = IOBUFLEN
  <2>1. Len(data) \in Nat /\ IOBUFLEN - room \in Nat
    BY BufferSizes DEF IsSequence
  <2>2. IsSequence(bytes) /\ Len(bytes) = Most(IOBUFLEN, (IOBUFLEN - room) + Len(data))
    <3> DEFINE block == F.buf[n]
               off == IOBUFLEN - room
    <3>1. IsSequence(block) /\ Len(block) = IOBUFLEN
      BY <1>2, <1>5
    <3>2. bytes = Over(block, off, data) /\ off \in Nat
      BY <2>1 DEF bytes
    <3> HIDE DEF block, off, bytes
    <3>3. IsSequence(Over(block, off, data)) /\ Len(Over(block, off, data)) = Most(Len(block), off + Len(data))
      BY <3>1, <3>2, OverIs
    <3> QED
      BY <3>1, <3>2, <3>3 DEF off
  <2>3. Most(IOBUFLEN, (IOBUFLEN - room) + Len(data)) = IOBUFLEN
    BY <2>1, BufferSizes DEF Most
  <2> QED
    BY <2>2, <2>3
<1>7. E.dirty = [ D.dirty EXCEPT ![n] = TRUE ]
  <2>1. E.dirty = D.dirty /\ D.dirty[n] = TRUE
    BY <1>2, <1>3, <1>4, <1>5
  <2> QED
    BY <1>5, <2>1
<1>8. Coh(E)
  <2>1. E.buf = [ D.buf EXCEPT ![n] = bytes ]
    BY <1>2, <1>3, <1>4
  <2>2. /\ E.disk = D.disk /\ E.at = D.at /\ E.rec = D.rec /\ E.age = D.age
        /\ E.bytepos = D.bytepos /\ E.io_pos = D.io_pos /\ E.filesize = D.filesize
        /\ E.logfilesize = D.logfilesize
    BY <1>2, <1>3, <1>4
  <2> QED
    BY <1>4, <1>5, <1>6, <1>7, <2>1, <2>2, BufferKeeps
<1>9. Open(E)
  BY <1>1, <1>2, <1>3, <1>4, <1>8 DEF Open
<1> QED
  BY <1>1, <1>3, <1>9 DEF Writable, G, E

\* A small write, between its turns.
Putting(G) ==
  /\ Open(G.F) /\ G.F.rec[G.F.cur] >= 0 /\ G.F.bytepos \in Nat
  /\ G.room \in 0 .. IOBUFLEN /\ IsSequence(G.todo)

LEMMA PutChunkKeeps ==
  ASSUME NEW G, Putting(G), NEW i
  PROVE  Putting(PutChunk(G, i))
<1> DEFINE F == G.F
           k == Least(Len(G.todo), G.room)
           rest == Slice(G.todo, k, Len(G.todo) - k)
           put == Slice(G.todo, 0, k)
           A == Fill1(F, G.room, put)
           D == Dirtied(A)
           W == [ D EXCEPT !.bytepos = @ + k ]
           next == IF rest = <<>> THEN W ELSE ffldrc(W, W.bytepos \div IOBUFLEN, IGNORE_EOF)
<1>1. CASE G.todo = <<>>
  BY <1>1 DEF PutChunk
<1>2. CASE G.todo # <<>>
  <2>1. PutChunk(G, i) = [ F |-> next, todo |-> rest, room |-> IOBUFLEN ]
    BY <1>2 DEF PutChunk
  <2>2. k \in Nat /\ k <= G.room /\ Len(G.todo) - k \in Nat /\ G.room \in 0 .. IOBUFLEN
    BY BufferSizes DEF Putting, IsSequence, Least
  <2>3. IsSequence(rest) /\ IsSequence(put) /\ Len(put) = k
    BY <2>2, SliceIs
  <2> HIDE DEF k, rest, put
  <2>4. Open(F) /\ F.rec[F.cur] >= 0 /\ F.bytepos \in Nat
    BY DEF Putting
  <2>5. Writable(A) /\ A.rec = F.rec /\ A.cur = F.cur /\ A.bytepos = F.bytepos
    BY <2>2, <2>3, <2>4, OpenWritable, FillKeeps
  <2> HIDE DEF A
  <2>6. Open(D) /\ D.rec[D.cur] >= 0 /\ D.bytepos = F.bytepos
    BY <2>4, <2>5, DirtiedIs DEF Writable
  <2> HIDE DEF D
  <2>7. W = [ D EXCEPT !.bytepos = F.bytepos + k ]
    BY <2>6
  <2>8. F.bytepos + k \in Nat /\ F.bytepos + k \in Int
    BY <2>2, <2>4
  <2>9. Open(W) /\ W.bytepos = F.bytepos + k /\ W.rec[W.cur] >= 0
    BY <2>6, <2>7, <2>8, BytePosKeeps
  <2> HIDE DEF W
  <2>10. Open(next) /\ next.rec[next.cur] >= 0 /\ next.bytepos \in Nat
    <3>1. CASE rest = <<>>
      BY <2>8, <2>9, <3>1
    <3>2. CASE rest # <<>>
      <4> DEFINE r == W.bytepos \div IOBUFLEN
      <4>1. r \in Int /\ r >= 0
        BY <2>8, <2>9, RecordOf DEF Recs
      <4> HIDE DEF r
      <4> DEFINE L == ffldrc(W, r, IGNORE_EOF)
      <4>2. /\ Open(L) /\ L.bytepos = W.bytepos
            /\ \/ L.rec[L.cur] = r /\ L.status = W.status
               \/ IGNORE_EOF = REPORT_EOF /\ L.status # 0
        BY <2>9, <4>1, ffldrcOpen
      <4>3. next = L
        BY <3>2 DEF r
      <4> HIDE DEF L
      <4>4. L.rec[L.cur] = r
        BY <4>2 DEF IGNORE_EOF, REPORT_EOF
      <4> QED
        BY <2>8, <2>9, <4>1, <4>2, <4>3, <4>4
    <3> QED
      BY <3>1, <3>2
  <2> HIDE DEF next
  <2>11. IOBUFLEN \in 0 .. IOBUFLEN
    BY BufferSizes
  <2> QED
    BY <2>1, <2>3, <2>10, <2>11 DEF Putting
<1> QED
  BY <1>1, <1>2

LEMMA TurnsIs ==
  ASSUME NEW n \in Nat
  PROVE  Turns(n) \in Nat
<1>1. n \div IOBUFLEN \in Int /\ n \div IOBUFLEN >= 0
  BY RecordOf DEF Recs
<1> QED
  BY <1>1 DEF Turns

LEMMA PutSmallKeeps ==
  ASSUME NEW F, Open(F), F.rec[F.cur] >= 0, F.bytepos \in Nat, Room(F) \in 0 .. IOBUFLEN,
         NEW data, IsSequence(data)
  PROVE  Open(PutSmall(F, data))
<1> DEFINE n == Turns(Len(data))
<1>0. n \in Nat
  BY TurnsIs DEF IsSequence
<1>1. PICK h : /\ h[0] = [ F |-> F, todo |-> data, room |-> Room(F) ]
               /\ \A i \in 1 .. n : h[i] = PutChunk(h[i-1], i)
               /\ PutSmall(F, data) = h[n].F
  BY <1>0, PutChunkTurns
<1>2. Putting(h[0])
  BY <1>1 DEF Putting
<1>3. Putting(h[n])
  <2> DEFINE T == { i \in Nat : i <= n => Putting(h[i]) }
  <2> HIDE DEF n
  <2>1. 0 \in T
    BY <1>2
  <2>2. ASSUME NEW i \in Nat, i \in T
        PROVE  i + 1 \in T
    <3> SUFFICES ASSUME i + 1 <= n
                 PROVE  Putting(h[i+1])
      OBVIOUS
    <3>1. i + 1 \in 1 .. n /\ (i + 1) - 1 = i /\ i <= n
      BY <1>0
    <3> QED
      BY <1>1, <2>2, <3>1, PutChunkKeeps
  <2> HIDE DEF T
  <2>3. n \in T
    BY <1>0, <2>1, <2>2, NatSetInduction
  <2> QED
    BY <1>0, <2>3 DEF T
<1> QED
  BY <1>1, <1>3 DEF Putting

----------------------------------------------------------------------------
(* Writing around the buffers.                                             *)

\* Whole records before a position count apart.
LEMMA RecsShift ==
  ASSUME NEW a \in Int, NEW x \in Int
  PROVE  Recs(a * IOBUFLEN + x) = a + Recs(x)
<1> DEFINE q == Recs(x)
           p == Recs(a * IOBUFLEN + x)
           y == a * IOBUFLEN
           u == q * IOBUFLEN
           v == p * IOBUFLEN
           w == (a + q) * IOBUFLEN
<1>1. y \in Int /\ IOBUFLEN \in Int
  BY BufferSizes
<1>2. q \in Int /\ u \in Int /\ u <= x /\ x < u + IOBUFLEN
  BY RecordOf
<1>3. y + x \in Int
  BY <1>1
<1>4. p \in Int /\ v \in Int /\ v <= y + x /\ y + x < v + IOBUFLEN
  BY <1>3, RecordOf
<1> HIDE DEF q, p
<1>5. w = y + u
  BY <1>1, <1>2
<1>6. a + q \in Int /\ (a + q < p => w + IOBUFLEN <= v) /\ (p < a + q => v + IOBUFLEN <= w)
  BY <1>2, <1>4, RecordsOrdered
<1> HIDE DEF y, u, v, w
<1>7. p = a + q
  BY <1>1, <1>2, <1>4, <1>5, <1>6
<1> QED
  BY <1>7 DEF p, q

\* A large write of len bytes at pos, in record r with so much space, covers q
\* records between it and recend.
Covers(pos, len, r, space, q, recend) ==
  /\ r \in Nat /\ space \in 0 .. IOBUFLEN /\ len \in Nat /\ len >= MINDIRECT /\ pos \in Int
  /\ space = IOBUFLEN - (pos - r * IOBUFLEN)
  /\ q = Recs(len - space - 1) /\ recend = Recs(pos + len - 1)

LEMMA DirectNumbers ==
  ASSUME NEW pos, NEW len, NEW r, NEW space, NEW q, NEW recend,
         Covers(pos, len, r, space, q, recend)
  PROVE  /\ q \in Nat /\ q >= 1 /\ recend = r + 1 + q
         /\ pos + space = (r + 1) * IOBUFLEN
         /\ (r + 1) * IOBUFLEN + q * IOBUFLEN = recend * IOBUFLEN
         /\ q * IOBUFLEN \in Nat
         /\ len - space - q * IOBUFLEN \in Nat /\ len - space - q * IOBUFLEN <= IOBUFLEN
<1> DEFINE x == (r + 1) * IOBUFLEN
           y == q * IOBUFLEN
<1> USE DEF Covers
<1>1. x \in Int /\ x = r * IOBUFLEN + IOBUFLEN /\ r * IOBUFLEN \in Int
  BY Records
<1>2. pos + space = x
  BY <1>1, BufferSizes
<1>3. /\ len - space - 1 \in Int /\ len - space - 1 >= IOBUFLEN /\ len - space - 1 >= 0
      /\ IOBUFLEN \in Nat
  BY BufferSizes
<1>4. q \in Int /\ y \in Int /\ y <= len - space - 1 /\ len - space - 1 < y + IOBUFLEN /\ q >= 0
  BY <1>3, RecordOf
<1>5. pos + len - 1 = x + (len - space - 1)
  BY <1>1, <1>2, <1>3
<1>6. recend = r + 1 + q
  <2>1. r + 1 \in Int
    OBVIOUS
  <2> QED
    BY <1>3, <1>5, <2>1, RecsShift
<1>7. q >= 1
  <2>1. q = 0 => y = 0
    BY <1>3
  <2> HIDE DEF y
  <2> QED
    BY <1>3, <1>4, <2>1
<1>8. x + y = recend * IOBUFLEN
  BY <1>4, <1>6, BufferSizes
<1>9. y \in Nat
  BY <1>3, <1>4
<1> HIDE DEF x, y
<1>10. len - space - y \in Nat /\ len - space - y <= IOBUFLEN
  BY <1>3, <1>4
<1> QED
  BY <1>2, <1>4, <1>6, <1>7, <1>8, <1>9, <1>10 DEF x, y

\* A write of whole records leaves the others as they were.
LEMMA OtherRecords ==
  ASSUME NEW disk, IsSequence(disk), NEW bytes, IsSequence(bytes),
         NEW first \in Nat, NEW last \in Nat, NEW r \in Nat,
         first * IOBUFLEN + Len(bytes) = last * IOBUFLEN,
         r < first \/ last <= r, r * IOBUFLEN + IOBUFLEN <= Len(disk)
  PROVE  Slice(Over(disk, first * IOBUFLEN, bytes), r * IOBUFLEN, IOBUFLEN)
           = Slice(disk, r * IOBUFLEN, IOBUFLEN)
<1> DEFINE x == first * IOBUFLEN
           y == r * IOBUFLEN
           z == last * IOBUFLEN
           after == Over(disk, x, bytes)
<1>1. /\ x \in Nat /\ y \in Nat /\ z \in Nat /\ IOBUFLEN \in Nat
      /\ Len(disk) \in Nat /\ Len(bytes) \in Nat
  BY RecordStart, BufferSizes DEF IsSequence
<1>2. y + IOBUFLEN <= x \/ z <= y
  BY RecordsOrdered
<1>3. x + Len(bytes) = z /\ y + IOBUFLEN <= Len(disk)
  OBVIOUS
<1> HIDE DEF x, y, z
<1>4. /\ Len(after) = Most(Len(disk), x + Len(bytes))
      /\ \A i \in 1 .. Len(after) :
           after[i] = IF i - x \in 1 .. Len(bytes) THEN bytes[i - x]
                      ELSE IF i <= Len(disk) THEN disk[i] ELSE Fill
  BY <1>1, OverIs
<1> HIDE DEF after
<1>5. ASSUME NEW i \in 1 .. IOBUFLEN
      PROVE  after[y + i] = disk[y + i]
  <2> DEFINE j == y + i
  <2>1. j \in 1 .. Len(after) /\ j <= Len(disk) /\ j - x \notin 1 .. Len(bytes)
    BY <1>1, <1>2, <1>3, <1>4 DEF Most
  <2> HIDE DEF j
  <2>2. after[j] = disk[j]
    BY <1>4, <2>1
  <2> QED
    BY <2>2 DEF j
<1>6. Slice(after, y, IOBUFLEN) = Slice(disk, y, IOBUFLEN)
  BY <1>5 DEF Slice
<1> QED
  BY <1>6 DEF after, x, y

\* Records are written to disk from the first to the last, which goes to buffer
\* n: no buffer held any of them.
WroteRecords(V, G, n, first, last, mid, bytes) ==
  /\ n \in Bufs /\ V.rec[n] < 0 /\ first \in Nat /\ last \in Nat /\ first <= last
  /\ \A m \in Bufs : V.rec[m] < first \/ last < V.rec[m]
  /\ IsSequence(mid) /\ first * IOBUFLEN + Len(mid) = last * IOBUFLEN
  /\ first <= Recs(V.filesize) /\ IsSequence(bytes) /\ Len(bytes) = IOBUFLEN
  /\ Fields(G) /\ G.disk = Over(V.disk, first * IOBUFLEN, mid)
  /\ G.at \in Int /\ G.at = G.io_pos /\ G.bytepos \in Int /\ G.age = V.age
  /\ G.buf = [ V.buf EXCEPT ![n] = bytes ] /\ G.dirty = [ V.dirty EXCEPT ![n] = TRUE ]
  /\ G.rec = [ V.rec EXCEPT ![n] = last ]
  /\ G.filesize = Most(V.filesize, last * IOBUFLEN)
  /\ G.logfilesize = Most(V.logfilesize, (last + 1) * IOBUFLEN)

LEMMA DirectDone ==
  ASSUME NEW V, Coh(V), NEW G, NEW n, NEW first, NEW last, NEW mid, NEW bytes,
         WroteRecords(V, G, n, first, last, mid, bytes)
  PROVE  Coh(G) /\ V.logfilesize <= G.logfilesize
<1> USE DEF WroteRecords
<1>0. /\ Typed(V) /\ V.buf = [ m \in Bufs |-> V.buf[m] ] /\ V.dirty \in [ Bufs -> BOOLEAN ]
      /\ V.rec \in [ Bufs -> Int ] /\ IsSequence(V.disk)
      /\ V.filesize \in Nat /\ V.logfilesize \in Nat /\ V.filesize = Len(V.disk)
      /\ V.filesize = Recs(V.filesize) * IOBUFLEN
      /\ V.logfilesize = Recs(V.logfilesize) * IOBUFLEN
      /\ Recs(V.filesize) <= Recs(V.logfilesize)
  BY DEF Coh, Body, Typed, Sizes
<1> DEFINE file == Recs(V.filesize)
           log == Recs(V.logfilesize)
<1>1. file \in Nat /\ log \in Nat
  <2>1. V.filesize \in Int /\ V.filesize >= 0 /\ V.logfilesize \in Int /\ V.logfilesize >= 0
    BY <1>0
  <2>2. file \in Int /\ file >= 0
    BY <2>1, RecordOf
  <2>3. log \in Int /\ log >= 0
    BY <2>1, RecordOf
  <2> QED
    BY <2>2, <2>3
<1>2. \A m \in Bufs : /\ G.buf[m] = IF m = n THEN bytes ELSE V.buf[m]
                      /\ G.rec[m] = IF m = n THEN last ELSE V.rec[m]
                      /\ G.dirty[m] <=> m = n \/ V.dirty[m]
  BY <1>0
<1>3. Typed(G)
  <2>1. G.buf = [ m \in Bufs |-> G.buf[m] ]
    BY <1>0
  <2>2. G.rec \in [ Bufs -> Int ] /\ G.dirty \in [ Bufs -> BOOLEAN ]
    BY <1>0
  <2>3. G.age \in [ 1 .. NIOBUF -> Bufs ] /\ \A m \in Bufs : \E i \in 1 .. NIOBUF : G.age[i] = m
    <3>1. G.age = V.age
      OBVIOUS
    <3> HIDE DEF WroteRecords
    <3> QED
      BY <1>0, <3>1 DEF Typed
  <2>4. IsSequence(G.disk)
    <3>1. first * IOBUFLEN \in Nat
      BY RecordStart
    <3> QED
      BY <1>0, <3>1, OverIs
  <2> QED
    BY <2>1, <2>2, <2>3, <2>4 DEF Typed
<1>4. Alone(G) /\ Whole(G)
  <2>1. ASSUME NEW m \in Bufs
        PROVE  V.rec[m] # last
    <3>1. V.rec[m] \in Int /\ (V.rec[m] < first \/ last < V.rec[m])
      BY <1>0
    <3> QED
      BY <3>1
  <2>2. Alone(G)
    BY <1>2, <2>1 DEF Coh, Body, Alone
  <2>3. Whole(G)
    BY <1>2 DEF Coh, Body, Whole
  <2> QED
    BY <2>2, <2>3
<1>5. /\ G.logfilesize \in Nat /\ G.logfilesize = Recs(G.logfilesize) * IOBUFLEN
      /\ Recs(G.logfilesize) = Most(log, last + 1)
  <2>1. (last + 1) * IOBUFLEN = last * IOBUFLEN + IOBUFLEN
    BY Records
  <2> QED
    BY <1>0, <2>1, SizeAfter
<1>6. /\ G.filesize \in Nat /\ G.filesize = Recs(G.filesize) * IOBUFLEN
      /\ Recs(G.filesize) = Most(file, last) /\ G.filesize = Len(G.disk)
  <2> DEFINE x == file * IOBUFLEN
             y == last * IOBUFLEN
  <2>1. /\ x \in Nat /\ y \in Nat /\ Recs(x) = file /\ Recs(y) = last /\ V.filesize = x
        /\ (file <= last <=> x <= y)
    <3>1. file \in Int /\ last \in Int
      BY <1>1
    <3>2. x \in Nat /\ y \in Nat
      BY <1>1, RecordStart
    <3>3. Recs(x) = file /\ Recs(y) = last
      BY <3>1, Records
    <3> HIDE DEF file
    <3>4. file <= last <=> x <= y
      BY <3>1, RecordsOrdered
    <3> QED
      BY <1>0, <3>2, <3>3, <3>4 DEF file
  <2>2. Len(G.disk) = Most(x, y)
    <3> DEFINE z == first * IOBUFLEN
    <3>1. z \in Nat /\ z + Len(mid) = y /\ G.disk = Over(V.disk, z, mid)
      BY RecordStart
    <3> HIDE DEF z, y
    <3>2. IsSequence(V.disk) /\ IsSequence(mid)
      BY <1>0
    <3> HIDE DEF WroteRecords
    <3>3. Len(Over(V.disk, z, mid)) = Most(Len(V.disk), z + Len(mid))
      BY <3>1, <3>2, OverIs
    <3> QED
      BY <1>0, <2>1, <3>1, <3>3
  <2>3. G.filesize = Most(x, y)
    BY <2>1
  <2>4. x = Recs(x) * IOBUFLEN /\ y = Recs(y) * IOBUFLEN
    BY <2>1
  <2> HIDE DEF x, y, file
  <2>5. \/ Most(x, y) = x /\ Most(file, last) = file
        \/ Most(x, y) = y /\ Most(file, last) = last
    <3>1. x \in Nat /\ y \in Nat /\ file \in Nat /\ last \in Nat /\ (file <= last <=> x <= y)
      BY <1>1, <2>1
    <3>2. CASE file > last
      BY <3>1, <3>2 DEF Most
    <3>3. CASE file <= last
      BY <3>1, <3>3 DEF Most
    <3> QED
      BY <3>1, <3>2, <3>3
  <2> QED
    BY <2>1, <2>2, <2>3, <2>4, <2>5
<1> HIDE DEF file, log
<1>7. /\ file <= Recs(G.filesize) /\ last <= Recs(G.filesize) /\ log <= Recs(G.logfilesize)
      /\ last + 1 <= Recs(G.logfilesize) /\ Recs(G.filesize) <= Recs(G.logfilesize)
      /\ Recs(G.filesize) \in Int /\ Recs(G.logfilesize) \in Int
  <2>1. file <= log /\ file \in Nat /\ log \in Nat /\ last \in Nat
    BY <1>0, <1>1 DEF file, log
  <2>2. Recs(G.filesize) = Most(file, last) /\ Recs(G.logfilesize) = Most(log, last + 1)
    BY <1>5, <1>6
  <2> QED
    BY <2>1, <2>2 DEF Most
<1>8. DirtyInFile(G)
  <2> SUFFICES ASSUME NEW m \in Bufs, G.dirty[m]
               PROVE  G.rec[m] \in Int /\ 0 <= G.rec[m] /\ G.rec[m] < Recs(G.logfilesize)
    BY DEF DirtyInFile
  <2>1. CASE m = n
    BY <1>2, <1>7, <2>1
  <2>2. CASE m # n
    <3>1. V.dirty[m] /\ G.rec[m] = V.rec[m]
      BY <1>2, <2>2
    <3>2. V.rec[m] \in Int /\ 0 <= V.rec[m] /\ V.rec[m] < log
      BY <3>1 DEF Coh, Body, DirtyInFile, log
    <3> QED
      BY <1>1, <1>7, <3>1, <3>2
  <2> QED
    BY <2>1, <2>2
<1>9. CleanOnDisk(G)
  <2> SUFFICES ASSUME NEW m \in Bufs, G.rec[m] >= 0, ~ G.dirty[m]
               PROVE  /\ G.rec[m] < Recs(G.filesize)
                      /\ G.buf[m] = Slice(G.disk, Start(G, m), IOBUFLEN)
    BY DEF CleanOnDisk
  <2> DEFINE r == V.rec[m]
  <2>1. m # n /\ ~ V.dirty[m] /\ G.rec[m] = r /\ G.buf[m] = V.buf[m] /\ r \in Nat
    <3> HIDE DEF WroteRecords
    <3>1. m # n /\ ~ V.dirty[m]
      BY <1>2
    <3>2. G.rec[m] = V.rec[m] /\ G.buf[m] = V.buf[m]
      BY <1>2, <3>1
    <3>3. V.rec[m] \in Int
      BY <1>0
    <3> QED
      BY <3>1, <3>2, <3>3
  <2>2. r < file /\ V.buf[m] = Slice(V.disk, r * IOBUFLEN, IOBUFLEN)
    BY <2>1 DEF Coh, Body, CleanOnDisk, Start, file
  <2>3. r < first \/ last <= r
    <3>1. r < first \/ last < r
      OBVIOUS
    <3> HIDE DEF r
    <3> QED
      BY <2>1, <3>1
  <2>4. r * IOBUFLEN + IOBUFLEN <= Len(V.disk)
    <3>1. r \in Int /\ file \in Int /\ r < file
      BY <1>1, <2>1, <2>2
    <3>2. r * IOBUFLEN + IOBUFLEN <= file * IOBUFLEN
      BY <3>1, RecordsOrdered
    <3> QED
      BY <1>0, <3>2 DEF file
  <2> HIDE DEF r
  <2>5. Slice(G.disk, r * IOBUFLEN, IOBUFLEN) = Slice(V.disk, r * IOBUFLEN, IOBUFLEN)
    <3>1. /\ IsSequence(V.disk) /\ IsSequence(mid) /\ first \in Nat /\ last \in Nat
          /\ first * IOBUFLEN + Len(mid) = last * IOBUFLEN
          /\ G.disk = Over(V.disk, first * IOBUFLEN, mid)
      BY <1>0
    <3> HIDE DEF WroteRecords
    <3> QED
      BY <2>1, <2>3, <2>4, <3>1, OtherRecords
  <2>6. r < Recs(G.filesize)
    BY <1>1, <1>7, <2>1, <2>2
  <2> QED
    BY <2>1, <2>2, <2>5, <2>6 DEF Start
<1>10. Sizes(G)
  BY <1>5, <1>6, <1>7 DEF Sizes
<1>11. LastDirty(G)
  <2> SUFFICES ASSUME Recs(G.filesize) < Recs(G.logfilesize)
               PROVE  \E m \in Bufs : G.dirty[m] /\ G.rec[m] = Recs(G.logfilesize) - 1
    BY DEF LastDirty
  <2>1. CASE Recs(G.logfilesize) = last + 1
    <3>1. G.dirty[n] /\ G.rec[n] = Recs(G.logfilesize) - 1
      BY <1>2, <2>1
    <3> QED
      BY <3>1
  <2>2. CASE Recs(G.logfilesize) # last + 1
    <3>1. Recs(G.logfilesize) = log /\ file < log
      BY <1>1, <1>5, <1>7, <2>2 DEF Most
    <3>2. PICK m \in Bufs : V.dirty[m] /\ V.rec[m] = log - 1
      BY <3>1 DEF Coh, Body, LastDirty, file, log
    <3>3. m # n
      BY <1>1, <3>2, <3>1
    <3>4. G.dirty[m] /\ G.rec[m] = log - 1
      BY <1>2, <3>2, <3>3
    <3> QED
      BY <3>1, <3>4
  <2> QED
    BY <2>1, <2>2
<1>12. AtPlace(G)
  BY DEF AtPlace
<1>13. V.logfilesize <= G.logfilesize
  <2>1. (last + 1) * IOBUFLEN \in Nat
    BY RecordStart
  <2> DEFINE y == (last + 1) * IOBUFLEN
  <2>2. G.logfilesize = Most(V.logfilesize, y) /\ y \in Nat
    BY <2>1
  <2> HIDE DEF y
  <2> QED
    BY <1>0, <2>2 DEF Most
<1> QED
  BY <1>3, <1>4, <1>8, <1>9, <1>10, <1>11, <1>12, <1>13 DEF Coh, Body

\* What a read leaves but the position and the status.
LEMMA ffreadIs ==
  ASSUME NEW F, Fields(F), NEW n
  PROVE  LET R == ffread(F, n)
         IN  /\ Fields(R) /\ R.disk = F.disk /\ R.buf = F.buf /\ R.rec = F.rec /\ R.dirty = F.dirty
             /\ R.age = F.age /\ R.cur = F.cur /\ R.bytepos = F.bytepos /\ R.io_pos = F.io_pos
             /\ R.filesize = F.filesize /\ R.logfilesize = F.logfilesize
             /\ Readable(F, n) => R.at = F.at + n /\ R.status = F.status
             /\ ~ Readable(F, n) => R.at = Len(F.disk)
<1> DEFINE a == F.at + n
           b == Len(F.disk)
           s == Synced(F, a)
           t == Synced(F, b)
<1>1. ffread(F, n) = IF Readable(F, n) THEN [ F EXCEPT !.at = a, !.os = s ]
                     ELSE [ F EXCEPT !.at = b, !.os = t, !.status = END_OF_FILE ]
  BY DEF ffread
<1> HIDE DEF a, b, s, t
<1> DEFINE R == ffread(F, n)
<1> HIDE DEF R
<1>2. /\ Fields(R) /\ R.disk = F.disk /\ R.buf = F.buf /\ R.rec = F.rec /\ R.dirty = F.dirty
      /\ R.age = F.age /\ R.cur = F.cur /\ R.bytepos = F.bytepos /\ R.io_pos = F.io_pos
      /\ R.filesize = F.filesize /\ R.logfilesize = F.logfilesize
      /\ Readable(F, n) => R.at = a /\ R.status = F.status
      /\ ~ Readable(F, n) => R.at = b
  BY <1>1 DEF Fields, R
<1> QED
  BY <1>2 DEF R, a, b

\* The seek before a transfer finds the position, if it is within the file.
LEMMA SeekFinds ==
  ASSUME NEW F, Coh(F), NEW pos \in Int, pos <= F.filesize
  PROVE  SeekTo(F, pos).at = pos
<1>1. Fields(F)
  BY DEF Coh, Body, Typed
<1>2. SeekTo(F, pos).at = IF F.io_pos # pos THEN pos ELSE F.at
  BY <1>1, SeekToIs
<1> QED
  BY <1>2 DEF Coh, AtPlace

LEMMA PutDirectKeeps ==
  ASSUME NEW F, Open(F), F.rec[F.cur] >= 0, Room(F) \in 0 .. IOBUFLEN,
         NEW data, IsSequence(data), Len(data) >= MINDIRECT
  PROVE  Open(PutDirect(F, data))
<1> DEFINE n == F.cur
           r == F.rec[n]
           space == Room(F)
           len == Len(data)
           q == Recs(len - space - 1)
           recend == Recs(F.bytepos + len - 1)
           filepos == F.bytepos + space
           nwrite == q * IOBUFLEN
           full == IF space = 0 THEN F ELSE Dirtied(Fill1(F, space, Slice(data, 0, space)))
           V == Evicted(full, r, recend)
           S == SeekTo(V, filepos)
           mid == Slice(data, space, nwrite)
           W == ffwrite(S, mid)
           pos == filepos + nwrite
           E == [ W EXCEPT !.io_pos = pos ]
           R == ffread(E, IOBUFLEN)
           B1buf == [ E.buf EXCEPT ![n] = Blank(IOBUFLEN) ]
           B2buf == [ R.buf EXCEPT ![n] = Slice(E.disk, E.at, IOBUFLEN) ]
           B2pos == R.io_pos + IOBUFLEN
           B == IF E.io_pos >= E.filesize
                THEN [ E EXCEPT !.filesize = E.io_pos, !.buf = B1buf ]
                ELSE [ R EXCEPT !.buf = B2buf, !.io_pos = B2pos ]
           tail == Slice(data, space + nwrite, len - space - nwrite)
           bytes == Over(B.buf[n], 0, tail)
           buf == [ B.buf EXCEPT ![n] = bytes ]
           dirty == [ B.dirty EXCEPT ![n] = TRUE ]
           rec == [ B.rec EXCEPT ![n] = recend ]
           log == Most(B.logfilesize, (recend + 1) * IOBUFLEN)
           next == B.bytepos + len
           G == PutDirect(F, data)
<1>1. G = [ B EXCEPT !.buf = buf, !.dirty = dirty, !.rec = rec, !.logfilesize = log,
                     !.bytepos = next ]
  BY DEF PutDirect, Recs
<1>2. /\ Coh(F) /\ n \in Bufs /\ r \in Nat /\ Fields(F) /\ F.bytepos \in Int
      /\ len \in Nat /\ len >= MINDIRECT /\ space \in 0 .. IOBUFLEN /\ IOBUFLEN \in Nat
      /\ space = IOBUFLEN - (F.bytepos - r * IOBUFLEN)
  <2>1. Coh(F) /\ n \in Bufs
    BY DEF Open
  <2>2. Fields(F) /\ F.bytepos \in Int /\ F.rec \in [ Bufs -> Int ]
    BY <2>1 DEF Coh, Body, Typed
  <2>3. len \in Nat /\ IOBUFLEN \in Nat
    BY BufferSizes DEF IsSequence
  <2>4. space = IOBUFLEN - (F.bytepos - r * IOBUFLEN)
    BY DEF Room, Start
  <2>5. r \in Nat
    BY <2>1, <2>2
  <2> QED
    BY <2>1, <2>2, <2>3, <2>4, <2>5
<1> HIDE DEF r, space, len
<1>3. /\ q \in Nat /\ q >= 1 /\ recend = r + 1 + q /\ filepos = (r + 1) * IOBUFLEN
      /\ pos = recend * IOBUFLEN /\ nwrite \in Nat
      /\ len - space - nwrite \in Nat /\ len - space - nwrite <= IOBUFLEN
  <2>1. q = Recs(len - space - 1) /\ recend = Recs(F.bytepos + len - 1)
    OBVIOUS
  <2> HIDE DEF q, recend
  <2>2. /\ q \in Nat /\ q >= 1 /\ recend = r + 1 + q
        /\ F.bytepos + space = (r + 1) * IOBUFLEN
        /\ (r + 1) * IOBUFLEN + q * IOBUFLEN = recend * IOBUFLEN
        /\ q * IOBUFLEN \in Nat
        /\ len - space - q * IOBUFLEN \in Nat /\ len - space - q * IOBUFLEN <= IOBUFLEN
    <3>1. Covers(F.bytepos, len, r, space, q, recend)
      BY <1>2, <2>1 DEF Covers
    <3> QED
      BY <3>1, DirectNumbers
  <2> QED
    BY <2>2
<1>4. /\ IsSequence(mid) /\ Len(mid) = nwrite
      /\ IsSequence(tail) /\ Len(tail) = len - space - nwrite /\ Len(tail) <= IOBUFLEN
  <2>1. /\ nwrite \in Nat /\ len - space - nwrite \in Nat
        /\ len - space - nwrite <= IOBUFLEN /\ space \in Int
    BY <1>2, <1>3
  <2> HIDE DEF nwrite
  <2>2. space + nwrite \in Int
    BY <2>1
  <2> DEFINE rest == len - space - nwrite
  <2> HIDE DEF rest
  <2>3. rest \in Nat /\ rest <= IOBUFLEN
    BY <2>1 DEF rest
  <2>4. IsSequence(mid) /\ Len(mid) = nwrite
    BY <2>1, SliceIs
  <2>5. tail = Slice(data, space + nwrite, rest)
    BY DEF rest
  <2>6. IsSequence(tail) /\ Len(tail) = rest
    BY <2>2, <2>3, <2>5, SliceIs
  <2> QED
    BY <2>3, <2>4, <2>6 DEF rest
<1>5. /\ recend \in Nat /\ r + 1 \in Nat /\ r + 1 <= recend /\ recend \in Int /\ r \in Int
      /\ filepos \in Nat /\ pos \in Nat /\ filepos \in Int /\ pos = filepos + nwrite
  <2>1. recend \in Nat /\ r + 1 \in Nat /\ r + 1 <= recend
    <3> HIDE DEF q, recend
    <3> QED
      BY <1>2, <1>3
  <2> HIDE DEF recend
  <2>2. (r + 1) * IOBUFLEN \in Nat /\ recend * IOBUFLEN \in Nat
    BY <2>1, RecordStart
  <2>3. filepos \in Nat /\ pos \in Nat
    BY <1>3, <2>2
  <2> QED
    BY <1>2, <2>1, <2>3
<1> HIDE DEF q, recend, nwrite, filepos, mid, tail
<1>6. /\ Open(full) /\ full.rec = F.rec /\ full.cur = n /\ full.bytepos = F.bytepos
  <2>1. CASE space = 0
    BY <2>1
  <2>2. CASE space # 0
    <3> DEFINE put == Slice(data, 0, space)
               A == Fill1(F, space, put)
    <3>0. space \in Nat /\ 0 \in Int
      BY <1>2
    <3>1. IsSequence(put) /\ Len(put) <= space
      BY <3>0, SliceIs
    <3>2. Writable(A) /\ A.rec = F.rec /\ A.cur = F.cur /\ A.bytepos = F.bytepos
      BY <1>2, <3>1, OpenWritable, FillKeeps
    <3> HIDE DEF A
    <3> QED
      BY <2>2, <3>2, DirtiedIs DEF Writable, A
  <2> QED
    BY <2>1, <2>2
<1> HIDE DEF full
<1>7. /\ Coh(V) /\ V.cur = n /\ V.bytepos = F.bytepos /\ V.age = full.age
      /\ full.logfilesize <= V.logfilesize
      /\ \A m \in Bufs : V.rec[m] = IF F.rec[m] \in r .. recend THEN -1 ELSE F.rec[m]
      /\ r < Recs(V.filesize)
  <2>1. full.logfilesize \in Int /\ Coh(full)
    BY <1>6 DEF Open, Coh, Body, Sizes
  <2>2. r \in r .. recend
    BY <1>5
  <2>3. /\ Coh(V) /\ LetGo(full, V)
        /\ \A m \in Bufs :
             /\ V.rec[m] = IF full.rec[m] \in r .. recend THEN -1 ELSE full.rec[m]
             /\ full.rec[m] \in r .. recend /\ full.rec[m] >= 0 => full.rec[m] < Recs(V.filesize)
    BY <1>5, <2>1, EvictedKeeps
  <2>4. full.rec[n] = r /\ r >= 0
    BY <1>2, <1>6 DEF r
  <2>5. r < Recs(V.filesize)
    BY <1>2, <2>2, <2>3, <2>4
  <2>6. V.logfilesize = full.logfilesize /\ full.logfilesize <= V.logfilesize
    BY <2>1, <2>3 DEF LetGo
  <2> QED
    BY <1>6, <2>3, <2>5, <2>6 DEF LetGo

<1> HIDE DEF V
<1>8. /\ Fields(V) /\ V.filesize \in Nat /\ V.filesize = Len(V.disk) /\ V.io_pos \in Int
      /\ V.filesize = Recs(V.filesize) * IOBUFLEN /\ Recs(V.filesize) \in Nat
      /\ V.buf = [ m \in Bufs |-> V.buf[m] ] /\ IsSequence(V.disk)
  <2>1. V.filesize \in Int /\ V.filesize >= 0
    BY <1>7 DEF Coh, Body, Sizes
  <2>2. Recs(V.filesize) \in Int /\ Recs(V.filesize) >= 0
    BY <2>1, RecordOf
  <2> QED
    BY <1>7, <2>2 DEF Coh, Body, Typed, Sizes
<1>9. r + 1 <= Recs(V.filesize) /\ filepos <= V.filesize
  <2>1. r + 1 \in Int /\ Recs(V.filesize) \in Int /\ r + 1 <= Recs(V.filesize)
    BY <1>5, <1>7, <1>8
  <2>2. (r + 1) * IOBUFLEN <= Recs(V.filesize) * IOBUFLEN
    BY <2>1, RecordsOrdered
  <2> QED
    BY <1>3, <1>8, <2>1, <2>2
<1>10. /\ Fields(S) /\ SameBuffers(V, S) /\ S.dirty = V.dirty /\ S.disk = V.disk
       /\ S.filesize = V.filesize /\ S.at = filepos
  BY <1>5, <1>7, <1>8, <1>9, SeekToIs, SeekFinds
<1> HIDE DEF S
<1>11. /\ Fields(W) /\ SameBuffers(S, W) /\ W.dirty = S.dirty /\ W.filesize = S.filesize
       /\ W.disk = Over(S.disk, S.at, mid) /\ W.at = S.at + Len(mid)
  BY <1>10, ffwriteIs
<1> HIDE DEF W, pos
<1>12. /\ Fields(E) /\ SameBuffers(V, E) /\ E.dirty = V.dirty /\ E.filesize = V.filesize
       /\ E.disk = Over(V.disk, filepos, mid) /\ E.at = pos /\ E.io_pos = pos
  <2>1. /\ Fields(E) /\ SameBuffers(W, E) /\ E.dirty = W.dirty /\ E.filesize = W.filesize
        /\ E.disk = W.disk /\ E.at = W.at /\ E.io_pos = pos
    BY <1>11 DEF Fields, SameBuffers
  <2> QED
    BY <1>4, <1>5, <1>10, <1>11, <2>1 DEF SameBuffers
<1> HIDE DEF E
<1>13. Len(E.disk) = Most(V.filesize, pos)
  <2>1. Len(E.disk) = Most(Len(V.disk), filepos + Len(mid))
    <3>1. filepos \in Nat /\ IsSequence(V.disk) /\ IsSequence(mid)
      BY <1>4, <1>5, <1>8
    <3>2. Len(Over(V.disk, filepos, mid)) = Most(Len(V.disk), filepos + Len(mid))
      BY <3>1, OverIs
    <3> QED
      BY <1>12, <3>2
  <2> QED
    BY <1>4, <1>5, <1>8, <2>1
<1>14. /\ Fields(R) /\ R.disk = E.disk /\ R.buf = E.buf /\ R.rec = E.rec /\ R.dirty = E.dirty
       /\ R.age = E.age /\ R.cur = E.cur /\ R.bytepos = E.bytepos /\ R.io_pos = E.io_pos
       /\ R.filesize = E.filesize /\ R.logfilesize = E.logfilesize
       /\ pos < E.filesize => R.at = pos + IOBUFLEN
  <2>1. pos < E.filesize => Readable(E, IOBUFLEN)
    <3> SUFFICES ASSUME pos < V.filesize
                 PROVE  pos + IOBUFLEN <= Len(E.disk)
      BY <1>12 DEF Readable
    <3>1. recend < Recs(V.filesize)
      <4>1. recend * IOBUFLEN < Recs(V.filesize) * IOBUFLEN
        BY <1>3, <1>8
      <4>2. recend \in Int /\ Recs(V.filesize) \in Int
        BY <1>5, <1>8
      <4> QED
        BY <4>1, <4>2, RecordsOrdered
    <3>2. recend * IOBUFLEN + IOBUFLEN <= Recs(V.filesize) * IOBUFLEN
      BY <1>5, <1>8, <3>1, RecordsOrdered
    <3>3. pos + IOBUFLEN <= V.filesize
      BY <1>3, <1>8, <3>2
    <3> QED
      BY <1>2, <1>5, <1>8, <1>13, <3>3 DEF Most
  <2> QED
    BY <1>12, <2>1, ffreadIs
<1> HIDE DEF R
<1>15. /\ Fields(B) /\ B.disk = E.disk /\ B.rec = V.rec /\ B.dirty = V.dirty /\ B.age = V.age
       /\ B.cur = n /\ B.bytepos = F.bytepos /\ B.logfilesize = V.logfilesize
       /\ B.at = B.io_pos /\ B.at \in Int /\ B.filesize = Most(V.filesize, pos)
       /\ \E block : /\ B.buf = [ V.buf EXCEPT ![n] = block ]
                     /\ IsSequence(block) /\ Len(block) = IOBUFLEN
  <2>1. CASE E.io_pos >= E.filesize
    <3>1. B = [ E EXCEPT !.filesize = E.io_pos, !.buf = B1buf ]
      BY <2>1
    <3>2. B1buf = [ V.buf EXCEPT ![n] = Blank(IOBUFLEN) ]
      BY <1>12 DEF SameBuffers
    <3>3. IsSequence(Blank(IOBUFLEN)) /\ Len(Blank(IOBUFLEN)) = IOBUFLEN
      BY <1>2, BlankIs
    <3> HIDE DEF B, B1buf
    <3>4. /\ Fields(B) /\ B.disk = E.disk /\ B.rec = E.rec /\ B.dirty = E.dirty /\ B.age = E.age
          /\ B.cur = E.cur /\ B.bytepos = E.bytepos /\ B.logfilesize = E.logfilesize
          /\ B.at = E.at /\ B.io_pos = E.io_pos /\ B.filesize = E.io_pos /\ B.buf = B1buf
      BY <1>12, <3>1 DEF Fields
    <3>5. B.filesize = Most(V.filesize, pos)
      BY <1>5, <1>8, <1>12, <2>1, <3>4 DEF Most
    <3> QED
      BY <1>5, <1>7, <1>12, <3>2, <3>3, <3>4, <3>5 DEF SameBuffers
  <2>2. CASE ~ (E.io_pos >= E.filesize)
    <3> DEFINE block == Slice(E.disk, E.at, IOBUFLEN)
    <3>1. B = [ R EXCEPT !.buf = B2buf, !.io_pos = B2pos ]
      BY <2>2
    <3>2. B2buf = [ V.buf EXCEPT ![n] = block ] /\ B2pos = pos + IOBUFLEN
      BY <1>12, <1>14 DEF SameBuffers
    <3>3. IsSequence(block) /\ Len(block) = IOBUFLEN
      BY <1>2, <1>5, <1>12, SliceIs
    <3> HIDE DEF B, B2buf, B2pos, block
    <3>4. /\ Fields(B) /\ B.disk = R.disk /\ B.rec = R.rec /\ B.dirty = R.dirty /\ B.age = R.age
          /\ B.cur = R.cur /\ B.bytepos = R.bytepos /\ B.logfilesize = R.logfilesize
          /\ B.at = R.at /\ B.io_pos = B2pos /\ B.filesize = R.filesize /\ B.buf = B2buf
      BY <1>14, <3>1 DEF Fields
    <3>5. pos < E.filesize
      BY <1>5, <1>8, <1>12, <2>2
    <3>6. B.filesize = Most(V.filesize, pos)
      BY <1>5, <1>8, <1>12, <1>14, <3>4, <3>5 DEF Most
    <3>7. B.at = B.io_pos /\ B.at \in Int
      BY <1>2, <1>5, <1>14, <3>2, <3>4, <3>5
    <3> QED
      BY <1>7, <1>12, <1>14, <3>2, <3>3, <3>4, <3>6, <3>7 DEF SameBuffers
  <2> QED
    BY <2>1, <2>2
<1> HIDE DEF B
<1>16. IsSequence(bytes) /\ Len(bytes) = IOBUFLEN
  <2>1. IsSequence(B.buf[n]) /\ Len(B.buf[n]) = IOBUFLEN
    BY <1>2, <1>8, <1>15
  <2>2. IsSequence(bytes) /\ Len(bytes) = Most(IOBUFLEN, 0 + Len(tail))
    BY <1>4, <2>1, OverIs
  <2>3. Most(IOBUFLEN, 0 + Len(tail)) = IOBUFLEN
    BY <1>2, <1>3, <1>4 DEF Most
  <2> QED
    BY <2>2, <2>3
<1>17. buf = [ V.buf EXCEPT ![n] = bytes ]
  <2> HIDE DEF bytes
  <2>1. \A m \in Bufs : B.buf[m] = IF m = n THEN B.buf[n] ELSE V.buf[m]
    BY <1>8, <1>15
  <2>2. B.buf = [ m \in Bufs |-> B.buf[m] ]
    BY <1>8, <1>15
  <2> QED
    BY <1>8, <2>1, <2>2
<1> HIDE DEF bytes, buf, dirty, rec, log, next, G
<1>18. /\ Fields(G) /\ G.disk = B.disk /\ G.at = B.at /\ G.buf = buf /\ G.rec = rec
       /\ G.dirty = dirty /\ G.age = B.age /\ G.cur = B.cur /\ G.bytepos = next
       /\ G.io_pos = B.io_pos /\ G.filesize = B.filesize /\ G.logfilesize = log
  BY <1>1, <1>15 DEF Fields
<1>19. Coh(G) /\ V.logfilesize <= G.logfilesize
  <2>1. V.rec[n] < 0
    <3>1. r \in r .. recend
      BY <1>5
    <3>2. F.rec[n] = r
      BY DEF r
    <3>3. V.rec[n] = -1
      BY <1>2, <1>7, <3>1, <3>2
    <3> QED
      BY <3>3
  <2>2. ASSUME NEW m \in Bufs
        PROVE  V.rec[m] < r + 1 \/ recend < V.rec[m]
    <3>1. F.rec[m] \in Int
      BY <1>2 DEF Coh, Body, Typed
    <3>2. V.rec[m] = IF F.rec[m] \in r .. recend THEN -1 ELSE F.rec[m]
      BY <1>7
    <3>3. r \in Nat /\ recend \in Nat
      BY <1>2, <1>5
    <3>4. CASE F.rec[m] \in r .. recend
      BY <3>2, <3>3, <3>4
    <3>5. CASE F.rec[m] \notin r .. recend
      BY <3>1, <3>2, <3>3, <3>5
    <3> QED
      BY <3>4, <3>5
  <2>3. next \in Int
    BY <1>2, <1>15 DEF next
  <2>4. (r + 1) * IOBUFLEN + Len(mid) = recend * IOBUFLEN
    BY <1>3, <1>4, <1>5
  <2>5. /\ G.disk = Over(V.disk, (r + 1) * IOBUFLEN, mid) /\ G.at \in Int /\ G.at = G.io_pos
        /\ G.bytepos \in Int /\ G.age = V.age /\ G.filesize = Most(V.filesize, recend * IOBUFLEN)
        /\ G.logfilesize = Most(V.logfilesize, (recend + 1) * IOBUFLEN)
    BY <1>3, <1>12, <1>15, <1>18, <2>3 DEF log
  <2>6. /\ G.buf = [ V.buf EXCEPT ![n] = bytes ] /\ G.dirty = [ V.dirty EXCEPT ![n] = TRUE ]
        /\ G.rec = [ V.rec EXCEPT ![n] = recend ]
    BY <1>15, <1>17, <1>18 DEF dirty, rec
  <2>7. WroteRecords(V, G, n, r + 1, recend, mid, bytes)
    BY <1>2, <1>4, <1>5, <1>9, <1>16, <1>18, <2>1, <2>2, <2>4, <2>5, <2>6 DEF WroteRecords
  <2> QED
    BY <1>7, <2>7, DirectDone
<1>20. G.cur \in Bufs
  BY <1>2, <1>15, <1>18
<1>21. full.logfilesize <= G.logfilesize
  <2>1. full.logfilesize \in Int /\ V.logfilesize \in Int /\ G.logfilesize \in Int
    BY <1>6, <1>7, <1>19 DEF Open, Coh, Body, Sizes
  <2> QED
    BY <1>7, <1>19, <2>1
<1>22. Open(G)
  BY <1>6, <1>19, <1>20, <1>21, StillOpen
<1> QED
  BY <1>22 DEF G

LEMMA ffpbytKeeps ==
  ASSUME NEW F, Open(F), NEW data, IsSequence(data),
         F.status = 0 => F.rec[F.cur] >= 0 /\ F.bytepos \in Nat /\ Room(F) \in 0 .. IOBUFLEN
  PROVE  Open(ffpbyt(F, data))
<1>1. CASE F.status # 0
  BY <1>1 DEF ffpbyt
<1>2. CASE F.status = 0 /\ Len(data) >= MINDIRECT
  BY <1>2, PutDirectKeeps DEF ffpbyt
<1>3. CASE F.status = 0 /\ ~ (Len(data) >= MINDIRECT)
  BY <1>3, PutSmallKeeps DEF ffpbyt
<1> QED
  BY <1>1, <1>2, <1>3

----------------------------------------------------------------------------
(* Writing by groups.                                                      *)

\* A record is loaded, past the end of the file if need be.
LEMMA LoadWritable ==
  ASSUME NEW F, Open(F), NEW record \in Nat
  PROVE  Writable(ffldrc(F, record, IGNORE_EOF))
<1> DEFINE G == ffldrc(F, record, IGNORE_EOF)
<1>1. record \in Int /\ record >= 0
  OBVIOUS
<1>2. /\ Open(G)
      /\ \/ G.rec[G.cur] = record /\ G.status = F.status
         \/ IGNORE_EOF = REPORT_EOF /\ G.status # 0
  BY <1>1, ffldrcOpen
<1> HIDE DEF G
<1>3. G.rec[G.cur] >= 0
  BY <1>1, <1>2 DEF IGNORE_EOF, REPORT_EOF
<1>4. Writable(G)
  BY <1>2, <1>3, OpenWritable
<1> QED
  BY <1>4 DEF G

\* Between two groups of a write there is room in the current buffer.
Grouping(G) == Writable(G.F) /\ G.record \in Nat

LEMMA PutGroupKeeps ==
  ASSUME NEW G, Grouping(G), G.room \in 1 .. IOBUFLEN, NEW data, NEW i,
         NEW req, req.gsize \in Nat, req.gsize <= IOBUFLEN, req.offset \in Int, req.offset >= 0
  PROVE  LET H == PutGroup(req, data, G, i)
         IN  Grouping(H) /\ (i # req.n => H.room \in 1 .. IOBUFLEN)
<1> DEFINE group == Slice(data, (i - 1) * req.gsize, req.gsize)
           k == Least(req.gsize, G.room)
           size == req.gsize - k
           A == Fill1(G.F, G.room, Slice(group, 0, k))
           spilt == k < req.gsize
           L == ffldrc(Dirtied(A), G.record + 1, IGNORE_EOF)
           B == IF spilt THEN Fill1(L, IOBUFLEN, Slice(group, k, size)) ELSE A
           record == IF spilt THEN G.record + 1 ELSE G.record
           left == IF spilt THEN IOBUFLEN - size ELSE G.room - k
           room == left - req.offset
           next == record + (IOBUFLEN - room) \div IOBUFLEN
           N == ffldrc(Dirtied(B), next, IGNORE_EOF)
           bufpos == (0 - room) % IOBUFLEN
           H == PutGroup(req, data, G, i)
<1>1. H = IF i = req.n \/ room > 0 THEN [ F |-> B, record |-> record, room |-> room ]
          ELSE [ F |-> N, record |-> next, room |-> IOBUFLEN - bufpos ]
  BY DEF PutGroup
<1>2. /\ k \in Nat /\ k <= G.room /\ G.room \in 0 .. IOBUFLEN /\ size \in Nat /\ size <= IOBUFLEN
      /\ G.record \in Nat /\ G.record + 1 \in Nat /\ IOBUFLEN \in 0 .. IOBUFLEN
      /\ IOBUFLEN \in Nat /\ IOBUFLEN >= 1 /\ 0 \in Int /\ k \in Int
  BY BufferSizes DEF Grouping, Least
<1>3. /\ IsSequence(Slice(group, 0, k)) /\ Len(Slice(group, 0, k)) = k
      /\ IsSequence(Slice(group, k, size)) /\ Len(Slice(group, k, size)) = size
  <2> HIDE DEF k, size, group
  <2> QED
    BY <1>2, SliceIs
<1>4. left \in 0 .. IOBUFLEN
  BY <1>2
<1> HIDE DEF group, k, size, H
<1>5. Writable(A)
  <2>1. Writable(G.F)
    BY DEF Grouping
  <2> QED
    BY <1>2, <1>3, <2>1, FillKeeps
<1> HIDE DEF A
<1>6. Writable(L)
  BY <1>2, <1>5, LoadWritable DEF Writable
<1> HIDE DEF L
<1>7. Writable(B) /\ record \in Nat
  <2>1. CASE spilt
    <3>1. Writable(Fill1(L, IOBUFLEN, Slice(group, k, size)))
      BY <1>2, <1>3, <1>6, FillKeeps
    <3> QED
      BY <1>2, <2>1, <3>1
  <2>2. CASE ~ spilt
    BY <1>2, <1>5, <2>2
  <2> QED
    BY <2>1, <2>2
<1> HIDE DEF B, record, left
<1>8. room \in Int /\ room <= IOBUFLEN /\ IOBUFLEN - room \in Int /\ IOBUFLEN - room >= 0
      /\ 0 - room \in Int
  BY <1>2, <1>4
<1> HIDE DEF room
<1>9. next \in Nat
  <2>1. (IOBUFLEN - room) \div IOBUFLEN \in Int /\ (IOBUFLEN - room) \div IOBUFLEN >= 0
    BY <1>8, RecordOf DEF Recs
  <2> QED
    BY <1>7, <2>1
<1>10. bufpos \in 0 .. IOBUFLEN - 1
  BY <1>8, Remainder
<1> HIDE DEF next, bufpos
<1>11. Writable(N)
  BY <1>7, <1>9, LoadWritable DEF Writable
<1> HIDE DEF N
<1>12. CASE i = req.n \/ room > 0
  <2>1. H = [ F |-> B, record |-> record, room |-> room ]
    BY <1>1, <1>12
  <2>2. room > 0 => room \in 1 .. IOBUFLEN
    BY <1>2, <1>8
  <2> QED
    BY <1>7, <1>12, <2>1, <2>2 DEF Grouping, H
<1>13. CASE ~ (i = req.n \/ room > 0)
  <2>1. H = [ F |-> N, record |-> next, room |-> IOBUFLEN - bufpos ]
    BY <1>1, <1>13
  <2>2. IOBUFLEN - bufpos \in 1 .. IOBUFLEN
    BY <1>2, <1>10
  <2> QED
    BY <1>9, <1>11, <2>1, <2>2 DEF Grouping, H
<1> QED
  BY <1>12, <1>13

\* The position moves past the groups and the gaps between them.
LEMMA MovedKeeps ==
  ASSUME NEW F, Open(F), NEW req, req.n \in Nat, req.gsize \in Nat, req.offset \in Int
  PROVE  Open(Moved(F, req))
<1> DEFINE pos == F.bytepos + req.n * req.gsize + (req.n - 1) * req.offset
<1>1. F.bytepos \in Int
  BY DEF Open, Coh, Body, Typed
<1>2. req.n * req.gsize \in Int /\ (req.n - 1) * req.offset \in Int
  OBVIOUS
<1>3. pos \in Int
  BY <1>1, <1>2
<1>4. Moved(F, req) = [ F EXCEPT !.bytepos = pos ]
  BY DEF Moved
<1> HIDE DEF pos
<1> QED
  BY <1>3, <1>4, BytePosKeeps

LEMMA ffpbytoffKeeps ==
  ASSUME NEW F, Open(F), F.status = 0 => F.rec[F.cur] >= 0 /\ Room(F) \in 1 .. IOBUFLEN,
         NEW data, NEW req, req.n \in Nat, req.gsize \in Nat, req.gsize <= IOBUFLEN,
         req.offset \in Int, req.offset >= 0
  PROVE  Open(ffpbytoff(F, req, data))
<1>1. CASE F.status # 0
  BY <1>1 DEF ffpbytoff
<1>2. CASE F.status = 0
  <2>1. PICK h : /\ h[0] = [ F |-> F, record |-> F.rec[F.cur], room |-> Room(F) ]
                 /\ \A i \in 1 .. req.n : h[i] = PutGroup(req, data, h[i-1], i)
                 /\ ffpbytoff(F, req, data) = Moved(Dirtied(h[req.n].F), req)
    BY <1>2, PutGroupTurns
  <2>2. Grouping(h[0]) /\ h[0].room \in 1 .. IOBUFLEN
    <3>1. Writable(F)
      BY <1>2, OpenWritable
    <3>2. F.rec[F.cur] \in Nat
      BY <1>2 DEF Open, Coh, Body, Typed
    <3> QED
      BY <1>2, <2>1, <3>1, <3>2 DEF Grouping
  <2>3. Grouping(h[req.n])
    <3> DEFINE n == req.n
               T == { i \in Nat : i <= n => Grouping(h[i]) /\ (i # n => h[i].room \in 1 .. IOBUFLEN) }
    <3>1. 0 \in T
      BY <2>2
    <3>2. ASSUME NEW i \in Nat, i \in T
          PROVE  i + 1 \in T
      <4> SUFFICES ASSUME i + 1 <= n
                   PROVE  /\ Grouping(h[i+1])
                          /\ i + 1 # n => h[i+1].room \in 1 .. IOBUFLEN
        OBVIOUS
      <4>1. i + 1 \in 1 .. n /\ (i + 1) - 1 = i /\ i <= n /\ i # n
        OBVIOUS
      <4>2. Grouping(h[i]) /\ h[i].room \in 1 .. IOBUFLEN
        BY <3>2, <4>1
      <4>3. h[i+1] = PutGroup(req, data, h[i], i + 1)
        BY <2>1, <4>1
      <4> QED
        BY <4>2, <4>3, PutGroupKeeps
    <3> HIDE DEF T
    <3>3. n \in T
      BY <3>1, <3>2, NatSetInduction
    <3> QED
      BY <3>3 DEF T
  <2>4. Open(Dirtied(h[req.n].F))
    BY <2>3 DEF Grouping, Writable
  <2> QED
    BY <2>1, <2>4, MovedKeeps
<1> QED
  BY <1>1, <1>2

----------------------------------------------------------------------------
(* Reading.                                                                *)

LEMMA GetChunkKeeps ==
  ASSUME NEW G, Open(G.F), G.todo \in Int, G.room \in Int, NEW i
  PROVE  LET H == GetChunk(G, i)
         IN  Open(H.F) /\ H.todo \in Int /\ H.room \in Int
<1> DEFINE k == Least(G.todo, G.room)
           R == [ G.F EXCEPT !.bytepos = G.F.bytepos + k ]
           L == ffldrc(R, R.bytepos \div IOBUFLEN, REPORT_EOF)
           data == G.data \o Taken(G.F, G.room, k)
<1>1. CASE G.todo = 0
  BY <1>1 DEF GetChunk
<1>2. CASE G.todo # 0
  <2>1. GetChunk(G, i) = [ F |-> IF G.todo = k THEN R ELSE L, data |-> data,
                           todo |-> G.todo - k, room |-> IOBUFLEN ]
    BY <1>2 DEF GetChunk
  <2>2. k \in Int /\ G.todo - k \in Int /\ IOBUFLEN \in Int /\ G.F.bytepos + k \in Int
    <3>1. G.F.bytepos \in Int
      BY DEF Open, Coh, Body, Typed
    <3> QED
      BY <3>1, BufferSizes DEF Least
  <2> HIDE DEF k, data
  <2>3. Open(R) /\ R.bytepos \in Int
    BY <2>2, BytePosKeeps
  <2> HIDE DEF R
  <2>4. R.bytepos \div IOBUFLEN \in Int
    BY <2>3, RecordOf DEF Recs
  <2>5. Open(L)
    BY <2>3, <2>4, ffldrcOpen
  <2> QED
    BY <2>1, <2>2, <2>3, <2>5
<1> QED
  BY <1>1, <1>2

LEMMA RoomIs ==
  ASSUME NEW F, Open(F)
  PROVE  F.rec[F.cur] \in Int /\ Room(F) \in Int
<1>1. F.rec[F.cur] \in Int /\ F.bytepos \in Int
  BY DEF Open, Coh, Body, Typed
<1>2. F.rec[F.cur] * IOBUFLEN \in Int
  BY <1>1, Records
<1> QED
  BY <1>1, <1>2, BufferSizes DEF Room, Start

LEMMA GetSmallKeeps ==
  ASSUME NEW F, Open(F), NEW n \in Nat
  PROVE  Open(GetSmall(F, n).F)
<1> DEFINE turns == Turns(n)
<1>0. turns \in Nat
  BY TurnsIs
<1>1. PICK h : /\ h[0] = [ F |-> F, data |-> <<>>, todo |-> n, room |-> Room(F) ]
               /\ \A i \in 1 .. turns : h[i] = GetChunk(h[i-1], i)
               /\ GetSmall(F, n) = h[turns]
  BY <1>0, GetChunkTurns
<1> DEFINE Good(G) == Open(G.F) /\ G.todo \in Int /\ G.room \in Int
<1>2. Good(h[0])
  BY <1>1, RoomIs
<1>3. Good(h[turns])
  <2> DEFINE T == { i \in Nat : i <= turns => Good(h[i]) }
  <2> HIDE DEF turns
  <2>1. 0 \in T
    BY <1>2
  <2>2. ASSUME NEW i \in Nat, i \in T
        PROVE  i + 1 \in T
    <3> SUFFICES ASSUME i + 1 <= turns
                 PROVE  Good(h[i+1])
      OBVIOUS
    <3>1. i + 1 \in 1 .. turns /\ (i + 1) - 1 = i /\ i <= turns
      BY <1>0
    <3>2. h[i+1] = GetChunk(h[i], i + 1) /\ Good(h[i])
      BY <1>1, <2>2, <3>1
    <3> QED
      BY <3>2, GetChunkKeeps
  <2> HIDE DEF T
  <2>3. turns \in T
    BY <1>0, <2>1, <2>2, NatSetInduction
  <2> QED
    BY <1>0, <2>3 DEF T
<1> QED
  BY <1>1, <1>3

\* Where the next transfer begins is all that a read around the buffers changes.
LEMMA PlaceKeeps ==
  ASSUME NEW F, Coh(F), NEW G, Fields(G), G.disk = F.disk, G.buf = F.buf, G.rec = F.rec,
         G.dirty = F.dirty, G.age = F.age, G.filesize = F.filesize,
         G.logfilesize = F.logfilesize, G.bytepos = F.bytepos,
         G.at \in Int, G.io_pos \in Int, AtPlace(G)
  PROVE  Coh(G)
<1>1. Typed(G)
  <2>1. /\ IsSequence(F.disk) /\ F.bytepos \in Int /\ F.buf = [ n \in Bufs |-> F.buf[n] ]
        /\ F.rec \in [ Bufs -> Int ] /\ F.dirty \in [ Bufs -> BOOLEAN ]
        /\ F.age \in [ 1 .. NIOBUF -> Bufs ] /\ \A n \in Bufs : \E i \in 1 .. NIOBUF : F.age[i] = n
    BY DEF Coh, Body, Typed
  <2> QED
    BY <2>1 DEF Typed
<1>2. Alone(G) /\ Whole(G) /\ DirtyInFile(G)
  BY DEF Coh, Body, Alone, Whole, DirtyInFile
<1>3. CleanOnDisk(G) /\ Sizes(G) /\ LastDirty(G)
  BY DEF Coh, Body, CleanOnDisk, Sizes, LastDirty, Start
<1> QED
  BY <1>1, <1>2, <1>3 DEF Coh, Body

LEMMA GetDirectKeeps ==
  ASSUME NEW F, Open(F), NEW n \in Nat
  PROVE  Open(GetDirect(F, n).F)
<1> DEFINE records == F.bytepos \div IOBUFLEN .. (F.bytepos + n - 1) \div IOBUFLEN
           W == WriteBack(F, records)
           S == SeekTo(W, F.bytepos)
           R == ffread(S, n)
           pos == F.bytepos + n
           G == [ R EXCEPT !.io_pos = pos ]
<1>1. GetDirect(F, n).F = G
  BY DEF GetDirect
<1>2. Coh(W) /\ Flushed(F, W)
  BY WriteBackKeeps DEF Open
<1> HIDE DEF records, W
<1>3. /\ Fields(W) /\ W.io_pos \in Int /\ W.at \in Int /\ W.filesize \in Int
      /\ W.filesize = Len(W.disk) /\ F.bytepos \in Int /\ pos \in Int
      /\ W.io_pos <= W.filesize => W.at = W.io_pos
  <2>1. Fields(W) /\ W.io_pos \in Int /\ W.at \in Int
    BY <1>2 DEF Coh, Body, Typed
  <2>2. W.filesize \in Int /\ W.filesize = Len(W.disk)
    BY <1>2 DEF Coh, Body, Sizes
  <2>3. W.io_pos <= W.filesize => W.at = W.io_pos
    BY <1>2 DEF Coh, AtPlace
  <2>4. F.bytepos \in Int /\ pos \in Int
    BY DEF Open, Coh, Body, Typed
  <2> QED
    BY <2>1, <2>2, <2>3, <2>4
<1>4. /\ Fields(S) /\ SameBuffers(W, S) /\ S.dirty = W.dirty /\ S.disk = W.disk
      /\ S.filesize = W.filesize
      /\ S.at = IF W.io_pos # F.bytepos THEN F.bytepos ELSE W.at
  BY <1>3, SeekToIs
<1> HIDE DEF S
<1>5. /\ Fields(R) /\ R.disk = S.disk /\ R.buf = S.buf /\ R.rec = S.rec /\ R.dirty = S.dirty
      /\ R.age = S.age /\ R.cur = S.cur /\ R.bytepos = S.bytepos
      /\ R.filesize = S.filesize /\ R.logfilesize = S.logfilesize
      /\ Readable(S, n) => R.at = S.at + n
      /\ ~ Readable(S, n) => R.at = Len(S.disk)
  BY <1>4, ffreadIs
<1> HIDE DEF R, pos, G
<1>6. /\ Fields(G) /\ G.disk = R.disk /\ G.buf = R.buf /\ G.rec = R.rec /\ G.dirty = R.dirty
      /\ G.age = R.age /\ G.cur = R.cur /\ G.bytepos = R.bytepos /\ G.at = R.at
      /\ G.filesize = R.filesize /\ G.logfilesize = R.logfilesize /\ G.io_pos = pos
  BY <1>5 DEF Fields, G
<1>7. AtPlace(G) /\ G.at \in Int
  <2>1. S.at \in Int /\ (F.bytepos <= W.filesize => S.at = F.bytepos)
    BY <1>3, <1>4
  <2>2. pos = F.bytepos + n
    BY DEF pos
  <2>3. pos <= W.filesize => F.bytepos <= W.filesize
    BY <1>3, <2>2
  <2>4. CASE Readable(S, n)
    BY <1>3, <1>4, <1>5, <1>6, <2>1, <2>2, <2>3, <2>4 DEF AtPlace
  <2>5. CASE ~ Readable(S, n)
    <3>1. ~ (pos <= W.filesize)
      BY <1>3, <1>4, <2>1, <2>2, <2>3, <2>5 DEF Readable
    <3> QED
      BY <1>3, <1>4, <1>5, <1>6, <2>5, <3>1 DEF AtPlace
  <2> QED
    BY <2>4, <2>5
<1>8. Coh(G)
  <2>1. /\ G.disk = W.disk /\ G.buf = W.buf /\ G.rec = W.rec /\ G.dirty = W.dirty
        /\ G.age = W.age /\ G.filesize = W.filesize /\ G.logfilesize = W.logfilesize
        /\ G.bytepos = W.bytepos
    BY <1>4, <1>5, <1>6 DEF SameBuffers
  <2> QED
    BY <1>2, <1>3, <1>6, <1>7, <2>1, PlaceKeeps
<1>9. Open(G)
  BY <1>2, <1>4, <1>5, <1>6, <1>8 DEF Open, Flushed, SameBuffers
<1> QED
  BY <1>1, <1>9

LEMMA ffgbytKeeps ==
  ASSUME NEW F, Open(F), NEW n \in Nat
  PROVE  LET R == ffgbyt(F, n)
         IN  Open(R.F) /\ (n >= MINDIRECT => R = [ F |-> R.F, data |-> R.data ])
<1>1. CASE F.status # 0
  BY <1>1 DEF ffgbyt
<1>2. CASE F.status = 0 /\ n >= MINDIRECT
  <2>1. ffgbyt(F, n) = GetDirect(F, n)
    BY <1>2 DEF ffgbyt
  <2>2. GetDirect(F, n) = [ F |-> GetDirect(F, n).F, data |-> GetDirect(F, n).data ]
    BY DEF GetDirect
  <2> QED
    BY <2>1, <2>2, GetDirectKeeps
<1>3. CASE F.status = 0 /\ ~ (n >= MINDIRECT)
  BY <1>3, GetSmallKeeps DEF ffgbyt
<1> QED
  BY <1>1, <1>2, <1>3

LEMMA ffgi1bKeeps ==
  ASSUME NEW F, Open(F), NEW pos \in Int, NEW n \in Nat
  PROVE  Open(ffgi1b(F, pos, n).F)
<1>1. CASE n < MINDIRECT
  <2>1. Open(ffmbyt(F, pos, REPORT_EOF))
    BY ffmbytKeeps
  <2> QED
    BY <1>1, <2>1, ffgbytKeeps DEF ffgi1b
<1>2. CASE ~ (n < MINDIRECT)
  <2> DEFINE P == [ F EXCEPT !.bytepos = pos ]
             R == ffgbyt(P, n)
             old == F.bytepos
             G == [ R.F EXCEPT !.bytepos = old ]
  <2>1. n >= MINDIRECT /\ old \in Int
    BY <1>2, BufferSizes DEF Open, Coh, Body, Typed
  <2>2. ffgi1b(F, pos, n) = [ R EXCEPT !.F.bytepos = old ]
    BY <1>2 DEF ffgi1b
  <2>3. Open(P)
    BY BytePosKeeps
  <2> HIDE DEF P
  <2>4. Open(R.F) /\ R = [ F |-> R.F, data |-> R.data ]
    BY <2>1, <2>3, ffgbytKeeps
  <2> HIDE DEF R, old
  <2>5. [ R EXCEPT !.F.bytepos = old ].F = G
    BY <2>4
  <2>6. Open(G)
    BY <2>1, <2>4, BytePosKeeps
  <2> QED
    BY <2>2, <2>5, <2>6
<1> QED
  BY <1>1, <1>2

LEMMA GetGroupKeeps ==
  ASSUME NEW G, Open(G.F), G.record \in Int, G.room \in Int, NEW i,
         NEW req, req.gsize \in Nat, req.offset \in Int
  PROVE  LET H == GetGroup(req, G, i)
         IN  Open(H.F) /\ H.record \in Int /\ H.room \in Int
<1> DEFINE k == Least(req.gsize, G.room)
           spilt == k < req.gsize
           L == ffldrc(G.F, G.record + 1, REPORT_EOF)
           B == IF spilt THEN L ELSE G.F
           data == G.data \o Taken(G.F, G.room, k) \o
                   (IF spilt THEN Taken(B, IOBUFLEN, req.gsize - k) ELSE <<>>)
           record == IF spilt THEN G.record + 1 ELSE G.record
           room == (IF spilt THEN IOBUFLEN - (req.gsize - k) ELSE G.room - k) - req.offset
           next == IF room <= 0 THEN record + (IOBUFLEN - room) \div IOBUFLEN
                                ELSE record - (room - 1) \div IOBUFLEN
           bufpos == IF room <= 0 THEN (0 - room) % IOBUFLEN ELSE IOBUFLEN - (room % IOBUFLEN)
           N == ffldrc(B, next, REPORT_EOF)
           H == GetGroup(req, G, i)
<1>1. H = IF i = req.n \/ room \in 1 .. IOBUFLEN
          THEN [ F |-> B, data |-> data, record |-> record, room |-> room ]
          ELSE [ F |-> N, data |-> data, record |-> next, room |-> IOBUFLEN - bufpos ]
  BY DEF GetGroup
<1> HIDE DEF data, H
<1>2. k \in Int /\ G.record + 1 \in Int /\ IOBUFLEN \in Int
  BY BufferSizes DEF Least
<1> HIDE DEF k
<1>3. record \in Int /\ room \in Int
  BY <1>2
<1>4. Open(B)
  <2>1. Open(L)
    BY <1>2, ffldrcOpen
  <2> QED
    BY <2>1
<1> HIDE DEF B, record, room
<1>5. next \in Int
  <2>1. (IOBUFLEN - room) \div IOBUFLEN \in Int /\ (room - 1) \div IOBUFLEN \in Int
    <3>1. IOBUFLEN - room \in Int /\ room - 1 \in Int
      BY <1>2, <1>3
    <3> QED
      BY <3>1, RecordOf DEF Recs
  <2> QED
    BY <1>3, <2>1
<1>6. bufpos \in Int
  <2>1. (0 - room) % IOBUFLEN \in Int /\ room % IOBUFLEN \in Int
    <3>1. 0 - room \in Int
      BY <1>3
    <3> QED
      BY <1>3, <3>1, Remainder
  <2> QED
    BY <1>2, <2>1
<1> HIDE DEF next, bufpos
<1>7. Open(N)
  BY <1>4, <1>5, ffldrcOpen
<1> HIDE DEF N
<1>8. Open(H.F) /\ H.record \in Int /\ H.room \in Int
  <2>1. CASE i = req.n \/ room \in 1 .. IOBUFLEN
    <3>1. H = [ F |-> B, data |-> data, record |-> record, room |-> room ]
      BY <1>1, <2>1
    <3> QED
      BY <1>3, <1>4, <3>1
  <2>2. CASE ~ (i = req.n \/ room \in 1 .. IOBUFLEN)
    <3>1. H = [ F |-> N, data |-> data, record |-> next, room |-> IOBUFLEN - bufpos ]
      BY <1>1, <2>2
    <3>2. IOBUFLEN - bufpos \in Int
      BY <1>2, <1>6
    <3> QED
      BY <1>5, <1>7, <3>1, <3>2
  <2> QED
    BY <2>1, <2>2
<1> QED
  BY <1>8 DEF H

LEMMA ffgbytoffKeeps ==
  ASSUME NEW F, Open(F), NEW req, req.n \in Nat, req.gsize \in Nat, req.offset \in Int
  PROVE  Open(ffgbytoff(F, req).F)
<1>1. CASE F.status # 0
  BY <1>1 DEF ffgbytoff
<1>2. CASE F.status = 0
  <2>1. PICK h : /\ h[0] = [ F |-> F, data |-> <<>>, record |-> F.rec[F.cur], room |-> Room(F) ]
                 /\ \A i \in 1 .. req.n : h[i] = GetGroup(req, h[i-1], i)
                 /\ ffgbytoff(F, req) = [ F |-> Moved(h[req.n].F, req), data |-> h[req.n].data ]
    BY <1>2, GetGroupTurns
  <2> DEFINE n == req.n
             Good(G) == Open(G.F) /\ G.record \in Int /\ G.room \in Int
  <2>2. Good(h[0])
    BY <2>1, RoomIs
  <2>3. Good(h[n])
    <3> DEFINE T == { i \in Nat : i <= n => Good(h[i]) }
    <3>1. 0 \in T
      BY <2>2
    <3>2. ASSUME NEW i \in Nat, i \in T
          PROVE  i + 1 \in T
      <4> SUFFICES ASSUME i + 1 <= n
                   PROVE  Good(h[i+1])
        OBVIOUS
      <4>1. i + 1 \in 1 .. n /\ (i + 1) - 1 = i /\ i <= n
        OBVIOUS
      <4>2. Good(h[i]) /\ h[i+1] = GetGroup(req, h[i], i + 1)
        BY <2>1, <3>2, <4>1
      <4> QED
        BY <4>2, GetGroupKeeps
    <3> HIDE DEF T
    <3>3. n \in T
      BY <3>1, <3>2, NatSetInduction
    <3> QED
      BY <3>3 DEF T
  <2> QED
    BY <2>1, <2>3, MovedKeeps
<1> QED
  BY <1>1, <1>2

----------------------------------------------------------------------------
(* Flushing, truncating and opening.                                       *)

\* A flush leaves no buffer dirty, and on disk all that the file has.
LEMMA AllFlushed ==
  ASSUME NEW F, Coh(F)
  PROVE  LET W == ffflushx(WriteBack(F, Nat))
         IN  /\ Coh(W) /\ Flushed(F, W) /\ (\A n \in Bufs : ~ W.dirty[n])
             /\ W.filesize = W.logfilesize
<1> DEFINE W == WriteBack(F, Nat)
<1>1. /\ Coh(W) /\ Flushed(F, W)
      /\ \A n \in Bufs : F.rec[n] \in Nat => ~ W.dirty[n]
  BY WriteBackKeeps
<1> HIDE DEF W
<1>2. ASSUME NEW n \in Bufs
      PROVE  ~ W.dirty[n]
  <2>1. SUFFICES ASSUME W.dirty[n]
                 PROVE  FALSE
    OBVIOUS
  <2>2. F.dirty[n]
    BY <1>1, <2>1 DEF Flushed
  <2>3. F.rec[n] \in Nat
    BY <2>2 DEF Coh, Body, DirtyInFile
  <2> QED
    BY <1>1, <2>1, <2>3
<1>3. W.filesize = W.logfilesize
  <2>1. ~ (Recs(W.filesize) < Recs(W.logfilesize))
    BY <1>1, <1>2 DEF Coh, Body, LastDirty
  <2>2. /\ W.filesize \in Int /\ W.logfilesize \in Int /\ W.filesize = Recs(W.filesize) * IOBUFLEN
        /\ W.logfilesize = Recs(W.logfilesize) * IOBUFLEN
        /\ Recs(W.filesize) <= Recs(W.logfilesize)
    BY <1>1 DEF Coh, Body, Sizes
  <2>3. Recs(W.filesize) \in Int /\ Recs(W.logfilesize) \in Int
    BY <2>2, RecordOf
  <2>4. Recs(W.filesize) = Recs(W.logfilesize)
    BY <2>1, <2>2, <2>3
  <2> QED
    BY <2>2, <2>4
<1> DEFINE os == Synced(W, W.at)
           V == [ W EXCEPT !.os = os ]
<1>4. ffflushx(W) = V
  BY DEF ffflushx
<1> HIDE DEF os
<1>5. Coh(V) /\ SameFile(W, V) /\ V.age = W.age /\ V.cur = W.cur /\ V.bytepos = W.bytepos
      /\ V.status = W.status
  BY <1>1, SyncKeeps
<1> HIDE DEF V
<1>6. Flushed(F, V)
  BY <1>1, <1>5 DEF Flushed, SameBuffers, SameFile
<1>7. V.filesize = V.logfilesize /\ \A n \in Bufs : ~ V.dirty[n]
  BY <1>2, <1>3, <1>5 DEF SameFile
<1> QED
  BY <1>4, <1>5, <1>6, <1>7 DEF W

\* The file is cut to some of its records once no buffer is dirty; some of the
\* buffers are let go, among them those of records past its end.
LEMMA CutKeeps ==
  ASSUME NEW W, Coh(W), \A n \in Bufs : ~ W.dirty[n],
         NEW size \in Nat, size = Recs(size) * IOBUFLEN, size <= W.filesize,
         NEW G, Fields(G), G.disk = Slice(W.disk, 0, size),
         G.filesize = size, G.logfilesize = size,
         G.at \in Int, G.io_pos \in Int, G.bytepos \in Int, AtPlace(G),
         G.buf = W.buf, G.dirty = W.dirty, G.age = W.age, G.rec \in [ Bufs -> Int ],
         \A n \in Bufs : \/ G.rec[n] = -1
                         \/ G.rec[n] = W.rec[n] /\ (G.rec[n] >= 0 => G.rec[n] < Recs(size))
  PROVE  Coh(G)
<1>0. IsSequence(G.disk) /\ Len(G.disk) = size /\ \A i \in 1 .. size : G.disk[i] = W.disk[i]
  <2>1. /\ IsSequence(Slice(W.disk, 0, size)) /\ Len(Slice(W.disk, 0, size)) = size
        /\ \A i \in 1 .. size : Slice(W.disk, 0, size)[i] = W.disk[0 + i]
    <3> DEFINE cut == Slice(W.disk, 0, size)
    <3>1. cut = [ i \in 1 .. size |-> W.disk[0 + i] ]
      BY DEF Slice
    <3> HIDE DEF cut
    <3>2. cut = [ i \in 1 .. size |-> cut[i] ] /\ \A i \in 1 .. size : cut[i] = W.disk[0 + i]
      BY <3>1
    <3>3. IsSequence(cut) /\ Len(cut) = size
      BY <3>2, FunctionIsSequence
    <3> QED
      BY <3>2, <3>3 DEF cut
  <2>2. \A i \in 1 .. size : 0 + i = i
    OBVIOUS
  <2> QED
    BY <2>1, <2>2
<1>1. Typed(G)
  <2>1. /\ W.buf = [ n \in Bufs |-> W.buf[n] ] /\ W.dirty \in [ Bufs -> BOOLEAN ]
        /\ W.age \in [ 1 .. NIOBUF -> Bufs ] /\ \A n \in Bufs : \E i \in 1 .. NIOBUF : W.age[i] = n
    BY DEF Coh, Body, Typed
  <2> QED
    BY <1>0, <2>1 DEF Typed
<1>2. Alone(G) /\ Whole(G)
  BY DEF Coh, Body, Alone, Whole
<1>3. DirtyInFile(G)
  BY DEF DirtyInFile
<1>4. CleanOnDisk(G)
  <2> SUFFICES ASSUME NEW n \in Bufs, G.rec[n] >= 0
               PROVE  /\ G.rec[n] < Recs(size)
                      /\ G.buf[n] = Slice(G.disk, Start(G, n), IOBUFLEN)
    BY DEF CleanOnDisk
  <2> DEFINE r == G.rec[n]
  <2>1. r = W.rec[n] /\ r < Recs(size) /\ r \in Nat /\ Recs(size) \in Int
    <3>1. r \in Int /\ ~ (-1 >= 0)
      OBVIOUS
    <3>2. Recs(size) \in Int
      BY RecordOf
    <3> QED
      BY <3>1, <3>2
  <2>2. W.buf[n] = Slice(W.disk, r * IOBUFLEN, IOBUFLEN)
    BY <2>1 DEF Coh, Body, CleanOnDisk, Start
  <2>3. r * IOBUFLEN + IOBUFLEN <= size /\ r * IOBUFLEN \in Nat
    BY <2>1, RecordsOrdered, RecordStart
  <2> DEFINE x == r * IOBUFLEN
  <2> HIDE DEF x
  <2>4. x \in Nat /\ x + IOBUFLEN <= size
    BY <2>3 DEF x
  <2>5. ASSUME NEW i \in 1 .. IOBUFLEN
        PROVE  G.disk[x + i] = W.disk[x + i]
    <3>1. x + i \in 1 .. size
      BY <2>4, BufferSizes
    <3> QED
      BY <1>0, <3>1
  <2>6. Slice(G.disk, x, IOBUFLEN) = Slice(W.disk, x, IOBUFLEN)
    BY <2>5 DEF Slice
  <2> QED
    BY <2>1, <2>2, <2>6 DEF Start, x
<1>5. Sizes(G)
  <2>1. Recs(size) \in Int
    BY RecordOf
  <2> QED
    BY <1>0, <2>1 DEF Sizes
<1>6. LastDirty(G)
  <2>1. Recs(size) \in Int
    BY RecordOf
  <2> QED
    BY <2>1 DEF LastDirty
<1> QED
  BY <1>1, <1>2, <1>3, <1>4, <1>5, <1>6 DEF Coh, Body

LEMMA ffflshKeeps ==
  ASSUME NEW F, Open(F), NEW clearbuf
  PROVE  LET G == ffflsh(F, clearbuf)
         IN  Open(G) /\ G.filesize = G.logfilesize
<1> DEFINE W == ffflushx(WriteBack(F, Nat))
           rec == [ n \in Bufs |-> -1 ]
           G == [ W EXCEPT !.rec = rec ]
<1>1. /\ Coh(W) /\ Flushed(F, W) /\ (\A n \in Bufs : ~ W.dirty[n])
      /\ W.filesize = W.logfilesize
  BY AllFlushed DEF Open
<1>2. ffflsh(F, clearbuf) = IF clearbuf THEN G ELSE W
  BY DEF ffflsh
<1> HIDE DEF W
<1>3. Open(W)
  BY <1>1 DEF Open, Flushed, SameBuffers
<1>4. /\ Fields(W) /\ W.filesize \in Nat /\ W.filesize = Recs(W.filesize) * IOBUFLEN
      /\ W.at \in Int /\ W.io_pos \in Int /\ W.bytepos \in Int /\ IsSequence(W.disk)
      /\ W.filesize = Len(W.disk)
  BY <1>1 DEF Coh, Body, Typed, Sizes
<1>5. \A n \in Bufs : rec[n] = -1
  OBVIOUS
<1>6. rec \in [ Bufs -> Int ]
  OBVIOUS
<1> HIDE DEF rec, G
<1>7. /\ Fields(G) /\ G.disk = W.disk /\ G.at = W.at /\ G.buf = W.buf /\ G.rec = rec
      /\ G.dirty = W.dirty /\ G.age = W.age /\ G.cur = W.cur /\ G.bytepos = W.bytepos
      /\ G.io_pos = W.io_pos /\ G.filesize = W.filesize /\ G.logfilesize = W.logfilesize
  BY <1>4 DEF Fields, G
<1>8. W.disk = Slice(W.disk, 0, W.filesize)
  <2>1. \A i \in 1 .. W.filesize : 0 + i = i
    BY <1>4
  <2> QED
    BY <1>4, <2>1 DEF Slice, IsSequence
<1>9. AtPlace(G)
  BY <1>1, <1>7 DEF Coh, AtPlace
<1>10. Coh(G)
  <2> DEFINE size == W.filesize
  <2>1. /\ size \in Nat /\ size = Recs(size) * IOBUFLEN /\ size <= W.filesize
        /\ G.disk = Slice(W.disk, 0, size) /\ G.filesize = size /\ G.logfilesize = size
    <3>1. size \in Nat /\ size <= W.filesize
      BY <1>4
    <3>2. size = Recs(size) * IOBUFLEN
      BY <1>4
    <3>3. G.disk = Slice(W.disk, 0, size) /\ G.filesize = size /\ G.logfilesize = size
      BY <1>1, <1>7, <1>8
    <3> QED
      BY <3>1, <3>2, <3>3
  <2> HIDE DEF size
  <2> QED
    BY <1>1, <1>4, <1>5, <1>6, <1>7, <1>9, <2>1, CutKeeps
<1>11. Open(G) /\ G.filesize = G.logfilesize
  BY <1>1, <1>3, <1>7, <1>10 DEF Open
<1> QED
  BY <1>1, <1>2, <1>3, <1>11

LEMMA fftrunKeeps ==
  ASSUME NEW F, Open(F), NEW size \in Nat, size % IOBUFLEN = 0, size \in 1 .. F.logfilesize - 1
  PROVE  Open(fftrun(F, size))
<1> DEFINE W == ffflushx(WriteBack(F, Nat))
           C == [ W EXCEPT !.filesize = size, !.io_pos = size, !.logfilesize = size,
                           !.bytepos = size ]
           rec == [ n \in Bufs |-> IF Start(C, n) >= C.filesize THEN -1 ELSE C.rec[n] ]
           T == [ C EXCEPT !.rec = rec ]
           disk == Slice(T.disk, 0, size)
           D == [ T EXCEPT !.disk = disk, !.at = size ]
           os == [ file |-> D.disk, from |-> size, past |-> D.os.past \cup Kept(T) ]
           G == [ D EXCEPT !.os = os ]
<1>1. fftrun(F, size) = G
  BY DEF fftrun, ffflsh, ffbfeof
<1> HIDE DEF os
<1>2. /\ Coh(W) /\ Flushed(F, W) /\ (\A n \in Bufs : ~ W.dirty[n])
      /\ W.filesize = W.logfilesize
  BY AllFlushed DEF Open
<1> HIDE DEF W
<1>3. Fields(W) /\ W.rec \in [ Bufs -> Int ] /\ F.logfilesize \in Nat /\ W.logfilesize = F.logfilesize
  BY <1>2 DEF Coh, Body, Typed, Flushed, SameBuffers, Open, Sizes
<1>4. /\ Fields(C) /\ C.disk = W.disk /\ C.at = W.at /\ C.buf = W.buf /\ C.rec = W.rec
      /\ C.dirty = W.dirty /\ C.age = W.age /\ C.cur = W.cur /\ C.bytepos = size
      /\ C.io_pos = size /\ C.filesize = size /\ C.logfilesize = size
  <2>1. C = [ W EXCEPT !.filesize = size, !.io_pos = size, !.logfilesize = size,
                       !.bytepos = size ]
    OBVIOUS
  <2> HIDE DEF C
  <2> QED
    BY <1>3, <2>1 DEF Fields
<1> HIDE DEF C, rec
<1>5. /\ Fields(T) /\ T.disk = C.disk /\ T.at = C.at /\ T.buf = C.buf /\ T.rec = rec
      /\ T.dirty = C.dirty /\ T.age = C.age /\ T.cur = C.cur /\ T.bytepos = C.bytepos
      /\ T.io_pos = C.io_pos /\ T.filesize = C.filesize /\ T.logfilesize = C.logfilesize
  BY <1>4 DEF Fields
<1> HIDE DEF T, disk
<1>6. /\ Fields(G) /\ G.disk = disk /\ G.at = size /\ G.buf = T.buf /\ G.rec = T.rec
      /\ G.dirty = T.dirty /\ G.age = T.age /\ G.cur = T.cur /\ G.bytepos = T.bytepos
      /\ G.io_pos = T.io_pos /\ G.filesize = T.filesize /\ G.logfilesize = T.logfilesize
  <2>1. G = [ [ T EXCEPT !.disk = disk, !.at = size ] EXCEPT !.os = os ]
    OBVIOUS
  <2> HIDE DEF G
  <2> QED
    BY <1>5, <2>1 DEF Fields
<1> HIDE DEF G
<1>7. size = Recs(size) * IOBUFLEN /\ Recs(size) \in Int /\ 1 <= Recs(size)
  <2>1. size = (size \div IOBUFLEN) * IOBUFLEN
    BY BufferSizes
  <2>2. Recs(size) \in Int /\ Recs(size) >= 0
    BY RecordOf
  <2>3. size >= 1
    OBVIOUS
  <2>4. 0 * IOBUFLEN = 0
    BY BufferSizes
  <2>5. Recs(size) # 0
    <3>1. Recs(size) = 0 => Recs(size) * IOBUFLEN = 0
      BY <2>4
    <3> QED
      BY <2>1, <2>3, <3>1 DEF Recs
  <2> QED
    BY <2>1, <2>2, <2>5 DEF Recs
<1>8. ASSUME NEW n \in Bufs
      PROVE  /\ G.rec[n] \in Int
             /\ \/ G.rec[n] = -1
                \/ G.rec[n] = W.rec[n] /\ (G.rec[n] >= 0 => G.rec[n] < Recs(size))
  <2> DEFINE r == W.rec[n]
  <2>1. r \in Int /\ r * IOBUFLEN \in Int
    BY <1>3, Records
  <2>2. G.rec[n] = IF r * IOBUFLEN >= size THEN -1 ELSE r
    BY <1>4, <1>5, <1>6 DEF rec, Start
  <2>3. ~ (r * IOBUFLEN >= size) => r < Recs(size)
    <3>1. ~ (r * IOBUFLEN >= size) => r * IOBUFLEN < Recs(size) * IOBUFLEN
      <4> DEFINE x == r * IOBUFLEN
                 y == Recs(size) * IOBUFLEN
      <4>1. x \in Int /\ y = size
        BY <1>7, <2>1
      <4> HIDE DEF x, y
      <4>2. ~ (x >= size) => x < y
        BY <4>1
      <4> QED
        BY <4>2 DEF x, y
    <3> QED
      BY <1>7, <2>1, <3>1, RecordsOrdered
  <2> HIDE DEF r
  <2>4. CASE r * IOBUFLEN >= size
    BY <2>2, <2>4
  <2>5. CASE ~ (r * IOBUFLEN >= size)
    BY <2>1, <2>2, <2>3, <2>5 DEF r
  <2> QED
    BY <2>4, <2>5
<1>9. G.rec \in [ Bufs -> Int ]
  <2>1. G.rec = [ n \in Bufs |-> G.rec[n] ]
    BY <1>5, <1>6 DEF rec
  <2> QED
    BY <1>8, <2>1
<1>10. AtPlace(G) /\ G.disk = Slice(W.disk, 0, size)
  BY <1>4, <1>5, <1>6 DEF AtPlace, disk
<1>11. size <= W.filesize
  BY <1>2, <1>3
<1>12. /\ G.filesize = size /\ G.logfilesize = size /\ G.at \in Int /\ G.io_pos \in Int
       /\ G.bytepos \in Int /\ G.buf = W.buf /\ G.dirty = W.dirty /\ G.age = W.age
       /\ G.cur = W.cur
  BY <1>4, <1>5, <1>6
<1>13. Coh(G)
  BY <1>2, <1>6, <1>7, <1>8, <1>9, <1>10, <1>11, <1>12, CutKeeps
<1>14. Open(G)
  BY <1>2, <1>7, <1>12, <1>13 DEF Open, Flushed, SameBuffers
<1> QED
  BY <1>1, <1>14

\* A file of no records is created; one of some is opened.
LEMMA OpenFileKeeps ==
  ASSUME NEW disk, IsSequence(disk), Len(disk) = Recs(Len(disk)) * IOBUFLEN, NEW err_mode,
         err_mode = REPORT_EOF => 1 <= Recs(Len(disk))
  PROVE  Open(OpenFile(disk, err_mode))
<1> DEFINE buf == [ n \in Bufs |-> Blank(IOBUFLEN) ]
           rec == [ n \in Bufs |-> -1 ]
           dirty == [ n \in Bufs |-> FALSE ]
           age == [ i \in 1 .. NIOBUF |-> i - 1 ]
           size == Len(disk)
           os == [ file |-> disk, from |-> 0, past |-> {} ]
           F == [ disk |-> disk, at |-> 0, os |-> os, buf |-> buf, rec |-> rec, dirty |-> dirty,
                  age |-> age, cur |-> -1, bytepos |-> 0, io_pos |-> 0, filesize |-> size,
                  logfilesize |-> size, status |-> 0 ]
           G == ffldrc(F, 0, err_mode)
<1>1. OpenFile(disk, err_mode) = G
  BY DEF OpenFile
<1>2. size \in Nat /\ size \in Int /\ size >= 0
  BY DEF IsSequence
<1>3. Recs(size) \in Int /\ Recs(size) >= 0
  BY <1>2, RecordOf
<1>4. \A n \in Bufs : rec[n] = -1 /\ dirty[n] = FALSE
  OBVIOUS
<1>5. buf = [ n \in Bufs |-> buf[n] ] /\ rec \in [ Bufs -> Int ] /\ dirty \in [ Bufs -> BOOLEAN ]
  OBVIOUS
<1>6. age \in [ 1 .. NIOBUF -> Bufs ] /\ \A n \in Bufs : \E i \in 1 .. NIOBUF : age[i] = n
  <2>1. age \in [ 1 .. NIOBUF -> Bufs ]
    BY BufferSizes DEF Bufs
  <2>2. ASSUME NEW n \in Bufs
        PROVE  \E i \in 1 .. NIOBUF : age[i] = n
    <3>1. n + 1 \in 1 .. NIOBUF /\ (n + 1) - 1 = n
      BY BufferSizes DEF Bufs
    <3>2. age[n+1] = n
      BY <3>1
    <3> QED
      BY <3>1, <3>2
  <2> QED
    BY <2>1, <2>2
<1> HIDE DEF buf, rec, dirty, age, size, os, F
<1>7. /\ Fields(F) /\ F.disk = disk /\ F.at = 0 /\ F.buf = buf /\ F.rec = rec /\ F.dirty = dirty
      /\ F.age = age /\ F.cur = -1 /\ F.bytepos = 0 /\ F.io_pos = 0 /\ F.filesize = size
      /\ F.logfilesize = size /\ F.status = 0
  BY DEF F, Fields
<1>8. Coh(F)
  <2>1. Typed(F)
    <3>1. 0 \in Int
      OBVIOUS
    <3> QED
      BY <1>5, <1>6, <1>7, <3>1 DEF Typed
  <2>2. Alone(F) /\ Whole(F) /\ DirtyInFile(F) /\ CleanOnDisk(F)
    <3>1. \A n \in Bufs : ~ (F.rec[n] >= 0) /\ ~ F.dirty[n]
      BY <1>4, <1>7
    <3> QED
      BY <3>1 DEF Alone, Whole, DirtyInFile, CleanOnDisk
  <2>3. Sizes(F)
    BY <1>2, <1>3, <1>7 DEF Sizes, size
  <2>4. LastDirty(F) /\ AtPlace(F)
    BY <1>3, <1>7 DEF LastDirty, AtPlace
  <2> QED
    BY <2>1, <2>2, <2>3, <2>4 DEF Coh, Body
<1>9. 0 \in Int /\ 0 * IOBUFLEN = 0
  BY BufferSizes
<1>10. /\ Coh(G) /\ F.logfilesize \in Int /\ F.logfilesize <= G.logfilesize
       /\ \/ G.cur \in Bufs /\ G.rec[G.cur] = 0 /\ G.status = F.status
          \/ err_mode = REPORT_EOF /\ G.status # 0 /\ 0 * IOBUFLEN >= F.logfilesize
  BY <1>8, <1>9, ffldrcKeeps
<1>11. ~ (err_mode = REPORT_EOF /\ 0 * IOBUFLEN >= F.logfilesize)
  <2> SUFFICES ASSUME err_mode = REPORT_EOF, 0 >= size
               PROVE  FALSE
    BY <1>7, <1>9
  <2>1. 1 <= Recs(size)
    BY DEF size
  <2>2. Recs(0 * IOBUFLEN) = 0
    BY <1>9, Records
  <2>3. size = 0
    BY <1>2
  <2> QED
    BY <1>9, <2>1, <2>2, <2>3
<1> HIDE DEF G
<1>12. G.cur \in Bufs /\ G.rec[G.cur] = 0
  BY <1>10, <1>11
<1>13. 1 <= Recs(G.logfilesize)
  <2>1. /\ G.logfilesize \in Int /\ G.filesize \in Int /\ Recs(G.filesize) <= Recs(G.logfilesize)
    BY <1>10 DEF Coh, Body, Sizes
  <2>2. Recs(G.logfilesize) \in Int /\ Recs(G.filesize) \in Int
    BY <2>1, RecordOf
  <2>3. CASE G.dirty[G.cur]
    <3>1. 0 < Recs(G.logfilesize)
      BY <1>10, <1>12, <2>3 DEF Coh, Body, DirtyInFile
    <3> QED
      BY <2>2, <3>1
  <2>4. CASE ~ G.dirty[G.cur]
    <3>1. 0 < Recs(G.filesize)
      BY <1>10, <1>12, <2>4 DEF Coh, Body, CleanOnDisk
    <3> QED
      BY <2>1, <2>2, <3>1
  <2> QED
    BY <2>3, <2>4
<1>14. Open(G)
  BY <1>10, <1>12, <1>13 DEF Open
<1> QED
  BY <1>1, <1>14

----------------------------------------------------------------------------
(* The actions.                                                            *)

\* A call returns, or the program dies in it and another finds whole records.
LEMMA ReturnsKeeps ==
  ASSUME NEW F, Open(F), NEW returned, Returns(F, returned)
  PROVE  Open(Fptr')
<1>1. CASE Fptr' = [ F EXCEPT !.status = 0, !.os.past = {} ]
  <2> DEFINE S == [ F EXCEPT !.status = 0 ]
             os == [ S.os EXCEPT !.past = {} ]
  <2>1. Open(S)
    BY StatusKeeps
  <2>2. Fptr' = [ S EXCEPT !.os = os ]
    BY <1>1
  <2> HIDE DEF S, os
  <2> QED
    BY <2>1, <2>2, OsKeeps
<1>2. ASSUME NEW file, NEW records \in 1 .. F.logfilesize \div IOBUFLEN,
             Fptr' = Reopened(Slice(file, 0, records * IOBUFLEN))
      PROVE  Open(Fptr')
  <2> DEFINE disk == Slice(file, 0, records * IOBUFLEN)
             O == OpenFile(disk, REPORT_EOF)
             os == [ O.os EXCEPT !.past = {} ]
  <2>1. F.logfilesize \in Int
    BY DEF Open, Coh, Body, Sizes
  <2>2. records \in Nat /\ records \in Int /\ 1 <= records
    BY <2>1, BufferSizes
  <2>3. records * IOBUFLEN \in Nat /\ Recs(records * IOBUFLEN) = records
    BY <2>2, Records, RecordStart
  <2>4. IsSequence(disk) /\ Len(disk) = records * IOBUFLEN
    BY <2>3, SliceIs
  <2> HIDE DEF disk
  <2>5. Len(disk) = Recs(Len(disk)) * IOBUFLEN /\ 1 <= Recs(Len(disk))
    BY <2>2, <2>3, <2>4
  <2>6. Open(O)
    BY <2>4, <2>5, OpenFileKeeps
  <2>7. Fptr' = [ O EXCEPT !.os = os ]
    BY <1>2 DEF Reopened, disk
  <2> HIDE DEF O, os
  <2> QED
    BY <2>6, <2>7, OsKeeps
<1> QED
  BY <1>1, <1>2 DEF Returns

LEMMA EmptyDisk ==
  IsSequence(<<>>) /\ Len(<<>>) = 0 /\ Recs(0) = 0 /\ 0 * IOBUFLEN = 0
<1>1. IsSequence(<<>>) /\ Len(<<>>) = 0
  BY DEF IsSequence
<1>2. Recs(0) = 0 /\ 0 * IOBUFLEN = 0
  BY BufferSizes DEF Recs
<1> QED
  BY <1>1, <1>2

LEMMA MoveKeeps ==
  ASSUME IInv, NEW req \in Requests, NEW err_mode, Move(req, err_mode)
  PROVE  IInv'
<1>1. Open(Fptr) /\ req.pos \in Int
  BY RequestsAssumption DEF IInv
<1>2. Open(ffmbyt(Fptr, req.pos, err_mode))
  BY <1>1, ffmbytKeeps
<1>3. Open(Fptr')
  BY <1>2, ReturnsKeeps DEF Move
<1> QED
  BY <1>3 DEF IInv

LEMMA PutAtKeeps ==
  ASSUME IInv, NEW req \in Requests, NEW data \in Data, PutAt(req, data)
  PROVE  IInv'
<1> DEFINE M == ffmbyt(Fptr, req.pos, IGNORE_EOF)
           P == IF req.n = 1 THEN ffpbyt(M, data) ELSE ffpbytoff(M, req, data)
<1>1. /\ Open(Fptr) /\ req.pos \in Nat /\ req.pos \in Int /\ req.pos >= 0
      /\ req.n \in Nat /\ req.gsize \in Nat /\ req.offset \in Int
      /\ req.n # 1 => req.gsize <= IOBUFLEN
  BY RequestsAssumption DEF IInv
<1>2. req.offset >= 0 /\ \E returned : Returns(P, returned)
  BY DEF PutAt
<1>3. IsSequence(data)
  BY DataAssumption DEF IsSequence
<1>4. /\ Open(M)
      /\ M.status = 0 => /\ M.bytepos = req.pos /\ M.rec[M.cur] = Recs(req.pos)
                         /\ Room(M) \in 1 .. IOBUFLEN
  BY <1>1, ffmbytKeeps
<1>5. M.status = 0 => /\ M.rec[M.cur] >= 0 /\ M.bytepos \in Nat
                      /\ Room(M) \in 1 .. IOBUFLEN /\ Room(M) \in 0 .. IOBUFLEN
  <2>1. Recs(req.pos) >= 0
    BY <1>1, RecordOf
  <2>2. 1 .. IOBUFLEN \subseteq 0 .. IOBUFLEN
    BY BufferSizes
  <2> QED
    BY <1>1, <1>4, <2>1, <2>2
<1> HIDE DEF M
<1>6. Open(P)
  <2>1. CASE req.n = 1
    BY <1>3, <1>4, <1>5, <2>1, ffpbytKeeps
  <2>2. CASE req.n # 1
    BY <1>1, <1>2, <1>4, <1>5, <2>2, ffpbytoffKeeps
  <2> QED
    BY <2>1, <2>2
<1>7. Open(Fptr')
  BY <1>2, <1>6, ReturnsKeeps
<1> QED
  BY <1>7 DEF IInv

LEMMA PutOnKeeps ==
  ASSUME IInv, NEW req \in Requests, NEW data \in Data, PutOn(req, data)
  PROVE  IInv'
<1>1. Open(Fptr) /\ req.pos \in Nat
  BY RequestsAssumption DEF IInv
<1>2. /\ req.pos = Fptr.bytepos /\ Room(Fptr) \in 0 .. IOBUFLEN /\ Fptr.rec[Fptr.cur] >= 0
      /\ \E returned : Returns(ffpbyt(Fptr, data), returned)
  BY DEF PutOn
<1>3. IsSequence(data)
  BY DataAssumption DEF IsSequence
<1>4. Open(ffpbyt(Fptr, data))
  BY <1>1, <1>2, <1>3, ffpbytKeeps
<1>5. Open(Fptr')
  BY <1>2, <1>4, ReturnsKeeps
<1> QED
  BY <1>5 DEF IInv

LEMMA GetAtKeeps ==
  ASSUME IInv, NEW req \in Requests, GetAt(req)
  PROVE  IInv'
<1>1. /\ Open(Fptr) /\ req.pos \in Int /\ req.n \in Nat /\ req.gsize \in Nat
      /\ req.offset \in Int
  BY RequestsAssumption DEF IInv
<1>2. Open(Got(req).F)
  <2>1. CASE req.n = 1
    BY <1>1, <2>1, ffgi1bKeeps DEF Got
  <2>2. CASE req.n # 1
    <3>1. Open(ffmbyt(Fptr, req.pos, REPORT_EOF))
      BY <1>1, ffmbytKeeps
    <3> QED
      BY <1>1, <2>2, <3>1, ffgbytoffKeeps DEF Got
  <2> QED
    BY <2>1, <2>2
<1>3. Open(Fptr')
  BY <1>2, ReturnsKeeps DEF GetAt
<1> QED
  BY <1>3 DEF IInv

LEMMA FlushKeeps ==
  ASSUME IInv, NEW clearbuf, Flush(clearbuf)
  PROVE  IInv'
<1>1. Open(ffflsh(Fptr, clearbuf))
  BY ffflshKeeps DEF IInv
<1>2. Open(Fptr')
  BY <1>1, ReturnsKeeps DEF Flush
<1> QED
  BY <1>2 DEF IInv

LEMMA TruncateKeeps ==
  ASSUME IInv, NEW req \in Requests, Truncate(req)
  PROVE  IInv'
<1>1. /\ Open(Fptr) /\ req.pos \in Nat /\ req.pos % IOBUFLEN = 0
      /\ req.pos \in 1 .. Fptr.logfilesize - 1
  BY RequestsAssumption DEF IInv, Truncate
<1>2. Open(fftrun(Fptr, req.pos))
  BY <1>1, fftrunKeeps
<1>3. Open(Fptr')
  BY <1>2, ReturnsKeeps DEF Truncate
<1> QED
  BY <1>3 DEF IInv

LEMMA ReopenKeeps ==
  ASSUME IInv, Reopen
  PROVE  IInv'
<1> DEFINE F == ffflsh(Fptr, TRUE)
<1>1. Open(F) /\ F.filesize = F.logfilesize
  BY ffflshKeeps DEF IInv
<1> HIDE DEF F
<1>2. /\ IsSequence(F.disk) /\ Len(F.disk) = Recs(Len(F.disk)) * IOBUFLEN
      /\ 1 <= Recs(Len(F.disk))
  <2>1. IsSequence(F.disk)
    BY <1>1 DEF Open, Coh, Body, Typed
  <2>2. F.filesize = Len(F.disk) /\ F.filesize = Recs(F.filesize) * IOBUFLEN
    BY <1>1 DEF Open, Coh, Body, Sizes
  <2>3. 1 <= Recs(F.filesize)
    BY <1>1 DEF Open
  <2> QED
    BY <2>1, <2>2, <2>3
<1>3. Open(OpenFile(F.disk, REPORT_EOF))
  BY <1>2, OpenFileKeeps
<1>4. Open(Fptr')
  BY <1>3, ReturnsKeeps DEF Reopen, F
<1> QED
  BY <1>4 DEF IInv

----------------------------------------------------------------------------
(* The theorem.                                                            *)

LEMMA InitCoherent == Init => IInv
<1> SUFFICES ASSUME Init
             PROVE  IInv
  OBVIOUS
<1>1. Fptr = OpenFile(<<>>, IGNORE_EOF)
  BY DEF Init
<1>2. Len(<<>>) = Recs(Len(<<>>)) * IOBUFLEN /\ IsSequence(<<>>) /\ IGNORE_EOF # REPORT_EOF
  BY EmptyDisk DEF IGNORE_EOF, REPORT_EOF
<1>3. Open(OpenFile(<<>>, IGNORE_EOF))
  BY <1>2, OpenFileKeeps
<1> QED
  BY <1>1, <1>3 DEF IInv

LEMMA NextCoherent == IInv /\ [Next]_vars => IInv'
<1> SUFFICES ASSUME IInv, [Next]_vars
             PROVE  IInv'
  OBVIOUS
<1>1. CASE \E req \in Requests, err_mode \in { REPORT_EOF, IGNORE_EOF } : Move(req, err_mode)
  BY <1>1, MoveKeeps
<1>2. CASE \E req \in Requests, data \in Data : PutAt(req, data)
  BY <1>2, PutAtKeeps
<1>3. CASE \E req \in Requests, data \in Data : PutOn(req, data)
  BY <1>3, PutOnKeeps
<1>4. CASE \E req \in Requests : GetAt(req)
  BY <1>4, GetAtKeeps
<1>5. CASE \E req \in Requests : Truncate(req)
  BY <1>5, TruncateKeeps
<1>6. CASE \E clearbuf \in BOOLEAN : Flush(clearbuf)
  BY <1>6, FlushKeeps
<1>7. CASE Reopen
  BY <1>7, ReopenKeeps
<1>8. CASE UNCHANGED vars
  <2>1. Fptr' = Fptr
    BY <1>8 DEF vars
  <2>2. Open(Fptr')
    BY <2>1 DEF IInv
  <2> QED
    BY <2>2 DEF IInv
<1> QED
  BY <1>1, <1>2, <1>3, <1>4, <1>5, <1>6, <1>7, <1>8 DEF Next

LEMMA OpenCoherent == IInv => BuffersCoherent
<1> SUFFICES ASSUME IInv
             PROVE  BuffersCoherent
  OBVIOUS
<1>1. /\ Typed(Fptr) /\ Alone(Fptr) /\ DirtyInFile(Fptr) /\ CleanOnDisk(Fptr) /\ Sizes(Fptr)
      /\ LastDirty(Fptr) /\ AtPlace(Fptr)
  BY DEF IInv, Open, Coh, Body
<1>2. /\ Fptr.filesize \in Int /\ Fptr.logfilesize \in Int
      /\ Fptr.filesize = Recs(Fptr.filesize) * IOBUFLEN
      /\ Fptr.logfilesize = Recs(Fptr.logfilesize) * IOBUFLEN
      /\ Recs(Fptr.filesize) <= Recs(Fptr.logfilesize)
      /\ Recs(Fptr.filesize) \in Int /\ Recs(Fptr.logfilesize) \in Int
  <2>1. /\ Fptr.filesize \in Int /\ Fptr.logfilesize \in Int
        /\ Fptr.filesize = Recs(Fptr.filesize) * IOBUFLEN
        /\ Fptr.logfilesize = Recs(Fptr.logfilesize) * IOBUFLEN
        /\ Recs(Fptr.filesize) <= Recs(Fptr.logfilesize)
    BY <1>1 DEF Sizes
  <2> QED
    BY <2>1, RecordOf
<1>3. { Fptr.age[i] : i \in 1 .. NIOBUF } = Bufs /\ Len(Fptr.age) = NIOBUF
  <2>1. /\ Fptr.age \in [ 1 .. NIOBUF -> Bufs ]
        /\ \A n \in Bufs : \E i \in 1 .. NIOBUF : Fptr.age[i] = n
    BY <1>1 DEF Typed
  <2>2. { Fptr.age[i] : i \in 1 .. NIOBUF } = Bufs
    BY <2>1
  <2>3. Fptr.age = [ i \in 1 .. NIOBUF |-> Fptr.age[i] ] /\ NIOBUF \in Nat
    BY <2>1, BufferSizes
  <2> QED
    BY <2>2, <2>3, FunctionIsSequence
<1>4. \A m, n \in Bufs : Fptr.rec[m] = Fptr.rec[n] /\ Fptr.rec[m] >= 0 => m = n
  BY <1>1 DEF Alone
<1>5. \A n \in Bufs : Fptr.dirty[n] => Fptr.rec[n] \in 0 .. Fptr.logfilesize \div IOBUFLEN - 1
  <2> SUFFICES ASSUME NEW n \in Bufs, Fptr.dirty[n]
               PROVE  Fptr.rec[n] \in 0 .. Recs(Fptr.logfilesize) - 1
    BY DEF Recs
  <2>1. Fptr.rec[n] \in Int /\ 0 <= Fptr.rec[n] /\ Fptr.rec[n] < Recs(Fptr.logfilesize)
    BY <1>1 DEF DirtyInFile
  <2> QED
    BY <1>2, <2>1
<1>6. \A n \in Bufs : Fptr.rec[n] >= 0 /\ ~ Fptr.dirty[n] =>
        Fptr.buf[n] = Slice(Fptr.disk, Start(Fptr, n), IOBUFLEN)
  BY <1>1 DEF CleanOnDisk
<1>7. Fptr.filesize = Len(Fptr.disk) /\ Fptr.filesize <= Fptr.logfilesize
  <2>1. Fptr.filesize <= Fptr.logfilesize
    BY <1>2, RecsOrdered
  <2> QED
    BY <1>1, <2>1 DEF Sizes
<1>8. Fptr.io_pos <= Fptr.filesize => Fptr.at = Fptr.io_pos
  BY <1>1 DEF AtPlace
<1>9. (\A n \in Bufs : ~ Fptr.dirty[n]) => Fptr.filesize = Fptr.logfilesize
  <2> SUFFICES ASSUME \A n \in Bufs : ~ Fptr.dirty[n]
               PROVE  Fptr.filesize = Fptr.logfilesize
    OBVIOUS
  <2>1. ~ (Recs(Fptr.filesize) < Recs(Fptr.logfilesize))
    BY <1>1 DEF LastDirty
  <2>2. Recs(Fptr.filesize) = Recs(Fptr.logfilesize)
    BY <1>2, <2>1
  <2> QED
    BY <1>2, <2>2
<1> QED
  BY <1>3, <1>4, <1>5, <1>6, <1>7, <1>8, <1>9 DEF BuffersCoherent

\* Whatever the buffers and the requests, and wherever programs die, the
\* library's picture of the file is the file: no two buffers hold a record, what
\* is not dirty is on disk, the sizes and the position are those of the file
\* (buffers.c).
THEOREM Coherent == Spec => [](IInv /\ BuffersCoherent)
<1>1. Init => IInv
  BY InitCoherent
<1>2. IInv /\ [Next]_vars => IInv'
  BY NextCoherent
<1>3. IInv => BuffersCoherent
  BY OpenCoherent
<1> QED
  BY <1>1, <1>2, <1>3, PTL DEF Spec

=============================================================================
