------------------------------ MODULE RiceCodec -----------------------------
(***************************************************************************)
(* The Rice coding of a tile of a compressed image, or of a column of a    *)
(* compressed table (src/c_src/cfitsio/ricecomp.c): fits_rcomp_byte and    *)
(* fits_rcomp_short write the differences of adjacent pixels, block by     *)
(* block, as bits of a varying number; fits_rdecomp_byte and               *)
(* fits_rdecomp_short read them back.  A tile is compressed and then       *)
(* decompressed, a block per step.                                         *)
(*                                                                         *)
(* The bit buffers, the bytes that move in and out of them and the widths  *)
(* of pixels are exact.  x<<n is x * 2^n, and x|y of disjoint bits x + y.  *)
(* The functions of 4-byte pixels have the same shape, with numbers that   *)
(* are too large for the checker.                                          *)
(***************************************************************************)
EXTENDS Integers, Sequences, SequencesExt, FiniteSetsExt

CONSTANT Tiles    \* what is compressed: pixels, their size in bytes, nblock

Signed(bytepix) == -(2^(8*bytepix - 1)) .. 2^(8*bytepix - 1) - 1

ASSUME TilesAssumption ==
  \A t \in Tiles : /\ t.bytepix \in { 1, 2 } /\ t.nblock \in Nat \ {0}
                   /\ t.a \in Seq(Signed(t.bytepix)) /\ t.a # << >>

VARIABLES tile,     \* a, bytepix, nblock
          status    \* "compressing", "decompressing", "done" or "failed"
VARIABLES i,        \* the pixels that are done
          buffer,   \* of the compression: bitbuffer, bits_to_go, c: the output
          input,    \* of the decompression: b, nbits, c: the bytes taken
          array     \* the pixels decompressed

vars == << tile, status, i, buffer, input, array >>

nx     == Len(tile.a)
bbits  == 8 * tile.bytepix
fsbits == IF tile.bytepix = 1 THEN 3 ELSE 4
fsmax  == IF tile.bytepix = 1 THEN 6 ELSE 14
imax   == IF i + tile.nblock > nx THEN nx ELSE i + tile.nblock

Bits(n) == CHOOSE k \in 0 .. 16 : n < 2^k /\ (k > 0 => n >= 2^(k-1))

----------------------------------------------------------------------------
(* Compression.                                                            *)

\* Bits above the eight that are still to be put out have been put out before.
Shifted(bitbuffer, n) == (bitbuffer % 2^8) * 2^n

\* while (lbits_to_go <= 0): the bytes that are full are put out.
Full(buf) ==
  LET k == IF buf.bits_to_go > 0 THEN 0 ELSE ((-buf.bits_to_go) \div 8) + 1
  IN  [ buf EXCEPT !.bits_to_go = @ + 8 * k,
          !.c = @ \o [ m \in 1 .. k |->
                         (buf.bitbuffer \div 2^(-buf.bits_to_go - 8 * (m - 1))) % 2^8 ] ]

output_nbits(buf, bits, n) ==
  Full([ buf EXCEPT !.bitbuffer = Shifted(@, n) + (bits % 2^n), !.bits_to_go = @ - n ])

\* Mutant of Unary: the bits of the last byte are counted from eight.
UnaryFromEight(buf, top) ==
  IF buf.bits_to_go >= top + 1
  THEN [ buf EXCEPT !.bitbuffer = Shifted(@, top + 1) + 1, !.bits_to_go = @ - (top + 1) ]
  ELSE LET left == top - buf.bits_to_go
       IN  [ bitbuffer |-> 1, bits_to_go |-> 8 - (left % 8),
             c |-> Append(buf.c, Shifted(buf.bitbuffer, buf.bits_to_go) % 2^8)
                   \o [ m \in 1 .. left \div 8 |-> 0 ] ]

\* top zeros and a one; a byte that is filled up by them may stay, with no bits
\* to go in it.
Unary(buf, top) ==
  IF buf.bits_to_go >= top + 1
  THEN [ buf EXCEPT !.bitbuffer = Shifted(@, top + 1) + 1, !.bits_to_go = @ - (top + 1) ]
  ELSE LET left == top - buf.bits_to_go
       IN  [ bitbuffer |-> 1, bits_to_go |-> 7 - (left % 8),
             c |-> Append(buf.c, Shifted(buf.bitbuffer, buf.bits_to_go) % 2^8)
                   \o [ m \in 1 .. left \div 8 |-> 0 ] ]

Coded(buf, v, n) ==
  LET high == Unary(buf, v \div 2^n)
  IN  IF n > 0 THEN output_nbits(high, v, n) ELSE high

\* The differences of a block, in the width of a pixel, mapped to 0, 1, 2, ...
diff ==
  [ j \in 1 .. imax - i |->
      LET prev  == IF i + j = 1 THEN tile.a[1] ELSE tile.a[i + j - 1]
          pdiff == ((tile.a[i + j] - prev + 2^(bbits - 1)) % 2^bbits) - 2^(bbits - 1)
      IN  IF pdiff < 0 THEN -2 * pdiff - 1 ELSE 2 * pdiff ]

pixelsum == FoldLeft(+, 0, diff)

\* How many bits are split off, from the mean of the differences.
split ==
  LET over  == pixelsum - (Len(diff) \div 2) - 1
      dpsum == IF over < 0 THEN 0 ELSE over \div Len(diff)
  IN  Bits(dpsum \div 2)

Init == /\ tile \in Tiles /\ status = "compressing"
        /\ i = 0 /\ array = << >>
        /\ buffer = output_nbits([ bitbuffer |-> 0, bits_to_go |-> 8, c |-> << >> ],
                                 tile.a[1] % 2^bbits, bbits)
        /\ input = [ b |-> 0, nbits |-> 0, c |-> 0 ]

\* The length of the output's buffer: as fits_compress_table has it twice the
\* bytes of the column, and as imcomp_calc_max_elem has it for the tile of an
\* image; the smaller of both.
clen == Min({ 2 * tile.bytepix * nx,
              (IF tile.bytepix = 2 THEN 2 ELSE 4) * nx + (nx \div tile.nblock) + 2 + 4 })

Compressing == /\ status = "compressing" /\ i < nx
               /\ i' = imax /\ UNCHANGED << tile, input, array >>

HighEntropy ==
  /\ Compressing /\ split >= fsmax
  /\ buffer' = FoldLeft(LAMBDA buf, v : output_nbits(buf, v, bbits),
                        output_nbits(buffer, fsmax + 1, fsbits), diff)
  /\ UNCHANGED status

LowEntropy ==
  /\ Compressing /\ split = 0 /\ pixelsum = 0
  /\ buffer' = output_nbits(buffer, 0, fsbits)
  /\ UNCHANGED status

\* Only here the end of the buffer is looked for, when it has been passed.
Normal ==
  /\ Compressing /\ split < fsmax /\ pixelsum # 0
  /\ buffer' = FoldLeft(LAMBDA buf, v : Coded(buf, v, split),
                        output_nbits(buffer, split + 1, fsbits), diff)
  /\ status' = IF Len(buffer'.c) > clen THEN "failed" ELSE status

\* The last bits are put out (done_outputing_bits), and the decompression takes
\* the first pixel and a byte of bits.
Compressed ==
  /\ status = "compressing" /\ i = nx
  /\ buffer' = IF buffer.bits_to_go < 8
               THEN [ buffer EXCEPT !.c = Append(@, Shifted(buffer.bitbuffer, buffer.bits_to_go) % 2^8) ]
               ELSE buffer
  /\ LET c == buffer'.c \o << 0 >>
     IN  input' = [ b |-> c[tile.bytepix + 1], nbits |-> 8, c |-> tile.bytepix + 1 ]
  /\ i' = 0 /\ status' = "decompressing"
  /\ UNCHANGED << tile, array >>

----------------------------------------------------------------------------
(* Decompression.                                                          *)

\* *c: past the end there may be anything.
At(c) == IF c < Len(buffer.c) THEN buffer.c[c + 1] ELSE 255

\* while (nbits < 0): so many bits are taken that nbits are left.
Filled(in) ==
  FoldLeft(LAMBDA p, m : [ b |-> p.b * 2^8 + At(p.c), nbits |-> p.nbits + 8, c |-> p.c + 1 ],
           in, [ m \in 1 .. (IF in.nbits < 0 THEN (7 - in.nbits) \div 8 ELSE 0) |-> m ])

Dropped(in) == [ in EXCEPT !.b = @ % 2^in.nbits ]

\* FS, or -1.
Field == Filled([ input EXCEPT !.nbits = @ - fsbits ])
fs    == (Field.b \div 2^Field.nbits) - 1

\* A difference undone, in the width of a pixel.
Pixel(prev, d) ==
  (prev + (IF d % 2 = 0 THEN d \div 2 ELSE (-(d \div 2)) - 1)) % 2^bbits

lastpix == IF array # << >> THEN array[Len(array)]
           ELSE At(0) * (IF tile.bytepix = 1 THEN 1 ELSE 2^8)
                + (IF tile.bytepix = 1 THEN 0 ELSE At(1))

\* A pixel coded directly: the bits that are left, whole bytes, and the first
\* bits of one more.
Direct(s) ==
  LET in    == s.in
      whole == (bbits - in.nbits) \div 8
      high  == FoldLeft(LAMBDA d, m : d * 2^8 + At(in.c + m - 1), in.b,
                        [ m \in 1 .. whole |-> m ])
      next  == At(in.c + whole)
      d     == IF in.nbits > 0 THEN high * 2^(8 - in.nbits) + (next \div 2^in.nbits) ELSE high
  IN  [ in    |-> IF in.nbits > 0
                  THEN [ in EXCEPT !.b = next % 2^in.nbits, !.c = @ + whole + 1 ]
                  ELSE [ in EXCEPT !.b = 0, !.c = @ + whole ],
        array |-> Append(s.array, Pixel(s.lastpix, d)),
        lastpix |-> Pixel(s.lastpix, d) ]

\* A pixel in Rice coding: the zeros up to the next one, and fs bits.
Rice(s) ==
  LET in    == s.in
      skip  == IF in.b # 0 THEN 0
               ELSE CHOOSE k \in 1 .. Len(buffer.c) + 1 :
                      At(in.c + k - 1) # 0 /\ \A m \in 1 .. k - 1 : At(in.c + m - 1) = 0
      b     == IF skip = 0 THEN in.b ELSE At(in.c + skip - 1)
      nzero == in.nbits + 8 * skip - Bits(b)
      rest  == Filled([ b |-> b - 2^(Bits(b) - 1), nbits |-> Bits(b) - 1 - fs, c |-> in.c + skip ])
      d     == nzero * 2^fs + (rest.b \div 2^rest.nbits)
  IN  [ in |-> Dropped(rest), array |-> Append(s.array, Pixel(s.lastpix, d)),
        lastpix |-> Pixel(s.lastpix, d) ]

Decompressing(Take(_)) ==
  /\ status = "decompressing" /\ i < nx
  /\ LET s == FoldLeft(LAMBDA p, j : Take(p),
                       [ in |-> Dropped(Field), array |-> array, lastpix |-> lastpix ],
                       [ j \in 1 .. imax - i |-> j ])
     IN  /\ input' = s.in /\ array' = s.array
         /\ status' = IF s.in.c > Len(buffer.c) THEN "failed" ELSE status
  /\ i' = imax
  /\ UNCHANGED << tile, buffer >>

ReadDirect == fs = fsmax /\ Decompressing(Direct)
ReadSame   == fs < 0 /\ Decompressing(LAMBDA s : [ s EXCEPT !.array = Append(@, s.lastpix) ])
ReadRice   == fs \notin { -1, fsmax } /\ Decompressing(Rice)

Decompressed ==
  /\ status = "decompressing" /\ i = nx
  /\ status' = "done"
  /\ UNCHANGED << tile, i, buffer, input, array >>

Finished == status \in { "done", "failed" } /\ UNCHANGED vars

Next == \/ HighEntropy \/ LowEntropy \/ Normal \/ Compressed
        \/ ReadDirect \/ ReadSame \/ ReadRice \/ Decompressed \/ Finished

Spec == Init /\ [][Next]_vars

----------------------------------------------------------------------------
(* Properties.                                                             *)

\* What was compressed comes back, with no byte missing at the end of it and
\* none unused; and the compression stays inside its output buffer in every
\* branch, also in those that never look where the buffer ends (output_nbits).
Lossless ==
  /\ status # "failed"
  /\ Len(buffer.c) <= clen /\ input.c <= Len(buffer.c)
  /\ status = "done" =>
       /\ array = [ k \in 1 .. nx |-> tile.a[k] % 2^bbits ]
       /\ input.c = Len(buffer.c)
=============================================================================
