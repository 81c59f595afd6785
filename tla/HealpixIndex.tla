---------------------------- MODULE HealpixIndex ----------------------------
(***************************************************************************)
(* The pixel numberings of HEALPix and the positions they stand for        *)
(* (T_Healpix_Base in Healpix_cxx/healpix_base.cc, Healpix_Tables).        *)
(*                                                                         *)
(* The sphere has 12 faces of nside * nside pixels.  A pixel is a place    *)
(* (face, ix, iy); its NEST number follows the hierarchy of quadrants, its *)
(* RING number counts along rings of equal latitude from the north pole,   *)
(* its Peano index follows a space-filling curve.                          *)
(*                                                                         *)
(* A base is a record: the fields of the C++ object that Set or SetNside   *)
(* computed from.  The member functions are operators on a base.  What the *)
(* C++ code computes in floating point is exact here: z = cos(theta) is    *)
(* given by the integer 3 * nside^2 * z, phi by a fraction of quarter      *)
(* turns.                                                                  *)
(***************************************************************************)
EXTENDS Integers, Sequences

\* Division of C++: towards zero.
quot(a, d) == IF a >= 0 THEN a \div d ELSE -((-a) \div d)

Smaller(a, b) == IF a <= b THEN a ELSE b
Abs(a) == IF a >= 0 THEN a ELSE -a

\* The largest n with n*n <= a.
isqrt(a) == CHOOSE n \in 0 .. a + 1 : n * n <= a /\ a < (n + 1) * (n + 1)

----------------------------------------------------------------------------
(* Bases.                                                                  *)

\* -1 if nside is not a power of 2; asserts nside > 0.
nside2order(nside) ==
  IF \E k \in 0 .. nside : nside = 2^k THEN CHOOSE k \in 0 .. nside : nside = 2^k
  ELSE -1

npix2nside(npix) == isqrt(npix \div 12)
npix2nsideAssert(npix) == npix = npix2nside(npix) * npix2nside(npix) * 12

Set(order, scheme) == [ order |-> order, nside |-> 2^order, scheme |-> scheme ]

SetNsideAssert(nside, scheme) == scheme = "NEST" => nside2order(nside) >= 0
SetNside(nside, scheme) ==
  [ order |-> nside2order(nside), nside |-> nside, scheme |-> scheme ]

npface(b) == b.nside * b.nside
ncap(b)   == 2 * (npface(b) - b.nside)
npix(b)   == 12 * npface(b)

Pixels(b) == 0 .. npix(b) - 1
Places(b) == [ face : 0 .. 11, ix : 0 .. b.nside - 1, iy : 0 .. b.nside - 1 ]

\* For each face: the ring, and the longitude in eighths of a turn, of its
\* southern corner.
jrll(face) == << 2,2,2,2, 3,3,3,3, 4,4,4,4 >>[face+1]
jpll(face) == << 1,3,5,7, 0,2,4,6, 1,3,5,7 >>[face+1]

----------------------------------------------------------------------------
(* NEST numbers.                                                           *)

\* Bit k of v moves to bit 2k, and back.
spread_bits[v \in Nat] == IF v = 0 THEN 0 ELSE 4 * spread_bits[v \div 2] + (v % 2)
compress_bits[v \in Nat] == IF v = 0 THEN 0 ELSE 2 * compress_bits[v \div 4] + (v % 2)

nest2xyf(b, pix) ==
  LET p == pix % npface(b)
  IN  [ face |-> pix \div npface(b), ix |-> compress_bits[p], iy |-> compress_bits[p \div 2] ]

xyf2nest(b, at) == at.face * npface(b) + spread_bits[at.ix] + 2 * spread_bits[at.iy]

----------------------------------------------------------------------------
(* Rings, numbered from 1 at the north pole, and RING numbers.             *)

get_ring_info_small(b, ring) ==
  IF ring < b.nside
  THEN [ startpix |-> 2 * ring * (ring - 1), ringpix |-> 4 * ring, shifted |-> TRUE ]
  ELSE IF ring < 3 * b.nside
  THEN [ startpix |-> ncap(b) + (ring - b.nside) * 4 * b.nside,
         ringpix  |-> 4 * b.nside, shifted |-> (ring - b.nside) % 2 = 0 ]
  ELSE LET nr == 4 * b.nside - ring
       IN  [ startpix |-> npix(b) - 2 * nr * (nr + 1), ringpix |-> 4 * nr,
             shifted |-> TRUE ]

\* Mutant of get_ring_info: a southern ring starts where its mirror image does.
get_ring_infoMirrored(b, ring) ==
  LET northring == IF ring > 2 * b.nside THEN 4 * b.nside - ring ELSE ring
      info == get_ring_info_small(b, northring)
  IN  [info EXCEPT !.startpix = IF northring # ring THEN npix(b) - @ ELSE @]

\* The same by mirroring the northern hemisphere.
get_ring_info(b, ring) ==
  LET northring == IF ring > 2 * b.nside THEN 4 * b.nside - ring ELSE ring
      cap == northring < b.nside
      ringpix == IF cap THEN 4 * northring ELSE 4 * b.nside
      north == IF cap THEN 2 * northring * (northring - 1)
               ELSE ncap(b) + (northring - b.nside) * ringpix
  IN  [ startpix |-> IF northring # ring THEN npix(b) - north - ringpix ELSE north,
        ringpix |-> ringpix, shifted |-> cap \/ (northring - b.nside) % 2 = 0 ]

\* Mutant of ring2z: the southern cap has the sign of the northern one.
ring2zMirrored(b, ring) ==
  IF ring < b.nside THEN 3 * npface(b) - ring * ring
  ELSE IF ring <= 3 * b.nside THEN (2 * b.nside - ring) * 2 * b.nside
  ELSE 3 * npface(b) - (4 * b.nside - ring) * (4 * b.nside - ring)

\* 3 * nside^2 times the z of a ring; also of the poles, rings 0 and 4*nside.
ring2z(b, ring) ==
  IF ring < b.nside THEN 3 * npface(b) - ring * ring
  ELSE IF ring <= 3 * b.nside THEN (2 * b.nside - ring) * 2 * b.nside
  ELSE (4 * b.nside - ring) * (4 * b.nside - ring) - 3 * npface(b)

\* Mutant of ring_above: in the south the ring below is returned.
ring_aboveBelow(b, z) ==
  IF Abs(z) <= 2 * npface(b) THEN (4 * npface(b) - z) \div (2 * b.nside)
  ELSE LET iring == isqrt(3 * npface(b) - Abs(z))
       IN  IF z > 0 THEN iring ELSE 4 * b.nside - iring

\* The number of the ring at or next to the north of z.
ring_above(b, z) ==
  IF Abs(z) <= 2 * npface(b) THEN (4 * npface(b) - z) \div (2 * b.nside)
  ELSE LET iring == isqrt(3 * npface(b) - Abs(z))
       IN  IF z > 0 THEN iring ELSE 4 * b.nside - iring - 1

\* The face from the columns between its ascending and its descending edges.
equatorialFace(ifp, ifm) ==
  IF ifp = ifm THEN (ifp % 4) + 4 ELSE IF ifp < ifm THEN ifp ELSE ifm + 8

\* ring2xyf's three cases: the ring, the position in it from 1, and the face.
NorthPolarCap(b, pix) ==
  LET iring == (1 + isqrt(1 + 2 * pix)) \div 2
      iphi  == pix + 1 - 2 * iring * (iring - 1)
  IN  [ iring |-> iring, iphi |-> iphi, kshift |-> 0, nr |-> iring,
        face |-> (iphi - 1) \div iring ]

EquatorialRegion(b, pix) ==
  LET ip    == pix - ncap(b)
      iring == ip \div (4 * b.nside) + b.nside
      iphi  == (ip % (4 * b.nside)) + 1
      ire   == iring - b.nside + 1
      irm   == 2 * b.nside + 2 - ire
      ifm   == (iphi - ire \div 2 + b.nside - 1) \div b.nside
      ifp   == (iphi - irm \div 2 + b.nside - 1) \div b.nside
  IN  [ iring |-> iring, iphi |-> iphi, kshift |-> (iring + b.nside) % 2,
        nr |-> b.nside,
        face |-> equatorialFace(ifp, ifm) ]

SouthPolarCap(b, pix) ==
  LET ip    == npix(b) - pix
      iring == (1 + isqrt(2 * ip - 1)) \div 2
      iphi  == 4 * iring + 1 - (ip - 2 * iring * (iring - 1))
  IN  [ iring |-> 4 * b.nside - iring, iphi |-> iphi, kshift |-> 0, nr |-> iring,
        face |-> 8 + (iphi - 1) \div iring ]

InRing(b, pix) ==
  IF pix < ncap(b) THEN NorthPolarCap(b, pix)
  ELSE IF pix < npix(b) - ncap(b) THEN EquatorialRegion(b, pix)
  ELSE SouthPolarCap(b, pix)

ring2xyf(b, pix) ==
  LET c   == InRing(b, pix)
      irt == c.iring - jrll(c.face) * b.nside + 1
      all == 2 * c.iphi - jpll(c.face) * c.nr - c.kshift - 1
      ipt == IF all >= 2 * b.nside THEN all - 8 * b.nside ELSE all
  IN  [ face |-> c.face, ix |-> (ipt - irt) \div 2, iy |-> (-ipt - irt) \div 2 ]

\* The ring's first pixel, a quarter of its length, and the position in it.
xyf2ringStep(b, at) ==
  LET jr   == jrll(at.face) * b.nside - at.ix - at.iy - 1
      info == get_ring_info_small(b, jr)
      nr   == info.ringpix \div 4
      kshift == IF info.shifted THEN 0 ELSE 1
  IN  [ before |-> info.startpix, nr |-> nr,
        jp |-> quot(jpll(at.face) * nr + at.ix - at.iy + 1 + kshift, 2) ]

\* planck_assert(jp<=4*nr,"must not happen"), and the comment's assumption:
\* if jp<1, then nl4==4*nr.
xyf2ringAssert(b, at) ==
  LET s == xyf2ringStep(b, at)
  IN  s.jp <= 4 * s.nr /\ (s.jp < 1 => s.nr = b.nside)

xyf2ring(b, at) ==
  LET s == xyf2ringStep(b, at)
  IN  s.before + (IF s.jp < 1 THEN s.jp + 4 * b.nside ELSE s.jp) - 1

xyf2pix(b, at)  == IF b.scheme = "RING" THEN xyf2ring(b, at) ELSE xyf2nest(b, at)
pix2xyf(b, pix) == IF b.scheme = "RING" THEN ring2xyf(b, pix) ELSE nest2xyf(b, pix)

pix2ring(b, pix) ==
  IF b.scheme = "RING" THEN InRing(b, pix).iring
  ELSE LET at == nest2xyf(b, pix)
       IN  jrll(at.face) * b.nside - at.ix - at.iy - 1

\* Both assert order_>=0, "hierarchical map required".
nest2ring(b, pix) == xyf2ring(b, nest2xyf(b, pix))
ring2nest(b, pix) == xyf2nest(b, ring2xyf(b, pix))

----------------------------------------------------------------------------
(* Peano indices: dir is 0 for nest2peano, 1 for peano2nest.               *)

peano_subpix(dir, path, sub) ==
  << << << 0,1,3,2 >>, << 3,0,2,1 >>, << 2,3,1,0 >>, << 1,2,0,3 >>,
        << 0,3,1,2 >>, << 1,0,2,3 >>, << 2,1,3,0 >>, << 3,2,0,1 >> >>,
     << << 0,1,3,2 >>, << 1,3,2,0 >>, << 3,2,0,1 >>, << 2,0,1,3 >>,
        << 0,2,3,1 >>, << 1,0,2,3 >>, << 3,1,0,2 >>, << 2,3,1,0 >> >> >>
  [dir+1][path+1][sub+1]

\* Mutant of peano_subpath: the path of the parent is kept.
peano_subpathKept(dir, path, sub) == path

peano_subpath(dir, path, sub) ==
  << << << 4,0,6,0 >>, << 7,5,1,1 >>, << 2,4,2,6 >>, << 3,3,7,5 >>,
        << 0,2,4,4 >>, << 5,1,5,3 >>, << 6,6,0,2 >>, << 1,7,3,7 >> >>,
     << << 4,0,0,6 >>, << 5,1,1,7 >>, << 6,2,2,4 >>, << 7,3,3,5 >>,
        << 0,4,4,2 >>, << 1,5,5,3 >>, << 2,6,6,0 >>, << 3,7,7,1 >> >> >>
  [dir+1][path+1][sub+1]

peano_face2path(dir, face) ==
  << << 2,5,2,5,3,6,3,6,2,3,2,3 >>, << 2,6,2,3,3,5,2,6,2,3,3,5 >> >>[dir+1][face+1]

\* Mutant of peano_face2face: one table for both directions.
peano_face2faceOneTable(dir, face) == << 0,5,6,11,10,1,4,7,2,3,8,9 >>[face+1]

peano_face2face(dir, face) ==
  << << 0,5,6,11,10,1,4,7,2,3,8,9 >>, << 0,5,8,9,6,1,2,7,10,11,4,3 >> >>[dir+1][face+1]

\* walk[k]: the number and the path after the k highest quadrants.
nest_peano_helper(b, pix, dir) ==
  LET face == pix \div npface(b)
      walk[k \in 0 .. b.order] ==
        IF k = 0 THEN [ result |-> 0, path |-> peano_face2path(dir, face) ]
        ELSE LET spix == (pix \div 4^(b.order - k)) % 4
             IN  [ result |-> 4 * walk[k-1].result
                                + peano_subpix(dir, walk[k-1].path, spix),
                   path   |-> peano_subpath(dir, walk[k-1].path, spix) ]
  IN  walk[b.order].result + peano_face2face(dir, face) * npface(b)

nest2peano(b, pix) == nest_peano_helper(b, pix, 0)
peano2nest(b, pix) == nest_peano_helper(b, pix, 1)

----------------------------------------------------------------------------
(* Neighbors, in the order SW, W, NW, N, NE, E, SE, S; -1 for none.        *)

nb_xoffset(i) == << -1,-1, 0, 1, 1, 1, 0,-1 >>[i+1]
nb_yoffset(i) == <<  0, 1, 1, 1, 0,-1,-1,-1 >>[i+1]

nb_facearray(nbnum, face) ==
  << <<  8, 9,10,11,-1,-1,-1,-1,10,11, 8, 9 >>,     \* S
     <<  5, 6, 7, 4, 8, 9,10,11, 9,10,11, 8 >>,     \* SE
     << -1,-1,-1,-1, 5, 6, 7, 4,-1,-1,-1,-1 >>,     \* E
     <<  4, 5, 6, 7,11, 8, 9,10,11, 8, 9,10 >>,     \* SW
     <<  0, 1, 2, 3, 4, 5, 6, 7, 8, 9,10,11 >>,     \* center
     <<  1, 2, 3, 0, 0, 1, 2, 3, 5, 6, 7, 4 >>,     \* NE
     << -1,-1,-1,-1, 7, 4, 5, 6,-1,-1,-1,-1 >>,     \* W
     <<  3, 0, 1, 2, 3, 0, 1, 2, 4, 5, 6, 7 >>,     \* NW
     <<  2, 3, 0, 1,-1,-1,-1,-1, 0, 1, 2, 3 >> >>   \* N
  [nbnum+1][face+1]

\* Which of x and y to mirror at the border of the face, and whether to swap
\* them: the bits 1, 2 and 4 of nb_swaparray.
nb_swaparray(nbnum, face) ==
  << << 0,0,3 >>, << 0,0,6 >>, << 0,0,0 >>, << 0,0,5 >>, << 0,0,0 >>,
     << 5,0,0 >>, << 0,0,0 >>, << 6,0,0 >>, << 3,0,0 >> >>[nbnum+1][(face \div 4) + 1]

\* Mutant of AcrossBorder: x and y are swapped before they are mirrored.
AcrossBorderSwapsFirst(b, face, x0, y0) ==
  LET nbnum == 4 + (IF x0 < 0 THEN -1 ELSE IF x0 >= b.nside THEN 1 ELSE 0)
                 + (IF y0 < 0 THEN -3 ELSE IF y0 >= b.nside THEN 3 ELSE 0)
      f    == nb_facearray(nbnum, face)
      bits == nb_swaparray(nbnum, face)
      x1   == IF bits \div 4 = 1 THEN y0 % b.nside ELSE x0 % b.nside
      y1   == IF bits \div 4 = 1 THEN x0 % b.nside ELSE y0 % b.nside
      x    == IF bits % 2 = 1 THEN b.nside - x1 - 1 ELSE x1
      y    == IF (bits \div 2) % 2 = 1 THEN b.nside - y1 - 1 ELSE y1
  IN  IF f < 0 THEN -1 ELSE xyf2pix(b, [ face |-> f, ix |-> x, iy |-> y ])

\* The pixel at x0, y0 of a face, which may lie one step outside of it.
AcrossBorder(b, face, x0, y0) ==
  LET nbnum == 4 + (IF x0 < 0 THEN -1 ELSE IF x0 >= b.nside THEN 1 ELSE 0)
                 + (IF y0 < 0 THEN -3 ELSE IF y0 >= b.nside THEN 3 ELSE 0)
      f    == nb_facearray(nbnum, face)
      bits == nb_swaparray(nbnum, face)
      x1   == IF bits % 2 = 1 THEN b.nside - (x0 % b.nside) - 1 ELSE x0 % b.nside
      y1   == IF (bits \div 2) % 2 = 1 THEN b.nside - (y0 % b.nside) - 1 ELSE y0 % b.nside
      swap == bits \div 4 = 1
  IN  IF f < 0 THEN -1
      ELSE xyf2pix(b, [ face |-> f, ix |-> IF swap THEN y1 ELSE x1,
                        iy |-> IF swap THEN x1 ELSE y1 ])

\* at is the place of the pixel, from pix2xyf.
neighbors(b, at) ==
  LET inside == { at.ix, at.iy } \subseteq 1 .. b.nside - 2
      x(i) == at.ix + nb_xoffset(i)
      y(i) == at.iy + nb_yoffset(i)
  IN  [ i \in 0 .. 7 |->
          IF inside THEN xyf2pix(b, [ face |-> at.face, ix |-> x(i), iy |-> y(i) ])
          ELSE AcrossBorder(b, at.face, x(i), y(i)) ]

----------------------------------------------------------------------------
(* Positions of pixel centres: 3*nside^2*z, and phi as the fraction        *)
(* phi / den of quarter turns.                                             *)

pix2loc(b, pix) ==
  IF b.scheme = "RING"
  THEN LET c == InRing(b, pix)
           odd == pix \in ncap(b) .. npix(b) - ncap(b) - 1
                    /\ (c.iring + b.nside) % 2 = 1
       IN  [ z |-> ring2z(b, c.iring), phi |-> 2 * c.iphi - (IF odd THEN 2 ELSE 1),
             den |-> 2 * c.nr ]
  ELSE LET at == nest2xyf(b, pix)
           jr == pix2ring(b, pix)
           nr == Smaller(b.nside, Smaller(jr, 4 * b.nside - jr))
           tmp == jpll(at.face) * nr + at.ix - at.iy
       IN  [ z |-> ring2z(b, jr), phi |-> IF tmp < 0 THEN tmp + 8 * nr ELSE tmp,
             den |-> 2 * nr ]

\* Mutant of jpPolar: the longitude is not taken within its quarter turn.
jpPolarWholeTurn(b, loc) ==
  (loc.phi * isqrt(3 * npface(b) - Abs(loc.z))) \div loc.den

\* jp and jm, the edge lines that z, phi lies behind: of the equatorial
\* region, and of the polar caps (from the west and the east of a quarter
\* turn).  The root is exact for the z of a ring: loc2pix is meant for those.
jpEquatorial(b, loc) ==
  (2 * b.nside * (loc.den + 2 * loc.phi) * b.nside - loc.z * loc.den)
    \div (4 * b.nside * loc.den)
jmEquatorial(b, loc) ==
  (2 * b.nside * (loc.den + 2 * loc.phi) * b.nside + loc.z * loc.den)
    \div (4 * b.nside * loc.den)
jpPolar(b, loc) ==
  ((loc.phi % loc.den) * isqrt(3 * npface(b) - Abs(loc.z))) \div loc.den
jmPolar(b, loc) ==
  ((loc.den - (loc.phi % loc.den)) * isqrt(3 * npface(b) - Abs(loc.z))) \div loc.den

loc2pix(b, loc) ==
  LET equatorial == Abs(loc.z) <= 2 * npface(b)
      jp  == IF equatorial THEN jpEquatorial(b, loc) ELSE jpPolar(b, loc)
      jm  == IF equatorial THEN jmEquatorial(b, loc) ELSE jmPolar(b, loc)
      ntt == loc.phi \div loc.den
      ifp == jp \div b.nside
      ifm == jm \div b.nside
  IN  CASE b.scheme = "RING" /\ equatorial ->
             LET ir == b.nside + 1 + jp - jm
                 kshift == IF ir % 2 = 0 THEN 1 ELSE 0
                 t1 == jp + jm - b.nside + kshift + 1 + 8 * b.nside
             IN  ncap(b) + (ir - 1) * 4 * b.nside + ((t1 \div 2) % (4 * b.nside))
        [] b.scheme = "RING" /\ ~equatorial ->
             LET ir == jp + jm + 1
                 ip == (loc.phi * ir) \div loc.den
             IN  IF loc.z > 0 THEN 2 * ir * (ir - 1) + ip
                 ELSE npix(b) - 2 * ir * (ir + 1) + ip
        [] b.scheme = "NEST" /\ equatorial ->
             xyf2nest(b, [ face |-> equatorialFace(ifp, ifm),
                           ix |-> jm % b.nside, iy |-> b.nside - (jp % b.nside) - 1 ])
        [] b.scheme = "NEST" /\ ~equatorial ->
             LET x == Smaller(jp, b.nside - 1)
                 y == Smaller(jm, b.nside - 1)
             IN  xyf2nest(b, IF loc.z >= 0
                             THEN [ face |-> ntt, ix |-> b.nside - y - 1, iy |-> b.nside - x - 1 ]
                             ELSE [ face |-> ntt + 8, ix |-> x, iy |-> y ])

\* The corner at x, y (0 .. nside) of a face, as in xyf2loc: its ring, and its
\* longitude up to full turns.
corner(b, face, x, y) ==
  LET jr  == jrll(face) * b.nside - x - y
      nr  == Smaller(b.nside, Smaller(jr, 4 * b.nside - jr))
      tmp == jpll(face) * nr + x - y
  IN  [ ring |-> jr, phi |-> IF nr = 0 THEN 0 ELSE tmp % (8 * nr) ]

=============================================================================
