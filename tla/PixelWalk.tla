------------------------------ MODULE PixelWalk -----------------------------
(***************************************************************************)
(* A caller that holds a pixel and makes any sequence of the calls that    *)
(* translate pixel numbers: it converts the number between the RING, NEST  *)
(* and Peano numberings and steps to neighbors, keeping the scheme of its  *)
(* base in step with the number it holds.  From pixel 0 it can get to      *)
(* every pixel in every numbering.                                         *)
(***************************************************************************)
EXTENDS HealpixIndex, FiniteSets

CONSTANTS
  Orders,     \* orders of bases made with Set
  Nsides      \* sides of bases made with SetNside

ASSUME WalkAssumption == Orders \subseteq Nat /\ Nsides \subseteq Nat \ {0}

\* What the proofs use of ^ .
PowersUpTo(n) ==
  /\ 2^0 = 1 /\ 4^0 = 1
  /\ \A k \in 0 .. n : 2^k \in Nat \ {0} /\ 2^(k+1) = 2 * 2^k /\ 4^k = 2^k * 2^k

ASSUME Powers ==
  \A n \in Orders \cup Nsides \cup { 2^order : order \in Orders } : PowersUpTo(3 * n)

VARIABLES
  base,       \* the base
  pix,        \* the pixel number held
  peano       \* is it a Peano index?

vars == << base, pix, peano >>

Init ==
  /\ \/ \E order \in Orders, scheme \in { "RING", "NEST" } : base = Set(order, scheme)
     \/ \E nside \in Nsides : base = SetNside(nside, "RING")
  /\ pix = 0
  /\ peano = FALSE

Nest2ring ==
  /\ base.scheme = "NEST" /\ ~peano
  /\ pix' = nest2ring(base, pix)
  /\ base' = [base EXCEPT !.scheme = "RING"]
  /\ UNCHANGED peano

\* planck_assert(order_>=0, "hierarchical map required")
Ring2nest ==
  /\ base.scheme = "RING" /\ base.order >= 0
  /\ pix' = ring2nest(base, pix)
  /\ base' = [base EXCEPT !.scheme = "NEST"]
  /\ UNCHANGED peano

Nest2peano ==
  /\ base.scheme = "NEST" /\ ~peano
  /\ pix' = nest2peano(base, pix)
  /\ peano' = TRUE
  /\ UNCHANGED base

Peano2nest ==
  /\ peano
  /\ pix' = peano2nest(base, pix)
  /\ peano' = FALSE
  /\ UNCHANGED base

Neighbor(i) ==
  /\ ~peano
  /\ \E at \in { pix2xyf(base, pix) } : pix' \in { neighbors(base, at)[i] } \ { -1 }
  /\ UNCHANGED << base, peano >>

Convert == Nest2ring \/ Ring2nest \/ Nest2peano \/ Peano2nest

Next == Convert \/ \E i \in 0 .. 7 : Neighbor(i)

Spec == Init /\ [][Next]_vars

----------------------------------------------------------------------------
(* Properties.                                                             *)

\* The position of the pixel held.
Location == pix2loc(base, IF peano THEN peano2nest(base, pix) ELSE pix)

\* A conversion changes the number and not the pixel: in its new numbering
\* it has the same centre, which pix2loc computes from RING numbers by
\* counting along the rings and from NEST numbers by the faces.
ConversionsStay == [][Convert => Location' = Location]_vars

\* The pixel that contains the centre of a pixel is that pixel.  On the way there
\* no assertion is hit, nor the comment's assumption in xyf2ring refuted, from any
\* place, and the conversions of the constructors are inverse to each other.
LocatedBack ==
  /\ ~peano => \A loc \in { pix2loc(base, pix) } : loc2pix(base, loc) = pix
  /\ \A at \in Places(base) :
       /\ xyf2ringAssert(base, at)
       /\ base.scheme = "NEST" =>
            LET loc == pix2loc(base, xyf2nest(base, at)) IN loc.phi < 4 * loc.den
  /\ npix2nsideAssert(npix(base)) /\ npix2nside(npix(base)) = base.nside
  /\ base.order = nside2order(base.nside)

\* RING numbers ascend from north to south, and along a ring from west to
\* east, once around.
RingOrder ==
  base.scheme = "RING" =>
    LET here == pix2loc(base, pix)
        next == pix2loc(base, pix + 1)
    IN  /\ here.phi \in 0 .. 4 * here.den - 1
        /\ pix + 1 \in Pixels(base) =>
             next.z < here.z \/ (next.z = here.z /\ next.phi > here.phi)

\* The tables of the rings agree with the pixels: with the ring a pixel is
\* said to be in, in both numberings, its z and its first pixel, and the
\* mirrored computation of get_ring_info with the direct one.
RingsFit ==
  ~peano =>
    \A ring \in { pix2ring(base, pix) } :
      \A info \in { get_ring_info_small(base, ring) } :
        LET ringpix == IF base.scheme = "RING" THEN pix ELSE nest2ring(base, pix)
            first == pix2loc([base EXCEPT !.scheme = "RING"], info.startpix)
        IN  /\ ringpix \in info.startpix .. info.startpix + info.ringpix - 1
            /\ get_ring_info(base, ring) = info
            /\ pix2loc(base, pix).z = ring2z(base, ring)
            /\ first.z = ring2z(base, ring)
            /\ info.shifted <=> first.phi # 0

\* ring_above finds the ring at or next to the north of any z, for z on, just
\* beside and between rings, at the borders of the polar caps and the poles.
RingAboveExact ==
  \A z \in -(3 * npface(base)) .. 3 * npface(base) :
    LET ring == ring_above(base, z)
    IN  ring \in 0 .. 4 * base.nside - 1
        /\ ring2z(base, ring) >= z /\ z >= ring2z(base, ring + 1)

\* The four corners of a place, and those on its side i in the order SW, W,
\* NW, N, NE, E, SE, S: two on an edge, one on a corner.
Corner(at, dx, dy) == corner(base, at.face, at.ix + dx, at.iy + dy)
Corners(at) == { Corner(at, dx, dy) : dx, dy \in 0 .. 1 }
Side(at, i) ==
  { Corner(at, d[1], d[2]) : d \in { d \in (0 .. 1) \X (0 .. 1) :
      /\ nb_xoffset(i) = 1 => d[1] = 1
      /\ nb_xoffset(i) = -1 => d[1] = 0
      /\ nb_yoffset(i) = 1 => d[2] = 1
      /\ nb_yoffset(i) = -1 => d[2] = 0 } }

\* neighbors returns in each direction the one pixel that shares exactly the
\* corners on that side, and -1 if there is none: across the borders of the
\* faces and at the poles, too, and alike in both numberings.
NeighborsExact ==
  ~peano =>
    \A at \in { pix2xyf(base, pix) } :
      \A nbs \in { neighbors(base, at) },
         near \in { { o \in Places(base) : Corners(o) \cap Corners(at) # {} } } :
        \A i \in 0 .. 7 :
          { xyf2pix(base, other) :
              other \in { o \in near : Corners(o) \cap Corners(at) = Side(at, i) } }
          = { nbs[i] } \ { -1 }

\* The Peano curve is continuous: the next index is a pixel across an edge.
PeanoContinuous ==
  peano /\ pix + 1 \in Pixels(base) =>
    \A here \in { nest2xyf(base, peano2nest(base, pix)) },
       next \in { nest2xyf(base, peano2nest(base, pix + 1)) } :
        Cardinality(Corners(here) \cap Corners(next)) = 2

=============================================================================
