----------------------------- MODULE RingQueries ----------------------------
(***************************************************************************)
(* Queries of a base in the RING scheme: query_disc and                    *)
(* query_disc_inclusive (query_disc_internal), query_multidisc, which      *)
(* polygons are queried with, and query_strip.  A query goes through the   *)
(* rings of equal latitude from north to south and outputs an interval of  *)
(* each, which may wrap around longitude 0.                                *)
(*                                                                         *)
(* The trigonometry is abstracted to what it decides: a disc says which    *)
(* rings it reaches and how far to the east and the west of its centre it  *)
(* reaches in each.  Longitudes are counted in units, Turn of them around  *)
(* the sphere; the arithmetic that makes pixel numbers of them is exact.   *)
(***************************************************************************)
EXTENDS HealpixIndex, Rangeset, FiniteSetsExt

CONSTANTS
  Nsides,       \* sides of the bases queried
  OrderMax,     \* the highest order supported: order_max, 29
  Turn,         \* the units in a full turn
  Queries(_)    \* the queries made of the base of each side

\* The value of half, in units, where the code's dphi is pi-1e-15: the circle
\* of the disc does not cross the ring (ysq<=0).
Whole == Turn \div 2

VARIABLES
  base,         \* the base
  query,        \* the call
  iz,           \* the ring that is next
  last,         \* the last ring to go through: irmax
  pixset,       \* the answer, a vector of boundaries
  status        \* "called", "rings", "returned" or "threw"

vars == << base, query, iz, last, pixset, status >>

----------------------------------------------------------------------------
(* Discs and queries.  A disc is a record:                                 *)
(*   wide          the radius is at least pi                               *)
(*   north, south  it contains the pole: rlat1<=0, rlat2>=pi               *)
(*   irmin, irmax  the first ring south of rlat1, the last one north of    *)
(*                 rlat2; north of the first, and south of the last, lie   *)
(*                 rings that are wholly inside if the pole is, or outside *)
(*   phi, half     its longitude, and dphi for each ring                   *)
(*   rounds        whether pi-1e-15 rounds to pi on the way to a pixel     *)
(*   overlaps      the pixels that check_pixel_ring finds it to overlap    *)

Rings(b) == 1 .. 4 * b.nside - 1
Bases == { SetNside(nside, "RING") : nside \in Nsides }

\* Does the circle leave the ring, in the east, right at the centre of a pixel?
\* Whether that pixel is taken is up to rounding.
OnCentre(b, d, ring) ==
  LET info == get_ring_info_small(b, ring)
  IN  /\ d.half[ring] # Whole
      /\ (2 * info.ringpix * (d.phi + d.half[ring]) - (IF info.shifted THEN Turn ELSE 0))
            % (2 * Turn) = 0

\* The disc whose centres are looked for is enlarged by the radius of a pixel
\* in inclusive queries, and irmin and irmax are those of a smaller one if the
\* overlap is tested with fact>1: only then may one of the rings between them
\* be whole.
IsDisc(b, d, fact) ==
  /\ { d.wide, d.north, d.south, d.rounds } \subseteq BOOLEAN
  /\ d.irmin \in 1 .. 4 * b.nside /\ d.irmax \in 0 .. 4 * b.nside - 1
  /\ d.irmin <= d.irmax + 1
  /\ d.phi \in 0 .. Turn - 1
  /\ d.half \in [ Rings(b) -> 1 .. Whole ]
  /\ \A ring \in Rings(b) :
       /\ d.north /\ ring < d.irmin => d.half[ring] = Whole
       /\ d.south /\ ring > d.irmax => d.half[ring] = Whole
       /\ fact <= 1 /\ ring \in d.irmin .. d.irmax => d.half[ring] # Whole
       /\ ~OnCentre(b, d, ring)
  /\ d.overlaps \subseteq Pixels(b)

\* A strip ends between two rings or at a pole: on which side of a ring a
\* colatitude on it lies is up to rounding.
ASSUME RingAssumption ==
  /\ Nsides \subseteq Nat \ {0}
  /\ OrderMax \in Nat
  /\ Turn \in Nat \ {0} /\ Turn % 2 = 0
  /\ \A b \in Bases : \A q \in Queries(b.nside) :
       /\ q.kind \in { "disc", "multidisc", "strip" } /\ q.inclusive \in BOOLEAN
       /\ q.kind # "strip" =>
            /\ q.fact \in Int /\ Len(q.discs) \in Nat
            /\ \A i \in 1 .. Len(q.discs) :
                 IsDisc(b, q.discs[i], IF q.inclusive THEN q.fact ELSE 1)
       /\ q.kind = "disc" => Len(q.discs) = 1
       /\ q.kind = "strip" =>
            { q.z1, q.z2 } \subseteq
              (-(3 * npface(b)) .. 3 * npface(b)) \ { ring2z(b, ring) : ring \in Rings(b) }

fct == IF query.inclusive THEN query.fact ELSE 1

\* planck_assert (((I(1)<<order_max)/nside_)>=fact) and, in the functions that
\* are called with a factor, planck_assert(fact>0).
FactAllowed ==
  query.kind # "strip" /\ query.inclusive =>
    query.fact > 0 /\ 2^OrderMax \div base.nside >= query.fact

----------------------------------------------------------------------------
(* The pixels of one ring.                                                 *)

Info(ring) == get_ring_info_small(base, ring)

\* ifloor(nr*inv_twopi*(phi-dphi) - shift)+1 and ifloor(nr*inv_twopi*(phi+dphi)
\* - shift): positions in the ring, up to a turn.  pi-1e-15 falls short of pi
\* unless rounding makes up for it.
Interval(d, ring) ==
  LET scaled(x) == 2 * Info(ring).ringpix * x - (IF Info(ring).shifted THEN Turn ELSE 0)
      short == IF d.half[ring] = Whole /\ ~d.rounds THEN 1 ELSE 0
  IN  [ ip_lo |-> (scaled(d.phi - d.half[ring]) \div (2 * Turn)) + 1,
        ip_hi |-> (scaled(d.phi + d.half[ring]) - short) \div (2 * Turn) ]

\* Mutant of check_pixel_ring: a position before the ring's first is not wrapped.
check_pixel_ringUnwrapped(d, ring, pix) ==
  LET nr == Info(ring).ringpix
  IN  Info(ring).startpix + (IF pix >= nr THEN pix - nr ELSE pix) \notin d.overlaps

\* Is the pixel at a position of a ring free of overlap?
check_pixel_ring(d, ring, pix) ==
  LET nr == Info(ring).ringpix
  IN  Info(ring).startpix + (IF pix >= nr THEN pix - nr ELSE IF pix < 0 THEN pix + nr ELSE pix)
        \notin d.overlaps

\* Both ends are moved inwards past pixels without overlap.
Trimmed(d, ring, i) ==
  LET free(pix) == check_pixel_ring(d, ring, pix)
      lo == CHOOSE k \in i.ip_lo .. (IF i.ip_lo > i.ip_hi THEN i.ip_lo ELSE i.ip_hi + 1) :
              (k <= i.ip_hi => ~free(k)) /\ \A m \in i.ip_lo .. k - 1 : free(m)
      hi == CHOOSE k \in Smaller(lo, i.ip_hi) .. i.ip_hi :
              (k > lo => ~free(k)) /\ \A m \in k + 1 .. i.ip_hi : free(m)
  IN  [ ip_lo |-> lo, ip_hi |-> hi ]

Found(d, ring) ==
  IF fct > 1 THEN Trimmed(d, ring, Interval(d, ring)) ELSE Interval(d, ring)

\* Mutant of Wrapped: an interval that ends at the ring's last position plus
\* one is taken to end in the ring.
WrappedOffByOne(i, nr) ==
  IF i.ip_hi > nr THEN [ ip_lo |-> i.ip_lo - nr, ip_hi |-> i.ip_hi - nr ] ELSE i

Wrapped(i, nr) ==
  IF i.ip_hi >= nr THEN [ ip_lo |-> i.ip_lo - nr, ip_hi |-> i.ip_hi - nr ] ELSE i

\* Mutant of RingRanges: the eastern part of a wrapped interval goes first.
RingRangesEastFirst(d, ring) ==
  LET f == Found(d, ring)
      i == Wrapped(f, Info(ring).ringpix)
      ipix1 == Info(ring).startpix
      end == ipix1 + Info(ring).ringpix
  IN  IF f.ip_lo > f.ip_hi THEN << >>
      ELSE IF i.ip_lo < 0 THEN << end + i.ip_lo, end, ipix1, ipix1 + i.ip_hi + 1 >>
      ELSE << ipix1 + i.ip_lo, ipix1 + i.ip_hi + 1 >>

\* What a disc query appends for a ring, as a vector of boundaries.
RingRanges(d, ring) ==
  LET f == Found(d, ring)
      i == Wrapped(f, Info(ring).ringpix)
      ipix1 == Info(ring).startpix
      end == ipix1 + Info(ring).ringpix
  IN  IF f.ip_lo > f.ip_hi THEN << >>
      ELSE IF i.ip_lo < 0 THEN << ipix1, ipix1 + i.ip_hi + 1, end + i.ip_lo, end >>
      ELSE << ipix1 + i.ip_lo, ipix1 + i.ip_hi + 1 >>

----------------------------------------------------------------------------
(* Starting and ending a query.                                            *)

\* pixset.append of each range: may throw.
Output(ranges) ==
  IF appendAllAssert(pixset, ranges)
  THEN pixset' = appendAll(pixset, ranges) /\ UNCHANGED status
  ELSE status' = "threw" /\ UNCHANGED pixset

Returns(ranges) ==
  IF appendAllAssert(pixset, ranges)
  THEN pixset' = appendAll(pixset, ranges) /\ status' = "returned"
  ELSE status' = "threw" /\ UNCHANGED pixset

Init ==
  /\ base \in Bases
  /\ query \in Queries(base.nside)
  /\ iz = 0 /\ last = 0
  /\ pixset = << >>
  /\ status = "called"

RejectFact ==
  /\ status = "called" /\ ~FactAllowed
  /\ status' = "threw"
  /\ UNCHANGED << base, query, iz, last, pixset >>

\* The rings to go through, one more on each side if overlap is tested and the
\* disc does not reach over the pole there.
irmin(d) == IF fct > 1 /\ ~d.north /\ d.irmin > 1 THEN d.irmin - 1 ELSE d.irmin
irmax(d) ==
  IF fct > 1 /\ ~d.south /\ d.irmax + 1 < 4 * base.nside THEN d.irmax + 1 ELSE d.irmax

Calls(kind) ==
  status = "called" /\ query.kind = kind /\ FactAllowed /\ UNCHANGED << base, query >>

Disc == query.discs[1]

DiscCoversSphere ==
  /\ Calls("disc") /\ Disc.wide
  /\ Returns(<< 0, npix(base) >>)
  /\ UNCHANGED << iz, last >>

\* north pole in the disk: all rings north of irmin.
StartDisc ==
  /\ Calls("disc") /\ ~Disc.wide
  /\ iz' = irmin(Disc) /\ last' = irmax(Disc)
  /\ pixset' = IF Disc.north /\ Disc.irmin > 1
               THEN append(pixset, 0,
                           Info(Disc.irmin - 1).startpix + Info(Disc.irmin - 1).ringpix)
               ELSE pixset
  /\ status' = "rings"

DiscRing ==
  /\ status = "rings" /\ query.kind = "disc" /\ iz <= last
  /\ Output(RingRanges(Disc, iz))
  /\ iz' = iz + 1
  /\ UNCHANGED << base, query, last >>

\* south pole in the disk: all rings south of irmax.
EndDisc ==
  /\ status = "rings" /\ query.kind = "disc" /\ iz > last
  /\ Returns(IF Disc.south /\ last + 1 < 4 * base.nside
             THEN << Info(last + 1).startpix, npix(base) >> ELSE << >>)
  /\ UNCHANGED << base, query, iz, last >>

----------------------------------------------------------------------------
(* query_multidisc: the intersection of several discs.                     *)

\* Discs with a radius of at least pi are ignored.
NarrowDiscs ==
  { query.discs[j] : j \in { k \in 1 .. Len(query.discs) : ~query.discs[k].wide } }

\* The rings all of them reach.
StartMultidisc ==
  /\ Calls("multidisc")
  /\ iz' = Max({ 1 } \cup { IF d.north THEN 1 ELSE irmin(d) : d \in NarrowDiscs })
  /\ last' = Min({ 4 * base.nside - 1 }
                   \cup { IF d.south THEN 4 * base.nside - 1 ELSE irmax(d) : d \in NarrowDiscs })
  /\ status' = "rings"
  /\ UNCHANGED pixset

\* What the loop over the discs does to tr for one disc: the bounds, and
\* whether they are those of the part to remove or of the part to keep.
Cut(d, ring) ==
  LET nr == Info(ring).ringpix
      i  == Wrapped(Found(d, ring), nr)
      ipix1 == Info(ring).startpix
  IN  IF i.ip_lo < 0
      THEN [ removes |-> TRUE, a |-> ipix1 + i.ip_hi + 1, b |-> ipix1 + i.ip_lo + nr ]
      ELSE [ removes |-> FALSE, a |-> ipix1 + i.ip_lo, b |-> ipix1 + i.ip_hi + 1 ]

\* tr after each of the discs: the ring, less what lies outside one of them.
DiscsLeft(ring) ==
  LET left[j \in 0 .. Len(query.discs)] ==
        IF j = 0 THEN append(<< >>, Info(ring).startpix, Info(ring).startpix + Info(ring).ringpix)
        ELSE LET d == query.discs[j]
                 c == Cut(d, ring)
             IN  IF d.wide THEN left[j-1]
                 ELSE IF c.removes THEN remove(left[j-1], c.a, c.b)
                 ELSE intersect(left[j-1], c.a, c.b)
  IN  left

RingLeft(ring) == DiscsLeft(ring)[Len(query.discs)]

MultidiscRing ==
  /\ status = "rings" /\ query.kind = "multidisc" /\ iz <= last
  /\ Output(RingLeft(iz))
  /\ iz' = iz + 1
  /\ UNCHANGED << base, query, last >>

EndMultidisc ==
  /\ status = "rings" /\ query.kind = "multidisc" /\ iz > last
  /\ status' = "returned"
  /\ UNCHANGED << base, query, iz, last, pixset >>

----------------------------------------------------------------------------
(* query_strip.  A colatitude is given by its cosine: 3 * nside^2 * z.     *)

\* Mutant of query_strip_internal: an inclusive strip is not widened to the north.
query_strip_internalSouthOnly(z1, z2) ==
  LET wider == IF query.inclusive THEN 1 ELSE 0
      ring1 == Max({ 1, 1 + ring_above(base, z1) })
      ring2 == Min({ 4 * base.nside - 1, ring_above(base, z2) + wider })
      pix1  == Info(ring1).startpix
      pix2  == Info(ring2).startpix + Info(ring2).ringpix
  IN  IF pix1 <= pix2 THEN append(<< >>, pix1, pix2) ELSE << >>

query_strip_internal(z1, z2) ==
  LET wider == IF query.inclusive THEN 1 ELSE 0
      ring1 == Max({ 1, Max({ 1, 1 + ring_above(base, z1) }) - wider })
      ring2 == Min({ 4 * base.nside - 1, ring_above(base, z2) + wider })
      pix1  == Info(ring1).startpix
      pix2  == Info(ring2).startpix + Info(ring2).ringpix
  IN  IF pix1 <= pix2 THEN append(<< >>, pix1, pix2) ELSE << >>

\* One strip if theta1<theta2, else the ones around the poles.
Strips ==
  IF query.z1 > query.z2 THEN query_strip_internal(query.z1, query.z2)
  ELSE query_strip_internal(3 * npface(base), query.z2)
         \o query_strip_internal(query.z1, -(3 * npface(base)))

query_strip ==
  /\ Calls("strip")
  /\ Returns(Strips)
  /\ UNCHANGED << iz, last >>

\* The call has returned or thrown: nothing more happens.
Finished == status \in { "returned", "threw" } /\ UNCHANGED vars

Next ==
  \/ RejectFact
  \/ DiscCoversSphere \/ StartDisc \/ DiscRing \/ EndDisc
  \/ StartMultidisc \/ MultidiscRing \/ EndMultidisc
  \/ query_strip
  \/ Finished

Spec == Init /\ [][Next]_vars

----------------------------------------------------------------------------
(* Properties.                                                             *)

\* How far the centre of a pixel is from the longitude of a disc, and half a
\* turn, in units of 2 * ringpix to the unit.
Away(d, pix) ==
  LET info == Info(pix2ring(base, pix))
      centre == (2 * (pix - info.startpix) + (IF info.shifted THEN 1 ELSE 0)) * Turn
      east == (centre - 2 * info.ringpix * d.phi) % (2 * info.ringpix * Turn)
  IN  Smaller(east, 2 * info.ringpix * Turn - east)

\* The pixels whose centres lie in a disc (enlarged, in inclusive queries).
Inside(d) ==
  { pix \in Pixels(base) :
      LET ring == pix2ring(base, pix)
      IN  /\ ring < irmin(d) => d.north
          /\ ring > irmax(d) => d.south
          /\ \/ d.half[ring] = Whole
             \/ Away(d, pix) < 2 * Info(ring).ringpix * d.half[ring] }

\* The pixels centred opposite a disc, in rings that are whole, where pi-1e-15
\* falls short of them.
Opposite(d) ==
  { pix \in Pixels(base) :
      LET ring == pix2ring(base, pix)
      IN  /\ d.half[ring] = Whole /\ ~d.rounds
          /\ Away(d, pix) = Info(ring).ringpix * Turn }

\* No call hits an assertion, but for an oversampling factor that is not
\* allowed: rings and the parts of rings that wrap around are appended in
\* ascending order, behind the northern cap and before the southern one, and
\* remove and intersect are given bounds in order.
CallsLegal ==
  /\ status = "threw" => ~FactAllowed
  /\ status = "rings" /\ query.kind = "multidisc" /\ iz <= last =>
       \A d \in NarrowDiscs : Cut(d, iz).a <= Cut(d, iz).b

\* query_disc returns the pixels with centres in the disc, and no other: each
\* once, also where the interval wraps around or a cap begins.  With an
\* overlap test it returns none but those, and all that overlap except for
\* the pixel opposite in a ring that is whole.
DiscAnswer ==
  status = "returned" /\ query.kind = "disc" =>
    /\ Canonical(pixset)
    /\ Elements(pixset) \subseteq Pixels(base)
    /\ IF Disc.wide THEN Elements(pixset) = Pixels(base)
       ELSE IF fct = 1 THEN Elements(pixset) = Inside(Disc)
       ELSE /\ (Disc.overlaps \cap Inside(Disc)) \ Opposite(Disc) \subseteq Elements(pixset)
            /\ Elements(pixset) \subseteq Inside(Disc)

\* query_multidisc returns the pixels with centres in all discs, and no other,
\* except that it misses the pixels opposite a disc in a whole ring; with an
\* overlap test it misses no other pixel that overlaps all discs.
MultidiscAnswer ==
  status = "returned" /\ query.kind = "multidisc" =>
    LET inAll       == { pix \in Pixels(base) :
                           \A d \in NarrowDiscs : pix \in Inside(d) \ Opposite(d) }
        overlapsAll == { pix \in inAll : \A d \in NarrowDiscs : pix \in d.overlaps }
    IN  /\ Canonical(pixset)
        /\ IF fct = 1 THEN Elements(pixset) = inAll
           ELSE overlapsAll \subseteq Elements(pixset) /\ Elements(pixset) \subseteq Pixels(base)

\* query_strip returns the rings between the colatitudes or, if the first is
\* not the smaller one, the rings north of the second and south of the first;
\* in inclusive queries the rings whose pixels reach into these regions: from
\* the ring before to the ring after their own, or to the pole.
Between(ring, z1, z2) ==
  LET reach == IF query.inclusive THEN 1 ELSE 0
  IN  /\ ring2z(base, ring + reach) < z1 \/ ring + reach = 4 * base.nside
      /\ ring2z(base, ring - reach) >= z2

StripAnswer ==
  status = "returned" /\ query.kind = "strip" =>
    /\ Canonical(pixset)
    /\ Elements(pixset) =
         { pix \in Pixels(base) :
             LET ring == pix2ring(base, pix)
             IN  IF query.z1 > query.z2 THEN Between(ring, query.z1, query.z2)
                 ELSE \/ Between(ring, 3 * npface(base), query.z2)
                      \/ Between(ring, query.z1, -(3 * npface(base))) }

\* What the comment on query_disc_inclusive says: "Returns the range set of all
\* pixels which overlap with the disk".
InclusiveAsDocumented ==
  status = "returned" /\ query.kind = "disc" /\ query.inclusive /\ fct > 1 /\ ~Disc.wide =>
    Disc.overlaps \cap Inside(Disc) \subseteq Elements(pixset)

=============================================================================
