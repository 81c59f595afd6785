-------------------------- MODULE RingQueriesProofs --------------------------
(***************************************************************************)
(* Theorems about RingQueries, for bases of any sides, any number of units *)
(* in a turn, and any queries that RingAssumption allows: no query hits an *)
(* assertion but for its oversampling factor, and what discs, intersected  *)
(* discs and strips return is what it should be.                           *)
(***************************************************************************)
EXTENDS RingQueries, QueryLemmas

----------------------------------------------------------------------------
(* Bases, queries and rings.                                               *)

LEMMA BaseFields ==
  ASSUME NEW b \in Bases
  PROVE  b.nside \in Nat \ {0} /\ b.scheme = "RING"
BY RingAssumption DEF Bases, SetNside

\* The assumption about one query.
LEMMA QueryFields ==
  ASSUME NEW b \in Bases, NEW q \in Queries(b.nside)
  PROVE  /\ q.kind \in { "disc", "multidisc", "strip" } /\ q.inclusive \in BOOLEAN
         /\ q.kind # "strip" =>
              /\ q.fact \in Int /\ Len(q.discs) \in Nat
              /\ \A i \in 1 .. Len(q.discs) :
                   IsDisc(b, q.discs[i], IF q.inclusive THEN q.fact ELSE 1)
         /\ q.kind = "disc" => Len(q.discs) = 1
         /\ q.kind = "strip" =>
              { q.z1, q.z2 } \subseteq
                (-(3 * npface(b)) .. 3 * npface(b)) \ { ring2z(b, ring) : ring \in Rings(b) }
BY RingAssumption

LEMMA TurnFields ==
  Turn \in Nat /\ Turn >= 2 /\ Whole \in Nat /\ 2 * Whole = Turn /\ 1 <= Whole
<1>1. Turn \in Nat \ {0} /\ Turn % 2 = 0
  BY RingAssumption
<1> QED
  BY <1>1 DEF Whole

\* A ring of the base, by its Info.
LEMMA InfoFields ==
  ASSUME base \in Bases, NEW ring \in Rings(base)
  PROVE  LET nr == Info(ring).ringpix
             start == Info(ring).startpix
         IN  /\ ring \in 1 .. 4 * base.nside - 1
             /\ nr = Length(base, ring) /\ start = FirstOf(base, ring)
             /\ nr \in Nat /\ nr >= 4 /\ start \in Nat /\ start + nr = FirstOf(base, ring + 1)
             /\ Info(ring).shifted \in BOOLEAN
             /\ \A x \in Int : InTheRing(base, ring, x) <=> start <= x /\ x < start + nr
<1>1. base.nside \in Nat \ {0} /\ ring \in 1 .. 4 * base.nside - 1
  BY BaseFields DEF Rings
<1>2. Info(ring).ringpix = Length(base, ring) /\ Info(ring).startpix = FirstOf(base, ring)
  BY DEF Info, Length, FirstOf
<1>3. Info(ring).shifted \in BOOLEAN
  BY DEF Info, get_ring_info_small
<1> QED
  BY <1>1, <1>2, <1>3, RingsTouch DEF InTheRing

----------------------------------------------------------------------------
(* Intervals.                                                              *)

\* What a quotient is compared with.
LEMMA QuotientAtMost ==
  ASSUME NEW a \in Int, NEW w \in Nat \ {0}, NEW k \in Int
  PROVE  a \div w \in Int /\ (k <= a \div w <=> k * w <= a)
<1> DEFINE q == a \div w
<1>1. q \in Int /\ q * w <= a /\ a < q * w + w
  BY SMTT(30)
<1> HIDE DEF q
<1>2. ASSUME k <= q
      PROVE  k * w <= q * w
  BY <1>1, <1>2
<1>3. ASSUME q + 1 <= k
      PROVE  q * w + w <= k * w
  <2>1. (q + 1) * w <= k * w
    BY <1>1, <1>3
  <2>2. (q + 1) * w = q * w + w
    BY <1>1
  <2> QED
    BY <2>1, <2>2
<1>4. k * w \in Int /\ q * w \in Int
  BY <1>1
<1> QED
  BY <1>1, <1>2, <1>3, <1>4 DEF q

\* Positions along a ring, counted so finely that pixel centres and the ends of
\* discs are whole numbers: the centre of the k-th pixel from the ring's first (k may
\* be negative, or of the next turn), a turn, the centre of a disc and its half.
Centre(ring, k) == (2 * k + (IF Info(ring).shifted THEN 1 ELSE 0)) * Turn
Around(ring)    == 2 * Info(ring).ringpix * Turn
Middle(d, ring) == 2 * Info(ring).ringpix * d.phi
Reach(d, ring)  == 2 * Info(ring).ringpix * d.half[ring]
Short(d, ring)  == IF d.half[ring] = Whole /\ ~d.rounds THEN 1 ELSE 0

LEMMA Scales ==
  ASSUME base \in Bases, NEW ring \in Rings(base), NEW d, NEW f, IsDisc(base, d, f)
  PROVE  /\ Around(ring) \in Nat /\ Middle(d, ring) \in Nat /\ Reach(d, ring) \in Nat
         /\ Middle(d, ring) < Around(ring)
         /\ 8 <= Reach(d, ring) /\ 2 * Reach(d, ring) <= Around(ring)
         /\ 2 * Reach(d, ring) = Around(ring) <=> d.half[ring] = Whole
         /\ Short(d, ring) \in { 0, 1 } /\ 8 * Turn <= Around(ring)
<1> DEFINE n == 2 * Info(ring).ringpix
           T == Turn
           h == d.half[ring]
<1>1. n \in Nat /\ n >= 8
  BY InfoFields
<1>2. T \in Nat /\ T >= 2 /\ 2 * Whole = T /\ Whole \in Nat
  BY TurnFields
<1>3. d.phi \in Nat /\ d.phi < T /\ h \in Nat /\ 1 <= h /\ 2 * h <= T
  BY <1>2 DEF IsDisc
<1>4. h = Whole <=> 2 * h = T
  BY <1>2, <1>3
<1> HIDE DEF n, T, h
<1>5. n * T \in Nat /\ n * d.phi \in Nat /\ n * h \in Nat
  BY <1>1, <1>2, <1>3
<1>6. n * d.phi < n * T
  BY <1>1, <1>2, <1>3
<1>7. 8 <= n * h /\ 8 * T <= n * T
  BY <1>1, <1>2, <1>3
<1>8. 2 * (n * h) = n * (2 * h)
  BY <1>1, <1>3
<1>9. n * (2 * h) <= n * T
  BY <1>1, <1>2, <1>3
<1>10. n * (2 * h) = n * T <=> 2 * h = T
  BY <1>1, <1>2, <1>3
<1> QED
  BY <1>4, <1>5, <1>6, <1>7, <1>8, <1>9, <1>10 DEF Around, Middle, Reach, Short, n, T, h

\* The next turn.
LEMMA Turned ==
  ASSUME base \in Bases, NEW ring \in Rings(base), NEW k \in Int
  PROVE  /\ Centre(ring, k) \in Int
         /\ Centre(ring, k + Info(ring).ringpix) = Centre(ring, k) + Around(ring)
         /\ Centre(ring, k - Info(ring).ringpix) = Centre(ring, k) - Around(ring)
<1> DEFINE n == Info(ring).ringpix
           s == IF Info(ring).shifted THEN 1 ELSE 0
<1>1. n \in Nat /\ s \in {0, 1} /\ Turn \in Nat
  BY InfoFields, TurnFields
<1> HIDE DEF n, s
<1>2. (2 * k + s) * Turn \in Int
  BY <1>1
<1>3. (2 * (k + n) + s) * Turn = (2 * k + s) * Turn + 2 * n * Turn
  BY <1>1
<1>4. (2 * (k - n) + s) * Turn = (2 * k + s) * Turn - 2 * n * Turn
  BY <1>1
<1> QED
  BY <1>2, <1>3, <1>4 DEF Centre, Around, n, s

\* The interval that is computed has the centres that are nearer than the half, but
\* for one that is right at its eastern end and may be taken.
LEMMA IntervalIs ==
  ASSUME base \in Bases, NEW ring \in Rings(base), NEW d, NEW f, IsDisc(base, d, f)
  PROVE  LET i == Interval(d, ring)
         IN  /\ i.ip_lo \in Int /\ i.ip_hi \in Int
             /\ \A k \in Int :
                  /\ i.ip_lo <= k <=> Middle(d, ring) - Reach(d, ring) < Centre(ring, k)
                  /\ k <= i.ip_hi <=>
                       Centre(ring, k) <= Middle(d, ring) + Reach(d, ring) - Short(d, ring)
<1> DEFINE n == 2 * Info(ring).ringpix
           T == Turn
           h == d.half[ring]
           p == d.phi
           sT == IF Info(ring).shifted THEN T ELSE 0
           s == IF Info(ring).shifted THEN 1 ELSE 0
           short == Short(d, ring)
           w == 2 * T
           a == n * (p - h) - sT
           b == (n * (p + h) - sT) - short
           i == Interval(d, ring)
<1>1. n \in Nat /\ s \in {0, 1}
  BY InfoFields
<1>2. T \in Nat /\ T >= 2 /\ w \in Nat \ {0}
  BY TurnFields
<1>3. p \in Nat /\ h \in Nat /\ short \in {0, 1}
  BY TurnFields, Scales DEF IsDisc
<1>4. sT = s * T /\ sT \in Int
  BY <1>2
<1>5. i.ip_lo = (a \div w) + 1 /\ i.ip_hi = b \div w
  BY DEF Interval, Short
<1> HIDE DEF n, T, h, p, sT, s, short, i
<1>6. n * (p - h) = n * p - n * h /\ n * (p + h) = n * p + n * h /\ n * p \in Int /\ n * h \in Int
  BY <1>1, <1>3
<1>7. a \in Int /\ b \in Int
  BY <1>3, <1>4, <1>6
<1>8. a \div w \in Int /\ b \div w \in Int
  BY <1>2, <1>7, QuotientAtMost
<1>9. ASSUME NEW k \in Int
      PROVE  /\ i.ip_lo <= k <=> n * p - n * h < (2 * k + s) * T
             /\ k <= i.ip_hi <=> (2 * k + s) * T <= n * p + n * h - short
  <2>1. (2 * k + s) * T = k * w + sT /\ k * w \in Int
    BY <1>1, <1>2, <1>4
  <2>2. k <= a \div w <=> k * w <= a
    BY <1>2, <1>7, QuotientAtMost
  <2>3. k <= b \div w <=> k * w <= b
    BY <1>2, <1>7, QuotientAtMost
  <2>4. i.ip_lo <= k <=> ~ (k <= a \div w)
    BY <1>5, <1>8
  <2>5. k * w <= a <=> k * w <= n * p - n * h - sT
    BY <1>6
  <2>6. k * w <= b <=> k * w <= n * p + n * h - sT - short
    BY <1>3, <1>4, <1>6
  <2> HIDE DEF w, a, b
  <2> QED
    BY <1>3, <1>4, <1>5, <1>6, <2>1, <2>2, <2>3, <2>4, <2>5, <2>6
<1>10. Middle(d, ring) = n * p /\ Reach(d, ring) = n * h /\ \A k : Centre(ring, k) = (2 * k + s) * T
  BY DEF Middle, Reach, Centre, n, p, h, s, T
<1>11. i.ip_lo \in Int /\ i.ip_hi \in Int
  BY <1>5, <1>8
<1> QED
  BY <1>9, <1>10, <1>11 DEF i, short

LEMMA IntervalBounds ==
  ASSUME base \in Bases, NEW ring \in Rings(base), NEW d, NEW f, IsDisc(base, d, f)
  PROVE  LET i == Interval(d, ring)
             nr == Info(ring).ringpix
         IN  /\ i.ip_lo \in Int /\ i.ip_hi \in Int
             /\ -nr <= i.ip_lo /\ -1 <= i.ip_hi /\ i.ip_hi < 2 * nr
             /\ i.ip_lo <= i.ip_hi + 1 /\ i.ip_hi - i.ip_lo + 1 <= nr
<1> DEFINE i == Interval(d, ring)
           lo == i.ip_lo
           hi == i.ip_hi
           nr == Info(ring).ringpix
           M == Around(ring)
           C == Middle(d, ring)
           H == Reach(d, ring)
           short == Short(d, ring)
<1>1. nr \in Nat /\ nr >= 4
  BY InfoFields
<1>2. /\ M \in Nat /\ C \in Nat /\ H \in Nat /\ C < M /\ 8 <= H /\ 2 * H <= M
      /\ short \in {0, 1} /\ 8 * Turn <= M
  BY Scales
<1>3. Turn \in Nat /\ Turn >= 2
  BY TurnFields
<1>4. lo \in Int /\ hi \in Int /\ \A k \in Int :
        /\ lo <= k <=> C - H < Centre(ring, k)
        /\ k <= hi <=> Centre(ring, k) <= C + H - short
  BY IntervalIs
<1>5. \A k \in Int : Centre(ring, k) \in Int /\ Centre(ring, k + nr) = Centre(ring, k) + M
                       /\ Centre(ring, k - nr) = Centre(ring, k) - M
  BY Turned
<1>6. Centre(ring, -1) <= -Turn /\ -Turn - Turn <= Centre(ring, -1)
  BY <1>3 DEF Centre
<1>7. Centre(ring, 0) >= 0 /\ Centre(ring, 0) <= Turn
  BY <1>3 DEF Centre
<1> HIDE DEF lo, hi, nr, M, C, H, short
<1>8. -nr <= lo
  <2>1. Centre(ring, -1 - nr) = Centre(ring, -1) - M /\ Centre(ring, -1) \in Int /\ -1 - nr \in Int
    BY <1>1, <1>5
  <2>2. ~ (C - H < Centre(ring, -1 - nr))
    BY <1>2, <1>3, <1>6, <2>1
  <2>3. ~ (lo <= -1 - nr)
    BY <1>4, <2>1, <2>2
  <2> QED
    BY <1>1, <1>4, <2>3
<1>9. -1 <= hi
  <2>1. Centre(ring, -1) \in Int
    BY <1>5
  <2>2. Centre(ring, -1) <= C + H - short
    BY <1>2, <1>3, <1>6, <2>1
  <2> QED
    BY <1>4, <2>2
<1>10. hi < 2 * nr
  <2>1. Centre(ring, (0 + nr) + nr) = (Centre(ring, 0) + M) + M /\ Centre(ring, 0) \in Int
        /\ (0 + nr) + nr = 2 * nr /\ 2 * nr \in Int
    BY <1>1, <1>5
  <2>2. ~ (Centre(ring, 2 * nr) <= C + H - short)
    BY <1>2, <1>7, <2>1
  <2>3. ~ (2 * nr <= hi)
    BY <1>4, <2>1, <2>2
  <2> QED
    BY <1>1, <1>4, <2>3
<1>11. lo <= hi + 1
  <2>1. Centre(ring, lo - 1) \in Int /\ lo - 1 \in Int /\ ~ (lo <= lo - 1)
    BY <1>4, <1>5
  <2>2. ~ (C - H < Centre(ring, lo - 1))
    BY <1>4, <2>1
  <2>3. Centre(ring, lo - 1) <= C + H - short
    BY <1>2, <2>1, <2>2
  <2>4. lo - 1 <= hi
    BY <1>4, <2>1, <2>3
  <2> QED
    BY <1>4, <2>4
<1>12. hi - lo + 1 <= nr
  <2>1. Centre(ring, hi) \in Int /\ Centre(ring, hi - nr) = Centre(ring, hi) - M /\ hi - nr \in Int
    BY <1>1, <1>4, <1>5
  <2>2. Centre(ring, hi) <= C + H - short
    BY <1>4
  <2>3. ~ (C - H < Centre(ring, hi - nr))
    BY <1>2, <2>1, <2>2
  <2>4. ~ (lo <= hi - nr)
    BY <1>4, <2>1, <2>3
  <2> QED
    BY <1>1, <1>4, <2>4
<1> QED
  BY <1>4, <1>8, <1>9, <1>10, <1>11, <1>12 DEF lo, hi, nr


----------------------------------------------------------------------------
(* Trimming.                                                               *)

\* Both ends are found: only free positions are cut off.
LEMMA TrimmedIs ==
  ASSUME NEW d, NEW ring, NEW i, i.ip_lo \in Int, i.ip_hi \in Int, i.ip_lo <= i.ip_hi + 1
  PROVE  LET t == Trimmed(d, ring, i)
         IN  /\ t.ip_lo \in Int /\ t.ip_hi \in Int
             /\ i.ip_lo <= t.ip_lo /\ t.ip_hi <= i.ip_hi /\ t.ip_lo <= t.ip_hi + 1
             /\ t.ip_lo > t.ip_hi => t.ip_hi = i.ip_hi
             /\ \A k \in Int :
                  /\ i.ip_lo <= k /\ k < t.ip_lo => check_pixel_ring(d, ring, k)
                  /\ t.ip_hi < k /\ k <= i.ip_hi => check_pixel_ring(d, ring, k)
<1> DEFINE free(k) == check_pixel_ring(d, ring, k)
           a == i.ip_lo
           z == i.ip_hi
           Lo(k) == (k <= z => ~free(k)) /\ \A m \in a .. k - 1 : free(m)
           Los == a .. (IF a > z THEN a ELSE z + 1)
           lo == CHOOSE k \in Los : Lo(k)
           Hi(k) == (k > lo => ~free(k)) /\ \A m \in k + 1 .. z : free(m)
           His == Smaller(lo, z) .. z
           hi == CHOOSE k \in His : Hi(k)
<1>1. Trimmed(d, ring, i) = [ ip_lo |-> lo, ip_hi |-> hi ]
  BY DEF Trimmed
<1> HIDE DEF free
<1>2. \E k \in Los : Lo(k)
  <2> DEFINE T == { k \in a .. z : ~free(k) }
  <2>1. CASE T = {}
    <3>1. CASE a > z
      BY <3>1
    <3>2. CASE ~ (a > z)
      <4>1. z + 1 \in Los /\ Lo(z + 1)
        BY <2>1, <3>2
      <4> QED
        BY <4>1
    <3> QED
      BY <3>1, <3>2
  <2>2. CASE T # {}
    <3>1. PICK k \in T : \A y \in T : k <= y
      <4>1. T \in SUBSET Int /\ \A x \in T : a <= x
        OBVIOUS
      <4> HIDE DEF T
      <4> QED
        BY <2>2, <4>1, LeastOfInts
    <3>2. k \in Los
      BY <3>1
    <3>3. Lo(k)
      BY <3>1
    <3> QED
      BY <3>2, <3>3
  <2> QED
    BY <2>1, <2>2
<1>3. lo \in Los /\ Lo(lo)
  <2> HIDE DEF Los, Lo
  <2> QED
    BY <1>2
<1> HIDE DEF lo
<1>4. lo \in Int /\ a <= lo /\ lo <= z + 1
  BY <1>3
<1>5. \E k \in His : Hi(k)
  <2>1. CASE lo > z
    <3>1. z \in His /\ Hi(z)
      BY <1>4, <2>1 DEF Smaller
    <3> QED
      BY <3>1
  <2>2. CASE ~ (lo > z)
    <3> DEFINE T == { k \in lo .. z : ~free(k) }
    <3>1. lo \in T
      BY <1>3, <1>4, <2>2
    <3>2. PICK k \in T : \A y \in T : y <= k
      <4>1. T \in SUBSET Int /\ \A x \in T : x <= z
        BY <1>4
      <4> HIDE DEF T
      <4> QED
        BY <3>1, <4>1, GreatestOfInts
    <3>3. k \in His
      BY <1>4, <2>2, <3>2 DEF Smaller
    <3>4. Hi(k)
      <4>1. ~free(k) /\ k \in lo .. z
        BY <3>2
      <4>2. ASSUME NEW m \in k + 1 .. z
            PROVE  free(m)
        BY <1>4, <3>2, <4>1
      <4> QED
        BY <4>1, <4>2
    <3> QED
      BY <3>3, <3>4
  <2> QED
    BY <2>1, <2>2
<1>6. hi \in His /\ Hi(hi)
  <2> HIDE DEF His, Hi
  <2> QED
    BY <1>5
<1> HIDE DEF hi
<1>7. hi \in Int /\ hi <= z /\ lo <= hi + 1 /\ (lo > hi => hi = z)
  BY <1>4, <1>6 DEF Smaller
<1>8. ASSUME NEW k \in Int
      PROVE  /\ a <= k /\ k < lo => free(k)
             /\ hi < k /\ k <= z => free(k)
  <2>1. a <= k /\ k < lo => k \in a .. lo - 1
    BY <1>4
  <2>2. hi < k /\ k <= z => k \in hi + 1 .. z
    BY <1>7
  <2> QED
    BY <1>3, <1>6, <2>1, <2>2
<1> QED
  BY <1>1, <1>4, <1>7, <1>8 DEF free

\* The position in the ring that a position of the turn before or after is.
Place(ring, k) ==
  LET nr == Info(ring).ringpix
  IN  IF k >= nr THEN k - nr ELSE IF k < 0 THEN k + nr ELSE k

\* What is found is the interval, less positions without overlap.
LEMMA FoundIs ==
  ASSUME base \in Bases, NEW ring \in Rings(base), NEW d, NEW f, IsDisc(base, d, f)
  PROVE  LET i == Interval(d, ring)
             t == Found(d, ring)
         IN  /\ t.ip_lo \in Int /\ t.ip_hi \in Int
             /\ i.ip_lo <= t.ip_lo /\ t.ip_hi <= i.ip_hi /\ t.ip_lo <= t.ip_hi + 1
             /\ t.ip_lo > t.ip_hi => t.ip_hi = i.ip_hi
             /\ \A k \in Int : i.ip_lo <= k /\ k <= i.ip_hi =>
                  \/ t.ip_lo <= k /\ k <= t.ip_hi
                  \/ fct > 1 /\ Info(ring).startpix + Place(ring, k) \notin d.overlaps
<1> DEFINE i == Interval(d, ring)
           t == Found(d, ring)
<1>1. i.ip_lo \in Int /\ i.ip_hi \in Int /\ i.ip_lo <= i.ip_hi + 1
  BY IntervalBounds
<1>2. CASE ~ (fct > 1)
  <2>1. t = i
    BY <1>2 DEF Found
  <2> HIDE DEF i, t
  <2> QED
    BY <1>1, <2>1 DEF i, t
<1>3. CASE fct > 1
  <2>1. t = Trimmed(d, ring, i)
    BY <1>3 DEF Found
  <2>2. \A k : check_pixel_ring(d, ring, k) <=> Info(ring).startpix + Place(ring, k) \notin d.overlaps
    BY DEF check_pixel_ring, Place
  <2> HIDE DEF i
  <2>3. /\ t.ip_lo \in Int /\ t.ip_hi \in Int
        /\ i.ip_lo <= t.ip_lo /\ t.ip_hi <= i.ip_hi /\ t.ip_lo <= t.ip_hi + 1
        /\ t.ip_lo > t.ip_hi => t.ip_hi = i.ip_hi
        /\ \A k \in Int :
             /\ i.ip_lo <= k /\ k < t.ip_lo => check_pixel_ring(d, ring, k)
             /\ t.ip_hi < k /\ k <= i.ip_hi => check_pixel_ring(d, ring, k)
    BY <1>1, <2>1, TrimmedIs
  <2> HIDE DEF t
  <2> QED
    BY <1>3, <2>2, <2>3 DEF i, t
<1> QED
  BY <1>2, <1>3


----------------------------------------------------------------------------
(* The ranges of one ring.                                                 *)

\* Vectors of no, one and two ranges.
LEMMA FewRanges ==
  ASSUME NEW a \in Int, NEW b \in Int, NEW c \in Int, NEW e \in Int
  PROVE  /\ << >> \in Seq(Int) /\ Elements(<< >>) = {} /\ StartsAscend(<< >>)
         /\ << a, b >> \in Seq(Int) /\ StartsAscend(<< a, b >>)
         /\ \A x : x \in Elements(<< a, b >>) <=> x \in Int /\ a <= x /\ x < b
         /\ << a, b, c, e >> \in Seq(Int) /\ (a <= c => StartsAscend(<< a, b, c, e >>))
         /\ \A x : x \in Elements(<< a, b, c, e >>) <=>
              x \in Int /\ ((a <= x /\ x < b) \/ (c <= x /\ x < e))
<1> DEFINE two == << a, b >>
           four == << a, b, c, e >>
<1>1. << >> \in Seq(Int) /\ Len(<< >>) = 0
  BY EmptySeq
<1>2. Elements(<< >>) = {} /\ StartsAscend(<< >>)
  <2>1. 0 % 2 = 0 /\ 0 \div 2 = 0 /\ 1 .. 0 = {}
    OBVIOUS
  <2>2. Len(<< >>) % 2 = 0 /\ Len(<< >>) \div 2 = 0
    BY <1>1, <2>1
  <2> QED
    BY <1>1, <2>1, <2>2, RangesIff DEF StartsAscend
<1>3. two \in Seq(Int) /\ Len(two) = 2 /\ two[1] = a /\ two[2] = b
  OBVIOUS
<1>4. four \in Seq(Int) /\ Len(four) = 4 /\ four[1] = a /\ four[2] = b /\ four[3] = c /\ four[4] = e
  OBVIOUS
<1> HIDE DEF two, four
<1>5. 2 % 2 = 0 /\ 2 \div 2 = 1 /\ 4 % 2 = 0 /\ 4 \div 2 = 2 /\ 1 .. 1 = {1} /\ 1 .. 2 = {1, 2}
      /\ 2*1 - 1 = 1 /\ 2*1 = 2 /\ 2*2 - 1 = 3 /\ 2*2 = 4
  OBVIOUS
<1>6. \A x : x \in Elements(two) <=> x \in Int /\ a <= x /\ x < b
  <2>1. \A x : x \in Elements(two) <=>
          x \in Int /\ \E n \in 1 .. 1 : two[2*n-1] <= x /\ x < two[2*n]
    BY <1>3, <1>5, RangesIff
  <2> QED
    BY <1>3, <1>5, <2>1
<1>7. StartsAscend(two)
  <2>1. \A i, j \in 1 .. 1 : ~ (i < j)
    OBVIOUS
  <2> QED
    BY <1>3, <1>5, <2>1 DEF StartsAscend
<1>8. \A x : x \in Elements(four) <=>
        x \in Int /\ ((a <= x /\ x < b) \/ (c <= x /\ x < e))
  <2>1. \A x : x \in Elements(four) <=>
          x \in Int /\ \E n \in 1 .. 2 : four[2*n-1] <= x /\ x < four[2*n]
    BY <1>4, <1>5, RangesIff
  <2> QED
    BY <1>4, <1>5, <2>1
<1>9. a <= c => StartsAscend(four)
  <2>1. \A i, j \in 1 .. 2 : i < j => i = 1 /\ j = 2
    OBVIOUS
  <2>2. a <= c => \A i, j \in 1 .. 2 : i < j => four[2*i-1] <= four[2*j-1]
    BY <1>4, <1>5, <2>1
  <2> QED
    BY <1>4, <1>5, <2>2 DEF StartsAscend
<1> QED
  BY <1>1, <1>2, <1>3, <1>4, <1>6, <1>7, <1>8, <1>9 DEF two, four

\* The numbers of RingRanges and Cut, and their limits.
LEMMA WrappedIs ==
  ASSUME base \in Bases, NEW ring \in Rings(base), NEW d, NEW f, IsDisc(base, d, f)
  PROVE  LET nr == Info(ring).ringpix
             t == Found(d, ring)
             w == Wrapped(t, nr)
         IN  /\ w.ip_lo \in Int /\ w.ip_hi \in Int
             /\ w.ip_lo <= w.ip_hi + 1 /\ w.ip_hi - w.ip_lo + 1 <= nr
             /\ -nr <= w.ip_lo /\ w.ip_hi < nr
             /\ w.ip_lo > w.ip_hi => w.ip_lo >= 0
             /\ w.ip_lo > w.ip_hi <=> t.ip_lo > t.ip_hi
             /\ \/ w = t
                \/ t.ip_hi >= nr /\ t.ip_lo >= 1 /\ w.ip_lo = t.ip_lo - nr /\ w.ip_hi = t.ip_hi - nr
<1> DEFINE i == Interval(d, ring)
           nr == Info(ring).ringpix
           t == Found(d, ring)
           w == Wrapped(t, nr)
<1>1. nr \in Nat /\ nr >= 4
  BY InfoFields
<1>2. /\ i.ip_lo \in Int /\ i.ip_hi \in Int
      /\ -nr <= i.ip_lo /\ -1 <= i.ip_hi /\ i.ip_hi < 2 * nr
      /\ i.ip_lo <= i.ip_hi + 1 /\ i.ip_hi - i.ip_lo + 1 <= nr
  BY IntervalBounds
<1>3. /\ t.ip_lo \in Int /\ t.ip_hi \in Int
      /\ i.ip_lo <= t.ip_lo /\ t.ip_hi <= i.ip_hi /\ t.ip_lo <= t.ip_hi + 1
      /\ t.ip_lo > t.ip_hi => t.ip_hi = i.ip_hi
  BY FoundIs
<1>4. t.ip_lo > t.ip_hi => t.ip_lo >= 0
  BY <1>2, <1>3
<1> QED
  BY <1>1, <1>2, <1>3, <1>4 DEF Wrapped


\* The pixels of RingRanges, by the wrapped interval.
LEMMA RangesAre ==
  ASSUME base \in Bases, NEW ring \in Rings(base), NEW d, NEW f, IsDisc(base, d, f)
  PROVE  LET nr == Info(ring).ringpix
             start == Info(ring).startpix
             w == Wrapped(Found(d, ring), nr)
             r == RingRanges(d, ring)
         IN  /\ r \in Seq(Int) /\ StartsAscend(r)
             /\ \A x : x \in Elements(r) <=>
                  /\ x \in Int /\ w.ip_lo <= w.ip_hi
                  /\ IF w.ip_lo < 0
                     THEN \/ start <= x /\ x < start + w.ip_hi + 1
                          \/ start + nr + w.ip_lo <= x /\ x < start + nr
                     ELSE start + w.ip_lo <= x /\ x < start + w.ip_hi + 1
<1> DEFINE nr == Info(ring).ringpix
           start == Info(ring).startpix
           t == Found(d, ring)
           w == Wrapped(t, nr)
           r == RingRanges(d, ring)
           v1 == start + w.ip_lo
           v2 == start + w.ip_hi + 1
           v3 == (start + nr) + w.ip_lo
           v4 == start + nr
<1>1. r = IF t.ip_lo > t.ip_hi THEN << >>
          ELSE IF w.ip_lo < 0 THEN << start, v2, v3, v4 >> ELSE << v1, v2 >>
  BY DEF RingRanges
<1>2. nr \in Nat /\ nr >= 4 /\ start \in Nat
  BY InfoFields
<1>3. /\ w.ip_lo \in Int /\ w.ip_hi \in Int
      /\ w.ip_lo <= w.ip_hi + 1 /\ w.ip_hi - w.ip_lo + 1 <= nr
      /\ -nr <= w.ip_lo /\ w.ip_hi < nr
      /\ w.ip_lo > w.ip_hi => w.ip_lo >= 0
      /\ w.ip_lo > w.ip_hi <=> t.ip_lo > t.ip_hi
  BY WrappedIs
<1> HIDE DEF nr, start, t, w, r
<1>4. v1 \in Int /\ v2 \in Int /\ v3 \in Int /\ v4 \in Int /\ start \in Int /\ start <= v3
  BY <1>2, <1>3
<1>5. w.ip_lo <= w.ip_hi <=> ~ (t.ip_lo > t.ip_hi)
  BY <1>3
<1> HIDE DEF v1, v2, v3, v4
<1>6. CASE t.ip_lo > t.ip_hi
  <2>1. r = << >>
    BY <1>1, <1>6
  <2>2. r \in Seq(Int) /\ StartsAscend(r) /\ Elements(r) = {}
    BY <1>4, <2>1, FewRanges
  <2> QED
    BY <1>5, <1>6, <2>2 DEF nr, start, t, w, r
<1>7. CASE ~ (t.ip_lo > t.ip_hi) /\ w.ip_lo < 0
  <2>1. r = << start, v2, v3, v4 >>
    BY <1>1, <1>7
  <2>2. r \in Seq(Int) /\ StartsAscend(r)
    BY <1>4, <2>1, FewRanges
  <2>3. \A x : x \in Elements(r) <=> x \in Int /\ ((start <= x /\ x < v2) \/ (v3 <= x /\ x < v4))
    BY <1>4, <2>1, FewRanges
  <2> QED
    BY <1>5, <1>7, <2>2, <2>3 DEF nr, start, t, w, r, v1, v2, v3, v4
<1>8. CASE ~ (t.ip_lo > t.ip_hi) /\ ~ (w.ip_lo < 0)
  <2>1. r = << v1, v2 >>
    BY <1>1, <1>8
  <2>2. r \in Seq(Int) /\ StartsAscend(r)
    BY <1>4, <2>1, FewRanges
  <2>3. \A x : x \in Elements(r) <=> x \in Int /\ v1 <= x /\ x < v2
    BY <1>4, <2>1, FewRanges
  <2> QED
    BY <1>5, <1>8, <2>2, <2>3 DEF nr, start, t, w, r, v1, v2, v3, v4
<1> QED
  BY <1>6, <1>7, <1>8

\* They lie in the ring, and are positions of the interval; none that is found is missing.
LEMMA RangesInRing ==
  ASSUME base \in Bases, NEW ring \in Rings(base), NEW d, NEW f, IsDisc(base, d, f)
  PROVE  LET i == Interval(d, ring)
             t == Found(d, ring)
             start == Info(ring).startpix
         IN  /\ \A x \in Elements(RingRanges(d, ring)) :
                  /\ x \in Int /\ InTheRing(base, ring, x)
                  /\ \E k \in Int : i.ip_lo <= k /\ k <= i.ip_hi /\ x = start + Place(ring, k)
             /\ \A k \in Int : t.ip_lo <= k /\ k <= t.ip_hi =>
                  start + Place(ring, k) \in Elements(RingRanges(d, ring))
<1> DEFINE i == Interval(d, ring)
           nr == Info(ring).ringpix
           start == Info(ring).startpix
           t == Found(d, ring)
           w == Wrapped(t, nr)
           r == RingRanges(d, ring)
           In(x) == /\ w.ip_lo <= w.ip_hi
                    /\ IF w.ip_lo < 0
                       THEN \/ start <= x /\ x < start + w.ip_hi + 1
                            \/ start + nr + w.ip_lo <= x /\ x < start + nr
                       ELSE start + w.ip_lo <= x /\ x < start + w.ip_hi + 1
<1>1. nr \in Nat /\ nr >= 4 /\ start \in Nat
  BY InfoFields
<1>2. /\ i.ip_lo \in Int /\ i.ip_hi \in Int
      /\ -nr <= i.ip_lo /\ -1 <= i.ip_hi /\ i.ip_hi < 2 * nr
      /\ i.ip_hi - i.ip_lo + 1 <= nr
  BY IntervalBounds
<1>3. t.ip_lo \in Int /\ t.ip_hi \in Int /\ i.ip_lo <= t.ip_lo /\ t.ip_hi <= i.ip_hi
  BY FoundIs
<1>4. /\ w.ip_lo \in Int /\ w.ip_hi \in Int
      /\ w.ip_hi - w.ip_lo + 1 <= nr /\ -nr <= w.ip_lo /\ w.ip_hi < nr
      /\ w.ip_lo > w.ip_hi <=> t.ip_lo > t.ip_hi
      /\ \/ w = t
         \/ t.ip_hi >= nr /\ t.ip_lo >= 1 /\ w.ip_lo = t.ip_lo - nr /\ w.ip_hi = t.ip_hi - nr
  BY WrappedIs
<1>5. \A x : x \in Elements(r) <=> x \in Int /\ In(x)
  BY RangesAre
<1>6. \A k : Place(ring, k) = IF k >= nr THEN k - nr ELSE IF k < 0 THEN k + nr ELSE k
  BY DEF Place
<1>7. \A x \in Int : InTheRing(base, ring, x) <=> start <= x /\ x < start + nr
  BY InfoFields
<1> HIDE DEF i, nr, start, t, w, r
<1>8. ASSUME NEW x \in Elements(r)
      PROVE  /\ x \in Int /\ InTheRing(base, ring, x)
             /\ \E k \in Int : i.ip_lo <= k /\ k <= i.ip_hi /\ x = start + Place(ring, k)
  <2>1. x \in Int /\ In(x)
    BY <1>5, <1>8
  <2>2. InTheRing(base, ring, x)
    BY <1>1, <1>4, <1>7, <2>1
  <2> DEFINE p == x - start
  <2>3. p \in Int /\ x = start + p /\ 0 <= p /\ p < nr
    BY <1>1, <1>7, <2>1, <2>2
  <2>4. Place(ring, p) = p /\ Place(ring, p + nr) = p /\ Place(ring, p - nr) = p
    BY <1>1, <1>6, <2>3
  <2>5. \/ i.ip_lo <= p /\ p <= i.ip_hi
        \/ i.ip_lo <= p + nr /\ p + nr <= i.ip_hi
        \/ i.ip_lo <= p - nr /\ p - nr <= i.ip_hi
    BY <1>1, <1>2, <1>3, <1>4, <2>1, <2>3
  <2>6. p + nr \in Int /\ p - nr \in Int
    BY <1>1, <2>3
  <2> HIDE DEF p
  <2> QED
    BY <2>1, <2>2, <2>3, <2>4, <2>5, <2>6
<1>9. ASSUME NEW k \in Int, t.ip_lo <= k, k <= t.ip_hi
      PROVE  start + Place(ring, k) \in Elements(r)
  <2> DEFINE x == start + Place(ring, k)
  <2>1. x = start + (IF k >= nr THEN k - nr ELSE IF k < 0 THEN k + nr ELSE k)
    BY <1>6
  <2> HIDE DEF x
  <2>2. x \in Int /\ In(x)
    BY <1>1, <1>2, <1>3, <1>4, <1>9, <2>1
  <2> QED
    BY <1>5, <2>2 DEF x
<1> QED
  BY <1>8, <1>9 DEF i, t, start, r

\* The range that query_multidisc keeps of a ring, or the one it removes, leaves the same.
LEMMA CutIs ==
  ASSUME base \in Bases, NEW ring \in Rings(base), NEW d, NEW f, IsDisc(base, d, f)
  PROVE  LET c == Cut(d, ring)
         IN  /\ c.a \in Int /\ c.b \in Int /\ c.a <= c.b
             /\ \A x \in Int : InTheRing(base, ring, x) =>
                  (x \in Elements(RingRanges(d, ring)) <=>
                     IF c.removes THEN ~ (c.a <= x /\ x < c.b) ELSE c.a <= x /\ x < c.b)
<1> DEFINE nr == Info(ring).ringpix
           start == Info(ring).startpix
           w == Wrapped(Found(d, ring), nr)
           c == Cut(d, ring)
           r == RingRanges(d, ring)
           In(x) == /\ w.ip_lo <= w.ip_hi
                    /\ IF w.ip_lo < 0
                       THEN \/ start <= x /\ x < start + w.ip_hi + 1
                            \/ start + nr + w.ip_lo <= x /\ x < start + nr
                       ELSE start + w.ip_lo <= x /\ x < start + w.ip_hi + 1
<1>1. nr \in Nat /\ nr >= 4 /\ start \in Nat
  BY InfoFields
<1>2. /\ w.ip_lo \in Int /\ w.ip_hi \in Int
      /\ w.ip_lo <= w.ip_hi + 1
      /\ w.ip_hi - w.ip_lo + 1 <= nr /\ -nr <= w.ip_lo /\ w.ip_hi < nr
      /\ w.ip_lo > w.ip_hi => w.ip_lo >= 0
  BY WrappedIs
<1>3. \A x : x \in Elements(r) <=> x \in Int /\ In(x)
  BY RangesAre
<1>4. \A x \in Int : InTheRing(base, ring, x) <=> start <= x /\ x < start + nr
  BY InfoFields
<1>5. c = IF w.ip_lo < 0
          THEN [ removes |-> TRUE, a |-> start + w.ip_hi + 1, b |-> start + w.ip_lo + nr ]
          ELSE [ removes |-> FALSE, a |-> start + w.ip_lo, b |-> start + w.ip_hi + 1 ]
  BY DEF Cut
<1> HIDE DEF nr, start, w, c, r
<1>6. CASE w.ip_lo < 0
  <2>1. c.removes = TRUE /\ c.a = start + w.ip_hi + 1 /\ c.b = start + w.ip_lo + nr
    BY <1>5, <1>6
  <2> HIDE DEF c
  <2> QED
    BY <1>1, <1>2, <1>3, <1>4, <1>6, <2>1 DEF c, r
<1>7. CASE ~ (w.ip_lo < 0)
  <2>1. c.removes = FALSE /\ c.a = start + w.ip_lo /\ c.b = start + w.ip_hi + 1
    BY <1>5, <1>7
  <2> QED
    BY <1>1, <1>2, <1>3, <1>4, <1>7, <2>1 DEF c, r
<1> QED
  BY <1>6, <1>7


----------------------------------------------------------------------------
(* Distances.                                                              *)

\* How far a position of a ring is from the middle of a disc, as in Away.
Distance(d, ring, p) ==
  LET east == (Centre(ring, p) - Middle(d, ring)) % Around(ring)
  IN  Smaller(east, Around(ring) - east)

\* The centre of the pixel is nearer than the half; in a whole ring the one that
\* is opposite may be missing.
Reaches(d, ring, x) ==
  LET away == Distance(d, ring, x - Info(ring).startpix)
  IN  IF d.half[ring] = Whole THEN d.rounds \/ 2 * away # Around(ring)
      ELSE away < Reach(d, ring)

LEMMA SmallRemainder ==
  ASSUME NEW M \in Nat \ {0}, NEW a \in Int, -M <= a, a < M
  PROVE  a % M = IF a >= 0 THEN a ELSE a + M
<1> DEFINE q == a \div M
           r == a % M
<1>1. q \in Int /\ r \in Int /\ 0 <= r /\ r < M /\ a = M * q + r
  BY SMTT(30)
<1> HIDE DEF q, r
<1>2. CASE q >= 1
  <2>1. M * q >= M
    BY <1>1, <1>2
  <2> QED
    BY <1>1, <2>1
<1>3. CASE q <= -2
  <2>1. M * q <= -M - M
    BY <1>1, <1>3
  <2> QED
    BY <1>1, <2>1
<1>4. CASE q = 0
  <2>1. M * q = 0
    BY <1>4
  <2> QED
    BY <1>1, <2>1 DEF r
<1>5. CASE q = -1
  <2>1. M * q = -M
    BY <1>5
  <2> QED
    BY <1>1, <2>1 DEF r
<1> QED
  BY <1>1, <1>2, <1>3, <1>4, <1>5

LEMMA NoRemainder ==
  ASSUME NEW w \in Nat \ {0}, NEW k \in Int
  PROVE  (k * w) % w = 0
<1> DEFINE a == k * w
           q == a \div w
           r == a % w
<1>1. a \in Int
  OBVIOUS
<1> HIDE DEF a
<1>2. q \in Int /\ r \in Int /\ 0 <= r /\ r < w /\ a = w * q + r
  BY <1>1, SMTT(30)
<1>3. k <= q
  <2>1. k * w <= a
    BY <1>1 DEF a
  <2> QED
    BY <1>1, <2>1, QuotientAtMost
<1>4. q <= k
  <2>1. q * w <= a
    BY <1>1, <1>2, QuotientAtMost
  <2> HIDE DEF q, r
  <2>2. ASSUME k + 1 <= q
        PROVE  FALSE
    <3>1. (k + 1) * w <= q * w
      BY <1>2, <2>2
    <3>2. (k + 1) * w = a + w
      BY DEF a
    <3>3. a \in Int /\ q * w \in Int /\ w >= 1
      BY <1>1, <1>2
    <3> QED
      BY <2>1, <3>1, <3>2, <3>3
  <2> QED
    BY <1>2, <2>2
<1>5. q = k
  BY <1>2, <1>3, <1>4
<1>6. w * k = a
  BY DEF a
<1> QED
  BY <1>1, <1>2, <1>5, <1>6 DEF a, r

\* No centre is right at the eastern end.
LEMMA NoTie ==
  ASSUME base \in Bases, NEW ring \in Rings(base), NEW d, NEW f, IsDisc(base, d, f),
         d.half[ring] # Whole, NEW k \in Int
  PROVE  Centre(ring, k) # Middle(d, ring) + Reach(d, ring)
<1> DEFINE n == 2 * Info(ring).ringpix
           T == Turn
           h == d.half[ring]
           p == d.phi
           sT == IF Info(ring).shifted THEN T ELSE 0
           s == IF Info(ring).shifted THEN 1 ELSE 0
           w == 2 * T
           a == n * (p + h) - sT
<1>1. n \in Nat /\ s \in {0, 1}
  BY InfoFields
<1>2. T \in Nat /\ T >= 2 /\ w \in Nat \ {0}
  BY TurnFields
<1>3. p \in Nat /\ h \in Nat
  BY TurnFields DEF IsDisc
<1>4. a % w # 0
  <2>1. ~OnCentre(base, d, ring)
    BY DEF IsDisc
  <2> QED
    BY <2>1 DEF OnCentre, Info
<1>5. sT = s * T /\ sT \in Int
  BY <1>2
<1>6. Middle(d, ring) = n * p /\ Reach(d, ring) = n * h /\ Centre(ring, k) = (2 * k + s) * T
  BY DEF Middle, Reach, Centre
<1> HIDE DEF n, T, h, p, sT, s
<1>7. ASSUME (2 * k + s) * T = n * p + n * h
      PROVE  FALSE
  <2>1. (2 * k + s) * T = k * w + sT /\ k * w \in Int
    BY <1>1, <1>2, <1>5
  <2>2. n * (p + h) = n * p + n * h /\ n * p \in Int /\ n * h \in Int
    BY <1>1, <1>3
  <2>3. a = k * w
    BY <1>5, <1>7, <2>1, <2>2
  <2>4. (k * w) % w = 0
    BY <1>2, NoRemainder
  <2> HIDE DEF a, w
  <2> QED
    BY <1>4, <2>3, <2>4
<1> QED
  BY <1>6, <1>7

\* The interval, by distance.
LEMMA IntervalReaches ==
  ASSUME base \in Bases, NEW ring \in Rings(base), NEW d, NEW f, IsDisc(base, d, f),
         NEW x \in Int, InTheRing(base, ring, x)
  PROVE  (\E k \in Int : /\ Interval(d, ring).ip_lo <= k /\ k <= Interval(d, ring).ip_hi
                         /\ x = Info(ring).startpix + Place(ring, k))
           <=> Reaches(d, ring, x)
<1> DEFINE i == Interval(d, ring)
           nr == Info(ring).ringpix
           start == Info(ring).startpix
           M == Around(ring)
           C == Middle(d, ring)
           H == Reach(d, ring)
           short == Short(d, ring)
           p == x - start
           c == Centre(ring, p)
           In(y) == C - H < y /\ y <= C + H - short
           whole == d.half[ring] = Whole
           away == Distance(d, ring, p)
<1>1. nr \in Nat /\ nr >= 4 /\ start \in Nat /\ p \in Nat /\ p < nr /\ x = start + p
  BY InfoFields
<1>2. /\ M \in Nat /\ C \in Nat /\ H \in Nat /\ C < M /\ 8 <= H /\ 2 * H <= M
      /\ (2 * H = M <=> whole)
  BY Scales
<1>3. short = IF whole /\ ~d.rounds THEN 1 ELSE 0
  BY DEF Short
<1>4. i.ip_lo \in Int /\ i.ip_hi \in Int /\ \A k \in Int :
        i.ip_lo <= k /\ k <= i.ip_hi <=> In(Centre(ring, k))
  BY IntervalIs
<1>5. c \in Int /\ Centre(ring, p + nr) = c + M /\ Centre(ring, p - nr) = c - M
  BY <1>1, Turned
<1>6. 0 <= c /\ c < M
  <2> DEFINE s == IF Info(ring).shifted THEN 1 ELSE 0
  <2>1. c = (2 * p + s) * Turn /\ M = (2 * nr) * Turn /\ s \in {0, 1} /\ Turn \in Nat /\ Turn >= 2
    BY TurnFields DEF Centre, Around
  <2>2. 2 * p + s \in Nat /\ 2 * p + s + 1 <= 2 * nr
    BY <1>1, <2>1
  <2> DEFINE u == 2 * p + s
             v == 2 * nr
  <2> HIDE DEF u, v, c, M
  <2>3. u \in Nat /\ v \in Nat /\ u + 1 <= v /\ c = u * Turn /\ M = v * Turn
    BY <1>1, <2>1, <2>2 DEF u, v
  <2>4. (u + 1) * Turn <= v * Turn /\ (u + 1) * Turn = u * Turn + Turn /\ u * Turn \in Nat
    BY <2>1, <2>3
  <2> QED
    BY <2>1, <2>3, <2>4
<1>7. \A k : Place(ring, k) = IF k >= nr THEN k - nr ELSE IF k < 0 THEN k + nr ELSE k
  BY DEF Place
<1>8. ~whole => /\ c # C + H /\ c + M # C + H /\ c - M # C + H
  <2>1. p \in Int /\ p + nr \in Int /\ p - nr \in Int
    BY <1>1
  <2> QED
    BY <1>5, <2>1, NoTie
<1>9. away = LET east == (c - C) % M IN Smaller(east, M - east)
  BY DEF Distance
<1>10. Reaches(d, ring, x) <=> IF whole THEN d.rounds \/ 2 * away # M ELSE away < H
  BY DEF Reaches
<1>11. d.rounds \in BOOLEAN
  BY DEF IsDisc
<1> HIDE DEF i, nr, start, M, C, H, short, p, c, whole, away
<1>12. (\E k \in Int : i.ip_lo <= k /\ k <= i.ip_hi /\ x = start + Place(ring, k))
         <=> In(c) \/ In(c + M) \/ In(c - M)
  <2>1. ASSUME NEW k \in Int, i.ip_lo <= k, k <= i.ip_hi, x = start + Place(ring, k)
        PROVE  In(c) \/ In(c + M) \/ In(c - M)
    <3>1. k = p \/ k = p + nr \/ k = p - nr
      BY <1>1, <1>7, <2>1
    <3>2. In(Centre(ring, k))
      BY <1>4, <2>1
    <3> QED
      BY <1>5, <3>1, <3>2 DEF c
  <2>2. /\ Place(ring, p) = p /\ Place(ring, p + nr) = p /\ Place(ring, p - nr) = p
        /\ p \in Int /\ p + nr \in Int /\ p - nr \in Int
    BY <1>1, <1>7
  <2>3. ASSUME In(c) \/ In(c + M) \/ In(c - M)
        PROVE  \E k \in Int : i.ip_lo <= k /\ k <= i.ip_hi /\ x = start + Place(ring, k)
    <3>1. \/ In(Centre(ring, p)) \/ In(Centre(ring, p + nr)) \/ In(Centre(ring, p - nr))
      BY <1>5, <2>3 DEF c
    <3> HIDE DEF In
    <3> QED
      BY <1>1, <1>4, <2>2, <3>1
  <2> HIDE DEF In
  <2> QED
    BY <2>1, <2>3
<1>13. (c - C) % M = IF c >= C THEN c - C ELSE c - C + M
  <2>1. M \in Nat \ {0} /\ c - C \in Int /\ -M <= c - C /\ c - C < M
    BY <1>2, <1>5, <1>6
  <2>2. (c - C) % M = IF c - C >= 0 THEN c - C ELSE c - C + M
    BY <2>1, SmallRemainder
  <2> QED
    BY <1>2, <1>5, <2>2
<1>14. away = LET east == IF c >= C THEN c - C ELSE c - C + M
              IN  IF east <= M - east THEN east ELSE M - east
  BY <1>9, <1>13 DEF Smaller
<1>15. In(c) \/ In(c + M) \/ In(c - M)
         <=> IF whole THEN d.rounds \/ 2 * away # M ELSE away < H
  <2>1. CASE whole /\ d.rounds
    BY <1>2, <1>3, <1>5, <1>6, <2>1
  <2>2. CASE whole /\ ~d.rounds
    BY <1>2, <1>3, <1>5, <1>6, <1>14, <2>2
  <2>3. CASE ~whole
    BY <1>2, <1>3, <1>5, <1>6, <1>8, <1>14, <2>3
  <2> QED
    BY <1>11, <2>1, <2>2, <2>3
<1> QED
  BY <1>10, <1>12, <1>15 DEF i, start


----------------------------------------------------------------------------
(* Pixels and rings.                                                       *)

LEMMA PixelRing ==
  ASSUME base \in Bases
  PROVE  /\ \A x \in Pixels(base) :
              /\ x \in Int /\ pix2ring(base, x) \in Rings(base)
              /\ InTheRing(base, pix2ring(base, x), x)
         /\ \A ring \in Rings(base) : \A x \in Int :
              InTheRing(base, ring, x) => x \in Pixels(base) /\ pix2ring(base, x) = ring
<1>1. base.nside \in Nat \ {0} /\ base.scheme = "RING"
  BY BaseFields
<1>2. \A x : pix2ring(base, x) = InRing(base, x).iring
  BY <1>1 DEF pix2ring
<1>3. npix(base) \in Nat
  BY <1>1, Borders
<1>4. ASSUME NEW x \in Pixels(base)
      PROVE  /\ x \in Int /\ pix2ring(base, x) \in Rings(base)
             /\ InTheRing(base, pix2ring(base, x), x)
  <2>1. x \in Int
    BY <1>3 DEF Pixels
  <2> QED
    BY <1>1, <1>2, <2>1, RingOfPixel DEF Rings
<1>5. ASSUME NEW ring \in Rings(base), NEW x \in Int, InTheRing(base, ring, x)
      PROVE  x \in Pixels(base) /\ pix2ring(base, x) = ring
  <2>1. ring \in 1 .. 4 * base.nside - 1 /\ 4 * base.nside \in 1 .. 4 * base.nside /\ ring < 4 * base.nside
    BY <1>1 DEF Rings
  <2>2. FirstOf(base, ring) \in Nat /\ Length(base, ring) \in Nat
    BY <1>1, <2>1, RingsTouch
  <2>3. FirstOf(base, ring) + Length(base, ring) <= npix(base)
    BY <1>1, <2>1, RingsAscend, Borders
  <2>4. x \in Pixels(base)
    BY <1>3, <1>5, <2>2, <2>3 DEF Pixels, InTheRing
  <2>5. pix2ring(base, x) \in 1 .. 4 * base.nside - 1 /\ InTheRing(base, pix2ring(base, x), x)
    BY <1>4, <2>4 DEF Rings
  <2> QED
    BY <1>1, <1>5, <2>1, <2>4, <2>5, RingsBetween
<1> QED
  BY <1>4, <1>5

\* Pixels of one ring are before those of the rings to the south, and all of them
\* before the first pixel of a ring to the south.
LEMMA RingsApart ==
  ASSUME base \in Bases, NEW x \in Pixels(base), NEW south \in 1 .. 4 * base.nside,
         pix2ring(base, x) < south
  PROVE  FirstOf(base, south) \in Nat /\ x < FirstOf(base, south)
<1> DEFINE ring == pix2ring(base, x)
<1>1. base.nside \in Nat \ {0}
  BY BaseFields
<1>2. x \in Int /\ ring \in 1 .. 4 * base.nside - 1 /\ InTheRing(base, ring, x)
  BY PixelRing DEF Rings
<1>3. FirstOf(base, south) \in Nat /\ FirstOf(base, ring) + Length(base, ring) <= FirstOf(base, south)
  BY <1>1, <1>2, RingsAscend
<1>4. FirstOf(base, ring) \in Nat /\ Length(base, ring) \in Nat
  BY <1>1, <1>2, RingsTouch
<1> QED
  BY <1>2, <1>3, <1>4 DEF InTheRing

LEMMA RingsFrom ==
  ASSUME base \in Bases, NEW x \in Pixels(base), NEW ring \in Rings(base)
  PROVE  FirstOf(base, ring) <= x <=> ring <= pix2ring(base, x)
<1>1. base.nside \in Nat \ {0} /\ ring \in 1 .. 4 * base.nside - 1
  BY BaseFields DEF Rings
<1>2. x \in Int /\ pix2ring(base, x) \in 1 .. 4 * base.nside - 1 /\ InTheRing(base, pix2ring(base, x), x)
  BY PixelRing DEF Rings
<1> QED
  BY <1>1, <1>2, RingsBetween

----------------------------------------------------------------------------
(* What a disc should have of a ring, and what it gets.                    *)

\* A ring that a disc reaches, or that is whole in a pole's cap.
Through(d, ring) == (ring < irmin(d) => d.north) /\ (ring > irmax(d) => d.south)

\* What a query with an overlap test may not miss.
Must(d, x) == x \in Inside(d) /\ x \notin Opposite(d) /\ (fct > 1 => x \in d.overlaps)

LEMMA InsideIs ==
  ASSUME base \in Bases, NEW d, NEW f, IsDisc(base, d, f), NEW x \in Pixels(base)
  PROVE  LET ring == pix2ring(base, x)
         IN  /\ x \in Inside(d) /\ x \notin Opposite(d) <=> Through(d, ring) /\ Reaches(d, ring, x)
             /\ d.half[ring] = Whole => (x \in Inside(d) <=> Through(d, ring))
             /\ d.half[ring] # Whole => x \notin Opposite(d)
<1> DEFINE ring == pix2ring(base, x)
           nr == Info(ring).ringpix
           away == Away(d, x)
           dist == Distance(d, ring, x - Info(ring).startpix)
<1>1. ring \in Rings(base) /\ x \in Int
  BY PixelRing
<1>2. nr \in Nat /\ nr >= 4
  BY <1>1, InfoFields
<1>3. Around(ring) = 2 * (nr * Turn) /\ nr * Turn \in Nat
  BY <1>2, TurnFields DEF Around
<1>4. away = dist
  BY DEF Away, Distance, Centre, Middle, Around
<1>5. Reach(d, ring) = 2 * nr * d.half[ring]
  BY DEF Reach
<1>6. x \in Inside(d) <=> Through(d, ring) /\ (d.half[ring] = Whole \/ away < Reach(d, ring))
  BY <1>5 DEF Inside, Through
<1>7. x \in Opposite(d) <=> d.half[ring] = Whole /\ ~d.rounds /\ away = nr * Turn
  BY DEF Opposite
<1>8. Reaches(d, ring, x) <=>
        IF d.half[ring] = Whole THEN d.rounds \/ 2 * dist # Around(ring) ELSE dist < Reach(d, ring)
  BY DEF Reaches
<1>9. dist \in Int
  <2>1. Around(ring) \in Nat \ {0} /\ Middle(d, ring) \in Int
    BY <1>1, TurnFields, Scales
  <2>2. x - Info(ring).startpix \in Int
    BY <1>1, InfoFields
  <2>3. Centre(ring, x - Info(ring).startpix) \in Int
    BY <1>1, <2>2, Turned
  <2>4. (Centre(ring, x - Info(ring).startpix) - Middle(d, ring)) % Around(ring) \in Int
    BY <2>1, <2>3
  <2> QED
    BY <2>1, <2>4 DEF Distance, Smaller
<1> HIDE DEF ring, nr, away, dist
<1>10. 2 * dist # Around(ring) <=> ~ (dist = nr * Turn)
  <2> DEFINE v == nr * Turn
  <2>1. v \in Nat /\ Around(ring) = 2 * v
    BY <1>3
  <2> HIDE DEF v
  <2> QED
    BY <1>9, <2>1 DEF v
<1> QED
  BY <1>4, <1>6, <1>7, <1>8, <1>10 DEF ring

LEMMA RangesAnswer ==
  ASSUME base \in Bases, NEW d, NEW f, IsDisc(base, d, f),
         NEW ring \in Rings(base), Through(d, ring),
         NEW x \in Int, InTheRing(base, ring, x)
  PROVE  /\ x \in Elements(RingRanges(d, ring)) => x \in Inside(d) /\ x \notin Opposite(d)
         /\ Must(d, x) => x \in Elements(RingRanges(d, ring))
<1> DEFINE i == Interval(d, ring)
           t == Found(d, ring)
           start == Info(ring).startpix
           At(k) == k \in Int /\ i.ip_lo <= k /\ k <= i.ip_hi /\ x = start + Place(ring, k)
<1>1. x \in Pixels(base) /\ pix2ring(base, x) = ring
  BY PixelRing
<1>2. x \in Inside(d) /\ x \notin Opposite(d) <=> Reaches(d, ring, x)
  BY <1>1, InsideIs
<1>3. Reaches(d, ring, x) <=> \E k : At(k)
  BY IntervalReaches
<1>4. x \in Elements(RingRanges(d, ring)) => \E k : At(k)
  BY RangesInRing
<1>5. ASSUME Must(d, x)
      PROVE  x \in Elements(RingRanges(d, ring))
  <2>1. PICK k : At(k)
    BY <1>2, <1>3, <1>5 DEF Must
  <2>2. fct > 1 => x \in d.overlaps
    BY <1>5 DEF Must
  <2> HIDE DEF i, t, start
  <2>3. \/ t.ip_lo <= k /\ k <= t.ip_hi
        \/ fct > 1 /\ start + Place(ring, k) \notin d.overlaps
    BY <2>1, FoundIs DEF i, t, start
  <2>4. t.ip_lo <= k /\ k <= t.ip_hi
    BY <2>1, <2>2, <2>3
  <2> QED
    BY <2>1, <2>4, RangesInRing DEF t, start
<1> QED
  BY <1>2, <1>3, <1>4, <1>5


----------------------------------------------------------------------------
(* What is left of a ring after the discs of query_multidisc.              *)

\* The discs, one after the other.
LEMMA DiscsLeftAre ==
  ASSUME NEW ring, Len(query.discs) \in Nat
  PROVE  LET left == DiscsLeft(ring)
             start == Info(ring).startpix
         IN  /\ RingLeft(ring) = left[Len(query.discs)]
             /\ left[0] = append(<< >>, start, start + Info(ring).ringpix)
             /\ \A j \in 1 .. Len(query.discs) :
                  LET d == query.discs[j]
                      c == Cut(d, ring)
                  IN  left[j] = IF d.wide THEN left[j-1]
                                ELSE IF c.removes THEN remove(left[j-1], c.a, c.b)
                                ELSE intersect(left[j-1], c.a, c.b)
<1> DEFINE whole == append(<< >>, Info(ring).startpix, Info(ring).startpix + Info(ring).ringpix)
           Step(f, j) == IF j = 0 THEN whole
                         ELSE IF query.discs[j].wide THEN f[j-1]
                         ELSE IF Cut(query.discs[j], ring).removes
                              THEN remove(f[j-1], Cut(query.discs[j], ring).a, Cut(query.discs[j], ring).b)
                         ELSE intersect(f[j-1], Cut(query.discs[j], ring).a, Cut(query.discs[j], ring).b)
           N == Len(query.discs)
           S == { k \in Nat : \E f : f = [ j \in 0 .. k |-> Step(f, j) ] }
<1>1. 0 \in S
  <2> DEFINE f == [ j \in 0 .. 0 |-> whole ]
  <2>1. f = [ j \in 0 .. 0 |-> Step(f, j) ]
    OBVIOUS
  <2> HIDE DEF f
  <2> QED
    BY <2>1
<1>2. ASSUME NEW k \in Nat, k \in S
      PROVE  k + 1 \in S
  <2>1. PICK f : f = [ j \in 0 .. k |-> Step(f, j) ]
    BY <1>2
  <2> DEFINE g == [ j \in 0 .. k + 1 |-> Step(f, j) ]
  <2>2. \A j \in 0 .. k : g[j] = f[j]
    <3> HIDE DEF Step
    <3> QED
      BY <2>1
  <2>3. ASSUME NEW j \in 0 .. k + 1
        PROVE  Step(f, j) = Step(g, j)
    <3>1. CASE j = 0
      BY <3>1
    <3>2. CASE j # 0
      <4>1. j - 1 \in 0 .. k
        BY <3>2
      <4>2. g[j-1] = f[j-1]
        BY <2>2, <4>1
      <4> HIDE DEF g
      <4> QED
        BY <3>2, <4>2
    <3> QED
      BY <3>1, <3>2
  <2>4. g = [ j \in 0 .. k + 1 |-> Step(g, j) ]
    <3> HIDE DEF Step
    <3> QED
      BY <2>3
  <2> HIDE DEF g, Step
  <2> QED
    BY <2>4
<1>3. N \in S
  <2> HIDE DEF S
  <2> QED
    BY <1>1, <1>2, NatSetInduction
<1>4. \E f : f = [ j \in 0 .. N |-> Step(f, j) ]
  BY <1>3
<1> DEFINE left == CHOOSE f : f = [ j \in 0 .. N |-> Step(f, j) ]
<1>5. left = [ j \in 0 .. N |-> Step(left, j) ]
  <2> HIDE DEF Step, N
  <2> QED
    BY <1>4
<1>6. DiscsLeft(ring) = left
  BY DEF DiscsLeft
<1>7. RingLeft(ring) = left[N]
  BY <1>6 DEF RingLeft
<1> HIDE DEF left
<1>8. left[0] = Step(left, 0)
  <2>1. 0 \in 0 .. N
    OBVIOUS
  <2> HIDE DEF Step, N
  <2> QED
    BY <1>5, <2>1
<1>9. ASSUME NEW j \in 1 .. N
      PROVE  left[j] = Step(left, j) /\ j # 0
  <2>1. j \in 0 .. N /\ j # 0
    OBVIOUS
  <2> HIDE DEF Step, N
  <2> QED
    BY <1>5, <2>1
<1> QED
  BY <1>6, <1>7, <1>8, <1>9

\* What is left are the pixels of the ring that every disc has.
LEMMA RingLeftIs ==
  ASSUME base \in Bases, NEW ring \in Rings(base), NEW f, Len(query.discs) \in Nat,
         \A j \in 1 .. Len(query.discs) : IsDisc(base, query.discs[j], f)
  PROVE  /\ RingLeft(ring) \in Seq(Int) /\ Ordered(RingLeft(ring))
         /\ \A x : x \in Elements(RingLeft(ring)) <=>
              /\ x \in Int /\ InTheRing(base, ring, x)
              /\ \A d \in NarrowDiscs : x \in Elements(RingRanges(d, ring))
<1> DEFINE N == Len(query.discs)
           left == DiscsLeft(ring)
           disc(j) == query.discs[j]
           In(x, n) == /\ x \in Int /\ InTheRing(base, ring, x)
                       /\ \A j \in 1 .. n : disc(j).wide \/ x \in Elements(RingRanges(disc(j), ring))
           Here(n) == /\ left[n] \in Seq(Int) /\ Ordered(left[n])
                      /\ \A x : x \in Elements(left[n]) <=> In(x, n)
           S == { n \in Nat : n <= N => Here(n) }
           start == Info(ring).startpix
           end == start + Info(ring).ringpix
<1>1. /\ RingLeft(ring) = left[N] /\ left[0] = append(<< >>, start, end)
      /\ \A j \in 1 .. N :
           left[j] = IF disc(j).wide THEN left[j-1]
                     ELSE IF Cut(disc(j), ring).removes
                          THEN remove(left[j-1], Cut(disc(j), ring).a, Cut(disc(j), ring).b)
                     ELSE intersect(left[j-1], Cut(disc(j), ring).a, Cut(disc(j), ring).b)
  BY DiscsLeftAre
<1>2. start \in Int /\ end \in Int /\ \A x \in Int : InTheRing(base, ring, x) <=> start <= x /\ x < end
  BY InfoFields
<1> HIDE DEF left, start, end
<1>3. Here(0)
  <2>1. << >> \in Seq(Int) /\ Ordered(<< >>) /\ Elements(<< >>) = {}
    <3>1. Len(<< >>) = 0 /\ 0 % 2 = 0 /\ \A i : ~ (i \in 1 .. 0 - 1)
      BY EmptySeq
    <3>2. Ordered(<< >>)
      BY <3>1 DEF Ordered
    <3> QED
      BY <1>2, <3>2, FewRanges
  <2>2. appendAssert(<< >>, start, end)
    BY DEF appendAssert
  <2>3. left[0] \in Seq(Int)
    BY <1>1, <1>2, <2>1, AppendType
  <2>4. Ordered(left[0]) /\ Elements(left[0]) = {} \cup (start .. end - 1)
    <3>1. Ordered(append(<< >>, start, end))
      BY <1>2, <2>1, AppendOrdered
    <3>2. Elements(append(<< >>, start, end)) = Elements(<< >>) \cup (start .. end - 1)
      BY <1>2, <2>1, <2>2, AppendElements
    <3> HIDE DEF S, Here, In, N
    <3> QED
      BY <1>1, <2>1, <3>1, <3>2
  <2>5. \A x : x \in start .. end - 1 <=> x \in Int /\ start <= x /\ x < end
    BY <1>2
  <2>6. \A j : ~ (j \in 1 .. 0)
    OBVIOUS
  <2> QED
    BY <1>2, <2>3, <2>4, <2>5, <2>6
<1>4. ASSUME NEW n \in Nat, n + 1 <= N, Here(n)
      PROVE  Here(n + 1)
  <2> DEFINE d == disc(n + 1)
             c == Cut(d, ring)
             r == left[n]
  <2>1. n + 1 \in 1 .. N /\ (n + 1) - 1 = n
    BY <1>4
  <2>2. left[n+1] = IF d.wide THEN r
                    ELSE IF c.removes THEN remove(r, c.a, c.b) ELSE intersect(r, c.a, c.b)
    BY <1>1, <2>1
  <2>3. r \in Seq(Int) /\ Ordered(r) /\ \A x : x \in Elements(r) <=> In(x, n)
    BY <1>4
  <2>4. \A x : In(x, n + 1) <=> In(x, n) /\ (d.wide \/ x \in Elements(RingRanges(d, ring)))
    <3>1. \A j : j \in 1 .. n + 1 <=> j \in 1 .. n \/ j = n + 1
      BY <1>4
    <3> QED
      BY <3>1
  <2>5. IsDisc(base, d, f)
    BY <2>1
  <2>6. /\ c.a \in Int /\ c.b \in Int /\ c.a <= c.b
        /\ \A x \in Int : InTheRing(base, ring, x) =>
             (x \in Elements(RingRanges(d, ring)) <=>
                IF c.removes THEN ~ (c.a <= x /\ x < c.b) ELSE c.a <= x /\ x < c.b)
    BY <2>5, CutIs
  <2>7. \A x : x \in c.a .. c.b - 1 <=> x \in Int /\ c.a <= x /\ x < c.b
    BY <2>6
  <2>8. CASE d.wide
    BY <2>2, <2>3, <2>4, <2>8
  <2>9. CASE ~d.wide /\ c.removes
    <3>1. left[n+1] = remove(r, c.a, c.b)
      BY <2>2, <2>9
    <3> HIDE DEF c, d, r
    <3>2. left[n+1] \in Seq(Int) /\ Ordered(left[n+1])
      BY <2>3, <2>6, <3>1, AddRemoveResult DEF remove
    <3>3. Elements(left[n+1]) = Elements(r) \ (c.a .. c.b - 1)
      BY <2>3, <2>6, <3>1, RemoveElements
    <3> HIDE DEF In
    <3>4. \A x : In(x, n) => x \in Int /\ InTheRing(base, ring, x)
      BY DEF In
    <3> QED
      BY <2>3, <2>4, <2>6, <2>7, <2>9, <3>2, <3>3, <3>4
  <2>10. CASE ~d.wide /\ ~c.removes
    <3>1. left[n+1] = intersect(r, c.a, c.b)
      BY <2>2, <2>10
    <3> HIDE DEF c, d, r
    <3>2. left[n+1] \in Seq(Int) /\ Ordered(left[n+1])
      BY <2>3, <2>6, <3>1, IntersectResult
    <3>3. Elements(left[n+1]) = Elements(r) \cap (c.a .. c.b - 1)
      BY <2>3, <2>6, <3>1, IntersectElements
    <3> HIDE DEF In
    <3>4. \A x : In(x, n) => x \in Int /\ InTheRing(base, ring, x)
      BY DEF In
    <3> QED
      BY <2>3, <2>4, <2>6, <2>7, <2>10, <3>2, <3>3, <3>4
  <2> QED
    BY <2>8, <2>9, <2>10
<1>5. \A n \in Nat : n \in S
  <2>1. 0 \in S
    BY <1>3
  <2>2. ASSUME NEW n \in Nat, n \in S
        PROVE  n + 1 \in S
    <3> HIDE DEF Here
    <3>1. n + 1 <= N => n <= N
      OBVIOUS
    <3> QED
      BY <1>4, <2>2, <3>1
  <2> HIDE DEF S
  <2> QED
    BY <2>1, <2>2, NatSetInduction
<1>6. Here(N)
  <2> HIDE DEF Here
  <2> QED
    BY <1>5
<1>7. \A x : (\A j \in 1 .. N : disc(j).wide \/ x \in Elements(RingRanges(disc(j), ring)))
               <=> \A d \in NarrowDiscs : x \in Elements(RingRanges(d, ring))
  BY DEF NarrowDiscs
<1> QED
  BY <1>1, <1>6, <1>7


----------------------------------------------------------------------------
(* Strips.                                                                 *)

LEMMA MaxIs ==
  ASSUME NEW S \in SUBSET Int, S # {}, NEW bound \in Int, \A x \in S : x <= bound
  PROVE  Max(S) \in S /\ \A x \in S : x <= Max(S)
<1>1. \E x \in S : \A y \in S : y <= x
  BY GreatestOfInts
<1>2. \E x \in S : \A y \in S : x >= y
  BY <1>1
<1> QED
  BY <1>2 DEF Max

LEMMA MinIs ==
  ASSUME NEW S \in SUBSET Int, S # {}, NEW bound \in Int, \A x \in S : bound <= x
  PROVE  Min(S) \in S /\ \A x \in S : Min(S) <= x
<1>1. \E x \in S : \A y \in S : x =< y
  BY LeastOfInts
<1> QED
  BY <1>1 DEF Min

LEMMA OfTwo ==
  ASSUME NEW a \in Int, NEW b \in Int
  PROVE  /\ Max({ a, b }) = IF a <= b THEN b ELSE a
         /\ Min({ a, b }) = IF a <= b THEN a ELSE b
<1> DEFINE S == { a, b }
           most == IF a <= b THEN b ELSE a
           least == IF a <= b THEN a ELSE b
<1>1. S \in SUBSET Int /\ S # {} /\ most \in Int /\ least \in Int
      /\ (\A x \in S : x <= most) /\ (\A x \in S : least <= x)
      /\ most \in S /\ least \in S
  OBVIOUS
<1> HIDE DEF S, most, least
<1>2. Max(S) \in S /\ Max(S) <= most /\ most <= Max(S)
  BY <1>1, MaxIs
<1>3. Min(S) \in S /\ Min(S) <= least /\ least <= Min(S)
  BY <1>1, MinIs
<1>4. Max(S) = most /\ Min(S) = least
  <2>1. Max(S) \in Int /\ Min(S) \in Int
    BY <1>1, <1>2, <1>3
  <2> QED
    BY <1>1, <1>2, <1>3, <2>1
<1> QED
  BY <1>4 DEF S, most, least

\* The heights that a strip may end at: not those of rings.
Height(z) ==
  /\ z \in -(3 * npface(base)) .. 3 * npface(base)
  /\ \A r \in 1 .. 4 * base.nside - 1 : ring2z(base, r) # z

\* The numbers of one strip, and that its rings are the ones between its ends.
LEMMA StripPart ==
  ASSUME base \in Bases, query.inclusive \in BOOLEAN, NEW z1, Height(z1), NEW z2, Height(z2)
  PROVE  LET r == query_strip_internal(z1, z2)
         IN  /\ \E p1, p2 \in Nat : /\ r = << >> \/ (r = << p1, p2 >> /\ p1 < p2)
                                    /\ z1 = 3 * npface(base) => p1 = 0
             /\ \A x : x \in Elements(r) <=>
                  x \in Pixels(base) /\ Between(pix2ring(base, x), z1, z2)
<1> DEFINE n == base.nside
           wider == IF query.inclusive THEN 1 ELSE 0
           a1 == ring_above(base, z1)
           a2 == ring_above(base, z2)
           ring0 == Max({ 1, 1 + a1 })
           ring1 == Max({ 1, ring0 - wider })
           ring2 == Min({ 4 * n - 1, a2 + wider })
           p1 == Info(ring1).startpix
           p2 == Info(ring2).startpix + Info(ring2).ringpix
           r == query_strip_internal(z1, z2)
<1>1. n \in Nat \ {0} /\ n \in Nat /\ n >= 1 /\ wider \in {0, 1}
  BY BaseFields
<1>2. r = IF p1 <= p2 THEN append(<< >>, p1, p2) ELSE << >>
  BY DEF query_strip_internal
<1>3. a1 \in 0 .. 4 * n - 1 /\ a2 \in 0 .. 4 * n - 1
  BY <1>1, RingAbove DEF Height
<1>4. \A ring \in 0 .. 4 * n - 1 : /\ ring <= a1 <=> ring2z(base, ring) >= z1
                                   /\ ring <= a2 <=> ring2z(base, ring) >= z2
  BY <1>1, RingsAbove DEF Height
<1>5. \A ring \in 0 .. 4 * n : ring2z(base, ring) \in Int
  BY <1>1, Lower
<1>6. z1 \in Int /\ z2 \in Int
  BY <1>1, Borders DEF Height
<1> HIDE DEF n, wider, a1, a2
<1>7. ring0 = 1 + a1
  <2>1. 1 + a1 \in Int /\ 1 <= 1 + a1
    BY <1>1, <1>3
  <2> QED
    BY <2>1, OfTwo
<1>8. ring1 = IF a1 + 1 - wider >= 1 THEN a1 + 1 - wider ELSE 1
  <2>1. ring0 - wider \in Int /\ ring0 - wider = a1 + 1 - wider
    BY <1>1, <1>3, <1>7
  <2> HIDE DEF ring0
  <2>2. ring1 = IF 1 <= ring0 - wider THEN ring0 - wider ELSE 1
    BY <2>1, OfTwo
  <2> QED
    BY <2>1, <2>2
<1>9. ring2 = IF 4 * n - 1 <= a2 + wider THEN 4 * n - 1 ELSE a2 + wider
  <2>1. 4 * n - 1 \in Int /\ a2 + wider \in Int
    BY <1>1, <1>3
  <2> QED
    BY <2>1, OfTwo
<1> HIDE DEF ring0, ring1, ring2
<1>10. ring1 \in 1 .. 4 * n /\ ring2 \in 0 .. 4 * n - 1 /\ ring2 + 1 \in 1 .. 4 * n
  BY <1>1, <1>3, <1>8, <1>9
<1>11. p1 = FirstOf(base, ring1) /\ p2 = FirstOf(base, ring2 + 1)
  <2>1. p1 = FirstOf(base, ring1) /\ p2 = FirstOf(base, ring2) + Length(base, ring2)
    BY DEF Info, FirstOf, Length
  <2>2. CASE ring2 = 0
    <3>1. 0 < base.nside
      BY <1>1 DEF n
    <3>2. FirstOf(base, 0) = 0 /\ Length(base, 0) = 0 /\ FirstOf(base, 0 + 1) = 0
      BY <1>1, <3>1, RingFields, Borders DEF n
    <3> QED
      BY <2>1, <2>2, <3>2
  <2>3. CASE ring2 # 0
    <3>1. ring2 \in 1 .. 4 * base.nside - 1
      BY <1>1, <1>10, <2>3 DEF n
    <3> QED
      BY <1>1, <2>1, <3>1, RingsTouch DEF n
  <2> QED
    BY <2>2, <2>3
<1> HIDE DEF p1, p2
<1>12. \A ring \in 1 .. 4 * n : FirstOf(base, ring) \in Nat
  <2> SUFFICES ASSUME NEW ring \in 1 .. 4 * n
               PROVE  FirstOf(base, ring) \in Nat
    OBVIOUS
  <2>1. CASE ring = 4 * n
    BY <1>1, <2>1, Borders DEF n
  <2>2. CASE ring # 4 * n
    <3>1. ring \in 1 .. 4 * base.nside - 1
      BY <1>1, <2>2 DEF n
    <3> QED
      BY <1>1, <3>1, RingsTouch DEF n
  <2> QED
    BY <2>1, <2>2
<1>13. p1 \in Nat /\ p2 \in Nat
  BY <1>10, <1>11, <1>12
<1>14. ASSUME NEW x \in Pixels(base), NEW ring \in 1 .. 4 * n
       PROVE  FirstOf(base, ring) <= x <=> ring <= pix2ring(base, x)
  <2>1. pix2ring(base, x) \in 1 .. 4 * n - 1
    BY PixelRing DEF Rings, n
  <2>2. CASE ring = 4 * n
    <3>1. ~ (npix(base) <= x)
      BY <1>1, Borders DEF Pixels, n
    <3> QED
      BY <1>1, <2>1, <2>2, <3>1, Borders DEF n
  <2>3. CASE ring # 4 * n
    <3>1. ring \in Rings(base)
      BY <1>1, <2>3 DEF Rings, n
    <3> QED
      BY <3>1, RingsFrom
  <2> QED
    BY <2>2, <2>3
<1>15. \A x : x \in p1 .. p2 - 1 => x \in Pixels(base)
  <2>1. p2 <= npix(base) /\ npix(base) \in Nat
    <3>1. CASE ring2 + 1 = 4 * n
      BY <1>1, <1>11, <3>1, Borders DEF n
    <3>2. CASE ring2 + 1 # 4 * n
      <4>1. ring2 + 1 \in 1 .. 4 * base.nside - 1 /\ 4 * base.nside \in 1 .. 4 * base.nside
            /\ ring2 + 1 < 4 * base.nside
        BY <1>1, <1>10, <3>2 DEF n
      <4>2. /\ FirstOf(base, ring2 + 1) \in Nat /\ Length(base, ring2 + 1) \in Nat
            /\ FirstOf(base, ring2 + 1) + Length(base, ring2 + 1) <= FirstOf(base, 4 * base.nside)
        BY <1>1, <4>1, RingsTouch, RingsAscend DEF n
      <4>3. FirstOf(base, 4 * base.nside) = npix(base) /\ npix(base) \in Nat
        BY <1>1, Borders DEF n
      <4> QED
        BY <1>11, <4>2, <4>3
    <3> QED
      BY <3>1, <3>2
  <2> QED
    BY <1>13, <2>1 DEF Pixels
<1>16. ASSUME NEW x \in Pixels(base)
       PROVE  x \in p1 .. p2 - 1 <=> Between(pix2ring(base, x), z1, z2)
  <2> DEFINE k == pix2ring(base, x)
  <2>1. k \in 1 .. 4 * n - 1 /\ x \in Int
    BY PixelRing DEF Rings, n
  <2>2. x \in p1 .. p2 - 1 <=> ring1 <= k /\ ~ (ring2 + 1 <= k)
    <3>1. p1 <= x <=> ring1 <= k
      BY <1>10, <1>11, <1>14
    <3>2. p2 <= x <=> ring2 + 1 <= k
      BY <1>10, <1>11, <1>14
    <3> HIDE DEF k
    <3> QED
      BY <1>13, <2>1, <3>1, <3>2
  <2>3. Between(k, z1, z2) <=>
          /\ ring2z(base, k + wider) < z1 \/ k + wider = 4 * n
          /\ ring2z(base, k - wider) >= z2
    BY DEF Between, wider, n
  <2> HIDE DEF k
  <2>4. k - wider \in 0 .. 4 * n - 1 /\ k + wider \in 0 .. 4 * n
        /\ (k + wider = 4 * n \/ k + wider \in 0 .. 4 * n - 1)
    BY <1>1, <2>1
  <2>5. ring2z(base, k - wider) >= z2 <=> k - wider <= a2
    BY <1>4, <2>4
  <2>6. ~ (ring2 + 1 <= k) <=> k - wider <= a2
    BY <1>1, <1>3, <1>9, <2>1
  <2>7. ring1 <= k <=> ~ (k + wider <= a1)
    BY <1>1, <1>3, <1>8, <2>1
  <2>8. ring2z(base, k + wider) < z1 \/ k + wider = 4 * n <=> ~ (k + wider <= a1)
    <3>1. CASE k + wider = 4 * n
      BY <1>1, <1>3, <3>1
    <3>2. CASE k + wider \in 0 .. 4 * n - 1 /\ k + wider # 4 * n
      <4>1. k + wider <= a1 <=> ring2z(base, k + wider) >= z1
        BY <1>4, <3>2
      <4>2. ring2z(base, k + wider) \in Int
        BY <1>5, <2>4
      <4> QED
        BY <1>6, <3>2, <4>1, <4>2
    <3> QED
      BY <2>4, <3>1, <3>2
  <2> QED
    BY <2>2, <2>3, <2>5, <2>6, <2>7, <2>8 DEF k
<1>17. r = << >> \/ (r = << p1, p2 >> /\ p1 < p2)
  <2>1. CASE p1 < p2
    <3>1. p1 <= p2 /\ ~ (p2 <= p1) /\ ~ (<< >> # << >> /\ p1 <= Last(<< >>))
      BY <1>13, <2>1
    <3>2. r = << >> \o << p1, p2 >>
      BY <1>2, <3>1 DEF append
    <3> QED
      BY <1>13, <2>1, <3>2
  <2>2. CASE ~ (p1 < p2)
    <3>1. p2 <= p1
      BY <1>13, <2>2
    <3>2. append(<< >>, p1, p2) = << >>
      BY <3>1 DEF append
    <3> QED
      BY <1>2, <3>2
  <2> QED
    BY <2>1, <2>2
<1>18. \A x : x \in Elements(r) <=> x \in p1 .. p2 - 1
  <2>0. p1 \in Int /\ p2 \in Int
    BY <1>13
  <2>1. CASE p1 < p2
    <3>1. p1 <= p2 /\ ~ (p2 <= p1)
      BY <1>13, <2>1
    <3>2. r = << >> \o << p1, p2 >>
      BY <1>2, <3>1 DEF append
    <3>3. r = << p1, p2 >>
      BY <1>13, <3>2
    <3>4. \A x : x \in Elements(<< p1, p2 >>) <=> x \in Int /\ p1 <= x /\ x < p2
      BY <2>0, FewRanges
    <3> QED
      BY <1>13, <3>3, <3>4
  <2>2. CASE ~ (p1 < p2)
    <3>1. p2 <= p1
      BY <1>13, <2>2
    <3>2. r = << >>
      BY <1>2, <3>1 DEF append
    <3>3. Elements(<< >>) = {}
      BY <2>0, FewRanges
    <3> QED
      BY <1>13, <3>1, <3>2, <3>3
  <2> QED
    BY <2>1, <2>2
<1>19. ASSUME z1 = 3 * npface(base)
       PROVE  p1 = 0
  <2>1. a1 = 0
    <3>1. ring2z(base, 0) = z1
      <4>1. 0 < base.nside /\ npface(base) \in Nat
        BY <1>1, Borders DEF n
      <4> QED
        BY <1>19, <4>1, HeightFields
    <3>2. ASSUME 0 < a1
          PROVE  FALSE
      <4>1. ring2z(base, a1) >= z1
        BY <1>3, <1>4
      <4>2. ring2z(base, a1) < ring2z(base, 0)
        <5>1. 0 \in 0 .. 4 * base.nside /\ a1 \in 0 .. 4 * base.nside
          BY <1>1, <1>3 DEF n
        <5> QED
          BY <1>1, <3>2, <5>1, Lower DEF n
      <4>3. ring2z(base, a1) \in Int
        <5>1. a1 \in 0 .. 4 * n
          BY <1>1, <1>3
        <5> QED
          BY <1>5, <5>1
      <4> QED
        BY <1>6, <3>1, <4>1, <4>2, <4>3
    <3> QED
      BY <1>3, <3>2
  <2>2. ring1 = 1
    BY <1>1, <1>8, <2>1
  <2> QED
    BY <1>1, <1>11, <2>2, Borders DEF n
<1>20. \A x : x \in Elements(r) <=> x \in Pixels(base) /\ Between(pix2ring(base, x), z1, z2)
  BY <1>15, <1>16, <1>18
<1> HIDE DEF r
<1>21. \E q1, q2 \in Nat : /\ r = << >> \/ (r = << q1, q2 >> /\ q1 < q2)
                           /\ z1 = 3 * npface(base) => q1 = 0
  BY <1>13, <1>17, <1>19
<1> QED
  BY <1>20, <1>21 DEF r


\* The poles end strips, too.
LEMMA PolesAre ==
  ASSUME base \in Bases
  PROVE  Height(3 * npface(base)) /\ Height(-(3 * npface(base)))
<1> DEFINE n == base.nside
           N == npface(base)
<1>1. n \in Nat \ {0} /\ n \in Nat /\ n >= 1 /\ N \in Nat
  BY BaseFields, Borders
<1>2. ring2z(base, 0) = 3 * N
  BY <1>1, HeightFields
<1>3. ring2z(base, 4 * n) = -(3 * N)
  <2>1. ~ (4 * n < n) /\ ~ (4 * n <= 3 * n) /\ 4 * n - 4 * n = 0
    BY <1>1
  <2>2. ring2z(base, 4 * n) = (4 * n - 4 * n) * (4 * n - 4 * n) - 3 * N
    BY <2>1, HeightFields
  <2> QED
    BY <1>1, <2>1, <2>2
<1> HIDE DEF N
<1>4. ASSUME NEW r \in 1 .. 4 * n - 1
      PROVE  ring2z(base, r) # 3 * N /\ ring2z(base, r) # -(3 * N)
  <2>1. r \in 0 .. 4 * n /\ 0 \in 0 .. 4 * n /\ 4 * n \in 0 .. 4 * n /\ 0 < r /\ r < 4 * n
    BY <1>1
  <2>2. ring2z(base, r) \in Int /\ ring2z(base, r) < 3 * N
    BY <1>1, <1>2, <2>1, Lower
  <2>3. -(3 * N) < ring2z(base, r)
    BY <1>1, <1>3, <2>1, Lower
  <2> QED
    BY <1>1, <2>2, <2>3
<1> QED
  BY <1>1, <1>4 DEF Height, N

LEMMA TwoAndTwo ==
  ASSUME NEW p1 \in Int, NEW p2 \in Int, NEW q1 \in Int, NEW q2 \in Int
  PROVE  << p1, p2 >> \o << q1, q2 >> = << p1, p2, q1, q2 >>
<1> DEFINE s == << p1, p2 >> \o << q1, q2 >>
           t == << p1, p2, q1, q2 >>
<1>1. s \in Seq(Int) /\ t \in Seq(Int) /\ Len(s) = 4 /\ Len(t) = 4
  OBVIOUS
<1>2. s[1] = p1 /\ s[2] = p2 /\ s[3] = q1 /\ s[4] = q2
  OBVIOUS
<1>3. t[1] = p1 /\ t[2] = p2 /\ t[3] = q1 /\ t[4] = q2
  OBVIOUS
<1> HIDE DEF s, t
<1>4. \A i \in 1 .. Len(s) : s[i] = t[i]
  BY <1>1, <1>2, <1>3
<1> QED
  BY <1>1, <1>4, SeqEqual DEF s, t

InStrips(ring) ==
  IF query.z1 > query.z2 THEN Between(ring, query.z1, query.z2)
  ELSE \/ Between(ring, 3 * npface(base), query.z2)
       \/ Between(ring, query.z1, -(3 * npface(base)))

LEMMA StripsAre ==
  ASSUME base \in Bases, query \in Queries(base.nside), query.kind = "strip"
  PROVE  /\ Strips \in Seq(Int) /\ StartsAscend(Strips)
         /\ \A x : x \in Elements(Strips) <=> x \in Pixels(base) /\ InStrips(pix2ring(base, x))
<1> DEFINE N == npface(base)
           one == query_strip_internal(query.z1, query.z2)
           north == query_strip_internal(3 * N, query.z2)
           south == query_strip_internal(query.z1, -(3 * N))
<1>1. query.inclusive \in BOOLEAN /\ Height(query.z1) /\ Height(query.z2)
  <2>1. base.nside \in Nat \ {0}
    BY BaseFields
  <2>2. /\ query.inclusive \in BOOLEAN
        /\ { query.z1, query.z2 } \subseteq
             (-(3 * npface(base)) .. 3 * npface(base)) \ { ring2z(base, ring) : ring \in Rings(base) }
    BY QueryFields
  <2> QED
    BY <2>2 DEF Height, Rings
<1>2. Strips = IF query.z1 > query.z2 THEN one ELSE north \o south
  BY DEF Strips
<1>3. Height(3 * N) /\ Height(-(3 * N))
  BY PolesAre
<1> DEFINE Is(r, z1, z2) ==
      /\ \E p1, p2 \in Nat : /\ r = << >> \/ (r = << p1, p2 >> /\ p1 < p2)
                             /\ z1 = 3 * N => p1 = 0
      /\ \A x : x \in Elements(r) <=> x \in Pixels(base) /\ Between(pix2ring(base, x), z1, z2)
<1>4. Is(one, query.z1, query.z2)
  BY <1>1, StripPart
<1>5. Is(north, 3 * N, query.z2)
  BY <1>1, <1>3, StripPart
<1>6. Is(south, query.z1, -(3 * N))
  BY <1>1, <1>3, StripPart
<1> HIDE DEF one, north, south, N
<1>7. CASE query.z1 > query.z2
  <2>1. PICK p1, p2 \in Nat : one = << >> \/ one = << p1, p2 >>
    BY <1>4
  <2>2. p1 \in Int /\ p2 \in Int
    OBVIOUS
  <2>3. one \in Seq(Int) /\ StartsAscend(one)
    BY <2>1, <2>2, FewRanges
  <2> QED
    BY <1>2, <1>4, <1>7, <2>3 DEF InStrips
<1>8. CASE ~ (query.z1 > query.z2)
  <2>1. PICK p2 \in Nat : north = << >> \/ north = << 0, p2 >>
    BY <1>5
  <2>2. PICK q1, q2 \in Nat : south = << >> \/ south = << q1, q2 >>
    BY <1>6
  <2>3. p2 \in Int /\ q1 \in Int /\ q2 \in Int /\ 0 \in Int /\ 0 <= q1
    OBVIOUS
  <2>4. /\ << >> \in Seq(Int) /\ Elements(<< >>) = {} /\ StartsAscend(<< >>)
        /\ << 0, p2 >> \in Seq(Int) /\ StartsAscend(<< 0, p2 >>)
        /\ \A x : x \in Elements(<< 0, p2 >>) <=> x \in Int /\ 0 <= x /\ x < p2
        /\ << 0, p2, q1, q2 >> \in Seq(Int) /\ StartsAscend(<< 0, p2, q1, q2 >>)
        /\ \A x : x \in Elements(<< 0, p2, q1, q2 >>) <=>
             x \in Int /\ ((0 <= x /\ x < p2) \/ (q1 <= x /\ x < q2))
    BY <2>3, FewRanges
  <2>5. /\ << q1, q2 >> \in Seq(Int) /\ StartsAscend(<< q1, q2 >>)
        /\ \A x : x \in Elements(<< q1, q2 >>) <=> x \in Int /\ q1 <= x /\ x < q2
    BY <2>3, FewRanges
  <2> DEFINE both == north \o south
  <2>6. /\ both \in Seq(Int) /\ StartsAscend(both)
        /\ \A x : x \in Elements(both) <=> x \in Elements(north) \/ x \in Elements(south)
    <3>1. CASE north = << >>
      <4>1. both = south
        BY <2>2, <3>1
      <4> QED
        BY <2>2, <2>4, <2>5, <3>1, <4>1
    <3>2. CASE south = << >>
      <4>1. both = north
        BY <2>1, <3>2
      <4> QED
        BY <2>1, <2>4, <3>2, <4>1
    <3>3. CASE north = << 0, p2 >> /\ south = << q1, q2 >>
      <4>1. both = << 0, p2, q1, q2 >>
        BY <2>3, <3>3, TwoAndTwo
      <4> QED
        BY <2>4, <2>5, <3>3, <4>1
    <3> QED
      BY <2>1, <2>2, <3>1, <3>2, <3>3
  <2>7. Strips = both
    BY <1>2, <1>8
  <2> HIDE DEF both
  <2>8. \A x : InStrips(x) <=> Between(x, 3 * N, query.z2) \/ Between(x, query.z1, -(3 * N))
    BY <1>8 DEF InStrips, N
  <2> QED
    BY <1>5, <1>6, <2>6, <2>7, <2>8
<1> QED
  BY <1>7, <1>8

----------------------------------------------------------------------------
(* Appending to the answer.                                                *)

LEMMA Appended ==
  ASSUME pixset \in Seq(Int), Canonical(pixset), NEW ranges \in Seq(Int), StartsAscend(ranges),
         \A x \in Elements(pixset) : \A y \in Elements(ranges) : x < y
  PROVE  /\ Output(ranges) \/ Returns(ranges) =>
              /\ pixset' \in Seq(Int) /\ Canonical(pixset')
              /\ Elements(pixset') = Elements(pixset) \cup Elements(ranges)
         /\ Output(ranges) => status' = status
         /\ Returns(ranges) => status' = "returned"
<1>1. /\ appendAllAssert(pixset, ranges)
      /\ appendAll(pixset, ranges) \in Seq(Int) /\ Canonical(appendAll(pixset, ranges))
      /\ Elements(appendAll(pixset, ranges)) = Elements(pixset) \cup Elements(ranges)
  BY AppendAllResult
<1> QED
  BY <1>1 DEF Output, Returns


----------------------------------------------------------------------------
(* What a query has found so far.                                          *)

\* The pixels of the northern cap, if it is inside.
InCap(d, x) == d.north /\ pix2ring(base, x) < d.irmin

\* A disc query that goes through ring i next, and through l last, with the
\* answer p: no pixel is wrong, and none that must be there is missing north
\* of i.
DiscSoFar(i, l, p) ==
  /\ ~Disc.wide
  /\ i \in irmin(Disc) .. irmax(Disc) + 1 /\ l = irmax(Disc)
  /\ \A x \in Elements(p) : x \in Inside(Disc) /\ pix2ring(base, x) < i
  /\ \A x \in Pixels(base) :
       pix2ring(base, x) < i /\ (InCap(Disc, x) \/ Must(Disc, x)) => x \in Elements(p)

\* The same for several discs.  South of l nothing is inside them all.
MultidiscSoFar(i, l, p) ==
  /\ i \in 1 .. 4 * base.nside /\ l \in 0 .. 4 * base.nside - 1
  /\ \A ring \in i .. l : \A d \in NarrowDiscs : Through(d, ring)
  /\ \A x \in Pixels(base) : (\A d \in NarrowDiscs : x \in Inside(d)) => pix2ring(base, x) <= l
  /\ \A x \in Elements(p) :
       /\ x \in Pixels(base) /\ pix2ring(base, x) < i
       /\ \A d \in NarrowDiscs : x \in Inside(d) /\ x \notin Opposite(d)
  /\ \A x \in Pixels(base) :
       pix2ring(base, x) < i /\ (\A d \in NarrowDiscs : Must(d, x)) => x \in Elements(p)

\* The inductive invariant.
IInv ==
  /\ base \in Bases /\ query \in Queries(base.nside)
  /\ status \in { "called", "rings", "returned", "threw" }
  /\ pixset \in Seq(Int) /\ Canonical(pixset)
  /\ status = "called" => pixset = << >>
  /\ status = "threw" => ~FactAllowed
  /\ status = "rings" =>
       /\ FactAllowed
       /\ query.kind \in { "disc", "multidisc" }
       /\ query.kind = "disc" => DiscSoFar(iz, last, pixset)
       /\ query.kind = "multidisc" => MultidiscSoFar(iz, last, pixset)
  /\ DiscAnswer /\ MultidiscAnswer /\ StripAnswer

\* The call does not change: nor does what depends on it alone.
LEMMA SameCall ==
  ASSUME base' = base, query' = query
  PROVE  /\ fct' = fct /\ Disc' = Disc /\ NarrowDiscs' = NarrowDiscs /\ FactAllowed' = FactAllowed
         /\ \A d : /\ irmin(d)' = irmin(d) /\ irmax(d)' = irmax(d)
                   /\ Inside(d)' = Inside(d) /\ Opposite(d)' = Opposite(d)
         /\ \A ring : InStrips(ring)' <=> InStrips(ring)
<1>1. fct' = fct /\ Disc' = Disc /\ NarrowDiscs' = NarrowDiscs /\ FactAllowed' = FactAllowed
  BY DEF fct, Disc, NarrowDiscs, FactAllowed
<1>2. \A d : irmin(d)' = irmin(d) /\ irmax(d)' = irmax(d)
  BY <1>1 DEF irmin, irmax
<1>3. \A ring : Info(ring)' = Info(ring)
  BY DEF Info
<1>4. \A d, x : Away(d, x)' = Away(d, x)
  BY <1>3 DEF Away
<1>5. \A d : Inside(d)' = Inside(d)
  BY <1>2, <1>3, <1>4 DEF Inside
<1>6. \A d : Opposite(d)' = Opposite(d)
  BY <1>3, <1>4 DEF Opposite
<1>7. \A ring, z1, z2 : Between(ring, z1, z2)' <=> Between(ring, z1, z2)
  BY DEF Between
<1>8. \A ring : InStrips(ring)' <=> InStrips(ring)
  BY <1>7 DEF InStrips
<1> QED
  BY <1>1, <1>2, <1>5, <1>6, <1>8

----------------------------------------------------------------------------
(* The rings and the discs of a call.                                      *)

\* The pixels of all rings north of one, and of it and all rings south of it.
LEMMA CapsAre ==
  ASSUME base \in Bases, NEW south \in 1 .. 4 * base.nside
  PROVE  /\ FirstOf(base, south) \in Int /\ npix(base) \in Nat
         /\ \A x : x \in Int /\ 0 <= x /\ x < FirstOf(base, south)
                     <=> x \in Pixels(base) /\ pix2ring(base, x) < south
         /\ \A x : x \in Int /\ FirstOf(base, south) <= x /\ x < npix(base)
                     <=> x \in Pixels(base) /\ south <= pix2ring(base, x)
<1> DEFINE n == base.nside
<1>1. n \in Nat \ {0}
  BY BaseFields
<1>2. npix(base) \in Nat /\ FirstOf(base, 1) = 0 /\ FirstOf(base, 4 * n) = npix(base)
  BY <1>1, Borders
<1>3. FirstOf(base, south) \in Nat /\ FirstOf(base, south) <= npix(base)
  <2>1. CASE south = 4 * n
    BY <1>2, <2>1
  <2>2. CASE south \in 1 .. 4 * n - 1
    <3>1. 4 * n \in 1 .. 4 * n /\ south < 4 * n
      BY <1>1, <2>2
    <3>2. /\ FirstOf(base, south) \in Nat /\ Length(base, south) \in Nat
          /\ FirstOf(base, south) + Length(base, south) <= FirstOf(base, 4 * n)
      BY <1>1, <2>2, <3>1, RingsTouch, RingsAscend
    <3> QED
      BY <1>2, <3>2
  <2> QED
    BY <1>1, <2>1, <2>2
<1>4. \A x \in Pixels(base) :
         x \in Nat /\ x < npix(base) /\ pix2ring(base, x) \in 1 .. 4 * n - 1
  BY <1>2, PixelRing DEF Pixels, Rings
<1>5. \A x \in Pixels(base) : x < FirstOf(base, south) <=> pix2ring(base, x) < south
  <2>1. TAKE x \in Pixels(base)
  <2>2. CASE south = 4 * n
    BY <1>1, <1>2, <1>4, <2>2
  <2>3. CASE south \in 1 .. 4 * n - 1
    <3>1. FirstOf(base, south) <= x <=> south <= pix2ring(base, x)
      BY <2>3, RingsFrom DEF Rings
    <3> QED
      BY <1>1, <1>3, <1>4, <2>3, <3>1
  <2> QED
    BY <1>1, <2>2, <2>3
<1>6. \A x \in Pixels(base) : FirstOf(base, south) <= x <=> south <= pix2ring(base, x)
  BY <1>1, <1>3, <1>4, <1>5
<1>7. \A x \in Int : 0 <= x /\ x < npix(base) <=> x \in Pixels(base)
  BY <1>2 DEF Pixels
<1> QED
  BY <1>2, <1>3, <1>4, <1>5, <1>6, <1>7

LEMMA DiscsAre ==
  ASSUME base \in Bases, query \in Queries(base.nside), query.kind # "strip"
  PROVE  /\ Len(query.discs) \in Nat /\ fct \in Int
         /\ \A i \in 1 .. Len(query.discs) : IsDisc(base, query.discs[i], fct)
         /\ \A d \in NarrowDiscs : IsDisc(base, d, fct)
         /\ query.kind = "disc" => IsDisc(base, Disc, fct)
         /\ FactAllowed => fct >= 1
<1>1. /\ query.fact \in Int /\ Len(query.discs) \in Nat /\ query.inclusive \in BOOLEAN
      /\ \A i \in 1 .. Len(query.discs) :
           IsDisc(base, query.discs[i], IF query.inclusive THEN query.fact ELSE 1)
      /\ query.kind = "disc" => Len(query.discs) = 1
  BY QueryFields
<1>2. \A i \in 1 .. Len(query.discs) : IsDisc(base, query.discs[i], fct)
  BY <1>1 DEF fct
<1>3. \A d \in NarrowDiscs : \E i \in 1 .. Len(query.discs) : d = query.discs[i]
  BY DEF NarrowDiscs
<1>4. FactAllowed => fct >= 1
  BY <1>1 DEF FactAllowed, fct
<1>5. fct \in Int
  BY <1>1 DEF fct
<1>6. query.kind = "disc" => IsDisc(base, Disc, fct)
  BY <1>1, <1>2 DEF Disc
<1> QED
  BY <1>1, <1>2, <1>3, <1>4, <1>5, <1>6

LEMMA DiscRings ==
  ASSUME base \in Bases, NEW d, IsDisc(base, d, fct), fct \in Int
  PROVE  /\ d.irmin \in 1 .. 4 * base.nside /\ d.irmax \in 0 .. 4 * base.nside - 1
         /\ d.irmin <= d.irmax + 1
         /\ irmin(d) \in 1 .. 4 * base.nside /\ irmax(d) \in 0 .. 4 * base.nside - 1
         /\ irmin(d) <= d.irmin /\ d.irmax <= irmax(d)
         /\ d.north \/ fct <= 1 => irmin(d) = d.irmin
         /\ d.south \/ fct <= 1 => irmax(d) = d.irmax
         /\ \A ring \in Rings(base) :
              /\ d.north /\ ring < d.irmin => d.half[ring] = Whole
              /\ d.south /\ ring > d.irmax => d.half[ring] = Whole
              /\ fct <= 1 /\ ring \in d.irmin .. d.irmax => d.half[ring] # Whole
<1>1. base.nside \in Nat \ {0}
  BY BaseFields
<1>2. /\ d.irmin \in 1 .. 4 * base.nside /\ d.irmax \in 0 .. 4 * base.nside - 1
      /\ d.irmin <= d.irmax + 1
      /\ \A ring \in Rings(base) :
           /\ d.north /\ ring < d.irmin => d.half[ring] = Whole
           /\ d.south /\ ring > d.irmax => d.half[ring] = Whole
           /\ fct <= 1 /\ ring \in d.irmin .. d.irmax => d.half[ring] # Whole
  BY DEF IsDisc
<1>3. /\ irmin(d) \in 1 .. 4 * base.nside /\ irmin(d) <= d.irmin
      /\ d.north \/ fct <= 1 => irmin(d) = d.irmin
  BY <1>1, <1>2 DEF irmin
<1>4. /\ irmax(d) \in 0 .. 4 * base.nside - 1 /\ d.irmax <= irmax(d)
      /\ d.south \/ fct <= 1 => irmax(d) = d.irmax
  BY <1>1, <1>2 DEF irmax
<1> QED
  BY <1>2, <1>3, <1>4

----------------------------------------------------------------------------
(* The steps keep the invariant.                                           *)

\* What the three kinds of query may return.
DiscGives(p) ==
  /\ Elements(p) \subseteq Pixels(base)
  /\ IF Disc.wide THEN Elements(p) = Pixels(base)
     ELSE IF fct = 1 THEN Elements(p) = Inside(Disc)
     ELSE /\ (Disc.overlaps \cap Inside(Disc)) \ Opposite(Disc) \subseteq Elements(p)
          /\ Elements(p) \subseteq Inside(Disc)

InAll == { x \in Pixels(base) : \A d \in NarrowDiscs : x \in Inside(d) \ Opposite(d) }

MultidiscGives(p) ==
  IF fct = 1 THEN Elements(p) = InAll
  ELSE /\ { x \in InAll : \A d \in NarrowDiscs : x \in d.overlaps } \subseteq Elements(p)
       /\ Elements(p) \subseteq Pixels(base)

StripGives(p) == Elements(p) = { x \in Pixels(base) : InStrips(pix2ring(base, x)) }

\* The invariant holds after a step of the call if what it says of the new
\* state holds with the old names of what has not changed.
LEMMA Kept ==
  ASSUME IInv, base' = base, query' = query,
         status' \in { "called", "rings", "returned", "threw" },
         pixset' \in Seq(Int), Canonical(pixset'),
         status' = "called" => pixset' = << >>,
         status' = "threw" => ~FactAllowed,
         status' = "rings" => /\ FactAllowed
                              /\ query.kind \in { "disc", "multidisc" }
                              /\ query.kind = "disc" => DiscSoFar(iz', last', pixset')
                              /\ query.kind = "multidisc" => MultidiscSoFar(iz', last', pixset'),
         status' = "returned" => /\ query.kind = "disc" => DiscGives(pixset')
                                 /\ query.kind = "multidisc" => MultidiscGives(pixset')
                                 /\ query.kind = "strip" => StripGives(pixset')
  PROVE  IInv'
<1>1. /\ fct' = fct /\ Disc' = Disc /\ NarrowDiscs' = NarrowDiscs /\ FactAllowed' = FactAllowed
      /\ \A d : /\ irmin(d)' = irmin(d) /\ irmax(d)' = irmax(d)
                /\ Inside(d)' = Inside(d) /\ Opposite(d)' = Opposite(d)
      /\ \A ring : InStrips(ring)' <=> InStrips(ring)
  BY SameCall
<1>2. DiscAnswer'
  BY <1>1 DEF DiscAnswer, DiscGives
<1>3. MultidiscAnswer'
  BY <1>1 DEF MultidiscAnswer, MultidiscGives, InAll
<1>4. StripAnswer'
  BY <1>1 DEF StripAnswer, StripGives, InStrips
<1>5. DiscSoFar(iz, last, pixset)' <=> DiscSoFar(iz', last', pixset')
  BY <1>1 DEF DiscSoFar, InCap, Must
<1>6. MultidiscSoFar(iz, last, pixset)' <=> MultidiscSoFar(iz', last', pixset')
  BY <1>1 DEF MultidiscSoFar, Must, Through
<1>7. base' \in Bases' /\ query' \in Queries(base'.nside)
  BY DEF IInv, Bases
<1> QED
  BY <1>1, <1>2, <1>3, <1>4, <1>5, <1>6, <1>7 DEF IInv

LEMMA RejectFactKeeps ==
  ASSUME IInv, RejectFact
  PROVE  IInv'
<1>1. /\ base' = base /\ query' = query /\ pixset' = pixset /\ status' = "threw"
      /\ pixset \in Seq(Int) /\ Canonical(pixset) /\ ~FactAllowed
  BY DEF IInv, RejectFact
<1> QED
  BY <1>1, Kept

LEMMA OneRange ==
  ASSUME NEW a \in Int, NEW b \in Int
  PROVE  /\ << a, b >> \in Seq(Int) /\ StartsAscend(<< a, b >>)
         /\ \A x : x \in Elements(<< a, b >>) <=> x \in Int /\ a <= x /\ x < b
         /\ << >> \in Seq(Int) /\ Elements(<< >>) = {} /\ StartsAscend(<< >>)
  BY FewRanges

\* What is known when a call of a kind begins.
LEMMA CallBegins ==
  ASSUME IInv, NEW kind, Calls(kind)
  PROVE  /\ base \in Bases /\ query \in Queries(base.nside) /\ query.kind = kind /\ FactAllowed
         /\ base' = base /\ query' = query
         /\ pixset = << >> /\ pixset \in Seq(Int) /\ Canonical(pixset) /\ Elements(pixset) = {}
<1>1. Elements(<< >>) = {}
  BY 0 \in Int, OneRange
<1> QED
  BY <1>1 DEF IInv, Calls

LEMMA DiscCoversSphereKeeps ==
  ASSUME IInv, DiscCoversSphere
  PROVE  IInv'
<1>1. Calls("disc") /\ Disc.wide /\ Returns(<< 0, npix(base) >>)
  BY DEF DiscCoversSphere
<1>2. /\ base \in Bases /\ query \in Queries(base.nside) /\ query.kind = "disc"
      /\ base' = base /\ query' = query
      /\ pixset \in Seq(Int) /\ Canonical(pixset) /\ Elements(pixset) = {}
  BY <1>1, CallBegins
<1> DEFINE r == << 0, npix(base) >>
<1>3. npix(base) \in Nat /\ npix(base) \in Int /\ 0 \in Int
  BY <1>2, BaseFields, Borders
<1>4. r \in Seq(Int) /\ StartsAscend(r) /\ \A x : x \in Elements(r) <=> x \in Int /\ 0 <= x /\ x < npix(base)
  BY <1>3, OneRange
<1>5. \A x : x \in Elements(r) <=> x \in Pixels(base)
  <2> HIDE DEF r
  <2> QED
    BY <1>3, <1>4 DEF Pixels
<1> HIDE DEF r
<1>6. /\ pixset' \in Seq(Int) /\ Canonical(pixset') /\ status' = "returned"
      /\ Elements(pixset') = Pixels(base)
  BY <1>1, <1>2, <1>4, <1>5, Appended DEF r
<1>7. DiscGives(pixset')
  BY <1>1, <1>6 DEF DiscGives
<1> QED
  BY <1>2, <1>6, <1>7, Kept

LEMMA StartDiscKeeps ==
  ASSUME IInv, StartDisc
  PROVE  IInv'
<1>1. /\ Calls("disc") /\ ~Disc.wide
      /\ iz' = irmin(Disc) /\ last' = irmax(Disc)
      /\ pixset' = IF Disc.north /\ Disc.irmin > 1
                   THEN append(pixset, 0,
                               Info(Disc.irmin - 1).startpix + Info(Disc.irmin - 1).ringpix)
                   ELSE pixset
      /\ status' = "rings"
  BY DEF StartDisc
<1>2. /\ base \in Bases /\ query \in Queries(base.nside) /\ query.kind = "disc" /\ FactAllowed
      /\ base' = base /\ query' = query
      /\ pixset = << >> /\ pixset \in Seq(Int) /\ Canonical(pixset) /\ Elements(pixset) = {}
  BY <1>1, CallBegins
<1>3. fct \in Int /\ IsDisc(base, Disc, fct)
  BY <1>2, DiscsAre
<1>4. /\ Disc.irmin \in 1 .. 4 * base.nside /\ Disc.irmax \in 0 .. 4 * base.nside - 1
      /\ Disc.irmin <= Disc.irmax + 1
      /\ irmin(Disc) \in 1 .. 4 * base.nside /\ irmax(Disc) \in 0 .. 4 * base.nside - 1
      /\ irmin(Disc) <= Disc.irmin /\ Disc.irmax <= irmax(Disc)
      /\ Disc.north => irmin(Disc) = Disc.irmin
      /\ \A ring \in Rings(base) : Disc.north /\ ring < Disc.irmin => Disc.half[ring] = Whole
  BY <1>2, <1>3, DiscRings
<1>5. \A x \in Pixels(base) : pix2ring(base, x) \in Rings(base) /\ pix2ring(base, x) \in 1 .. 4 * base.nside - 1
  BY <1>2, PixelRing DEF Rings
<1>6. \A x \in Pixels(base) : x \in Inside(Disc) /\ pix2ring(base, x) < irmin(Disc) => Disc.north
  BY DEF Inside
<1>7. /\ pixset' \in Seq(Int) /\ Canonical(pixset')
      /\ \A x : x \in Elements(pixset') <=> x \in Pixels(base) /\ InCap(Disc, x)
  <2>1. CASE Disc.north /\ Disc.irmin > 1
    <3> DEFINE e == FirstOf(base, Disc.irmin)
    <3>1. e \in Int /\ \A x : x \in Int /\ 0 <= x /\ x < e
                               <=> x \in Pixels(base) /\ pix2ring(base, x) < Disc.irmin
      BY <1>2, <1>4, CapsAre
    <3>2. Disc.irmin - 1 \in Rings(base) /\ (Disc.irmin - 1) + 1 = Disc.irmin
      BY <1>4, <2>1, BaseFields, <1>2 DEF Rings
    <3>3. Info(Disc.irmin - 1).startpix + Info(Disc.irmin - 1).ringpix = e
      BY <1>2, <3>2, InfoFields
    <3>4. pixset' = append(<< >>, 0, e)
      BY <1>1, <1>2, <2>1, <3>3
    <3> HIDE DEF e
    <3>5. << 0, e >> \in Seq(Int) /\ \A x : x \in Elements(<< 0, e >>) <=> x \in Int /\ 0 <= x /\ x < e
      BY <3>1, 0 \in Int, OneRange
    <3>6. pixset' = IF e <= 0 THEN << >> ELSE << 0, e >>
      BY <3>1, <3>4 DEF append
    <3>7. pixset' \in Seq(Int) /\ Canonical(pixset')
      BY <3>1, <3>5, <3>6, <1>2 DEF Canonical
    <3>8. \A x : x \in Elements(pixset') <=> x \in Int /\ 0 <= x /\ x < e
      <4>1. CASE e <= 0
        BY <1>2, <3>1, <3>6, <4>1
      <4>2. CASE ~ (e <= 0)
        BY <3>5, <3>6, <4>2
      <4> QED
        BY <4>1, <4>2
    <3> QED
      BY <2>1, <3>1, <3>7, <3>8 DEF InCap
  <2>2. CASE ~ (Disc.north /\ Disc.irmin > 1)
    <3>1. \A x \in Pixels(base) : ~InCap(Disc, x)
      BY <1>4, <1>5, <2>2 DEF InCap
    <3> QED
      BY <1>1, <1>2, <2>2, <3>1
  <2> QED
    BY <2>1, <2>2
<1>8. ASSUME NEW x \in Elements(pixset')
      PROVE  x \in Inside(Disc) /\ pix2ring(base, x) < irmin(Disc)
  <2> DEFINE ring == pix2ring(base, x)
  <2>1. x \in Pixels(base) /\ Disc.north /\ ring < Disc.irmin
    BY <1>7, <1>8 DEF InCap
  <2>2. ring \in Rings(base) /\ ring \in 1 .. 4 * base.nside - 1
    BY <1>5, <2>1
  <2>3. ring < irmin(Disc) /\ ~ (ring > irmax(Disc)) /\ Disc.half[ring] = Whole
    BY <1>4, <2>1, <2>2
  <2>4. Through(Disc, ring)
    BY <2>1, <2>3 DEF Through
  <2> QED
    BY <1>2, <1>3, <2>1, <2>3, <2>4, InsideIs
<1>9. ASSUME NEW x \in Pixels(base), pix2ring(base, x) < irmin(Disc), InCap(Disc, x) \/ Must(Disc, x)
      PROVE  x \in Elements(pixset')
  <2>1. Disc.north
    BY <1>6, <1>9 DEF InCap, Must
  <2>2. InCap(Disc, x)
    BY <1>4, <1>9, <2>1 DEF InCap
  <2> QED
    BY <1>7, <2>2
<1>10. irmin(Disc) \in irmin(Disc) .. irmax(Disc) + 1
  BY <1>4
<1>11. DiscSoFar(iz', last', pixset')
  BY <1>1, <1>8, <1>9, <1>10 DEF DiscSoFar
<1> QED
  BY <1>1, <1>2, <1>7, <1>11, Kept

\* Pixels of a ring come after those of the rings to its north.
LEMMA NorthFirst ==
  ASSUME base \in Bases, NEW ring \in Rings(base), NEW x \in Pixels(base), pix2ring(base, x) < ring,
         NEW y \in Int, InTheRing(base, ring, y)
  PROVE  x < y
<1>1. ring \in 1 .. 4 * base.nside /\ x \in Int
  <2>1. base.nside \in Nat \ {0}
    BY BaseFields
  <2>2. x \in Int
    BY PixelRing
  <2> QED
    BY <2>1, <2>2 DEF Rings
<1>2. FirstOf(base, ring) \in Nat /\ x < FirstOf(base, ring)
  BY <1>1, RingsApart
<1>3. FirstOf(base, ring) <= y
  BY DEF InTheRing
<1> QED
  BY <1>1, <1>2, <1>3

\* What is known when a ring is next.
LEMMA DiscGoesOn ==
  ASSUME IInv, status = "rings", query.kind = "disc"
  PROVE  /\ base \in Bases /\ query \in Queries(base.nside) /\ FactAllowed
         /\ pixset \in Seq(Int) /\ Canonical(pixset)
         /\ DiscSoFar(iz, last, pixset)
         /\ fct \in Int /\ fct >= 1 /\ IsDisc(base, Disc, fct)
<1>1. /\ base \in Bases /\ query \in Queries(base.nside) /\ FactAllowed
      /\ pixset \in Seq(Int) /\ Canonical(pixset)
      /\ DiscSoFar(iz, last, pixset)
  BY DEF IInv
<1>2. query.kind # "strip"
  OBVIOUS
<1> QED
  BY <1>1, <1>2, DiscsAre

LEMMA DiscRingKeeps ==
  ASSUME IInv, DiscRing
  PROVE  IInv'
<1>1. /\ status = "rings" /\ query.kind = "disc" /\ iz <= last
      /\ Output(RingRanges(Disc, iz)) /\ iz' = iz + 1
      /\ base' = base /\ query' = query /\ last' = last
  BY DEF DiscRing
<1>2. /\ base \in Bases /\ query \in Queries(base.nside) /\ FactAllowed
      /\ pixset \in Seq(Int) /\ Canonical(pixset)
      /\ DiscSoFar(iz, last, pixset)
      /\ fct \in Int /\ IsDisc(base, Disc, fct)
  BY <1>1, DiscGoesOn
<1>3. /\ irmin(Disc) \in 1 .. 4 * base.nside /\ irmax(Disc) \in 0 .. 4 * base.nside - 1
      /\ irmin(Disc) <= Disc.irmin
  BY <1>2, DiscRings
<1>4. /\ ~Disc.wide
      /\ iz \in irmin(Disc) .. irmax(Disc) + 1 /\ last = irmax(Disc)
      /\ \A x \in Elements(pixset) : x \in Inside(Disc) /\ pix2ring(base, x) < iz
      /\ \A x \in Pixels(base) :
           pix2ring(base, x) < iz /\ (InCap(Disc, x) \/ Must(Disc, x)) => x \in Elements(pixset)
  BY <1>2 DEF DiscSoFar
<1>5. base.nside \in Nat \ {0}
  BY <1>2, BaseFields
<1>6. /\ iz \in Rings(base) /\ iz + 1 \in irmin(Disc) .. irmax(Disc) + 1
      /\ Through(Disc, iz)
  BY <1>1, <1>3, <1>4, <1>5 DEF Rings, Through
<1> DEFINE r == RingRanges(Disc, iz)
<1>7. r \in Seq(Int) /\ StartsAscend(r)
  BY <1>2, <1>6, RangesAre
<1>8. \A x \in Elements(r) : x \in Int /\ InTheRing(base, iz, x)
  BY <1>2, <1>6, RangesInRing
<1>9. \A x \in Elements(r) : x \in Pixels(base) /\ pix2ring(base, x) = iz /\ x \in Inside(Disc)
  BY <1>2, <1>6, <1>8, PixelRing, RangesAnswer
<1>10. \A x \in Pixels(base) : pix2ring(base, x) = iz /\ Must(Disc, x) => x \in Elements(r)
  BY <1>2, <1>6, PixelRing, RangesAnswer
<1>11. \A x \in Elements(pixset) : x \in Pixels(base)
  BY <1>4 DEF Inside
<1>12. \A x \in Elements(pixset) : \A y \in Elements(r) : x < y
  <2>1. ASSUME NEW x \in Elements(pixset), NEW y \in Elements(r)
        PROVE  x < y
    <3>1. x \in Pixels(base) /\ pix2ring(base, x) < iz /\ y \in Int /\ InTheRing(base, iz, y)
      BY <1>4, <1>8, <1>11
    <3> QED
      BY <1>2, <1>6, <3>1, NorthFirst
  <2> QED
    BY <2>1
<1> HIDE DEF r
<1>13. /\ pixset' \in Seq(Int) /\ Canonical(pixset') /\ status' = "rings"
       /\ Elements(pixset') = Elements(pixset) \cup Elements(r)
  BY <1>1, <1>2, <1>7, <1>12, Appended DEF r
<1>14. \A x \in Pixels(base) : pix2ring(base, x) \in Int /\ ~ (InCap(Disc, x) /\ pix2ring(base, x) = iz)
  <2>1. \A x \in Pixels(base) : pix2ring(base, x) \in 1 .. 4 * base.nside - 1
    BY <1>2, PixelRing DEF Rings
  <2>2. Disc.north => irmin(Disc) = Disc.irmin
    BY <1>2, DiscRings
  <2> QED
    BY <1>3, <1>4, <2>1, <2>2 DEF InCap
<1>15. ASSUME NEW x \in Elements(pixset')
       PROVE  x \in Inside(Disc) /\ pix2ring(base, x) < iz + 1
  <2>1. CASE x \in Elements(pixset)
    BY <1>4, <1>6, <1>11, <1>14, <2>1 DEF Rings
  <2>2. CASE x \in Elements(r)
    BY <1>6, <1>9, <2>2 DEF Rings
  <2> QED
    BY <1>13, <1>15, <2>1, <2>2
<1>16. ASSUME NEW x \in Pixels(base), pix2ring(base, x) < iz + 1, InCap(Disc, x) \/ Must(Disc, x)
       PROVE  x \in Elements(pixset')
  <2>1. CASE pix2ring(base, x) < iz
    BY <1>4, <1>13, <1>16, <2>1
  <2>2. CASE pix2ring(base, x) = iz
    BY <1>10, <1>13, <1>14, <1>16, <2>2
  <2>3. pix2ring(base, x) < iz \/ pix2ring(base, x) = iz
    BY <1>6, <1>14, <1>16 DEF Rings
  <2> QED
    BY <2>1, <2>2, <2>3
<1>17. DiscSoFar(iz', last', pixset')
  BY <1>1, <1>4, <1>6, <1>15, <1>16 DEF DiscSoFar
<1> QED
  BY <1>1, <1>2, <1>13, <1>17, Kept

LEMMA EndDiscKeeps ==
  ASSUME IInv, EndDisc
  PROVE  IInv'
<1> DEFINE south == Disc.south /\ last + 1 < 4 * base.nside
           r == IF south THEN << Info(last + 1).startpix, npix(base) >> ELSE << >>
<1>1. /\ status = "rings" /\ query.kind = "disc" /\ iz > last
      /\ Returns(r)
      /\ base' = base /\ query' = query
  BY DEF EndDisc
<1>2. /\ base \in Bases /\ query \in Queries(base.nside) /\ FactAllowed
      /\ pixset \in Seq(Int) /\ Canonical(pixset)
      /\ DiscSoFar(iz, last, pixset)
      /\ fct \in Int /\ fct >= 1 /\ IsDisc(base, Disc, fct)
  BY <1>1, DiscGoesOn
<1>3. /\ Disc.irmin \in 1 .. 4 * base.nside /\ Disc.irmax \in 0 .. 4 * base.nside - 1
      /\ Disc.irmin <= Disc.irmax + 1
      /\ irmin(Disc) \in 1 .. 4 * base.nside /\ irmax(Disc) \in 0 .. 4 * base.nside - 1
      /\ irmin(Disc) <= Disc.irmin /\ Disc.irmax <= irmax(Disc)
      /\ Disc.north \/ fct <= 1 => irmin(Disc) = Disc.irmin
      /\ Disc.south \/ fct <= 1 => irmax(Disc) = Disc.irmax
      /\ \A ring \in Rings(base) :
           /\ Disc.north /\ ring < Disc.irmin => Disc.half[ring] = Whole
           /\ Disc.south /\ ring > Disc.irmax => Disc.half[ring] = Whole
           /\ fct <= 1 /\ ring \in Disc.irmin .. Disc.irmax => Disc.half[ring] # Whole
  BY <1>2, DiscRings
<1>4. /\ ~Disc.wide
      /\ iz \in irmin(Disc) .. irmax(Disc) + 1 /\ last = irmax(Disc)
      /\ \A x \in Elements(pixset) : x \in Inside(Disc) /\ pix2ring(base, x) < iz
      /\ \A x \in Pixels(base) :
           pix2ring(base, x) < iz /\ (InCap(Disc, x) \/ Must(Disc, x)) => x \in Elements(pixset)
  BY <1>2 DEF DiscSoFar
<1>5. base.nside \in Nat \ {0}
  BY <1>2, BaseFields
<1>6. last \in Int /\ iz = last + 1 /\ last + 1 \in 1 .. 4 * base.nside
  BY <1>1, <1>3, <1>4, <1>5
<1>7. \A x \in Pixels(base) :
         x \in Int /\ pix2ring(base, x) \in Rings(base) /\ pix2ring(base, x) \in 1 .. 4 * base.nside - 1
  BY <1>2, PixelRing DEF Rings
<1>8. /\ r \in Seq(Int) /\ StartsAscend(r)
      /\ \A x : x \in Elements(r) <=> x \in Pixels(base) /\ Disc.south /\ last < pix2ring(base, x)
  <2>1. CASE south
    <3>1. last + 1 \in Rings(base)
      BY <1>5, <1>6, <2>1 DEF Rings
    <3>2. Info(last + 1).startpix = FirstOf(base, last + 1)
      BY <1>2, <3>1, InfoFields
    <3> DEFINE s == FirstOf(base, last + 1)
               e == npix(base)
    <3>3. /\ s \in Int /\ e \in Int
          /\ \A x : x \in Int /\ s <= x /\ x < e
                      <=> x \in Pixels(base) /\ last + 1 <= pix2ring(base, x)
      BY <1>2, <1>6, CapsAre
    <3>4. r = << s, e >>
      BY <2>1, <3>2
    <3> HIDE DEF s, e, r
    <3>5. /\ << s, e >> \in Seq(Int) /\ StartsAscend(<< s, e >>)
          /\ \A x : x \in Elements(<< s, e >>) <=> x \in Int /\ s <= x /\ x < e
      BY <3>3, OneRange
    <3>6. \A x : x \in Elements(r) <=> x \in Pixels(base) /\ last + 1 <= pix2ring(base, x)
      BY <3>3, <3>4, <3>5
    <3> QED
      BY <1>6, <1>7, <2>1, <3>4, <3>5, <3>6
  <2>2. CASE ~south
    <3>1. r = << >>
      BY <2>2
    <3>2. \A x \in Pixels(base) : ~ (Disc.south /\ last < pix2ring(base, x))
      <4>1. ASSUME NEW x \in Pixels(base), Disc.south, last < pix2ring(base, x)
            PROVE  FALSE
        <5>1. pix2ring(base, x) \in 1 .. 4 * base.nside - 1
          BY <1>7
        <5>2. last + 1 < 4 * base.nside
          BY <1>5, <1>6, <4>1, <5>1
        <5> QED
          BY <2>2, <4>1, <5>2
      <4> QED
        BY <4>1
    <3> HIDE DEF r
    <3>3. << >> \in Seq(Int) /\ Elements(<< >>) = {} /\ StartsAscend(<< >>)
      BY 0 \in Int, OneRange
    <3> QED
      BY <3>1, <3>2, <3>3
  <2> HIDE DEF south, r
  <2> QED
    BY <2>1, <2>2
<1> HIDE DEF south, r
<1>9. \A x \in Elements(pixset) : x \in Pixels(base) /\ pix2ring(base, x) < iz
  BY <1>4 DEF Inside
<1>10. \A x \in Elements(pixset) : \A y \in Elements(r) : x < y
  <2> TAKE x \in Elements(pixset)
  <2> TAKE y \in Elements(r)
  <2>2. /\ x \in Pixels(base) /\ pix2ring(base, x) < last + 1
        /\ y \in Pixels(base) /\ last + 1 <= pix2ring(base, y)
    BY <1>6, <1>7, <1>8, <1>9
  <2>3. FirstOf(base, last + 1) \in Int /\ x < FirstOf(base, last + 1) /\ FirstOf(base, last + 1) <= y
    BY <1>2, <1>6, <2>2, CapsAre
  <2> QED
    BY <1>7, <2>2, <2>3
<1>11. /\ pixset' \in Seq(Int) /\ Canonical(pixset') /\ status' = "returned"
       /\ Elements(pixset') = Elements(pixset) \cup Elements(r)
  BY <1>1, <1>2, <1>8, <1>10, Appended
<1>12. ASSUME NEW x \in Elements(pixset')
       PROVE  x \in Inside(Disc)
  <2>1. CASE x \in Elements(pixset)
    BY <1>4, <2>1
  <2>2. CASE x \in Elements(r)
    <3> DEFINE ring == pix2ring(base, x)
    <3>1. x \in Pixels(base) /\ Disc.south /\ last < ring /\ ring \in Rings(base) /\ ring \in Int
      BY <1>7, <1>8, <2>2
    <3>2. irmax(Disc) = Disc.irmax /\ ring > Disc.irmax /\ Disc.half[ring] = Whole
      BY <1>3, <1>4, <3>1
    <3>3. ~ (ring < irmin(Disc))
      BY <1>3, <3>1, <3>2
    <3>4. Through(Disc, ring)
      BY <3>1, <3>3 DEF Through
    <3> QED
      BY <1>2, <3>1, <3>2, <3>4, InsideIs
  <2> QED
    BY <1>11, <1>12, <2>1, <2>2
<1>13. \A x \in Pixels(base) : x \in Inside(Disc) /\ pix2ring(base, x) > last => Disc.south
  BY <1>4 DEF Inside
<1>14. ASSUME NEW x \in Pixels(base), Must(Disc, x)
       PROVE  x \in Elements(pixset')
  <2>1. CASE pix2ring(base, x) < iz
    BY <1>4, <1>11, <1>14, <2>1
  <2>2. CASE ~ (pix2ring(base, x) < iz)
    <3>1. last < pix2ring(base, x)
      BY <1>6, <1>7, <2>2
    <3>2. Disc.south
      BY <1>13, <1>14, <3>1 DEF Must
    <3> QED
      BY <1>8, <1>11, <3>1, <3>2
  <2> QED
    BY <2>1, <2>2
<1>15. ASSUME fct = 1, NEW x \in Inside(Disc)
       PROVE  x \in Elements(pixset')
  <2> DEFINE ring == pix2ring(base, x)
  <2>1. x \in Pixels(base) /\ (ring < irmin(Disc) => Disc.north)
    BY DEF Inside
  <2>2. ring \in Rings(base) /\ ring \in Int
    BY <1>7, <2>1
  <2>3. CASE ring < Disc.irmin
    <3>1. InCap(Disc, x) /\ ring < iz
      BY <1>3, <1>4, <1>15, <2>1, <2>2, <2>3 DEF InCap
    <3> QED
      BY <1>4, <1>11, <2>1, <3>1
  <2>4. CASE ring > Disc.irmax
    <3>1. last < ring
      BY <1>3, <1>4, <1>15, <2>4
    <3>2. Disc.south
      BY <1>13, <1>15, <2>1, <3>1
    <3> QED
      BY <1>8, <1>11, <2>1, <3>1, <3>2
  <2>5. CASE ring \in Disc.irmin .. Disc.irmax
    <3>1. Disc.half[ring] # Whole
      BY <1>3, <1>15, <2>2, <2>5
    <3>2. x \notin Opposite(Disc)
      BY <1>2, <2>1, <3>1, InsideIs
    <3>3. Must(Disc, x)
      BY <1>15, <3>2 DEF Must
    <3> QED
      BY <1>14, <2>1, <3>3
  <2> QED
    BY <1>3, <2>2, <2>3, <2>4, <2>5
<1>16. DiscGives(pixset')
  <2>1. \A x \in Elements(pixset') : x \in Pixels(base)
    BY <1>12 DEF Inside
  <2>2. \A x \in (Disc.overlaps \cap Inside(Disc)) \ Opposite(Disc) : x \in Elements(pixset')
    <3>1. \A x \in Inside(Disc) : x \in Pixels(base)
      BY DEF Inside
    <3> QED
      BY <1>14, <3>1 DEF Must
  <2> QED
    BY <1>4, <1>12, <1>15, <2>1, <2>2 DEF DiscGives
<1> QED
  BY <1>1, <1>2, <1>11, <1>16, Kept

LEMMA StartMultidiscKeeps ==
  ASSUME IInv, StartMultidisc
  PROVE  IInv'
<1> DEFINE n == base.nside
           S == { 1 } \cup { IF d.north THEN 1 ELSE irmin(d) : d \in NarrowDiscs }
           T == { 4 * n - 1 } \cup { IF d.south THEN 4 * n - 1 ELSE irmax(d) : d \in NarrowDiscs }
<1>1. Calls("multidisc") /\ iz' = Max(S) /\ last' = Min(T) /\ status' = "rings" /\ pixset' = pixset
  BY DEF StartMultidisc
<1>2. /\ base \in Bases /\ query \in Queries(base.nside) /\ query.kind = "multidisc" /\ FactAllowed
      /\ base' = base /\ query' = query
      /\ pixset \in Seq(Int) /\ Canonical(pixset) /\ Elements(pixset) = {}
  BY <1>1, CallBegins
<1>3. n \in Nat \ {0} /\ 1 \in 1 .. 4 * n /\ 4 * n - 1 \in 0 .. 4 * n - 1
  BY <1>2, BaseFields
<1>4. fct \in Int /\ \A d \in NarrowDiscs : IsDisc(base, d, fct)
  BY <1>2, DiscsAre
<1>5. \A d \in NarrowDiscs : irmin(d) \in 1 .. 4 * n /\ irmax(d) \in 0 .. 4 * n - 1
  BY <1>2, <1>4, DiscRings
<1>6. /\ S \subseteq 1 .. 4 * n /\ 1 \in S
      /\ \A d \in NarrowDiscs : ~d.north => irmin(d) \in S
      /\ T \subseteq 0 .. 4 * n - 1 /\ 4 * n - 1 \in T
      /\ \A d \in NarrowDiscs : ~d.south => irmax(d) \in T
  BY <1>3, <1>5
<1>7. \A s \in S : s \in Int /\ s <= 4 * n
  <2> HIDE DEF S
  <2> QED
    BY <1>3, <1>6
<1>8. \A t \in T : t \in Int /\ 0 <= t
  <2> HIDE DEF T
  <2> QED
    BY <1>3, <1>6
<1> HIDE DEF S, T
<1>9. iz' \in S /\ \A s \in S : s <= iz'
  <2>1. S \in SUBSET Int /\ S # {} /\ 4 * n \in Int
    BY <1>3, <1>6, <1>7
  <2> QED
    BY <1>1, <1>7, <2>1, MaxIs
<1>10. last' \in T /\ \A t \in T : last' <= t
  <2>1. T \in SUBSET Int /\ T # {} /\ 0 \in Int
    BY <1>3, <1>6, <1>8
  <2> QED
    BY <1>1, <1>8, <2>1, MinIs
<1>11. iz' \in 1 .. 4 * n /\ last' \in 0 .. 4 * n - 1
  BY <1>6, <1>9, <1>10
<1>12. \A d \in NarrowDiscs : (~d.north => irmin(d) <= iz') /\ (~d.south => last' <= irmax(d))
  BY <1>6, <1>9, <1>10
<1>13. ASSUME NEW ring \in iz' .. last', NEW d \in NarrowDiscs
       PROVE  Through(d, ring)
  <2>1. irmin(d) \in Int /\ irmax(d) \in Int /\ ring \in Int /\ iz' \in Int /\ last' \in Int
    BY <1>5, <1>11
  <2> QED
    BY <1>12, <2>1 DEF Through
<1>14. \A x \in Pixels(base) : pix2ring(base, x) \in 1 .. 4 * n - 1
  BY <1>2, PixelRing DEF Rings
<1>15. ASSUME NEW x \in Pixels(base), \A d \in NarrowDiscs : x \in Inside(d)
       PROVE  iz' <= pix2ring(base, x) /\ pix2ring(base, x) <= last'
  <2> DEFINE ring == pix2ring(base, x)
  <2>1. \A d \in NarrowDiscs : (ring < irmin(d) => d.north) /\ (ring > irmax(d) => d.south)
    BY <1>15 DEF Inside
  <2>2. iz' = 1 \/ \E d \in NarrowDiscs : ~d.north /\ iz' = irmin(d)
    BY <1>9 DEF S
  <2>3. last' = 4 * n - 1 \/ \E d \in NarrowDiscs : ~d.south /\ last' = irmax(d)
    BY <1>10 DEF T
  <2>4. ring \in 1 .. 4 * n - 1
    BY <1>14
  <2> QED
    BY <1>3, <1>5, <2>1, <2>2, <2>3, <2>4
<1>16. \A x \in Pixels(base) : (\A d \in NarrowDiscs : Must(d, x)) => ~ (pix2ring(base, x) < iz')
  <2>1. TAKE x \in Pixels(base)
  <2>2. HAVE \A d \in NarrowDiscs : Must(d, x)
  <2>3. \A d \in NarrowDiscs : x \in Inside(d)
    BY <2>2 DEF Must
  <2> QED
    BY <1>11, <1>14, <1>15, <2>3
<1>17. MultidiscSoFar(iz', last', pixset')
  BY <1>1, <1>2, <1>11, <1>13, <1>15, <1>16 DEF MultidiscSoFar
<1> QED
  BY <1>1, <1>2, <1>17, Kept

\* What is known when a ring is next.
LEMMA MultidiscGoesOn ==
  ASSUME IInv, status = "rings", query.kind = "multidisc"
  PROVE  /\ base \in Bases /\ query \in Queries(base.nside) /\ FactAllowed
         /\ pixset \in Seq(Int) /\ Canonical(pixset)
         /\ MultidiscSoFar(iz, last, pixset)
         /\ Len(query.discs) \in Nat /\ fct \in Int /\ fct >= 1
         /\ \A i \in 1 .. Len(query.discs) : IsDisc(base, query.discs[i], fct)
         /\ \A d \in NarrowDiscs : IsDisc(base, d, fct)
<1>1. /\ base \in Bases /\ query \in Queries(base.nside) /\ FactAllowed
      /\ pixset \in Seq(Int) /\ Canonical(pixset)
      /\ MultidiscSoFar(iz, last, pixset)
  BY DEF IInv
<1>2. query.kind # "strip"
  OBVIOUS
<1> QED
  BY <1>1, <1>2, DiscsAre

LEMMA MultidiscRingKeeps ==
  ASSUME IInv, MultidiscRing
  PROVE  IInv'
<1>1. /\ status = "rings" /\ query.kind = "multidisc" /\ iz <= last
      /\ Output(RingLeft(iz)) /\ iz' = iz + 1
      /\ base' = base /\ query' = query /\ last' = last
  BY DEF MultidiscRing
<1>2. /\ base \in Bases /\ query \in Queries(base.nside) /\ FactAllowed
      /\ pixset \in Seq(Int) /\ Canonical(pixset)
      /\ MultidiscSoFar(iz, last, pixset)
      /\ Len(query.discs) \in Nat
      /\ \A i \in 1 .. Len(query.discs) : IsDisc(base, query.discs[i], fct)
      /\ \A d \in NarrowDiscs : IsDisc(base, d, fct)
  BY <1>1, MultidiscGoesOn
<1>3. /\ iz \in 1 .. 4 * base.nside /\ last \in 0 .. 4 * base.nside - 1
      /\ \A ring \in iz .. last : \A d \in NarrowDiscs : Through(d, ring)
      /\ \A x \in Pixels(base) : (\A d \in NarrowDiscs : x \in Inside(d)) => pix2ring(base, x) <= last
      /\ \A x \in Elements(pixset) :
           /\ x \in Pixels(base) /\ pix2ring(base, x) < iz
           /\ \A d \in NarrowDiscs : x \in Inside(d) /\ x \notin Opposite(d)
      /\ \A x \in Pixels(base) :
           pix2ring(base, x) < iz /\ (\A d \in NarrowDiscs : Must(d, x)) => x \in Elements(pixset)
  BY <1>2 DEF MultidiscSoFar
<1>4. base.nside \in Nat \ {0}
  BY <1>2, BaseFields
<1>5. /\ iz \in Rings(base) /\ iz + 1 \in 1 .. 4 * base.nside
      /\ iz \in iz .. last /\ \A ring \in iz + 1 .. last : ring \in iz .. last
  BY <1>1, <1>3, <1>4 DEF Rings
<1>6. \A d \in NarrowDiscs : Through(d, iz)
  BY <1>3, <1>5
<1> DEFINE r == RingLeft(iz)
<1>7. /\ r \in Seq(Int) /\ Ordered(r)
      /\ \A x : x \in Elements(r) <=>
           /\ x \in Int /\ InTheRing(base, iz, x)
           /\ \A d \in NarrowDiscs : x \in Elements(RingRanges(d, iz))
  BY <1>2, <1>5, RingLeftIs
<1> HIDE DEF r
<1>8. StartsAscend(r)
  BY <1>7, OrderedStarts
<1>9. \A x \in Int : InTheRing(base, iz, x) => x \in Pixels(base) /\ pix2ring(base, x) = iz
  BY <1>2, <1>5, PixelRing
<1>10. ASSUME NEW x \in Elements(r)
       PROVE  /\ x \in Int /\ InTheRing(base, iz, x)
              /\ x \in Pixels(base) /\ pix2ring(base, x) = iz
              /\ \A d \in NarrowDiscs : x \in Inside(d) /\ x \notin Opposite(d)
  <2>1. /\ x \in Int /\ InTheRing(base, iz, x)
        /\ \A d \in NarrowDiscs : x \in Elements(RingRanges(d, iz))
    BY <1>7
  <2>2. ASSUME NEW d \in NarrowDiscs
        PROVE  x \in Inside(d) /\ x \notin Opposite(d)
    <3>1. IsDisc(base, d, fct) /\ Through(d, iz) /\ x \in Elements(RingRanges(d, iz))
      BY <1>2, <1>6, <2>1
    <3> QED
      BY <1>2, <1>5, <2>1, <3>1, RangesAnswer
  <2> QED
    BY <1>9, <2>1, <2>2
<1>11. ASSUME NEW x \in Pixels(base), pix2ring(base, x) = iz, \A d \in NarrowDiscs : Must(d, x)
       PROVE  x \in Elements(r)
  <2>1. x \in Int /\ InTheRing(base, iz, x)
    BY <1>2, <1>11, PixelRing
  <2>2. ASSUME NEW d \in NarrowDiscs
        PROVE  x \in Elements(RingRanges(d, iz))
    <3>1. IsDisc(base, d, fct) /\ Through(d, iz) /\ Must(d, x)
      BY <1>2, <1>6, <1>11
    <3> QED
      BY <1>2, <1>5, <2>1, <3>1, RangesAnswer
  <2> QED
    BY <1>7, <2>1, <2>2
<1>12. \A x \in Elements(pixset) : \A y \in Elements(r) : x < y
  <2>1. ASSUME NEW x \in Elements(pixset), NEW y \in Elements(r)
        PROVE  x < y
    <3>1. x \in Pixels(base) /\ pix2ring(base, x) < iz /\ y \in Int /\ InTheRing(base, iz, y)
      BY <1>3, <1>10
    <3> QED
      BY <1>2, <1>5, <3>1, NorthFirst
  <2> QED
    BY <2>1
<1>13. /\ pixset' \in Seq(Int) /\ Canonical(pixset') /\ status' = "rings"
       /\ Elements(pixset') = Elements(pixset) \cup Elements(r)
  BY <1>1, <1>2, <1>7, <1>8, <1>12, Appended DEF r
<1>14. \A x \in Pixels(base) : pix2ring(base, x) \in Int
  BY <1>2, PixelRing DEF Rings
<1>15. ASSUME NEW x \in Elements(pixset')
       PROVE  /\ x \in Pixels(base) /\ pix2ring(base, x) < iz + 1
              /\ \A d \in NarrowDiscs : x \in Inside(d) /\ x \notin Opposite(d)
  <2>1. CASE x \in Elements(pixset)
    BY <1>3, <1>14, <2>1
  <2>2. CASE x \in Elements(r)
    BY <1>3, <1>10, <2>2
  <2> QED
    BY <1>13, <1>15, <2>1, <2>2
<1>16. ASSUME NEW x \in Pixels(base), pix2ring(base, x) < iz + 1, \A d \in NarrowDiscs : Must(d, x)
       PROVE  x \in Elements(pixset')
  <2>1. CASE pix2ring(base, x) < iz
    BY <1>3, <1>13, <1>16, <2>1
  <2>2. CASE pix2ring(base, x) = iz
    BY <1>11, <1>13, <1>16, <2>2
  <2>3. pix2ring(base, x) < iz \/ pix2ring(base, x) = iz
    BY <1>3, <1>14, <1>16
  <2> QED
    BY <2>1, <2>2, <2>3
<1>17. MultidiscSoFar(iz', last', pixset')
  BY <1>1, <1>3, <1>5, <1>15, <1>16 DEF MultidiscSoFar
<1> QED
  BY <1>1, <1>2, <1>13, <1>17, Kept

LEMMA EndMultidiscKeeps ==
  ASSUME IInv, EndMultidisc
  PROVE  IInv'
<1>1. /\ status = "rings" /\ query.kind = "multidisc" /\ iz > last /\ status' = "returned"
      /\ base' = base /\ query' = query /\ pixset' = pixset
  BY DEF EndMultidisc
<1>2. /\ base \in Bases /\ pixset \in Seq(Int) /\ Canonical(pixset)
      /\ MultidiscSoFar(iz, last, pixset) /\ fct \in Int
      /\ \A d \in NarrowDiscs : IsDisc(base, d, fct)
  BY <1>1, MultidiscGoesOn
<1>3. /\ iz \in 1 .. 4 * base.nside /\ last \in 0 .. 4 * base.nside - 1
      /\ \A x \in Pixels(base) : (\A d \in NarrowDiscs : x \in Inside(d)) => pix2ring(base, x) <= last
      /\ \A x \in Elements(pixset) :
           x \in Pixels(base) /\ \A d \in NarrowDiscs : x \in Inside(d) /\ x \notin Opposite(d)
      /\ \A x \in Pixels(base) :
           pix2ring(base, x) < iz /\ (\A d \in NarrowDiscs : Must(d, x)) => x \in Elements(pixset)
  BY <1>2 DEF MultidiscSoFar
<1>4. \A x \in Elements(pixset) : x \in InAll
  BY <1>3 DEF InAll
<1>5. ASSUME NEW x \in InAll, fct = 1 \/ \A d \in NarrowDiscs : x \in d.overlaps
      PROVE  x \in Elements(pixset)
  <2>1. x \in Pixels(base) /\ \A d \in NarrowDiscs : x \in Inside(d) /\ x \notin Opposite(d)
    BY DEF InAll
  <2>2. \A d \in NarrowDiscs : Must(d, x)
    BY <1>5, <2>1 DEF Must
  <2>3. pix2ring(base, x) \in Int /\ pix2ring(base, x) <= last
    BY <1>2, <1>3, <2>1, PixelRing DEF Rings
  <2>4. pix2ring(base, x) < iz
    BY <1>1, <1>3, <2>3
  <2> QED
    BY <1>3, <2>1, <2>2, <2>4
<1>6. MultidiscGives(pixset')
  BY <1>1, <1>3, <1>4, <1>5 DEF MultidiscGives
<1> QED
  BY <1>1, <1>2, <1>6, Kept

LEMMA query_stripKeeps ==
  ASSUME IInv, query_strip
  PROVE  IInv'
<1>1. Calls("strip") /\ Returns(Strips)
  BY DEF query_strip
<1>2. /\ base \in Bases /\ query \in Queries(base.nside) /\ query.kind = "strip"
      /\ base' = base /\ query' = query
      /\ pixset \in Seq(Int) /\ Canonical(pixset) /\ Elements(pixset) = {}
  BY <1>1, CallBegins
<1>3. /\ Strips \in Seq(Int) /\ StartsAscend(Strips)
      /\ \A x : x \in Elements(Strips) <=> x \in Pixels(base) /\ InStrips(pix2ring(base, x))
  BY <1>2, StripsAre
<1>4. /\ pixset' \in Seq(Int) /\ Canonical(pixset') /\ status' = "returned"
      /\ Elements(pixset') = Elements(Strips)
  BY <1>1, <1>2, <1>3, Appended
<1>5. StripGives(pixset')
  BY <1>3, <1>4 DEF StripGives
<1> QED
  BY <1>2, <1>4, <1>5, Kept

----------------------------------------------------------------------------
(* The theorems.                                                           *)

\* A query in progress has found, north of the ring that is next, every pixel
\* it has to and none that is wrong, its answer is in canonical form, it has
\* not thrown but for its factor, and what it has returned is right.
THEOREM QueryInvariance == Spec => []IInv
<1>1. Init => IInv
  <2>1. << >> \in Seq(Int) /\ Canonical(<< >>)
    BY DEF Canonical
  <2> QED
    BY <2>1 DEF Init, IInv, DiscAnswer, MultidiscAnswer, StripAnswer
<1>2. ASSUME IInv, [Next]_vars
      PROVE  IInv'
  <2>1. CASE RejectFact
    BY <1>2, <2>1, RejectFactKeeps
  <2>2. CASE DiscCoversSphere
    BY <1>2, <2>2, DiscCoversSphereKeeps
  <2>3. CASE StartDisc
    BY <1>2, <2>3, StartDiscKeeps
  <2>4. CASE DiscRing
    BY <1>2, <2>4, DiscRingKeeps
  <2>5. CASE EndDisc
    BY <1>2, <2>5, EndDiscKeeps
  <2>6. CASE StartMultidisc
    BY <1>2, <2>6, StartMultidiscKeeps
  <2>7. CASE MultidiscRing
    BY <1>2, <2>7, MultidiscRingKeeps
  <2>8. CASE EndMultidisc
    BY <1>2, <2>8, EndMultidiscKeeps
  <2>9. CASE query_strip
    BY <1>2, <2>9, query_stripKeeps
  <2>10. CASE UNCHANGED vars
    <3>1. /\ base' = base /\ query' = query /\ iz' = iz /\ last' = last
          /\ pixset' = pixset /\ status' = status
      BY <2>10 DEF vars
    <3>2. status = "returned" => /\ query.kind = "disc" => DiscGives(pixset)
                                 /\ query.kind = "multidisc" => MultidiscGives(pixset)
                                 /\ query.kind = "strip" => StripGives(pixset)
      <4>1. DiscAnswer /\ MultidiscAnswer /\ StripAnswer
        BY <1>2 DEF IInv
      <4>2. status = "returned" /\ query.kind = "disc" => DiscGives(pixset)
        BY <4>1 DEF DiscAnswer, DiscGives
      <4>3. status = "returned" /\ query.kind = "multidisc" => MultidiscGives(pixset)
        BY <4>1 DEF MultidiscAnswer, MultidiscGives, InAll
      <4>4. status = "returned" /\ query.kind = "strip" => StripGives(pixset)
        BY <4>1 DEF StripAnswer, StripGives, InStrips
      <4> QED
        BY <4>2, <4>3, <4>4
    <3>3. /\ status \in { "called", "rings", "returned", "threw" }
          /\ pixset \in Seq(Int) /\ Canonical(pixset)
          /\ status = "called" => pixset = << >>
          /\ status = "threw" => ~FactAllowed
          /\ status = "rings" => /\ FactAllowed
                                 /\ query.kind \in { "disc", "multidisc" }
                                 /\ query.kind = "disc" => DiscSoFar(iz, last, pixset)
                                 /\ query.kind = "multidisc" => MultidiscSoFar(iz, last, pixset)
      BY <1>2 DEF IInv
    <3> QED
      BY <1>2, <3>1, <3>2, <3>3, Kept
  <2>11. CASE Finished
    BY <2>10, <2>11 DEF Finished
  <2> QED
    BY <1>2, <2>1, <2>2, <2>3, <2>4, <2>5, <2>6, <2>7, <2>8, <2>9, <2>10, <2>11 DEF Next
<1> QED
  BY <1>1, <1>2, PTL DEF Spec

\* No query hits an assertion of rangeset, but only the one about its own
\* oversampling factor: rings, parts of rings and caps are appended in
\* ascending order, and query_multidisc calls remove and intersect with bounds
\* in order.
THEOREM CallsAlwaysLegal == Spec => []CallsLegal
<1>1. IInv => CallsLegal
  <2> SUFFICES ASSUME IInv PROVE CallsLegal
    OBVIOUS
  <2>1. status = "threw" => ~FactAllowed
    BY DEF IInv
  <2>2. ASSUME status = "rings", query.kind = "multidisc", iz <= last, NEW d \in NarrowDiscs
        PROVE  Cut(d, iz).a <= Cut(d, iz).b
    <3>1. base \in Bases /\ MultidiscSoFar(iz, last, pixset) /\ IsDisc(base, d, fct)
      BY <2>2, MultidiscGoesOn
    <3>2. iz \in 1 .. 4 * base.nside /\ last \in 0 .. 4 * base.nside - 1
      BY <3>1 DEF MultidiscSoFar
    <3>3. iz \in Rings(base)
      BY <2>2, <3>1, <3>2, BaseFields DEF Rings
    <3> QED
      BY <3>1, <3>3, CutIs
  <2> QED
    BY <2>1, <2>2 DEF CallsLegal
<1> QED
  BY <1>1, QueryInvariance, PTL

\* query_disc returns exactly the pixels centred in the disc, in canonical form,
\* wherever its interval wraps around longitude 0 and wherever its caps begin;
\* with an overlap test, no others, and all that overlap but for those opposite
\* its centre in a ring that is whole.
THEOREM DiscAnswered == Spec => []DiscAnswer
<1>1. IInv => DiscAnswer
  BY DEF IInv
<1> QED
  BY <1>1, QueryInvariance, PTL

\* query_multidisc, which polygons are queried with, returns exactly the pixels
\* centred in all of its discs but opposite none in a whole ring; with an
\* overlap test it misses none of these that overlaps all discs.
THEOREM MultidiscAnswered == Spec => []MultidiscAnswer
<1>1. IInv => MultidiscAnswer
  BY DEF IInv
<1> QED
  BY <1>1, QueryInvariance, PTL

\* query_strip returns exactly the rings between the colatitudes, or the rings
\* around both poles if they are given the other way round; an inclusive query
\* also those next to them.
THEOREM StripAnswered == Spec => []StripAnswer
<1>1. IInv => StripAnswer
  BY DEF IInv
<1> QED
  BY <1>1, QueryInvariance, PTL

=============================================================================
