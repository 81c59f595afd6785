---------------------------- MODULE QueryLemmas -----------------------------
(***************************************************************************)
(* What the operators that every query is built from return.  First the    *)
(* member functions of rangeset, for every vector of boundaries: which     *)
(* positions iiv finds, and which set append, add, remove and intersect    *)
(* with a range leave.  Then the rings of HealpixIndex, for a base of any  *)
(* side, that is a power of two or not: they follow each other without a   *)
(* gap, a pixel lies in the ring that ring2xyf computes with a root, they  *)
(* descend in z, and ring_above finds the one at or above any z.           *)
(***************************************************************************)
EXTENDS Rangeset, HealpixIndex, SequenceTheorems, WellFoundedInduction, TLAPS

\* Boundaries in ascending order, perhaps with the last range still open.
Ascending(r) == \A i \in 1 .. Len(r) - 1 : r[i] <= r[i+1]

----------------------------------------------------------------------------
(* Positions.                                                              *)

\* Induction on the natural numbers, as a fact about a set.
LEMMA NatSetInduction ==
  ASSUME NEW S, 0 \in S, \A n \in Nat : n \in S => n + 1 \in S
  PROVE  \A n \in Nat : n \in S
<1> DEFINE T == { n \in Nat : n \notin S }
<1>1. SUFFICES ASSUME T # {}
               PROVE  FALSE
  OBVIOUS
<1>2. PICK x \in T : \A y \in T : ~ (<< y, x >> \in OpToRel(<, Nat))
  <2>1. T \subseteq Nat
    OBVIOUS
  <2> HIDE DEF T
  <2> QED
    BY <1>1, <2>1, NatLessThanWellFounded, WFMin
<1>3. x \in Nat \ {0} /\ x - 1 \in Nat /\ (x - 1) + 1 = x
  OBVIOUS
<1>4. x - 1 \in T
  BY <1>3
<1>5. << x - 1, x >> \in OpToRel(<, Nat)
  BY <1>3 DEF OpToRel
<1> QED
  BY <1>2, <1>4, <1>5

\* What neighbours say of all pairs.
LEMMA AscendingPairs ==
  ASSUME NEW r \in Seq(Int), Ascending(r),
         NEW i \in 1 .. Len(r), NEW j \in 1 .. Len(r), i <= j
  PROVE  r[i] <= r[j]
<1> DEFINE S == { n \in Nat : i + n <= Len(r) => r[i] <= r[i+n] }
<1>0. Len(r) \in Nat /\ \A k \in 1 .. Len(r) : r[k] \in Int
  BY LenProperties, ElementOfSeq
<1>1. 0 \in S
  BY <1>0
<1>2. ASSUME NEW n \in Nat, n \in S
      PROVE  n + 1 \in S
  <2> SUFFICES ASSUME i + (n + 1) <= Len(r)
               PROVE  r[i] <= r[i + (n + 1)]
    OBVIOUS
  <2>1. i + n \in 1 .. Len(r) - 1 /\ i + n \in 1 .. Len(r) /\ i + (n + 1) \in 1 .. Len(r)
        /\ (i + n) + 1 = i + (n + 1)
    BY <1>0
  <2>2. r[i] <= r[i+n] /\ r[i+n] <= r[i + (n + 1)]
    BY <1>2, <2>1 DEF Ascending
  <2>3. r[i] \in Int /\ r[i+n] \in Int /\ r[i + (n + 1)] \in Int
    BY <1>0, <2>1
  <2> QED
    BY <2>2, <2>3
<1>3. j - i \in Nat /\ i + (j - i) = j
  BY <1>0
<1>4. j - i \in S
  <2> HIDE DEF S
  <2> QED
    BY <1>1, <1>2, <1>3, NatSetInduction
<1> QED
  BY <1>0, <1>3, <1>4

\* iiv finds the position that it looks for.
LEMMA PositionFound ==
  ASSUME NEW r \in Seq(Int), Ascending(r), NEW val \in Int
  PROVE  /\ iiv(r, val) \in -1 .. Len(r) - 1
         /\ \A i \in 1 .. Len(r) : r[i] <= val <=> i - 1 <= iiv(r, val)
<1>0. Len(r) \in Nat /\ \A k \in 1 .. Len(r) : r[k] \in Int
  BY LenProperties, ElementOfSeq
<1> DEFINE T == { n \in Nat : n <= Len(r) /\ \A i \in 1 .. Len(r) : r[i] <= val => i <= n }
<1>1. PICK n \in T : \A m \in T : ~ (<< m, n >> \in OpToRel(<, Nat))
  <2>1. T \subseteq Nat /\ Len(r) \in T
    BY <1>0
  <2> HIDE DEF T
  <2> QED
    BY <2>1, NatLessThanWellFounded, WFMin
<1>2. \A m \in Nat : m < n => m \notin T
  BY <1>1 DEF OpToRel
<1>3. n = 0 \/ r[n] <= val
  <2> SUFFICES ASSUME n # 0, ~ (r[n] <= val)
               PROVE  FALSE
    OBVIOUS
  <2>1. n - 1 \in Nat /\ n - 1 < n /\ n - 1 <= Len(r)
    BY <1>0
  <2>2. \A i \in 1 .. Len(r) : r[i] <= val => i <= n - 1
    BY <1>0
  <2> QED
    BY <1>2, <2>1, <2>2
<1>4. ASSUME NEW i \in 1 .. Len(r)
      PROVE  r[i] <= val <=> i - 1 <= n - 1
  <2>1. CASE i <= n
    <3>1. n \in 1 .. Len(r) /\ r[n] <= val
      BY <1>0, <1>3, <2>1
    <3>2. r[i] <= r[n] /\ r[i] \in Int /\ r[n] \in Int
      BY <1>0, <2>1, <3>1, AscendingPairs
    <3> QED
      BY <2>1, <3>1, <3>2
  <2>2. CASE ~ (i <= n)
    BY <1>0, <2>2
  <2> QED
    BY <2>1, <2>2
<1>5. n - 1 \in -1 .. Len(r) - 1
  BY <1>0
<1> QED
  BY <1>4, <1>5 DEF iiv

\* There is one such position only.
LEMMA PositionIs ==
  ASSUME NEW r \in Seq(Int), NEW val \in Int, NEW k \in -1 .. Len(r) - 1,
         \A i \in 1 .. Len(r) : r[i] <= val <=> i - 1 <= k
  PROVE  iiv(r, val) = k
<1>0. Len(r) \in Nat
  BY LenProperties
<1>1. ASSUME NEW l \in -1 .. Len(r) - 1, l # k,
             \A i \in 1 .. Len(r) : r[i] <= val <=> i - 1 <= l
      PROVE  FALSE
  <2>1. CASE l < k
    <3>1. k + 1 \in 1 .. Len(r)
      BY <1>0, <2>1
    <3> QED
      BY <1>1, <2>1, <3>1
  <2>2. CASE k < l
    <3>1. l + 1 \in 1 .. Len(r)
      BY <1>0, <2>2
    <3> QED
      BY <1>1, <2>2, <3>1
  <2> QED
    BY <1>0, <1>1, <2>1, <2>2
<1> QED
  BY <1>1 DEF iiv

----------------------------------------------------------------------------
(* append.                                                                 *)


\* append returns a vector of the numbers it was given.
LEMMA AppendType ==
  ASSUME NEW S, S \subseteq Int, NEW r \in Seq(S), NEW v1 \in S, NEW v2 \in S
  PROVE  append(r, v1, v2) \in Seq(S)
<1>1. CASE v2 <= v1
  BY <1>1 DEF append
<1>2. CASE ~(v2 <= v1) /\ r # << >> /\ v1 <= Last(r)
  <2>1. Len(r) \in 1 .. Len(r)
    BY <1>2, EmptySeq, LenProperties
  <2>2. [r EXCEPT ![Len(r)] = v2] \in Seq(S)
    BY <2>1, ExceptSeq
  <2> QED
    BY <1>2, <2>2 DEF append
<1>3. CASE ~(v2 <= v1) /\ ~(r # << >> /\ v1 <= Last(r))
  <2>1. << v1, v2 >> \in Seq(S)
    OBVIOUS
  <2>2. r \o << v1, v2 >> \in Seq(S)
    BY <2>1, ConcatProperties
  <2> QED
    BY <1>3, <2>2 DEF append
<1> QED
  BY <1>1, <1>2, <1>3

\* Pointwise, and with its length: append returns r unchanged, r with a
\* larger last boundary, or r with two more boundaries.
LEMMA AppendCases ==
  ASSUME NEW r \in Seq(Int), NEW v1 \in Int, NEW v2 \in Int
  PROVE  LET s == append(r, v1, v2) IN
         \/ /\ v2 <= v1 \/ (r # << >> /\ v1 <= Last(r) /\ v2 <= Last(r))
            /\ s = r
         \/ /\ v1 < v2 /\ r # << >> /\ v1 <= Last(r) /\ Last(r) < v2
            /\ Len(s) = Len(r)
            /\ \A i \in 1 .. Len(r) - 1 : s[i] = r[i]
            /\ s[Len(s)] = v2
         \/ /\ v1 < v2 /\ (r # << >> => Last(r) < v1)
            /\ Len(s) = Len(r) + 2
            /\ \A i \in 1 .. Len(r) : s[i] = r[i]
            /\ s[Len(r) + 1] = v1
            /\ s[Len(r) + 2] = v2
<1>0. Len(r) \in Nat /\ (r # << >> => Len(r) \in 1 .. Len(r) /\ Last(r) \in Int)
  BY EmptySeq, LenProperties, ElementOfSeq DEF Last
<1>1. CASE v2 <= v1 \/ (r # << >> /\ v1 <= Last(r) /\ v2 <= Last(r))
  BY <1>0, <1>1 DEF append
<1>2. CASE v1 < v2 /\ r # << >> /\ v1 <= Last(r) /\ Last(r) < v2
  <2>1. append(r, v1, v2) = [r EXCEPT ![Len(r)] = v2]
    BY <1>0, <1>2 DEF append
  <2> QED
    BY <1>0, <1>2, <2>1, ExceptSeq
<1>3. CASE v1 < v2 /\ (r # << >> => Last(r) < v1)
  <2>1. append(r, v1, v2) = r \o << v1, v2 >>
    BY <1>0, <1>3 DEF append
  <2>2. << v1, v2 >> \in Seq(Int) /\ Len(<< v1, v2 >>) = 2
    OBVIOUS
  <2>3. /\ Len(r \o << v1, v2 >>) = Len(r) + 2
        /\ \A i \in 1 .. Len(r) + 2 :
             (r \o << v1, v2 >>)[i] = IF i <= Len(r) THEN r[i] ELSE << v1, v2 >>[i - Len(r)]
    BY <2>2, ConcatProperties
  <2> QED
    BY <1>0, <1>3, <2>1, <2>3
<1> QED
  BY <1>0, <1>1, <1>2, <1>3

\* An integer is in the set when some range contains it.
LEMMA ElementsIff ==
  ASSUME NEW r \in Seq(Int), Len(r) % 2 = 0
  PROVE  \A v : v \in Elements(r) <=>
           v \in Int /\ \E i \in 1 .. Len(r) : i % 2 = 1 /\ r[i] <= v /\ v < r[i+1]
<1> DEFINE Firsts == { j \in DOMAIN r : j % 2 = 1 }
<1>1. Len(r) \in Nat /\ DOMAIN r = 1 .. Len(r)
  BY LenProperties
<1>2. \A i \in Firsts : i + 1 \in 1 .. Len(r) /\ r[i] \in Int /\ r[i+1] \in Int
  <2> SUFFICES ASSUME NEW i \in Firsts
               PROVE  i + 1 \in 1 .. Len(r) /\ r[i] \in Int /\ r[i+1] \in Int
    OBVIOUS
  <2>1. i \in 1 .. Len(r) /\ i # Len(r)
    BY <1>1
  <2> QED
    BY <1>1, <2>1, ElementOfSeq
<1>3. \A v, i : i \in Firsts =>
         (v \in r[i] .. r[i+1] - 1 <=> v \in Int /\ r[i] <= v /\ v < r[i+1])
  BY <1>2
<1>4. \A v : v \in Elements(r) <=> \E i \in Firsts : v \in r[i] .. r[i+1] - 1
  BY DEF Elements
<1> QED
  BY <1>1, <1>3, <1>4

\* append keeps a vector canonical, and its last boundary is the larger of
\* the two that meet.
LEMMA AppendCanonical ==
  ASSUME NEW r \in Seq(Int), NEW v1 \in Int, NEW v2 \in Int,
         Canonical(r), appendAssert(r, v1, v2)
  PROVE  Canonical(append(r, v1, v2))
<1> DEFINE s == append(r, v1, v2)
<1>0. Len(r) \in Nat /\ \A i \in 1 .. Len(r) : r[i] \in Int
  BY LenProperties, ElementOfSeq
<1>1. CASE s = r
  BY <1>1
<1>2. CASE /\ v1 < v2 /\ r # << >> /\ v1 <= Last(r) /\ Last(r) < v2
           /\ Len(s) = Len(r)
           /\ \A i \in 1 .. Len(r) - 1 : s[i] = r[i]
           /\ s[Len(s)] = v2
  <2> SUFFICES ASSUME NEW i \in 1 .. Len(r) - 1
               PROVE  s[i] < s[i+1]
    BY <1>2 DEF Canonical
  <2>1. s[i] = r[i] /\ r[i] < r[i+1] /\ r[i] \in Int /\ r[i+1] \in Int
    BY <1>0, <1>2 DEF Canonical
  <2>2. CASE i + 1 = Len(r)
    BY <1>2, <2>1, <2>2 DEF Last
  <2>3. CASE i + 1 # Len(r)
    <3>1. i + 1 \in 1 .. Len(r) - 1
      BY <1>0, <2>3
    <3> QED
      BY <1>2, <2>1, <3>1
  <2> QED
    BY <2>2, <2>3
<1>3. CASE /\ v1 < v2 /\ (r # << >> => Last(r) < v1)
           /\ Len(s) = Len(r) + 2
           /\ \A i \in 1 .. Len(r) : s[i] = r[i]
           /\ s[Len(r) + 1] = v1
           /\ s[Len(r) + 2] = v2
  <2>1. Len(s) % 2 = 0
    BY <1>0, <1>3 DEF Canonical
  <2>2. ASSUME NEW i \in 1 .. Len(s) - 1
        PROVE  s[i] < s[i+1]
    <3>1. CASE i < Len(r)
      <4>1. i \in 1 .. Len(r) - 1 /\ i \in 1 .. Len(r) /\ i + 1 \in 1 .. Len(r)
        BY <1>0, <3>1
      <4>2. s[i] = r[i] /\ s[i+1] = r[i+1]
        BY <1>3, <4>1
      <4> QED
        BY <4>1, <4>2 DEF Canonical
    <3>2. CASE i = Len(r)
      <4>1. r # << >>
        BY <3>2, EmptySeq
      <4> QED
        BY <1>0, <1>3, <3>2, <4>1 DEF Last
    <3>3. CASE i = Len(r) + 1
      BY <1>3, <3>3
    <3> QED
      BY <1>0, <1>3, <3>1, <3>2, <3>3
  <2> QED
    BY <2>1, <2>2 DEF Canonical
<1> QED
  BY <1>1, <1>2, <1>3, AppendCases

\* It keeps a vector ordered, too.
LEMMA AppendOrdered ==
  ASSUME NEW r \in Seq(Int), NEW v1 \in Int, NEW v2 \in Int,
         Ordered(r)
  PROVE  Ordered(append(r, v1, v2))
<1> DEFINE s == append(r, v1, v2)
<1>0. Len(r) \in Nat /\ \A i \in 1 .. Len(r) : r[i] \in Int
  BY LenProperties, ElementOfSeq
<1>1. CASE s = r
  BY <1>1
<1>2. CASE /\ v1 < v2 /\ r # << >> /\ v1 <= Last(r) /\ Last(r) < v2
           /\ Len(s) = Len(r)
           /\ \A i \in 1 .. Len(r) - 1 : s[i] = r[i]
           /\ s[Len(s)] = v2
  <2> SUFFICES ASSUME NEW i \in 1 .. Len(r) - 1
               PROVE  s[i] <= s[i+1]
    BY <1>2 DEF Ordered
  <2>1. s[i] = r[i] /\ r[i] <= r[i+1] /\ r[i] \in Int /\ r[i+1] \in Int
    BY <1>0, <1>2 DEF Ordered
  <2>2. CASE i + 1 = Len(r)
    BY <1>2, <2>1, <2>2 DEF Last
  <2>3. CASE i + 1 # Len(r)
    <3>1. i + 1 \in 1 .. Len(r) - 1
      BY <1>0, <2>3
    <3> QED
      BY <1>2, <2>1, <3>1
  <2> QED
    BY <2>2, <2>3
<1>3. CASE /\ v1 < v2 /\ (r # << >> => Last(r) < v1)
           /\ Len(s) = Len(r) + 2
           /\ \A i \in 1 .. Len(r) : s[i] = r[i]
           /\ s[Len(r) + 1] = v1
           /\ s[Len(r) + 2] = v2
  <2>1. Len(s) % 2 = 0
    BY <1>0, <1>3 DEF Ordered
  <2>2. ASSUME NEW i \in 1 .. Len(s) - 1
        PROVE  s[i] <= s[i+1]
    <3>1. CASE i < Len(r)
      <4>1. i \in 1 .. Len(r) - 1 /\ i \in 1 .. Len(r) /\ i + 1 \in 1 .. Len(r)
        BY <1>0, <3>1
      <4>2. s[i] = r[i] /\ s[i+1] = r[i+1]
        BY <1>3, <4>1
      <4> QED
        BY <4>1, <4>2 DEF Ordered
    <3>2. CASE i = Len(r)
      <4>1. r # << >>
        BY <3>2, EmptySeq
      <4> QED
        BY <1>0, <1>3, <3>2, <4>1 DEF Last
    <3>3. CASE i = Len(r) + 1
      BY <1>3, <3>3
    <3> QED
      BY <1>0, <1>3, <3>1, <3>2, <3>3
  <2> QED
    BY <2>1, <2>2 DEF Ordered
<1> QED
  BY <1>1, <1>2, <1>3, AppendCases

\* A canonical vector is ordered.
LEMMA CanonicalOrdered ==
  ASSUME NEW r \in Seq(Int), Canonical(r)
  PROVE  Ordered(r) /\ Ascending(r)
<1>1. Len(r) \in Nat /\ \A i \in 1 .. Len(r) : r[i] \in Int
  BY LenProperties, ElementOfSeq
<1>2. ASSUME NEW i \in 1 .. Len(r) - 1
      PROVE  r[i] \in Int /\ r[i+1] \in Int /\ r[i] < r[i+1]
  <2>1. i \in 1 .. Len(r) /\ i + 1 \in 1 .. Len(r)
    BY <1>1
  <2> QED
    BY <1>1, <2>1 DEF Canonical
<1> QED
  BY <1>2 DEF Ordered, Canonical, Ascending

\* append adds exactly the integers of [v1;v2[ to the set.
LEMMA AppendElements ==
  ASSUME NEW r \in Seq(Int), NEW v1 \in Int, NEW v2 \in Int,
         Ordered(r), appendAssert(r, v1, v2)
  PROVE  Elements(append(r, v1, v2)) = Elements(r) \cup (v1 .. v2 - 1)
<1> DEFINE s == append(r, v1, v2)
<1>0. Len(r) \in Nat /\ Len(r) % 2 = 0 /\ \A i \in 1 .. Len(r) : r[i] \in Int
  BY LenProperties, ElementOfSeq DEF Ordered
<1>1. s \in Seq(Int) /\ Len(s) \in Nat /\ Len(s) % 2 = 0
  BY AppendType, AppendOrdered, LenProperties DEF Ordered
<1> SUFFICES ASSUME NEW v \in Int
             PROVE  v \in Elements(s) <=> v \in Elements(r) \/ (v1 <= v /\ v < v2)
  BY <1>0, <1>1, ElementsIff
<1> DEFINE In(t, i) == i % 2 = 1 /\ t[i] <= v /\ v < t[i+1]
<1>2. v \in Elements(s) <=> \E i \in 1 .. Len(s) : In(s, i)
  BY <1>1, ElementsIff
<1>3. v \in Elements(r) <=> \E i \in 1 .. Len(r) : In(r, i)
  BY <1>0, ElementsIff
<1>7. r # << >> => Len(r) - 1 \in 1 .. Len(r) /\ (Len(r) - 1) % 2 = 1
  <2>1. r # << >> => Len(r) # 0
    BY EmptySeq
  <2> QED
    BY <1>0, <2>1
<1> HIDE DEF s
<1>4. CASE /\ v2 <= v1 \/ (r # << >> /\ v1 <= Last(r) /\ v2 <= Last(r))
           /\ s = r
  <2>1. CASE v2 <= v1
    BY <1>4, <2>1
  <2>2. CASE v1 < v2 /\ r # << >> /\ v1 <= Last(r) /\ v2 <= Last(r)
    <3>1. r[Len(r) - 1] <= v1
      BY <2>2 DEF appendAssert
    <3>2. Len(r) - 1 \in 1 .. Len(r) /\ (Len(r) - 1) % 2 = 1
      BY <1>7, <2>2
    <3>3. v1 <= v /\ v < v2 => In(r, Len(r) - 1)
      BY <1>0, <2>2, <3>1, <3>2 DEF Last
    <3> QED
      BY <1>3, <1>4, <3>2, <3>3
  <2> QED
    BY <1>0, <1>4, <2>1, <2>2
<1>5. CASE /\ v1 < v2 /\ r # << >> /\ v1 <= Last(r) /\ Last(r) < v2
           /\ Len(s) = Len(r)
           /\ \A i \in 1 .. Len(r) - 1 : s[i] = r[i]
           /\ s[Len(s)] = v2
  <2>1. r[Len(r) - 1] <= v1
    BY <1>5 DEF appendAssert
  <2>2. Len(r) - 1 \in 1 .. Len(r) /\ (Len(r) - 1) % 2 = 1
    BY <1>5, <1>7
  <2>3. ASSUME NEW i \in 1 .. Len(r), i # Len(r) - 1
        PROVE  In(s, i) <=> In(r, i)
    <3>1. CASE i = Len(r)
      BY <1>0, <3>1
    <3>2. CASE i # Len(r)
      <4>1. i \in 1 .. Len(r) - 1 /\ i + 1 \in 1 .. Len(r) - 1
        BY <1>0, <2>3, <3>2
      <4> QED
        BY <1>5, <4>1
    <3> QED
      BY <3>1, <3>2
  <2>4. In(s, Len(r) - 1) <=> In(r, Len(r) - 1) \/ (v1 <= v /\ v < v2)
    BY <1>0, <1>5, <2>1, <2>2 DEF Last
  <2> QED
    BY <1>2, <1>3, <1>5, <2>2, <2>3, <2>4
<1>6. CASE /\ v1 < v2 /\ (r # << >> => Last(r) < v1)
           /\ Len(s) = Len(r) + 2
           /\ \A i \in 1 .. Len(r) : s[i] = r[i]
           /\ s[Len(r) + 1] = v1
           /\ s[Len(r) + 2] = v2
  <2>1. ASSUME NEW i \in 1 .. Len(r)
        PROVE  In(s, i) <=> In(r, i)
    <3>1. CASE i = Len(r)
      BY <1>0, <3>1
    <3>2. CASE i # Len(r)
      <4>1. i + 1 \in 1 .. Len(r)
        BY <1>0, <3>2
      <4> QED
        BY <1>6, <4>1
    <3> QED
      BY <3>1, <3>2
  <2>2. In(s, Len(r) + 1) <=> v1 <= v /\ v < v2
    BY <1>0, <1>6
  <2>3. ~In(s, Len(r) + 2)
    BY <1>0
  <2>4. \A i : i \in 1 .. Len(s) <=> i \in 1 .. Len(r) \/ i = Len(r) + 1 \/ i = Len(r) + 2
    BY <1>0, <1>6
  <2> QED
    BY <1>2, <1>3, <2>1, <2>2, <2>3, <2>4
<1> QED
  BY <1>4, <1>5, <1>6, AppendCases DEF s

----------------------------------------------------------------------------
(* contains, findInterval and containsAll.                                 *)

\* An integer is in the set when the position of the last boundary that is no
\* larger is even: every question about elements is one about positions.
LEMMA MemberPosition ==
  ASSUME NEW r \in Seq(Int), Ordered(r), NEW v \in Int
  PROVE  /\ iiv(r, v) \in -1 .. Len(r) - 1
         /\ \A i \in 1 .. Len(r) : r[i] <= v <=> i - 1 <= iiv(r, v)
         /\ v \in Elements(r) <=> iiv(r, v) % 2 = 0
         /\ v \in Elements(r) =>
              LET k == iiv(r, v) IN k + 1 \in 1 .. Len(r) /\ k + 2 \in 1 .. Len(r)
                                    /\ r[k+1] <= v /\ v < r[k+2]
<1> DEFINE k == iiv(r, v)
<1>0. Len(r) \in Nat /\ Len(r) % 2 = 0 /\ \A i \in 1 .. Len(r) : r[i] \in Int
  BY LenProperties, ElementOfSeq DEF Ordered
<1>1. k \in -1 .. Len(r) - 1 /\ \A i \in 1 .. Len(r) : r[i] <= v <=> i - 1 <= k
  BY PositionFound DEF Ordered, Ascending
<1>2. v \in Elements(r) <=> \E i \in 1 .. Len(r) : i % 2 = 1 /\ r[i] <= v /\ v < r[i+1]
  BY <1>0, ElementsIff
<1> HIDE DEF k
<1>3. ASSUME NEW i \in 1 .. Len(r), i % 2 = 1, r[i] <= v, v < r[i+1]
      PROVE  k % 2 = 0 
  <2>1. i + 1 \in 1 .. Len(r)
    BY <1>0, <1>3
  <2>2. i - 1 <= k /\ ~ (i <= k)
    BY <1>0, <1>1, <1>3, <2>1
  <2>3. k = i - 1
    BY <1>0, <1>1, <2>2
  <2> QED
    BY <1>3, <2>3
<1>4. ASSUME k % 2 = 0
      PROVE  k + 1 \in 1 .. Len(r) /\ k + 2 \in 1 .. Len(r) /\ (k + 1) % 2 = 1
             /\ r[k+1] <= v /\ v < r[k+2]
  <2>1. k + 1 \in 1 .. Len(r) /\ k + 2 \in 1 .. Len(r) /\ (k + 1) % 2 = 1
    BY <1>0, <1>1, <1>4
  <2>2. r[k+1] <= v /\ ~ (r[k+2] <= v) /\ r[k+2] \in Int
    BY <1>0, <1>1, <2>1
  <2> QED
    BY <2>1, <2>2
<1>5. v \in Elements(r) <=> k % 2 = 0
  <2>1. (k + 1) + 1 = k + 2
    BY <1>0, <1>1
  <2>2. ASSUME k % 2 = 0
        PROVE  \E i \in 1 .. Len(r) : i % 2 = 1 /\ r[i] <= v /\ v < r[i+1]
    BY <1>4, <2>1, <2>2
  <2> QED
    BY <1>2, <1>3, <2>2
<1> QED
  BY <1>1, <1>4, <1>5 DEF k

----------------------------------------------------------------------------
(* add and remove.                                                         *)

\* The positions before which, and from which on, addRemove keeps boundaries.
From(r, a) == LET below == iiv(r, a) IN IF below >= 0 /\ r[below+1] = a THEN below ELSE below + 1
To(r, b) == iiv(r, b) + 1

\* 1 where the parity of a position is v.
Flag(pos, v) == IF pos % 2 = v THEN 1 ELSE 0

\* s is r with what lies between the boundaries m and n replaced by a, if i is 1,
\* and b, if j is 1.
Spliced(s, r, m, i, a, j, b, n) ==
  /\ s \in Seq(Int)
  /\ Len(s) = m + i + j + (Len(r) - n)
  /\ \A k \in 1 .. Len(s) :
       s[k] = IF k <= m THEN r[k] ELSE IF k <= m + i THEN a ELSE IF k <= m + i + j THEN b
              ELSE r[k - (m + i + j) + n]

\* The two positions split the boundaries by a and by b.
LEMMA FromTo ==
  ASSUME NEW r \in Seq(Int), Ordered(r), NEW a \in Int, NEW b \in Int, a <= b
  PROVE  /\ From(r, a) \in 0 .. Len(r) /\ To(r, b) \in 0 .. Len(r) /\ From(r, a) <= To(r, b)
         /\ From(r, a) = iiv(r, a) \/ From(r, a) = iiv(r, a) + 1
         /\ \A i \in 1 .. Len(r) : /\ i <= From(r, a) => r[i] <= a
                                   /\ i > From(r, a) => r[i] >= a
                                   /\ r[i] <= b <=> i <= To(r, b)
         /\ Canonical(r) => \A i \in 1 .. Len(r) : i <= From(r, a) => r[i] < a
<1> DEFINE k == iiv(r, a)
           l == iiv(r, b)
<1>0. Len(r) \in Nat /\ \A i \in 1 .. Len(r) : r[i] \in Int
  BY LenProperties, ElementOfSeq
<1>1. /\ k \in -1 .. Len(r) - 1 /\ \A i \in 1 .. Len(r) : r[i] <= a <=> i - 1 <= k
      /\ l \in -1 .. Len(r) - 1 /\ \A i \in 1 .. Len(r) : r[i] <= b <=> i - 1 <= l
  BY PositionFound DEF Ordered, Ascending
<1>2. \A i, j \in 1 .. Len(r) : i <= j => r[i] <= r[j]
  BY AscendingPairs DEF Ordered, Ascending
<1>3. /\ From(r, a) = IF k >= 0 /\ r[k+1] = a THEN k ELSE k + 1
      /\ To(r, b) = l + 1
  BY DEF From, To
<1> HIDE DEF k, l
<1>4. k <= l
  <2>1. CASE k = -1
    BY <1>1, <2>1
  <2>2. CASE k # -1
    <3>1. k + 1 \in 1 .. Len(r)
      BY <1>0, <1>1, <2>2
    <3>2. r[k+1] <= a /\ r[k+1] \in Int
      BY <1>0, <1>1, <3>1
    <3>3. r[k+1] <= b
      BY <3>2
    <3> QED
      BY <1>0, <1>1, <3>1, <3>3
  <2> QED
    BY <2>1, <2>2
<1>5. \A i \in 1 .. Len(r) : i <= From(r, a) => r[i] <= a
  BY <1>0, <1>1, <1>3
<1>6. ASSUME NEW i \in 1 .. Len(r), i > From(r, a)
      PROVE  r[i] >= a
  <2>1. CASE i - 1 > k
    BY <1>0, <1>1, <2>1
  <2>2. CASE i - 1 <= k
    <3>1. i = k + 1 /\ r[k+1] = a
      BY <1>0, <1>1, <1>3, <1>6, <2>2
    <3> QED
      BY <3>1
  <2> QED
    BY <1>0, <1>1, <2>1, <2>2
<1>7. ASSUME Canonical(r), NEW i \in 1 .. Len(r), i <= From(r, a)
      PROVE  r[i] < a
  <2>1. k \in 0 .. Len(r) - 1 /\ k + 1 \in 1 .. Len(r)
    BY <1>0, <1>1, <1>3, <1>7
  <2>2. CASE r[k+1] = a
    <3>1. i <= k /\ k \in 1 .. Len(r) /\ k \in 1 .. Len(r) - 1
      BY <1>0, <1>3, <1>7, <2>1, <2>2
    <3>2. r[i] <= r[k] /\ r[k] < r[k+1]
      BY <1>2, <1>7, <3>1 DEF Canonical
    <3> QED
      BY <1>0, <2>2, <3>1, <3>2
  <2>3. CASE r[k+1] # a
    <3>1. i <= k + 1 /\ r[i] <= r[k+1] /\ r[k+1] <= a
      BY <1>1, <1>2, <1>3, <1>7, <2>1, <2>3
    <3> QED
      BY <1>0, <2>1, <2>3, <3>1
  <2> QED
    BY <2>2, <2>3
<1>8. \A i \in 1 .. Len(r) : r[i] <= b <=> i <= To(r, b)
  BY <1>0, <1>1, <1>3
<1>9. From(r, a) \in 0 .. Len(r) /\ To(r, b) \in 0 .. Len(r) /\ From(r, a) <= To(r, b)
      /\ (From(r, a) = k \/ From(r, a) = k + 1)
  BY <1>0, <1>1, <1>3, <1>4
<1> QED
  BY <1>5, <1>6, <1>7, <1>8, <1>9 DEF k

\* The plan of addRemove in terms of the two positions.
LEMMA PlanFields ==
  ASSUME NEW r \in Seq(Int), Ordered(r), NEW a \in Int, NEW b \in Int, a <= b, NEW v \in {0, 1}
  PROVE  LET p == addRemovePlan(r, a, b, v)
             m == From(r, a)
             n == To(r, b)
         IN  /\ p.pos1 = m - 1 /\ p.pos2 = n - 1
             /\ p.insA <=> Flag(m - 1, v) = 1
             /\ p.insB <=> Flag(n - 1, v) = 1
             /\ p.rmstart = m + Flag(m - 1, v) /\ p.rmend = n - 1 - Flag(n - 1, v)
<1> DEFINE k == iiv(r, a)
           l == iiv(r, b)
           pos1 == IF k >= 0 /\ r[k+1] = a THEN k - 1 ELSE k
<1>1. k \in Int /\ l \in Int
  <2>1. Len(r) \in Nat
    BY LenProperties
  <2>2. k \in -1 .. Len(r) - 1 /\ l \in -1 .. Len(r) - 1
    BY MemberPosition
  <2> QED
    BY <2>1, <2>2
<1>2. addRemovePlan(r, a, b, v) =
        [ pos1 |-> pos1, pos2 |-> l, insA |-> pos1 % 2 = v, insB |-> l % 2 = v,
          rmstart |-> pos1 + 1 + (IF pos1 % 2 = v THEN 1 ELSE 0),
          rmend   |-> l - (IF l % 2 = v THEN 1 ELSE 0) ]
  BY Zenon DEF addRemovePlan
<1>3. pos1 = From(r, a) - 1 /\ l = To(r, b) - 1 /\ From(r, a) \in Int /\ To(r, b) \in Int
  BY <1>1 DEF From, To
<1> HIDE DEF pos1, l, k
<1>4. pos1 + 1 = From(r, a) /\ pos1 \in Int /\ l \in Int
  BY <1>3
<1> DEFINE p == addRemovePlan(r, a, b, v)
<1>5. /\ p.pos1 = pos1 /\ p.pos2 = l
      /\ p.insA = (pos1 % 2 = v)
      /\ p.insB = (l % 2 = v)
      /\ p.rmstart = pos1 + 1 + (IF pos1 % 2 = v THEN 1 ELSE 0)
      /\ p.rmend = l - (IF l % 2 = v THEN 1 ELSE 0)
  <2>1. p.pos1 = pos1
    BY <1>2
  <2>2. p.pos2 = l
    BY <1>2
  <2>3. p.insA = (pos1 % 2 = v)
    BY <1>2
  <2>4. p.insB = (l % 2 = v)
    BY <1>2
  <2>5. p.rmstart = pos1 + 1 + (IF pos1 % 2 = v THEN 1 ELSE 0)
    BY <1>2
  <2>6. p.rmend = l - (IF l % 2 = v THEN 1 ELSE 0)
    BY <1>2
  <2> QED
    BY <2>1, <2>2, <2>3, <2>4, <2>5, <2>6
<1> HIDE DEF p
<1>6. /\ Flag(pos1, v) = IF pos1 % 2 = v THEN 1 ELSE 0
      /\ Flag(l, v) = IF l % 2 = v THEN 1 ELSE 0
  BY DEF Flag
<1>7. p.rmstart = From(r, a) + Flag(From(r, a) - 1, v) /\ p.rmend = To(r, b) - 1 - Flag(To(r, b) - 1, v)
  BY <1>3, <1>4, <1>5, <1>6
<1>8. (pos1 % 2 = v <=> Flag(pos1, v) = 1) /\ (l % 2 = v <=> Flag(l, v) = 1)
  BY <1>6
<1>9. p.insA <=> Flag(From(r, a) - 1, v) = 1
  BY <1>3, <1>5, <1>8, Zenon
<1>10. p.insB <=> Flag(To(r, b) - 1, v) = 1
  BY <1>3, <1>5, <1>8, Zenon
<1> QED
  BY <1>3, <1>5, <1>7, <1>9, <1>10 DEF p

\* A section of a vector.
LEMMA Section ==
  ASSUME NEW r \in Seq(Int), NEW m \in Nat \ {0}, NEW n \in 0 .. Len(r), m <= n + 1
  PROVE  /\ SubSeq(r, m, n) \in Seq(Int) /\ Len(SubSeq(r, m, n)) = n - m + 1
         /\ \A i \in 1 .. n - m + 1 : SubSeq(r, m, n)[i] = r[m + i - 1]
<1>1. Len(r) \in Nat
  BY LenProperties
<1>2. \A i \in m .. n : r[i] \in Int
  BY <1>1, ElementOfSeq
<1> QED
  BY <1>1, <1>2, SubSeqProperties

\* What is left of a vector when the middle is cut out.
LEMMA CutOut ==
  ASSUME NEW r \in Seq(Int), NEW m \in 0 .. Len(r), NEW n \in 0 .. Len(r)
  PROVE  LET s == SubSeq(r, 1, m) \o SubSeq(r, n + 1, Len(r))
         IN  /\ s \in Seq(Int) /\ Len(s) = m + (Len(r) - n)
             /\ \A i \in 1 .. Len(s) : s[i] = IF i <= m THEN r[i] ELSE r[i - m + n]
<1> DEFINE x == SubSeq(r, 1, m)
           y == SubSeq(r, n + 1, Len(r))
<1>0. Len(r) \in Nat
  BY LenProperties
<1>1. x \in Seq(Int) /\ Len(x) = m /\ \A i \in 1 .. m : x[i] = r[i]
  <2>1. /\ x \in Seq(Int) /\ Len(x) = m - 1 + 1
        /\ \A i \in 1 .. m - 1 + 1 : x[i] = r[1 + i - 1]
    BY <1>0, Section
  <2>2. m - 1 + 1 = m /\ \A i \in 1 .. m : 1 + i - 1 = i
    BY <1>0
  <2> HIDE DEF x
  <2> QED
    BY <2>1, <2>2
<1>2. y \in Seq(Int) /\ Len(y) = Len(r) - n /\ \A i \in 1 .. Len(r) - n : y[i] = r[n + i]
  <2>1. /\ y \in Seq(Int) /\ Len(y) = Len(r) - (n + 1) + 1
        /\ \A i \in 1 .. Len(r) - (n + 1) + 1 : y[i] = r[n + 1 + i - 1]
    <3>1. n + 1 \in Nat \ {0} /\ Len(r) \in 0 .. Len(r) /\ n + 1 <= Len(r) + 1
      BY <1>0
    <3> QED
      BY <3>1, Section
  <2>2. Len(r) - (n + 1) + 1 = Len(r) - n /\ \A i \in 1 .. Len(r) - n : n + 1 + i - 1 = n + i
    BY <1>0
  <2> HIDE DEF y
  <2> QED
    BY <2>1, <2>2
<1> HIDE DEF x, y
<1>3. /\ x \o y \in Seq(Int) /\ Len(x \o y) = m + (Len(r) - n)
      /\ \A i \in 1 .. m + (Len(r) - n) : (x \o y)[i] = IF i <= m THEN x[i] ELSE y[i - m]
  <2>1. /\ x \o y \in Seq(Int) /\ Len(x \o y) = Len(x) + Len(y)
        /\ \A i \in 1 .. Len(x) + Len(y) : (x \o y)[i] = IF i <= Len(x) THEN x[i] ELSE y[i - Len(x)]
    BY <1>1, <1>2, ConcatProperties
  <2> QED
    BY <1>1, <1>2, <2>1
<1>4. ASSUME NEW i \in 1 .. m + (Len(r) - n)
      PROVE  (x \o y)[i] = IF i <= m THEN r[i] ELSE r[i - m + n]
  <2>1. CASE i <= m
    BY <1>0, <1>1, <1>3, <2>1
  <2>2. CASE ~ (i <= m)
    <3>1. i - m \in 1 .. Len(r) - n /\ n + (i - m) = i - m + n
      BY <1>0, <2>2
    <3> QED
      BY <1>2, <1>3, <2>2, <3>1
  <2> QED
    BY <2>1, <2>2
<1> QED
  BY <1>3, <1>4 DEF x, y

LEMMA FlagParity ==
  ASSUME NEW x \in Int, NEW y \in Int, NEW v \in {0, 1}, x <= y
  PROVE  /\ Flag(x, v) \in {0, 1} /\ Flag(y, v) \in {0, 1}
         /\ (x + Flag(x, v)) % 2 = 1 - v /\ (y + Flag(y, v)) % 2 = 1 - v
         /\ (y - Flag(y, v) - x - Flag(x, v)) % 2 = 0
         /\ \/ Flag(x, v) = 1 /\ Flag(y, v) = 1 /\ x = y
            \/ x + Flag(x, v) + Flag(y, v) <= y
BY DEF Flag

\* What addRemove returns, and that it stays inside the vector.
LEMMA AddRemoveShape ==
  ASSUME NEW r \in Seq(Int), Ordered(r), NEW a \in Int, NEW b \in Int, a <= b, NEW v \in {0, 1}
  PROVE  /\ addRemoveInBounds(r, a, b, v)
         /\ LET m == From(r, a)
                n == To(r, b)
            IN  Spliced(addRemove(r, a, b, v), r, m, Flag(m - 1, v), a, Flag(n - 1, v), b, n)
<1> DEFINE p == addRemovePlan(r, a, b, v)
<1>1. PICK m, n, i, j : /\ m = From(r, a) /\ n = To(r, b)
                        /\ i = Flag(m - 1, v) /\ j = Flag(n - 1, v)
  BY Zenon
<1>2. /\ Len(r) \in Nat /\ Len(r) % 2 = 0 /\ \A k \in 1 .. Len(r) : r[k] \in Int
      /\ m \in 0 .. Len(r) /\ n \in 0 .. Len(r) /\ m <= n
  BY <1>1, LenProperties, ElementOfSeq, FromTo DEF Ordered
<1>3. /\ i \in {0, 1} /\ j \in {0, 1}
      /\ (n - 1 - j - (m - 1) - i) % 2 = 0
      /\ (i = 1 /\ j = 1 /\ m = n) \/ m + i + j <= n
  <2>1. m - 1 \in Int /\ n - 1 \in Int /\ m - 1 <= n - 1
    BY <1>2
  <2>2. /\ i \in {0, 1} /\ j \in {0, 1}
        /\ (n - 1 - j - (m - 1) - i) % 2 = 0
        /\ (i = 1 /\ j = 1 /\ m - 1 = n - 1) \/ m - 1 + i + j <= n - 1
    BY <1>1, <2>1, FlagParity
  <2> QED
    BY <1>2, <2>2
<1>4. /\ p.pos1 = m - 1 /\ p.pos2 = n - 1
      /\ p.insA <=> i = 1
      /\ p.insB <=> j = 1
      /\ p.rmstart = m + i /\ p.rmend = n - 1 - j
  BY <1>1, PlanFields
<1>5. m + i + j <= n => (m < Len(r) \/ i = 0) /\ (n > 0 \/ j = 0)
  <2>1. i \in Int /\ j \in Int /\ i >= 0 /\ j >= 0
    BY <1>3
  <2>2. CASE i = 0
    BY <1>2, <1>3, <2>1, <2>2
  <2>3. CASE i = 1
    BY <1>2, <1>3, <2>1, <2>3
  <2> QED
    BY <1>3, <2>2, <2>3
<1>6. addRemoveInBounds(r, a, b, v)
  <2>1. (p.rmend - p.rmstart) % 2 = 1
    <3>1. PICK x, y : x = n - 1 - j /\ y = m + i
      BY Zenon
    <3>2. i \in Int /\ j \in Int /\ m \in Int /\ n \in Int
      BY <1>2, <1>3
    <3>3. x \in Int /\ y \in Int /\ n - 1 - j - (m - 1) - i = x - y + 1
      BY <3>1, <3>2
    <3>4. (x - y) % 2 = 1
      BY <1>3, <3>3
    <3> QED
      BY <1>4, <3>1, <3>4
  <2>2. CASE i = 1 /\ j = 1 /\ m = n
    <3>1. p.insA /\ p.insB
      BY <1>4, <2>2
    <3>2. p.pos1 + 1 > p.pos2
      BY <1>2, <1>4, <2>2
    <3> QED
      BY <2>1, <3>1, <3>2 DEF addRemoveInBounds
  <2>3. CASE m + i + j <= n /\ (m < Len(r) \/ i = 0) /\ (n > 0 \/ j = 0)
    <3>1. p.rmstart <= p.rmend + 1 /\ p.rmend < Len(r)
      <4>1. i \in Int /\ j \in Int /\ j >= 0 /\ m \in Int /\ n \in Int /\ n <= Len(r)
        BY <1>2, <1>3
      <4>2. m + i <= n - 1 - j + 1 /\ n - 1 - j < Len(r)
        BY <1>2, <2>3, <4>1
      <4> QED
        BY <1>4, <4>2
    <3>2. (i = 1 => p.pos1 + 1 < Len(r)) /\ (j = 1 => p.pos2 >= 0)
      BY <1>2, <1>3, <1>4, <2>3
    <3>3. (p.insA => p.pos1 + 1 < Len(r)) /\ (p.insB => p.pos2 >= 0)
      BY <1>4, <3>2, Zenon
    <3> QED
      BY <2>1, <3>1, <3>3 DEF addRemoveInBounds
  <2> QED
    BY <1>2, <1>3, <1>5, <2>2, <2>3
<1> DEFINE s == addRemove(r, a, b, v)
<1>7. CASE i = 1 /\ j = 1 /\ m = n
  <2>1. p.insA /\ p.insB /\ p.pos1 + 1 > p.pos2 /\ p.pos1 + 1 = m /\ p.pos1 + 2 = m + 1
    BY <1>2, <1>4, <1>7
  <2> DEFINE x == SubSeq(r, 1, m)
             y == SubSeq(r, m + 1, Len(r))
  <2>2. s = x \o << a, b >> \o y
    BY <2>1 DEF addRemove
  <2>3. x \in Seq(Int) /\ Len(x) = m /\ \A k \in 1 .. m : x[k] = r[k]
    <3>1. /\ x \in Seq(Int) /\ Len(x) = m - 1 + 1
          /\ \A k \in 1 .. m - 1 + 1 : x[k] = r[1 + k - 1]
      BY <1>2, Section
    <3>2. m - 1 + 1 = m /\ \A k \in 1 .. m : 1 + k - 1 = k
      BY <1>2
    <3> HIDE DEF x
    <3> QED
      BY <3>1, <3>2
  <2>4. y \in Seq(Int) /\ Len(y) = Len(r) - m /\ \A k \in 1 .. Len(r) - m : y[k] = r[m + k]
    <3>1. /\ y \in Seq(Int) /\ Len(y) = Len(r) - (m + 1) + 1
          /\ \A k \in 1 .. Len(r) - (m + 1) + 1 : y[k] = r[m + 1 + k - 1]
      <4>1. m + 1 \in Nat \ {0} /\ Len(r) \in 0 .. Len(r) /\ m + 1 <= Len(r) + 1
        BY <1>2
      <4> QED
        BY <4>1, Section
    <3>2. Len(r) - (m + 1) + 1 = Len(r) - m /\ \A k \in 1 .. Len(r) - m : m + 1 + k - 1 = m + k
      BY <1>2
    <3> HIDE DEF y
    <3> QED
      BY <3>1, <3>2
  <2> HIDE DEF x, y
  <2>5. PICK z : z = x \o << a, b >>
    BY Zenon
  <2>6. /\ z \in Seq(Int) /\ Len(z) = m + 2
        /\ \A k \in 1 .. m + 2 : z[k] = IF k <= m THEN r[k] ELSE IF k <= m + 1 THEN a ELSE b
    <3>1. << a, b >> \in Seq(Int) /\ Len(<< a, b >>) = 2 /\ << a, b >>[1] = a /\ << a, b >>[2] = b
      OBVIOUS
    <3>2. /\ z \in Seq(Int) /\ Len(z) = Len(x) + 2
          /\ \A k \in 1 .. Len(x) + 2 : z[k] = IF k <= Len(x) THEN x[k] ELSE << a, b >>[k - Len(x)]
      BY <2>3, <2>5, <3>1, ConcatProperties
    <3>3. ASSUME NEW k \in 1 .. m + 2
          PROVE  z[k] = IF k <= m THEN r[k] ELSE IF k <= m + 1 THEN a ELSE b
      <4>1. CASE k <= m
        BY <1>2, <2>3, <3>2, <4>1
      <4>2. CASE k = m + 1
        <5>1. k - m = 1 /\ ~ (k <= m)
          BY <1>2, <4>2
        <5> QED
          BY <2>3, <3>1, <3>2, <4>2, <5>1, SMTT(30)
      <4>3. CASE k = m + 2
        <5>1. k - m = 2 /\ ~ (k <= m) /\ ~ (k <= m + 1)
          BY <1>2, <4>3
        <5> QED
          BY <2>3, <3>1, <3>2, <4>3, <5>1
      <4> QED
        BY <1>2, <4>1, <4>2, <4>3
    <3> QED
      BY <2>3, <3>2, <3>3
  <2>7. /\ s \in Seq(Int) /\ Len(s) = m + 2 + (Len(r) - m)
        /\ \A k \in 1 .. m + 2 + (Len(r) - m) : s[k] = IF k <= m + 2 THEN z[k] ELSE y[k - (m + 2)]
    <3>1. s = z \o y
      BY <2>2, <2>5
    <3>2. /\ z \o y \in Seq(Int) /\ Len(z \o y) = Len(z) + Len(y)
          /\ \A k \in 1 .. Len(z) + Len(y) : (z \o y)[k] = IF k <= Len(z) THEN z[k] ELSE y[k - Len(z)]
      BY <2>4, <2>6, ConcatProperties
    <3> HIDE DEF s
    <3> QED
      BY <2>4, <2>6, <3>1, <3>2
  <2> HIDE DEF s
  <2>8. ASSUME NEW k \in 1 .. Len(s)
        PROVE  s[k] = IF k <= m THEN r[k] ELSE IF k <= m + 1 THEN a ELSE IF k <= m + 2 THEN b
                      ELSE r[k - (m + 2) + m]
    <3>1. CASE k <= m + 2
      <4>1. k \in 1 .. m + 2 /\ k \in 1 .. m + 2 + (Len(r) - m)
        BY <1>2, <2>7, <3>1
      <4>2. s[k] = z[k]
        BY <2>7, <3>1, <4>1
      <4> QED
        BY <2>6, <3>1, <4>1, <4>2
    <3>2. CASE ~ (k <= m + 2)
      <4>1. k - (m + 2) \in 1 .. Len(r) - m /\ m + (k - (m + 2)) = k - (m + 2) + m
            /\ ~ (k <= m) /\ ~ (k <= m + 1)
        BY <1>2, <2>7, <3>2
      <4> QED
        BY <2>4, <2>7, <3>2, <4>1
    <3> QED
      BY <3>1, <3>2
  <2>9. m + 1 + 1 = m + 2
    BY <1>2
  <2>10. Spliced(s, r, m, i, a, j, b, n)
    BY <1>7, <2>7, <2>8, <2>9 DEF Spliced
  <2> QED
    BY <1>1, <1>6, <2>10 DEF s
<1>8. CASE m + i + j <= n /\ ~ (i = 1 /\ j = 1 /\ m = n)
  <2>1. ~ (p.insA /\ p.insB /\ p.pos1 + 1 > p.pos2)
    <3>1. ~ (i = 1 /\ j = 1 /\ p.pos1 + 1 > p.pos2)
      BY <1>2, <1>3, <1>4, <1>8
    <3> QED
      BY <1>4, <3>1, Zenon
  <2>2. PICK marked : marked = [ k \in 1 .. Len(r) |->
                                   IF p.insB /\ k = p.pos2 + 1 THEN b
                                   ELSE IF p.insA /\ k = p.pos1 + 2 THEN a
                                   ELSE r[k] ]
    BY Zenon
  <2>3. s = SubSeq(marked, 1, p.rmstart) \o SubSeq(marked, p.rmend + 2, Len(r))
    BY <2>1, <2>2 DEF addRemove
  <2>4. ASSUME NEW k \in 1 .. Len(r)
        PROVE  marked[k] = IF j = 1 /\ k = n THEN b ELSE IF i = 1 /\ k = m + 1 THEN a ELSE r[k]
    <3>1. p.pos2 + 1 = n /\ p.pos1 + 2 = m + 1
      BY <1>2, <1>4
    <3>2. marked[k] = IF p.insB /\ k = p.pos2 + 1 THEN b
                      ELSE IF p.insA /\ k = p.pos1 + 2 THEN a ELSE r[k]
      BY <2>2
    <3> QED
      BY <1>4, <3>1, <3>2, Zenon
  <2>5. marked \in Seq(Int) /\ Len(marked) = Len(r)
    <3>1. \A k \in 1 .. Len(r) : marked[k] \in Int
      BY <1>2, <2>4
    <3>2. marked = [ k \in 1 .. Len(r) |-> marked[k] ]
      BY <2>2
    <3> QED
      BY <1>2, <3>1, <3>2
  <2>6. p.rmstart = m + i /\ p.rmend + 2 = n - j + 1
        /\ m + i \in 0 .. Len(r) /\ n - j \in 0 .. Len(r)
    BY <1>2, <1>3, <1>4, <1>8, SMTT(30)
  <2>7. /\ s \in Seq(Int) /\ Len(s) = m + i + (Len(r) - (n - j))
        /\ \A k \in 1 .. Len(s) :
             s[k] = IF k <= m + i THEN marked[k] ELSE marked[k - (m + i) + (n - j)]
    <3>1. s = SubSeq(marked, 1, m + i) \o SubSeq(marked, n - j + 1, Len(marked))
      BY <2>3, <2>5, <2>6
    <3>2. PICK x, y : x = m + i /\ y = n - j
      BY Zenon
    <3>3. x \in 0 .. Len(marked) /\ y \in 0 .. Len(marked)
      BY <2>5, <2>6, <3>2
    <3>4. LET w == SubSeq(marked, 1, x) \o SubSeq(marked, y + 1, Len(marked))
          IN  /\ w \in Seq(Int) /\ Len(w) = x + (Len(marked) - y)
              /\ \A k \in 1 .. Len(w) : w[k] = IF k <= x THEN marked[k] ELSE marked[k - x + y]
      BY <2>5, <3>3, CutOut
    <3>5. s = SubSeq(marked, 1, x) \o SubSeq(marked, y + 1, Len(marked))
      BY <3>1, <3>2
    <3> HIDE DEF s
    <3>6. /\ s \in Seq(Int) /\ Len(s) = x + (Len(marked) - y)
          /\ \A k \in 1 .. Len(s) : s[k] = IF k <= x THEN marked[k] ELSE marked[k - x + y]
      BY <3>4, <3>5, Zenon
    <3> QED
      BY <2>5, <3>2, <3>6
  <2> HIDE DEF s
  <2>8. ASSUME NEW k \in 1 .. Len(s)
        PROVE  s[k] = IF k <= m THEN r[k] ELSE IF k <= m + i THEN a ELSE IF k <= m + i + j THEN b
                      ELSE r[k - (m + i + j) + n]
    <3>1. CASE k <= m
      <4>1. k \in 1 .. Len(r) /\ k <= m + i /\ ~ (j = 1 /\ k = n) /\ k # m + 1
        BY <1>2, <1>3, <1>8, <3>1
      <4> QED
        BY <2>4, <2>7, <3>1, <4>1
    <3>2. CASE ~ (k <= m) /\ k <= m + i
      <4>1. k \in 1 .. Len(r) /\ k = m + 1 /\ i = 1 /\ ~ (j = 1 /\ k = n)
        BY <1>2, <1>3, <1>8, <2>6, <3>2, SMTT(30)
      <4> QED
        BY <2>4, <2>7, <3>2, <4>1
    <3>3. CASE ~ (k <= m + i) /\ k <= m + i + j
      <4>1. k \in Int /\ m \in Nat /\ n \in 0 .. Len(r) /\ Len(r) \in Nat /\ i \in 0 .. 1 /\ j \in 0 .. 1
            /\ m + i + j <= n
        BY <1>2, <1>3, <1>8, <2>7
      <4>2. j = 1 /\ k = m + i + 1
        BY <3>3, <4>1
      <4>3. k - (m + i) + (n - j) = n /\ ~ (k <= m) /\ n \in 1 .. Len(r)
        BY <4>1, <4>2
      <4> QED
        BY <2>4, <2>7, <3>3, <4>2, <4>3
    <3>4. CASE ~ (k <= m + i + j)
      <4> DEFINE l == k - (m + i + j) + n
      <4>1. k - (m + i) + (n - j) = l /\ l \in 1 .. Len(r) /\ l > n /\ (i = 1 => l # m + 1)
            /\ ~ (k <= m) /\ ~ (k <= m + i)
        <5>1. i \in Int /\ j \in Int /\ m \in Int /\ n \in Int /\ k \in Int /\ Len(r) \in Int
              /\ i >= 0 /\ j >= 0 /\ m >= 0 /\ n >= 0 /\ n <= Len(r)
          BY <1>2, <1>3, <2>7
        <5>2. k <= m + i + (Len(r) - (n - j)) /\ k > m + i + j
          BY <1>2, <2>7, <3>4, <5>1
        <5>3. k - (m + i) + (n - j) = l /\ l <= Len(r) /\ l > n /\ l \in Int
          BY <5>1, <5>2
        <5>4. l >= 1 /\ ~ (k <= m) /\ ~ (k <= m + i)
          BY <5>1, <5>2, <5>3
        <5>5. i = 1 => l # m + 1
          BY <1>3, <1>8, <5>1, <5>3
        <5> HIDE DEF l
        <5> QED
          BY <5>1, <5>3, <5>4, <5>5
      <4> HIDE DEF l
      <4>2. l # n
        BY <1>2, <4>1
      <4>3. marked[l] = r[l]
        BY <2>4, <4>1, <4>2
      <4>4. s[k] = marked[l]
        BY <2>7, <4>1
      <4> QED
        BY <3>4, <4>1, <4>3, <4>4 DEF l
    <3> QED
      BY <1>2, <1>3, <3>1, <3>2, <3>3, <3>4
  <2>9. m + i + (Len(r) - (n - j)) = m + i + j + (Len(r) - n)
    BY <1>2, <1>3
  <2>10. Spliced(s, r, m, i, a, j, b, n)
    BY <2>7, <2>8, <2>9 DEF Spliced
  <2> QED
    BY <1>1, <1>6, <2>10 DEF s
<1> QED
  BY <1>2, <1>3, <1>7, <1>8

\* The first m boundaries are up to a, the first n are those up to b.
Splits(r, m, a, b, n) ==
  \A k \in 1 .. Len(r) : (k <= m => r[k] <= a) /\ (r[k] <= b <=> k <= n)

\* s is, up to m, boundaries of r that are no larger than a; then a up to the
\* position w; b up to y; and then boundaries of r that are larger than b.
Pieces(s, r, m, w, a, y, b, n) ==
  /\ s \in Seq(Int) /\ Len(s) = y + (Len(r) - n)
  /\ \A k \in 1 .. Len(s) :
       /\ s[k] \in Int
       /\ k <= m => k \in 1 .. Len(r) /\ s[k] = r[k] /\ s[k] <= a
       /\ m < k /\ k <= w => s[k] = a
       /\ w < k /\ k <= y => s[k] = b
       /\ y < k => k - y + n \in 1 .. Len(r) /\ s[k] = r[k - y + n] /\ s[k] > b

\* The boundaries of a splice: kept ones up to a, then a and b, then kept ones
\* beyond b.
LEMMA SplicedBoundaries ==
  ASSUME NEW r \in Seq(Int), Ordered(r), NEW a \in Int, NEW b \in Int, a <= b,
         NEW m \in 0 .. Len(r), NEW n \in 0 .. Len(r), m <= n,
         NEW i \in {0, 1}, NEW j \in {0, 1},
         Splits(r, m, a, b, n),
         NEW s, Spliced(s, r, m, i, a, j, b, n)
  PROVE  Pieces(s, r, m, m + i, a, m + i + j, b, n)
<1>1. Len(r) \in Nat /\ \A k \in 1 .. Len(r) : r[k] \in Int
  BY LenProperties, ElementOfSeq
<1>2. /\ s \in Seq(Int) /\ Len(s) = m + i + j + (Len(r) - n)
      /\ \A k \in 1 .. Len(s) :
           s[k] = IF k <= m THEN r[k] ELSE IF k <= m + i THEN a ELSE IF k <= m + i + j THEN b
                  ELSE r[k - (m + i + j) + n]
  BY DEF Spliced
<1>3. Len(s) \in Nat /\ \A k \in 1 .. Len(s) : s[k] \in Int
  BY <1>2, LenProperties, ElementOfSeq
<1>4. i \in Int /\ i >= 0 /\ j \in Int /\ j >= 0 /\ m \in Int /\ n \in Int
  BY <1>1
<1> SUFFICES ASSUME NEW k \in 1 .. Len(s)
             PROVE  /\ k <= m => k \in 1 .. Len(r) /\ s[k] = r[k] /\ s[k] <= a
                    /\ m < k /\ k <= m + i => s[k] = a
                    /\ m + i < k /\ k <= m + i + j => s[k] = b
                    /\ m + i + j < k => /\ k - (m + i + j) + n \in 1 .. Len(r)
                                        /\ s[k] = r[k - (m + i + j) + n] /\ s[k] > b
  BY <1>2, <1>3 DEF Pieces
<1>5. ASSUME k <= m
      PROVE  k \in 1 .. Len(r) /\ s[k] = r[k] /\ s[k] <= a
  <2>1. k \in 1 .. Len(r)
    BY <1>1, <1>3, <1>4, <1>5
  <2>2. s[k] = r[k]
    BY <1>2, <1>5
  <2> QED
    BY <1>5, <2>1, <2>2 DEF Splits
<1>6. m < k /\ k <= m + i => s[k] = a
  BY <1>2, <1>3, <1>4
<1>7. m + i < k /\ k <= m + i + j => s[k] = b
  BY <1>2, <1>3, <1>4
<1>8. ASSUME m + i + j < k
      PROVE  /\ k - (m + i + j) + n \in 1 .. Len(r)
             /\ s[k] = r[k - (m + i + j) + n] /\ s[k] > b
  <2>1. PICK l : l = k - (m + i + j) + n
    BY Zenon
  <2>2. l \in 1 .. Len(r) /\ ~ (l <= n)
    BY <1>1, <1>2, <1>3, <1>4, <1>8, <2>1
  <2>3. ~ (r[l] <= b) /\ r[l] \in Int
    BY <1>1, <2>2 DEF Splits
  <2>4. ~ (k <= m) /\ ~ (k <= m + i) /\ ~ (k <= m + i + j)
    BY <1>3, <1>4, <1>8
  <2>5. s[k] = r[l]
    BY <1>2, <2>1, <2>4
  <2> QED
    BY <2>1, <2>2, <2>3, <2>5
<1> QED
  BY <1>5, <1>6, <1>7, <1>8

\* The flags i and j keep the boundaries in pairs, with [a;b[ inside for v = 1 and
\* outside for v = 0.
Paired(m, i, j, n, v) ==
  i \in {0, 1} /\ j \in {0, 1} /\ (m + i + j - n) % 2 = 0 /\ (m + i - 1) % 2 = 1 - v

\* A splice keeps the order.
LEMMA SplicedOrdered ==
  ASSUME NEW r \in Seq(Int), Ordered(r), NEW a \in Int, NEW b \in Int, a <= b,
         NEW m \in 0 .. Len(r), NEW n \in 0 .. Len(r), m <= n,
         NEW v \in {0, 1}, NEW i, NEW j, Paired(m, i, j, n, v),
         Splits(r, m, a, b, n),
         NEW s, Spliced(s, r, m, i, a, j, b, n)
  PROVE  /\ Ordered(s)
         /\ Canonical(r) /\ a < b /\ (\A k \in 1 .. Len(r) : k <= m => r[k] < a) => Canonical(s)
<1>1. /\ Len(r) \in Nat /\ Len(r) % 2 = 0 /\ \A k \in 1 .. Len(r) : r[k] \in Int
      /\ \A k \in 1 .. Len(r) - 1 : r[k] <= r[k+1]
  BY LenProperties, ElementOfSeq DEF Ordered
<1>0. i \in {0, 1} /\ j \in {0, 1} /\ (m + i + j - n) % 2 = 0 /\ (m + i - 1) % 2 = 1 - v
  BY DEF Paired
<1>2. Pieces(s, r, m, m + i, a, m + i + j, b, n)
  BY <1>0, SplicedBoundaries
<1>3. PICK w, y : w = m + i /\ y = m + i + j
  BY Zenon
<1>4. /\ m \in Int /\ n \in Int /\ w \in Int /\ y \in Int
      /\ m <= w /\ w <= m + 1 /\ w <= y /\ y <= w + 1
  BY <1>0, <1>1, <1>3
<1>5. /\ Len(s) \in Nat /\ Len(s) = y + (Len(r) - n)
      /\ \A k \in 1 .. Len(s) :
           /\ s[k] \in Int
           /\ k <= m => k \in 1 .. Len(r) /\ s[k] = r[k] /\ s[k] <= a
           /\ m < k /\ k <= w => s[k] = a
           /\ w < k /\ k <= y => s[k] = b
           /\ y < k => k - y + n \in 1 .. Len(r) /\ s[k] = r[k - y + n] /\ s[k] > b
  BY <1>2, <1>3, LenProperties DEF Pieces
<1>6. Len(s) % 2 = 0
  <2>1. PICK d : d = y - n
    BY Zenon
  <2>2. d \in Int /\ d % 2 = 0 /\ Len(s) = Len(r) + d
    BY <1>0, <1>1, <1>3, <1>4, <1>5, <2>1
  <2>3. PICK x : x = Len(r)
    BY Zenon
  <2>4. x \in Nat /\ x % 2 = 0 /\ Len(s) = x + d
    BY <1>1, <2>2, <2>3
  <2>5. (x + d) % 2 = 0
    BY <2>2, <2>4
  <2> QED
    BY <2>4, <2>5
<1>7. ASSUME NEW k \in 1 .. Len(s) - 1
      PROVE  /\ s[k] <= s[k+1]
             /\ Canonical(r) /\ a < b /\ (\A l \in 1 .. Len(r) : l <= m => r[l] < a) => s[k] < s[k+1]
  <2>1. k \in 1 .. Len(s) /\ k + 1 \in 1 .. Len(s) /\ s[k] \in Int /\ s[k+1] \in Int
    <3>1. k \in 1 .. Len(s) /\ k + 1 \in 1 .. Len(s)
      BY <1>5
    <3> QED
      BY <1>5, <3>1
  <2>2. CASE k + 1 <= m
    <3>1. k <= m /\ k \in 1 .. Len(r) - 1
      BY <1>1, <1>4, <1>5, <2>1, <2>2
    <3>2. s[k] = r[k] /\ s[k+1] = r[k+1]
      BY <1>5, <2>1, <2>2, <3>1
    <3> QED
      BY <1>1, <3>1, <3>2 DEF Canonical
  <2>3. CASE k = m
    <3>1. s[k] = r[k] /\ s[k] <= a /\ k \in 1 .. Len(r)
      BY <1>4, <1>5, <2>1, <2>3
    <3>2. s[k+1] = a \/ s[k+1] = b \/ s[k+1] > b
      BY <1>4, <1>5, <2>1, <2>3
    <3> QED
      BY <1>4, <2>1, <2>3, <3>1, <3>2, SMTT(30)
  <2>4. CASE m < k /\ k <= w
    <3>1. s[k] = a
      BY <1>5, <2>1, <2>4
    <3>2. k + 1 > w
      BY <1>4, <2>1, <2>4
    <3>3. s[k+1] = b \/ s[k+1] > b
      BY <1>4, <1>5, <2>1, <3>2
    <3> QED
      BY <2>1, <3>1, <3>3
  <2>5. CASE w < k /\ k <= y
    <3>1. s[k] = b
      BY <1>5, <2>1, <2>5
    <3>2. k + 1 > y
      BY <1>4, <2>1, <2>5
    <3>3. s[k+1] > b
      BY <1>4, <1>5, <2>1, <3>2
    <3> QED
      BY <2>1, <3>1, <3>3
  <2>6. CASE y < k
    <3>1. PICK l : l = k - y + n
      BY Zenon
    <3>2. k + 1 - y + n = l + 1 /\ y < k + 1 /\ l \in Int
      BY <1>4, <2>1, <2>6, <3>1
    <3>3. l \in 1 .. Len(r) /\ l + 1 \in 1 .. Len(r) /\ s[k] = r[l] /\ s[k+1] = r[l+1]
      <4>1. l \in 1 .. Len(r) /\ s[k] = r[l]
        BY <1>5, <2>1, <2>6, <3>1
      <4>2. k + 1 - y + n \in 1 .. Len(r) /\ s[k+1] = r[k + 1 - y + n]
        <5>1. PICK q : q = k + 1
          BY Zenon
        <5>2. q \in 1 .. Len(s) /\ y < q
          BY <2>1, <3>2, <5>1
        <5>3. q - y + n \in 1 .. Len(r) /\ s[q] = r[q - y + n]
          BY <1>5, <5>2
        <5> QED
          BY <1>4, <2>1, <5>1, <5>3
      <4> QED
        BY <3>2, <4>1, <4>2
    <3>4. l \in 1 .. Len(r) - 1
      BY <1>1, <3>2, <3>3
    <3> QED
      BY <1>1, <3>3, <3>4 DEF Canonical
  <2> QED
    BY <1>4, <2>1, <2>2, <2>3, <2>4, <2>5, <2>6
<1> QED
  BY <1>6, <1>7 DEF Ordered, Canonical

\* A splice with the flags of v puts [a;b[ inside, for v = 1, or outside, for
\* v = 0, and leaves every other integer where it was.
LEMMA SplicedElements ==
  ASSUME NEW r \in Seq(Int), Ordered(r), NEW a \in Int, NEW b \in Int, a <= b,
         NEW m \in 0 .. Len(r), NEW n \in 0 .. Len(r), m <= n,
         NEW v \in {0, 1}, NEW i, NEW j, Paired(m, i, j, n, v),
         Splits(r, m, a, b, n), \A k \in 1 .. Len(r) : k > m => r[k] >= a,
         NEW s, Spliced(s, r, m, i, a, j, b, n),
         NEW x \in Int
  PROVE  x \in Elements(s) <=> IF a <= x /\ x < b THEN v = 1 ELSE x \in Elements(r)
<1>1. Len(r) \in Nat /\ \A k \in 1 .. Len(r) : r[k] \in Int
  BY LenProperties, ElementOfSeq
<1>0. i \in {0, 1} /\ j \in {0, 1} /\ (m + i + j - n) % 2 = 0 /\ (m + i - 1) % 2 = 1 - v
  BY DEF Paired
<1>2. Pieces(s, r, m, m + i, a, m + i + j, b, n)
  BY <1>0, SplicedBoundaries
<1>3. PICK w, y : w = m + i /\ y = m + i + j
  BY Zenon
<1>4. /\ m \in Int /\ n \in Int /\ w \in Int /\ y \in Int
      /\ m <= w /\ w <= m + 1 /\ w <= y /\ y <= w + 1 /\ (w - 1) % 2 = 1 - v
  BY <1>0, <1>1, <1>3
<1>5. /\ Len(s) \in Nat /\ Len(s) = y + (Len(r) - n)
      /\ \A k \in 1 .. Len(s) :
           /\ s[k] \in Int
           /\ k <= m => k \in 1 .. Len(r) /\ s[k] = r[k] /\ s[k] <= a
           /\ m < k /\ k <= w => s[k] = a
           /\ w < k /\ k <= y => s[k] = b
           /\ y < k => k - y + n \in 1 .. Len(r) /\ s[k] = r[k - y + n] /\ s[k] > b
  BY <1>2, <1>3, LenProperties DEF Pieces
<1>6. Ordered(s) /\ s \in Seq(Int)
  <2>1. Ordered(s)
    BY SplicedOrdered
  <2> QED
    BY <1>2, <2>1 DEF Pieces
<1>7. x \in Elements(s) <=> iiv(s, x) % 2 = 0
  BY <1>6, MemberPosition
<1>8. PICK k : /\ k = iiv(r, x)
               /\ k \in -1 .. Len(r) - 1
               /\ \A l \in 1 .. Len(r) : r[l] <= x <=> l - 1 <= k
               /\ x \in Elements(r) <=> k % 2 = 0
  BY MemberPosition
<1>12. k \in Int /\ -1 <= k /\ k <= Len(r) - 1
  BY <1>1, <1>8
<1>9. CASE x < a
  <2>1. k < m
    <3>1. CASE k = -1
      BY <1>4, <3>1
    <3>2. CASE k # -1
      <4>1. k + 1 \in 1 .. Len(r)
        BY <1>1, <1>12, <3>2
      <4>2. r[k+1] <= x /\ r[k+1] \in Int
        <5>1. (k + 1) - 1 <= k
          BY <1>12
        <5> QED
          BY <1>1, <1>8, <4>1, <5>1
      <4>3. ~ (k + 1 > m)
        BY <1>9, <4>1, <4>2
      <4> QED
        BY <1>4, <1>8, <4>1, <4>3
    <3> QED
      BY <3>1, <3>2
  <2>2. k \in -1 .. Len(s) - 1
    BY <1>1, <1>4, <1>5, <1>8, <2>1
  <2>3. ASSUME NEW q \in 1 .. Len(s)
        PROVE  s[q] <= x <=> q - 1 <= k
    <3>1. CASE q <= m
      <4>1. q \in 1 .. Len(r) /\ s[q] = r[q]
        BY <1>5, <3>1
      <4> QED
        BY <1>8, <4>1
    <3>2. CASE ~ (q <= m)
      <4>1. s[q] \in Int /\ (s[q] = a \/ s[q] = b \/ s[q] > b)
        BY <1>4, <1>5, <3>2
      <4>2. ~ (s[q] <= x)
        BY <1>9, <4>1
      <4>3. ~ (q - 1 <= k)
        BY <1>4, <1>5, <1>8, <2>1, <3>2
      <4> QED
        BY <4>2, <4>3
    <3> QED
      BY <3>1, <3>2
  <2>4. iiv(s, x) = k
    BY <1>6, <2>2, <2>3, PositionIs
  <2> QED
    BY <1>7, <1>8, <1>9, <2>4
<1>10. CASE a <= x /\ x < b
  <2>1. w - 1 \in -1 .. Len(s) - 1
    BY <1>1, <1>4, <1>5
  <2>2. ASSUME NEW q \in 1 .. Len(s)
        PROVE  s[q] <= x <=> q - 1 <= w - 1
    <3>1. CASE q <= w
      <4>1. s[q] \in Int /\ s[q] <= a
        BY <1>4, <1>5, <3>1
      <4> QED
        BY <1>4, <1>10, <3>1, <4>1
    <3>2. CASE ~ (q <= w)
      <4>1. s[q] \in Int /\ (s[q] = b \/ s[q] > b)
        BY <1>4, <1>5, <3>2
      <4> QED
        BY <1>4, <1>5, <1>10, <3>2, <4>1
    <3> QED
      BY <3>1, <3>2
  <2>3. iiv(s, x) = w - 1
    BY <1>6, <2>1, <2>2, PositionIs
  <2>4. x \in Elements(s) <=> 1 - v = 0
    BY <1>4, <1>7, <2>3
  <2> QED
    BY <1>10, <2>4
<1>11. CASE b <= x
  <2>1. k >= n - 1
    <3>1. CASE n = 0
      BY <1>8, <3>1
    <3>2. CASE n # 0
      <4>1. n \in 1 .. Len(r) /\ r[n] <= b /\ r[n] \in Int
        BY <1>1, <1>4, <3>2 DEF Splits
      <4> QED
        BY <1>8, <1>11, <4>1, SMTT(30)
    <3> QED
      BY <3>1, <3>2
  <2>2. PICK p : p = k + (y - n)
    BY Zenon
  <2>3. p \in -1 .. Len(s) - 1
    BY <1>1, <1>4, <1>5, <1>12, <2>1, <2>2
  <2>4. ASSUME NEW q \in 1 .. Len(s)
        PROVE  s[q] <= x <=> q - 1 <= p
    <3>1. CASE q <= y
      <4>1. s[q] \in Int /\ (s[q] <= a \/ s[q] = b)
        BY <1>4, <1>5, <3>1
      <4>2. s[q] <= x
        BY <1>11, <4>1
      <4>3. q - 1 <= p
        BY <1>4, <1>12, <2>1, <2>2, <3>1
      <4> QED
        BY <4>2, <4>3
    <3>2. CASE ~ (q <= y)
      <4>1. PICK l : l = q - y + n
        BY Zenon
      <4>2. l \in 1 .. Len(r) /\ s[q] = r[l]
        BY <1>4, <1>5, <3>2, <4>1
      <4>3. s[q] <= x <=> l - 1 <= k
        BY <1>8, <4>2
      <4>4. l - 1 <= k <=> q - 1 <= p
        BY <1>4, <1>12, <2>2, <4>1
      <4> QED
        BY <4>3, <4>4
    <3> QED
      BY <3>1, <3>2
  <2>5. iiv(s, x) = p
    BY <1>6, <2>3, <2>4, PositionIs
  <2>6. p % 2 = 0 <=> k % 2 = 0
    <3>1. PICK d : d = y - n
      BY Zenon
    <3>2. d \in Int /\ d % 2 = 0 /\ p = k + d /\ k \in Int
      BY <1>0, <1>1, <1>3, <1>4, <1>8, <2>2, <3>1
    <3>3. (k + d) % 2 = k % 2
      BY <3>2
    <3> QED
      BY <3>2, <3>3
  <2> QED
    BY <1>7, <1>8, <1>11, <2>5, <2>6
<1> QED
  BY <1>9, <1>10, <1>11

\* add and remove: always inside the vector, in order before and after, canonical
\* if they were and the range is not empty, and exactly the set that is asked for.
LEMMA AddRemoveResult ==
  ASSUME NEW r \in Seq(Int), Ordered(r), NEW a \in Int, NEW b \in Int, a <= b, NEW v \in {0, 1}
  PROVE  /\ addRemoveInBounds(r, a, b, v)
         /\ addRemove(r, a, b, v) \in Seq(Int)
         /\ Ordered(addRemove(r, a, b, v))
         /\ Canonical(r) /\ a < b => Canonical(addRemove(r, a, b, v))
         /\ \A x \in Int : x \in Elements(addRemove(r, a, b, v)) <=>
                             IF a <= x /\ x < b THEN v = 1 ELSE x \in Elements(r)
<1>1. PICK m, n, i, j, s : /\ m = From(r, a) /\ n = To(r, b)
                           /\ i = Flag(m - 1, v) /\ j = Flag(n - 1, v)
                           /\ s = addRemove(r, a, b, v)
  BY Zenon
<1>2. addRemoveInBounds(r, a, b, v) /\ Spliced(s, r, m, i, a, j, b, n)
  BY <1>1, AddRemoveShape
<1>3. Len(r) \in Nat
  BY LenProperties
<1>4. /\ m \in 0 .. Len(r) /\ n \in 0 .. Len(r) /\ m <= n
      /\ \A k \in 1 .. Len(r) : /\ k <= m => r[k] <= a
                                /\ k > m => r[k] >= a
                                /\ r[k] <= b <=> k <= n
      /\ Canonical(r) => \A k \in 1 .. Len(r) : k <= m => r[k] < a
  BY <1>1, FromTo
<1>5. Splits(r, m, a, b, n) /\ \A k \in 1 .. Len(r) : k > m => r[k] >= a
  BY <1>4 DEF Splits
<1>6. Paired(m, i, j, n, v)
  <2>1. m - 1 \in Int /\ n - 1 \in Int /\ m - 1 <= n - 1
    BY <1>3, <1>4
  <2>2. /\ i \in {0, 1} /\ j \in {0, 1}
        /\ (m - 1 + i) % 2 = 1 - v
        /\ (n - 1 - j - (m - 1) - i) % 2 = 0
    BY <1>1, <2>1, FlagParity
  <2>3. PICK d : d = n - 1 - j - (m - 1) - i
    BY Zenon
  <2>4. d \in Int /\ d % 2 = 0 /\ m + i + j - n = - d /\ m + i - 1 = m - 1 + i
    BY <1>3, <1>4, <2>2, <2>3
  <2>5. (- d) % 2 = 0
    BY <2>4
  <2> QED
    BY <2>2, <2>4, <2>5 DEF Paired
<1>7. s \in Seq(Int)
  BY <1>2 DEF Spliced
<1>10. m \in 0 .. Len(r) /\ n \in 0 .. Len(r) /\ m <= n
  BY <1>4
<1>8. Ordered(s) /\ (Canonical(r) /\ a < b => Canonical(s))
  <2>1. /\ Ordered(s)
        /\ Canonical(r) /\ a < b /\ (\A k \in 1 .. Len(r) : k <= m => r[k] < a) => Canonical(s)
    BY <1>2, <1>5, <1>6, <1>10, SplicedOrdered
  <2> QED
    BY <1>4, <2>1
<1>9. ASSUME NEW x \in Int
      PROVE  x \in Elements(s) <=> IF a <= x /\ x < b THEN v = 1 ELSE x \in Elements(r)
  BY <1>2, <1>5, <1>6, <1>10, SplicedElements
<1> QED
  BY <1>1, <1>2, <1>7, <1>8, <1>9

\* add is the union with [v1;v2[ ...
LEMMA AddElements ==
  ASSUME NEW r \in Seq(Int), Ordered(r), NEW v1 \in Int, NEW v2 \in Int, v1 <= v2
  PROVE  Elements(add(r, v1, v2)) = Elements(r) \cup (v1 .. v2 - 1)
<1>1. /\ add(r, v1, v2) \in Seq(Int) /\ Len(add(r, v1, v2)) % 2 = 0 /\ Len(r) % 2 = 0
      /\ \A x \in Int : x \in Elements(add(r, v1, v2)) <=>
                          IF v1 <= x /\ x < v2 THEN TRUE ELSE x \in Elements(r)
  BY AddRemoveResult DEF add, Ordered
<1>2. \A x : (x \in Elements(add(r, v1, v2)) => x \in Int) /\ (x \in Elements(r) => x \in Int)
  BY <1>1, ElementsIff
<1>3. \A x : x \in v1 .. v2 - 1 <=> x \in Int /\ v1 <= x /\ x < v2
  OBVIOUS
<1> QED
  BY <1>1, <1>2, <1>3

\* ... and remove the difference.
LEMMA RemoveElements ==
  ASSUME NEW r \in Seq(Int), Ordered(r), NEW v1 \in Int, NEW v2 \in Int, v1 <= v2
  PROVE  Elements(remove(r, v1, v2)) = Elements(r) \ (v1 .. v2 - 1)
<1>1. /\ remove(r, v1, v2) \in Seq(Int) /\ Len(remove(r, v1, v2)) % 2 = 0 /\ Len(r) % 2 = 0
      /\ \A x \in Int : x \in Elements(remove(r, v1, v2)) <=>
                          IF v1 <= x /\ x < v2 THEN FALSE ELSE x \in Elements(r)
  BY AddRemoveResult DEF remove, Ordered
<1>2. \A x : (x \in Elements(remove(r, v1, v2)) => x \in Int) /\ (x \in Elements(r) => x \in Int)
  BY <1>1, ElementsIff
<1>3. \A x : x \in v1 .. v2 - 1 <=> x \in Int /\ v1 <= x /\ x < v2
  OBVIOUS
<1> QED
  BY <1>1, <1>2, <1>3

----------------------------------------------------------------------------
(* intersect with a range.                                                 *)

\* s is a, if j is 1, then the boundaries of r after m and up to n, then b, if
\* i is 1.
Clipped(s, r, j, a, m, n, i, b) ==
  /\ s \in Seq(Int)
  /\ Len(s) = j + (n + i - m)
  /\ \A k \in 1 .. Len(s) : /\ k <= j => s[k] = a
                            /\ j < k /\ k - j + m <= n => s[k] = r[k - j + m]
                            /\ j < k /\ k - j + m > n => s[k] = b

\* The two positions of intersect split the boundaries by a and by b.
LEMMA ToFrom ==
  ASSUME NEW r \in Seq(Int), Ordered(r), NEW a \in Int, NEW b \in Int, a <= b
  PROVE  /\ To(r, a) \in 0 .. Len(r) /\ From(r, b) \in 0 .. Len(r) /\ To(r, a) <= From(r, b) + 1
         /\ To(r, a) <= From(r, b) \/ a = b
         /\ \A k \in 1 .. Len(r) : /\ r[k] <= a <=> k <= To(r, a)
                                   /\ k <= From(r, b) => r[k] <= b
                                   /\ k > From(r, b) => r[k] >= b
         /\ Canonical(r) => \A k \in 1 .. Len(r) : k <= From(r, b) => r[k] < b
<1>0. Len(r) \in Nat /\ \A k \in 1 .. Len(r) : r[k] \in Int
  BY LenProperties, ElementOfSeq
<1>1. PICK m, n, l : m = To(r, a) /\ n = From(r, b) /\ l = To(r, b)
  BY Zenon
<1>2. /\ m \in 0 .. Len(r)
      /\ \A k \in 1 .. Len(r) : r[k] <= a <=> k <= m
  <2>1. PICK z : z = iiv(r, a)
    BY Zenon
  <2>2. z \in -1 .. Len(r) - 1 /\ \A k \in 1 .. Len(r) : r[k] <= a <=> k - 1 <= z
    BY <2>1, MemberPosition
  <2>3. m = z + 1
    BY <1>1, <2>1 DEF To
  <2> QED
    BY <1>0, <2>2, <2>3
<1>3. /\ n \in 0 .. Len(r) /\ l \in 0 .. Len(r)
      /\ n = iiv(r, b) \/ n = iiv(r, b) + 1
      /\ \A k \in 1 .. Len(r) : /\ k <= n => r[k] <= b
                                /\ k > n => r[k] >= b
                                /\ r[k] <= b <=> k <= l
      /\ Canonical(r) => \A k \in 1 .. Len(r) : k <= n => r[k] < b
  BY <1>1, FromTo
<1>4. m <= l
  <2>1. CASE m = 0
    BY <1>3, <2>1
  <2>2. CASE m # 0
    <3>1. m \in 1 .. Len(r) /\ r[m] <= a /\ r[m] \in Int
      BY <1>0, <1>2, <2>2
    <3>2. r[m] <= b
      BY <3>1
    <3> QED
      BY <1>3, <3>1, <3>2
  <2> QED
    BY <2>1, <2>2
<1>5. m <= n + 1
  <2>1. l = iiv(r, b) + 1
    BY <1>1 DEF To
  <2>2. PICK z : z = iiv(r, b)
    BY Zenon
  <2>3. l = z + 1 /\ (n = z \/ n = z + 1) /\ z \in Int
    <3>1. z \in -1 .. Len(r) - 1
      BY <2>2, MemberPosition
    <3> QED
      BY <1>0, <1>3, <2>1, <2>2, <3>1
  <2> QED
    BY <1>0, <1>2, <1>3, <1>4, <2>3
<1>6. m <= n \/ a = b
  <2> SUFFICES ASSUME ~ (m <= n)
               PROVE  a = b
    OBVIOUS
  <2>1. m \in 1 .. Len(r) /\ m > n
    BY <1>0, <1>2, <1>3
  <2>2. r[m] <= a /\ r[m] >= b /\ r[m] \in Int
    BY <1>0, <1>2, <1>3, <2>1
  <2> QED
    BY <2>2
<1> QED
  BY <1>1, <1>2, <1>3, <1>5, <1>6

\* What intersect returns; for a range that is not empty it stays inside the vector.
LEMMA IntersectShape ==
  ASSUME NEW r \in Seq(Int), Ordered(r), NEW a \in Int, NEW b \in Int, a <= b
  PROVE  LET m == To(r, a)
             n == From(r, b)
         IN  /\ a < b => intersectInBounds(r, a, b)
             /\ Clipped(intersect(r, a, b), r, Flag(m - 1, 0), a, m, n, Flag(n - 1, 0), b)
<1>1. PICK m, n, i, j : m = To(r, a) /\ n = From(r, b) /\ i = Flag(n - 1, 0) /\ j = Flag(m - 1, 0)
  BY Zenon
<1>2. /\ Len(r) \in Nat /\ Len(r) % 2 = 0 /\ \A k \in 1 .. Len(r) : r[k] \in Int
      /\ m \in 0 .. Len(r) /\ n \in 0 .. Len(r) /\ m <= n + 1 /\ (m <= n \/ a = b)
  BY <1>1, LenProperties, ElementOfSeq, ToFrom DEF Ordered
<1>3. /\ m \in Int /\ n \in Int /\ 0 <= m /\ 0 <= n /\ n <= Len(r)
      /\ i \in Int /\ j \in Int
      /\ (i = 1 /\ (n - 1) % 2 = 0) \/ (i = 0 /\ (n - 1) % 2 # 0)
      /\ (j = 1 /\ (m - 1) % 2 = 0) \/ (j = 0 /\ (m - 1) % 2 # 0)
  BY <1>1, <1>2 DEF Flag
<1>4. (m = n + 1 => i + j = 1) /\ (i = 1 \/ i = 0) /\ (j = 1 \/ j = 0)
  BY <1>3
<1> DEFINE pos1  == iiv(r, a)
           found == iiv(r, b)
           pos2  == IF found >= 0 /\ r[found+1] = b THEN found - 1 ELSE found
           cut   == SubSeq(r, 1, pos2 + 1) \o (IF pos2 % 2 = 0 THEN << b >> ELSE << >>)
           s     == intersect(r, a, b)
<1>5. pos1 = m - 1 /\ pos2 = n - 1
  <2>1. pos1 \in Int /\ found \in Int
    <3>1. pos1 \in -1 .. Len(r) - 1 /\ found \in -1 .. Len(r) - 1
      BY MemberPosition
    <3> QED
      BY <1>2, <3>1
  <2> QED
    BY <1>1, <1>3, <2>1 DEF To, From
<1>6. intersectInBounds(r, a, b) <=> (pos1 % 2 = 0 => pos1 < pos2 + 1 + (IF pos2 % 2 = 0 THEN 1 ELSE 0))
  BY Zenon DEF intersectInBounds
<1>7. s = IF pos1 % 2 = 0
          THEN IF pos1 + 1 > Len(cut) THEN << >>
               ELSE << a >> \o SubSeq(cut, pos1 + 2, Len(cut))
          ELSE SubSeq(cut, pos1 + 2, Len(cut))
  BY Zenon DEF intersect
<1> HIDE DEF pos1, pos2, found
<1>8. cut = SubSeq(r, 1, n) \o (IF i = 1 THEN << b >> ELSE << >>)
  <2>1. pos2 + 1 = n /\ (pos2 % 2 = 0 <=> i = 1)
    BY <1>3, <1>5
  <2> QED
    BY <2>1
<1> HIDE DEF cut, s
<1>9. a < b => intersectInBounds(r, a, b)
  <2> SUFFICES ASSUME a < b, pos1 % 2 = 0
               PROVE  pos1 < pos2 + 1 + (IF pos2 % 2 = 0 THEN 1 ELSE 0)
    BY <1>6
  <2>1. m <= n
    BY <1>2
  <2> QED
    BY <1>3, <1>5, <2>1
<1>10. /\ cut \in Seq(Int) /\ Len(cut) = n + i
       /\ \A k \in 1 .. n + i : cut[k] = IF k <= n THEN r[k] ELSE b
  <2> DEFINE x == SubSeq(r, 1, n)
  <2>1. x \in Seq(Int) /\ Len(x) = n /\ \A k \in 1 .. n : x[k] = r[k]
    <3>1. /\ x \in Seq(Int) /\ Len(x) = n - 1 + 1
          /\ \A k \in 1 .. n - 1 + 1 : x[k] = r[1 + k - 1]
      BY <1>2, <1>3, Section
    <3>2. n - 1 + 1 = n /\ \A k \in 1 .. n : 1 + k - 1 = k
      BY <1>3
    <3> HIDE DEF x
    <3> QED
      BY <3>1, <3>2
  <2> HIDE DEF x
  <2>2. CASE i = 1
    <3>1. cut = x \o << b >>
      BY <1>8, <2>2 DEF x
    <3>2. << b >> \in Seq(Int) /\ Len(<< b >>) = 1 /\ << b >>[1] = b
      OBVIOUS
    <3>3. /\ x \o << b >> \in Seq(Int) /\ Len(x \o << b >>) = Len(x) + 1
          /\ \A k \in 1 .. Len(x) + 1 : (x \o << b >>)[k] = IF k <= Len(x) THEN x[k] ELSE << b >>[k - Len(x)]
      BY <2>1, <3>2, ConcatProperties
    <3>4. ASSUME NEW k \in 1 .. n + 1
          PROVE  cut[k] = IF k <= n THEN r[k] ELSE b
      <4>1. CASE k <= n
        <5>1. k \in 1 .. n
          BY <1>3, <4>1
        <5> QED
          BY <2>1, <3>1, <3>3, <4>1, <5>1
      <4>2. CASE ~ (k <= n)
        <5>1. k - n = 1
          BY <1>3, <4>2
        <5> QED
          BY <2>1, <3>1, <3>2, <3>3, <4>2, <5>1
      <4> QED
        BY <4>1, <4>2
    <3> QED
      BY <2>1, <2>2, <3>1, <3>3, <3>4
  <2>3. CASE i = 0
    <3>1. cut = x \o << >> /\ x \o << >> = x
      BY <1>8, <2>1, <2>3, ConcatEmptySeq DEF x
    <3>2. n + i = n
      BY <1>3, <2>3
    <3> QED
      BY <2>1, <3>1, <3>2
  <2> QED
    BY <1>4, <2>2, <2>3
<1>11. CASE m = n + 1 /\ j = 1
  <2>1. pos1 % 2 = 0 /\ pos1 + 1 > Len(cut) /\ i = 0
    BY <1>3, <1>4, <1>5, <1>10, <1>11
  <2>2. s = << >>
    BY <1>7, <2>1
  <2>3. j + (n + i - m) = 0
    BY <1>3, <1>11, <2>1
  <2>4. Clipped(s, r, j, a, m, n, i, b)
    BY <2>2, <2>3 DEF Clipped
  <2> QED
    BY <1>1, <1>9, <2>4 DEF s
<1> DEFINE y == SubSeq(cut, m + 1, n + i)
<1>12. CASE ~ (m = n + 1 /\ j = 1)
  <2>1. m <= n + i
    BY <1>2, <1>3, <1>4, <1>12
  <2>2. /\ y \in Seq(Int) /\ Len(y) = n + i - m
        /\ \A k \in 1 .. n + i - m : y[k] = cut[m + k]
    <3>1. m + 1 \in Nat \ {0} /\ n + i \in 0 .. Len(cut) /\ m + 1 <= n + i + 1
      BY <1>2, <1>3, <1>10, <2>1
    <3>2. PICK f, g : f = m + 1 /\ g = n + i
      BY Zenon
    <3>3. /\ SubSeq(cut, f, g) \in Seq(Int) /\ Len(SubSeq(cut, f, g)) = g - f + 1
          /\ \A k \in 1 .. g - f + 1 : SubSeq(cut, f, g)[k] = cut[f + k - 1]
      BY <1>10, <3>1, <3>2, Section
    <3>4. y = SubSeq(cut, f, g) /\ g - f + 1 = n + i - m /\ \A k \in 1 .. n + i - m : f + k - 1 = m + k
      BY <1>3, <3>2
    <3> HIDE DEF y
    <3>5. /\ y \in Seq(Int) /\ Len(y) = n + i - m
          /\ \A k \in 1 .. n + i - m : y[k] = cut[f + k - 1]
      BY <3>3, <3>4
    <3> QED
      BY <3>4, <3>5
  <2>3. SubSeq(cut, pos1 + 2, Len(cut)) = y
    <3>1. pos1 + 2 = m + 1
      BY <1>3, <1>5
    <3> QED
      BY <1>10, <3>1
  <2> HIDE DEF y
  <2>4. s = IF j = 1 THEN << a >> \o y ELSE y
    <3>1. pos1 % 2 = 0 <=> j = 1
      BY <1>3, <1>5
    <3>2. ~ (pos1 + 1 > Len(cut))
      BY <1>3, <1>5, <1>10, <2>1
    <3> QED
      BY <1>7, <2>3, <3>1, <3>2
  <2>5. ASSUME NEW l \in 1 .. n + i - m
        PROVE  y[l] = IF m + l <= n THEN r[m + l] ELSE b
    <3>1. m + l \in 1 .. n + i
      BY <1>3
    <3> QED
      BY <1>10, <2>2, <3>1
  <2>6. CASE j = 1
    <3>1. << a >> \in Seq(Int) /\ Len(<< a >>) = 1 /\ << a >>[1] = a
      OBVIOUS
    <3>2. /\ s \in Seq(Int) /\ Len(s) = 1 + Len(y)
          /\ \A k \in 1 .. 1 + Len(y) : s[k] = IF k <= 1 THEN << a >>[k] ELSE y[k - 1]
      <4>1. s = << a >> \o y
        BY <2>4, <2>6
      <4>2. /\ << a >> \o y \in Seq(Int) /\ Len(<< a >> \o y) = Len(<< a >>) + Len(y)
            /\ \A k \in 1 .. Len(<< a >>) + Len(y) :
                 (<< a >> \o y)[k] = IF k <= Len(<< a >>) THEN << a >>[k] ELSE y[k - Len(<< a >>)]
        BY <2>2, <3>1, ConcatProperties
      <4> QED
        BY <3>1, <4>1, <4>2
    <3>3. ASSUME NEW k \in 1 .. Len(s)
          PROVE  /\ k <= j => s[k] = a
                 /\ j < k /\ k - j + m <= n => s[k] = r[k - j + m]
                 /\ j < k /\ k - j + m > n => s[k] = b
      <4>1. k \in Int /\ 1 <= k /\ k <= 1 + (n + i - m)
        BY <1>3, <2>2, <3>2
      <4>2. CASE k = 1
        BY <2>2, <2>6, <3>1, <3>2, <4>1, <4>2
      <4>3. CASE k # 1
        <5>1. PICK l : l = k - 1
          BY Zenon
        <5>2. l \in 1 .. n + i - m /\ m + l = k - j + m
          BY <1>3, <2>6, <4>1, <4>3, <5>1
        <5>3. s[k] = y[l]
          BY <3>2, <4>1, <4>3, <5>1
        <5>4. ~ (k <= j)
          BY <2>6, <4>1, <4>3
        <5>5. k - j + m \in Int
          BY <1>3, <4>1
        <5>6. CASE m + l <= n
          <6>1. y[l] = r[m + l]
            BY <2>5, <5>2, <5>6
          <6>2. k - j + m <= n /\ ~ (k - j + m > n) /\ s[k] = r[k - j + m]
            BY <1>3, <5>2, <5>3, <5>5, <5>6, <6>1
          <6> QED
            BY <5>4, <6>2
        <5>7. CASE ~ (m + l <= n)
          BY <1>3, <2>5, <5>2, <5>3, <5>4, <5>5, <5>7
        <5> QED
          BY <5>6, <5>7
      <4> QED
        BY <4>2, <4>3
    <3> QED
      <4>1. Len(s) = j + (n + i - m)
        BY <2>2, <2>6, <3>2
      <4>2. Clipped(s, r, j, a, m, n, i, b)
        BY <3>2, <3>3, <4>1 DEF Clipped
      <4> QED
        BY <1>1, <1>9, <4>2 DEF s
  <2>7. CASE j = 0
    <3>1. s = y
      BY <2>4, <2>7
    <3>2. ASSUME NEW k \in 1 .. Len(s)
          PROVE  /\ k <= j => s[k] = a
                 /\ j < k /\ k - j + m <= n => s[k] = r[k - j + m]
                 /\ j < k /\ k - j + m > n => s[k] = b
      <4>1. k \in 1 .. n + i - m /\ k - j + m = m + k /\ ~ (k <= j)
        BY <1>3, <2>2, <2>7, <3>1
      <4>2. k - j + m \in Int
        BY <1>3, <4>1
      <4> QED
        BY <1>3, <2>5, <3>1, <4>1, <4>2
    <3>3. Len(s) = j + (n + i - m)
      BY <1>3, <2>2, <2>7, <3>1
    <3>4. Clipped(s, r, j, a, m, n, i, b)
      BY <2>2, <3>1, <3>2, <3>3 DEF Clipped
    <3> QED
      BY <1>1, <1>9, <3>4 DEF s
  <2> QED
    BY <1>4, <2>6, <2>7
<1> QED
  BY <1>11, <1>12

\* intersect: in order before and after, canonical if it was and the range is
\* not empty, and exactly the integers of the set that are in the range.
LEMMA IntersectResult ==
  ASSUME NEW r \in Seq(Int), Ordered(r), NEW a \in Int, NEW b \in Int, a <= b
  PROVE  /\ a < b => intersectInBounds(r, a, b)
         /\ intersect(r, a, b) \in Seq(Int)
         /\ Ordered(intersect(r, a, b))
         /\ Canonical(r) /\ a < b => Canonical(intersect(r, a, b))
         /\ \A x \in Int : x \in Elements(intersect(r, a, b)) <=>
                             a <= x /\ x < b /\ x \in Elements(r)
<1>1. PICK m, n, i, j, s : /\ m = To(r, a) /\ n = From(r, b)
                           /\ i = Flag(n - 1, 0) /\ j = Flag(m - 1, 0)
                           /\ s = intersect(r, a, b)
  BY Zenon
<1>2. (a < b => intersectInBounds(r, a, b)) /\ Clipped(s, r, j, a, m, n, i, b)
  BY <1>1, IntersectShape
<1>3. /\ Len(r) \in Nat /\ Len(r) % 2 = 0 /\ \A k \in 1 .. Len(r) : r[k] \in Int
      /\ \A k \in 1 .. Len(r) - 1 : r[k] <= r[k+1]
  BY LenProperties, ElementOfSeq DEF Ordered
<1>4. /\ m \in 0 .. Len(r) /\ n \in 0 .. Len(r) /\ m <= n + 1 /\ (m <= n \/ a = b)
      /\ \A k \in 1 .. Len(r) : /\ r[k] <= a <=> k <= m
                                /\ k <= n => r[k] <= b
                                /\ k > n => r[k] >= b
      /\ Canonical(r) => \A k \in 1 .. Len(r) : k <= n => r[k] < b
  BY <1>1, ToFrom
<1>5. /\ m \in Int /\ n \in Int /\ 0 <= m /\ m <= Len(r) /\ 0 <= n /\ n <= Len(r)
      /\ i \in Int /\ j \in Int /\ (i = 1 \/ i = 0) /\ (j = 1 \/ j = 0)
      /\ (j - m) % 2 = 0 /\ (n + i) % 2 = 0
  <2>1. m \in Int /\ n \in Int /\ 0 <= m /\ m <= Len(r) /\ 0 <= n /\ n <= Len(r)
    BY <1>3, <1>4
  <2>2. /\ i \in Int /\ ((i = 1 /\ (n - 1) % 2 = 0) \/ (i = 0 /\ (n - 1) % 2 # 0))
        /\ j \in Int /\ ((j = 1 /\ (m - 1) % 2 = 0) \/ (j = 0 /\ (m - 1) % 2 # 0))
    BY <1>1, <2>1 DEF Flag
  <2>3. (j - m) % 2 = 0
    BY <2>1, <2>2
  <2>4. (n + i) % 2 = 0
    BY <2>1, <2>2
  <2> QED
    BY <2>1, <2>2, <2>3, <2>4
<1>6. /\ s \in Seq(Int) /\ Len(s) \in Nat /\ Len(s) = j + (n + i - m)
      /\ \A k \in 1 .. Len(s) : s[k] \in Int
  BY <1>2, LenProperties, ElementOfSeq DEF Clipped
<1>7. ASSUME NEW k \in 1 .. Len(s)
      PROVE  \/ k <= j /\ s[k] = a
             \/ /\ j < k /\ k - j + m <= n
                /\ k - j + m \in 1 .. Len(r) /\ s[k] = r[k - j + m] /\ s[k] > a /\ s[k] <= b
                /\ Canonical(r) => s[k] < b
             \/ j < k /\ k - j + m = n + 1 /\ k = Len(s) /\ s[k] = b
  <2>1. PICK l : l = k - j + m
    BY Zenon
  <2>2. l \in Int /\ (j < k => l > m) /\ l <= n + i /\ (l > n => l = n + 1 /\ k = Len(s))
    BY <1>5, <1>6, <2>1
  <2>3. /\ k <= j => s[k] = a
        /\ j < k /\ l <= n => s[k] = r[l]
        /\ j < k /\ l > n => s[k] = b
    BY <1>2, <2>1 DEF Clipped
  <2>4. ASSUME j < k, l <= n
        PROVE  l \in 1 .. Len(r) /\ s[k] = r[l] /\ s[k] > a /\ s[k] <= b /\ (Canonical(r) => s[k] < b)
    <3>1. l \in 1 .. Len(r) /\ ~ (l <= m)
      BY <1>5, <2>2, <2>4
    <3>2. r[l] \in Int /\ ~ (r[l] <= a) /\ r[l] <= b /\ (Canonical(r) => r[l] < b)
      BY <1>3, <1>4, <2>4, <3>1
    <3> QED
      BY <2>3, <2>4, <3>1, <3>2
  <2>5. k <= j \/ (j < k /\ l <= n) \/ (j < k /\ l > n)
    BY <1>5, <1>6, <2>2
  <2> QED
    BY <2>1, <2>2, <2>3, <2>4, <2>5
<1>8. Len(s) % 2 = 0
  <2>1. PICK d, e : d = j - m /\ e = n + i
    BY Zenon
  <2>2. d \in Int /\ e \in Int /\ d % 2 = 0 /\ e % 2 = 0 /\ Len(s) = d + e
    BY <1>5, <1>6, <2>1
  <2>3. (d + e) % 2 = 0
    BY <2>2
  <2> QED
    BY <2>2, <2>3
<1>9. ASSUME NEW k \in 1 .. Len(s) - 1
      PROVE  s[k] <= s[k+1] /\ (Canonical(r) /\ a < b => s[k] < s[k+1])
  <2>1. k \in 1 .. Len(s) /\ k + 1 \in 1 .. Len(s) /\ s[k] \in Int /\ s[k+1] \in Int
    <3>1. k \in 1 .. Len(s) /\ k + 1 \in 1 .. Len(s)
      BY <1>6
    <3> QED
      BY <1>6, <3>1
  <2>2. PICK l : l = k - j + m
    BY Zenon
  <2>3. l \in Int /\ k + 1 - j + m = l + 1
    BY <1>5, <2>1, <2>2
  <2>4. \/ k <= j /\ s[k] = a
        \/ /\ j < k /\ l <= n /\ l \in 1 .. Len(r) /\ s[k] = r[l] /\ s[k] <= b
           /\ Canonical(r) => s[k] < b
        \/ k = Len(s)
    BY <1>7, <2>1, <2>2
  <2>5. \/ k + 1 <= j
        \/ l + 1 <= n /\ l + 1 \in 1 .. Len(r) /\ s[k+1] = r[l+1] /\ s[k+1] > a
        \/ s[k+1] = b
    <3>1. PICK q : q = k + 1
      BY Zenon
    <3>2. q \in 1 .. Len(s) /\ q - j + m = l + 1
      <4>1. q \in 1 .. Len(s)
        BY <2>1, <3>1
      <4>2. q - j + m = l + 1
        BY <1>5, <2>1, <2>2, <3>1
      <4> QED
        BY <4>1, <4>2
    <3>3. \/ q <= j
          \/ q - j + m <= n /\ q - j + m \in 1 .. Len(r) /\ s[q] = r[q - j + m] /\ s[q] > a
          \/ s[q] = b
      BY <1>7, <3>2
    <3> QED
      BY <3>1, <3>2, <3>3, Zenon
  <2>6. ~ (k + 1 <= j) /\ k # Len(s)
    BY <1>5, <1>6, <2>1
  <2>7. CASE s[k] = a
    BY <2>1, <2>5, <2>6, <2>7
  <2>8. CASE s[k+1] = b /\ s[k] # a
    BY <2>1, <2>4, <2>6, <2>8
  <2>9. CASE s[k] # a /\ s[k+1] # b
    <3>1. l \in 1 .. Len(r) - 1 /\ s[k] = r[l] /\ s[k+1] = r[l+1]
      BY <1>3, <2>3, <2>4, <2>5, <2>6, <2>9
    <3> QED
      BY <1>3, <3>1 DEF Canonical
  <2> QED
    BY <2>7, <2>8, <2>9
<1>10. Ordered(s) /\ (Canonical(r) /\ a < b => Canonical(s))
  BY <1>8, <1>9 DEF Ordered, Canonical
<1>11. ASSUME NEW x \in Int
       PROVE  x \in Elements(s) <=> a <= x /\ x < b /\ x \in Elements(r)
  <2>1. x \in Elements(s) <=> iiv(s, x) % 2 = 0
    BY <1>6, <1>10, MemberPosition
  <2>2. \A q \in 1 .. Len(s) : a <= s[q] /\ s[q] <= b
    BY <1>6, <1>7
  <2>3. CASE x < a
    <3>1. -1 \in -1 .. Len(s) - 1
      BY <1>6
    <3>2. \A q \in 1 .. Len(s) : s[q] <= x <=> q - 1 <= -1
      BY <1>6, <2>2, <2>3
    <3>3. iiv(s, x) = -1
      BY <1>6, <3>1, <3>2, PositionIs
    <3> QED
      BY <2>1, <2>3, <3>3
  <2>4. CASE b <= x
    <3>1. Len(s) - 1 \in -1 .. Len(s) - 1
      BY <1>6
    <3>2. \A q \in 1 .. Len(s) : s[q] <= x <=> q - 1 <= Len(s) - 1
      BY <1>6, <2>2, <2>4
    <3>3. iiv(s, x) = Len(s) - 1
      BY <1>6, <3>1, <3>2, PositionIs
    <3>4. (Len(s) - 1) % 2 # 0
      <4>1. PICK z : z = Len(s)
        BY Zenon
      <4>2. z \in Nat /\ z % 2 = 0
        BY <1>6, <1>8, <4>1
      <4>3. (z - 1) % 2 # 0
        BY <4>2
      <4> QED
        BY <4>1, <4>3
    <3> QED
      BY <2>1, <2>4, <3>3, <3>4
  <2>5. CASE a <= x /\ x < b
    <3>1. PICK k : /\ k = iiv(r, x)
                   /\ k \in -1 .. Len(r) - 1
                   /\ \A l \in 1 .. Len(r) : r[l] <= x <=> l - 1 <= k
                   /\ x \in Elements(r) <=> k % 2 = 0
      BY MemberPosition
    <3>2. k \in Int /\ -1 <= k /\ k <= Len(r) - 1
      BY <1>3, <3>1
    <3>3. k >= m - 1
      <4>1. CASE m = 0
        BY <3>2, <4>1
      <4>2. CASE m # 0
        <5>1. m \in 1 .. Len(r)
          BY <1>5, <4>2
        <5>2. r[m] \in Int /\ r[m] <= a
          BY <1>3, <1>4, <1>5, <5>1
        <5>3. r[m] <= x
          BY <2>5, <5>2
        <5>4. m - 1 <= k
          BY <3>1, <5>1, <5>3
        <5> QED
          BY <5>4
      <4> QED
        BY <4>1, <4>2
    <3>4. k <= n - 1
      <4> SUFFICES ASSUME ~ (k <= n - 1)
                   PROVE  FALSE
        OBVIOUS
      <4>1. k + 1 \in 1 .. Len(r) /\ k + 1 > n /\ (k + 1) - 1 <= k
        BY <1>3, <1>5, <3>2
      <4>2. r[k+1] \in Int /\ r[k+1] >= b
        BY <1>3, <1>4, <4>1
      <4>3. r[k+1] <= x
        BY <3>1, <4>1
      <4> QED
        BY <2>5, <4>2, <4>3
    <3>5. PICK p : p = k + (j - m)
      BY Zenon
    <3>6. p \in -1 .. Len(s) - 1 /\ p \in Int
      BY <1>5, <1>6, <3>2, <3>3, <3>4, <3>5
    <3>7. ASSUME NEW q \in 1 .. Len(s)
          PROVE  s[q] <= x <=> q - 1 <= p
      <4>1. CASE q <= j /\ s[q] = a
        BY <1>5, <2>5, <3>2, <3>3, <3>5, <4>1
      <4>2. CASE j < q /\ q - j + m <= n /\ q - j + m \in 1 .. Len(r) /\ s[q] = r[q - j + m]
        <5>1. PICK l : l = q - j + m
          BY Zenon
        <5>2. l \in 1 .. Len(r) /\ s[q] = r[l]
          BY <4>2, <5>1
        <5>3. s[q] <= x <=> l - 1 <= k
          BY <3>1, <5>2
        <5>4. l - 1 <= k <=> q - 1 <= p
          BY <1>5, <1>6, <3>2, <3>5, <5>1
        <5> QED
          BY <5>3, <5>4
      <4>3. CASE j < q /\ q - j + m = n + 1 /\ s[q] = b
        <5>1. ~ (q - 1 <= p)
          BY <1>5, <1>6, <3>2, <3>4, <3>5, <4>3
        <5> QED
          BY <2>5, <4>3, <5>1
      <4> QED
        BY <1>7, <4>1, <4>2, <4>3
    <3>8. iiv(s, x) = p
      BY <1>6, <3>6, <3>7, PositionIs
    <3>9. p % 2 = 0 <=> k % 2 = 0
      <4>1. PICK d : d = j - m
        BY Zenon
      <4>2. d \in Int /\ d % 2 = 0 /\ p = k + d
        BY <1>5, <3>5, <4>1
      <4>3. (k + d) % 2 = k % 2
        BY <3>2, <4>2
      <4> QED
        BY <4>2, <4>3
    <3> QED
      BY <2>1, <2>5, <3>1, <3>8, <3>9
  <2> QED
    BY <2>3, <2>4, <2>5
<1> QED
  BY <1>1, <1>2, <1>6, <1>10, <1>11

\* intersect is the intersection with [a;b[.
LEMMA IntersectElements ==
  ASSUME NEW r \in Seq(Int), Ordered(r), NEW a \in Int, NEW b \in Int, a <= b
  PROVE  Elements(intersect(r, a, b)) = Elements(r) \cap (a .. b - 1)
<1>1. /\ intersect(r, a, b) \in Seq(Int) /\ Len(intersect(r, a, b)) % 2 = 0 /\ Len(r) % 2 = 0
      /\ \A x \in Int : x \in Elements(intersect(r, a, b)) <=>
                          a <= x /\ x < b /\ x \in Elements(r)
  BY IntersectResult DEF Ordered
<1>2. \A x : (x \in Elements(intersect(r, a, b)) => x \in Int) /\ (x \in Elements(r) => x \in Int)
  BY <1>1, ElementsIff
<1>3. \A x : x \in a .. b - 1 <=> x \in Int /\ a <= x /\ x < b
  OBVIOUS
<1> QED
  BY <1>1, <1>2, <1>3

\* contains and findInterval answer about the set, on every ordered vector.
LEMMA MemberQueries ==
  ASSUME NEW r \in Seq(Int), Ordered(r), NEW v \in Int
  PROVE  /\ contains(r, v) <=> v \in Elements(r)
         /\ v \in Elements(r) =>
              v \in r[2 * findInterval(r, v) + 1] .. r[2 * findInterval(r, v) + 2] - 1
         /\ v \notin Elements(r) => findInterval(r, v) = -1
<1>1. PICK k : k = iiv(r, v)
  BY Zenon
<1>2. /\ k \in -1 .. Len(r) - 1
      /\ v \in Elements(r) <=> k % 2 = 0
      /\ v \in Elements(r) => /\ k + 1 \in 1 .. Len(r) /\ k + 2 \in 1 .. Len(r)
                              /\ r[k+1] <= v /\ v < r[k+2]
  BY <1>1, MemberPosition
<1>3. Len(r) \in Nat /\ \A i \in 1 .. Len(r) : r[i] \in Int
  BY LenProperties, ElementOfSeq
<1>4. contains(r, v) <=> v \in Elements(r)
  BY <1>1, <1>2 DEF contains
<1>5. findInterval(r, v) = IF k % 2 # 0 THEN -1 ELSE k \div 2
  BY <1>1 DEF findInterval
<1>6. ASSUME v \in Elements(r)
      PROVE  v \in r[2 * findInterval(r, v) + 1] .. r[2 * findInterval(r, v) + 2] - 1
  <2>1. PICK f : f = findInterval(r, v)
    BY Zenon
  <2>2. k \in Int /\ k % 2 = 0 /\ f = k \div 2
    BY <1>2, <1>3, <1>5, <1>6, <2>1
  <2>3. 2 * f + 1 = k + 1 /\ 2 * f + 2 = k + 2
    BY <2>2
  <2>4. r[k+1] \in Int /\ r[k+2] \in Int /\ r[k+1] <= v /\ v < r[k+2]
    BY <1>2, <1>3, <1>6
  <2> QED
    BY <2>1, <2>3, <2>4
<1> QED
  BY <1>2, <1>4, <1>5, <1>6

\* containsAll looks at the one range that holds the first integer; on canonical
\* vectors that is enough.
LEMMA RangeQuery ==
  ASSUME NEW r \in Seq(Int), Canonical(r), NEW v \in Int, NEW w \in Int, v < w
  PROVE  containsAll(r, v, w) <=> v .. w - 1 \subseteq Elements(r)
<1>0. Ordered(r)
  BY CanonicalOrdered
<1>1. PICK k : k = iiv(r, v)
  BY Zenon
<1>2. /\ k \in -1 .. Len(r) - 1
      /\ v \in Elements(r) <=> k % 2 = 0
      /\ v \in Elements(r) => /\ k + 1 \in 1 .. Len(r) /\ k + 2 \in 1 .. Len(r)
                              /\ r[k+1] <= v /\ v < r[k+2]
  BY <1>0, <1>1, MemberPosition
<1>3. Len(r) \in Nat /\ (\A i \in 1 .. Len(r) : r[i] \in Int) /\ Len(r) % 2 = 0
  BY LenProperties, ElementOfSeq DEF Canonical
<1>4. containsAll(r, v, w) <=> k % 2 = 0 /\ w <= r[k+2]
  BY <1>1 DEF containsAll
<1>5. ASSUME k % 2 = 0, w <= r[k+2], NEW x \in v .. w - 1
      PROVE  x \in Elements(r)
  <2>1. PICK i : i = k + 1
    BY Zenon
  <2>2. k \in Int /\ i \in 1 .. Len(r) /\ i % 2 = 1 /\ i + 1 = k + 2
    BY <1>2, <1>3, <1>5, <2>1
  <2>3. r[i] \in Int /\ r[i+1] \in Int /\ r[i] <= v /\ w <= r[i+1]
    BY <1>2, <1>3, <1>5, <2>1, <2>2
  <2>4. x \in Int /\ r[i] <= x /\ x < r[i+1]
    BY <2>3
  <2> QED
    BY <1>3, <2>2, <2>4, ElementsIff
<1>6. ASSUME v .. w - 1 \subseteq Elements(r)
      PROVE  k % 2 = 0 /\ w <= r[k+2]
  <2>1. v \in Elements(r)
    BY <1>6
  <2>2. k \in Int /\ k % 2 = 0 /\ k + 2 \in 1 .. Len(r) /\ r[k+2] \in Int /\ v < r[k+2]
    BY <1>2, <1>3, <2>1
  <2> SUFFICES ASSUME r[k+2] < w
               PROVE  FALSE
    BY <2>2
  <2>3. PICK x : x = r[k+2]
    BY Zenon
  <2>4. x \in Int /\ x \in Elements(r)
    BY <1>6, <2>2, <2>3
  <2>5. PICK l : l = iiv(r, x)
    BY Zenon
  <2>6. /\ \A i \in 1 .. Len(r) : r[i] <= x <=> i - 1 <= l
        /\ l \in -1 .. Len(r) - 1 /\ l % 2 = 0
    BY <1>0, <2>4, <2>5, MemberPosition
  <2>7. l \in Int /\ l <= Len(r) - 1
    BY <1>3, <2>6
  <2>8. (k + 2) - 1 <= l
    BY <2>2, <2>3, <2>6
  <2>9. k + 2 <= l
    BY <2>2, <2>6, <2>7, <2>8
  <2>10. k + 2 \in 1 .. Len(r) - 1 /\ (k + 2) + 1 \in 1 .. Len(r) /\ ((k + 2) + 1) - 1 <= l
    BY <1>3, <2>2, <2>7, <2>9, SMTT(30)
  <2>11. r[(k + 2) + 1] <= x
    BY <2>6, <2>10
  <2>12. r[k+2] < r[(k + 2) + 1] /\ r[(k + 2) + 1] \in Int
    BY <1>3, <2>10 DEF Canonical
  <2> QED
    BY <2>2, <2>3, <2>11, <2>12
<1> QED
  BY <1>4, <1>5, <1>6

----------------------------------------------------------------------------
(* append of a whole vector, range by range.                               *)

LEMMA AppendStepsAre ==
  ASSUME NEW r, NEW other \in Seq(Int)
  PROVE  LET after == appendSteps(r, other)
         IN  /\ after[0] = r
             /\ \A n \in 1 .. Len(other) \div 2 :
                  after[n] = append(after[n-1], other[2*n-1], other[2*n])
<1> DEFINE Step(f, n) == IF n = 0 THEN r ELSE append(f[n-1], other[2*n-1], other[2*n])
           S == { k \in Nat : \E f : f = [ n \in 0 .. k |-> Step(f, n) ] }
           N == Len(other) \div 2
<1>1. 0 \in S
  <2> DEFINE f == [ n \in 0 .. 0 |-> r ]
  <2>1. f = [ n \in 0 .. 0 |-> Step(f, n) ]
    OBVIOUS
  <2> HIDE DEF f
  <2> QED
    BY <2>1
<1>2. ASSUME NEW k \in Nat, k \in S
      PROVE  k + 1 \in S
  <2>1. PICK f : f = [ n \in 0 .. k |-> Step(f, n) ]
    BY <1>2
  <2> DEFINE g == [ n \in 0 .. k + 1 |-> Step(f, n) ]
  <2>2. \A n \in 0 .. k : g[n] = f[n]
    <3> HIDE DEF Step
    <3> QED
      BY <2>1
  <2>3. ASSUME NEW n \in 0 .. k + 1
        PROVE  Step(f, n) = Step(g, n)
    <3>1. CASE n = 0
      BY <3>1
    <3>2. CASE n # 0
      <4>1. n - 1 \in 0 .. k
        BY <3>2
      <4>2. g[n-1] = f[n-1]
        BY <2>2, <4>1
      <4> HIDE DEF g
      <4> QED
        BY <3>2, <4>2
    <3> QED
      BY <3>1, <3>2
  <2>4. g = [ n \in 0 .. k + 1 |-> Step(g, n) ]
    <3> HIDE DEF Step
    <3> QED
      BY <2>3
  <2> HIDE DEF g, Step
  <2> QED
    BY <2>4
<1>3. N \in Nat
  BY LenProperties
<1>4. N \in S
  <2> HIDE DEF S, N
  <2> QED
    BY <1>1, <1>2, <1>3, NatSetInduction
<1>5. \E f : f = [ n \in 0 .. N |-> Step(f, n) ]
  BY <1>4
<1> DEFINE after == CHOOSE f : f = [ n \in 0 .. N |-> Step(f, n) ]
<1>6. after = [ n \in 0 .. N |-> Step(after, n) ]
  <2> HIDE DEF Step, N
  <2> QED
    BY <1>5
<1>7. appendSteps(r, other) = after
  BY DEF appendSteps
<1> HIDE DEF after
<1>8. after[0] = r
  BY <1>3, <1>6
<1>9. ASSUME NEW n \in 1 .. N
      PROVE  after[n] = append(after[n-1], other[2*n-1], other[2*n])
  <2>1. n \in 0 .. N /\ n # 0
    BY <1>3
  <2> HIDE DEF N
  <2> QED
    BY <1>6, <2>1
<1> QED
  BY <1>7, <1>8, <1>9


\* The non-empty ranges of a vector that need not be ordered begin in ascending order.
StartsAscend(other) ==
  /\ Len(other) % 2 = 0
  /\ \A i, j \in 1 .. Len(other) \div 2 :
       i < j /\ other[2*i-1] < other[2*i] /\ other[2*j-1] < other[2*j]
         => other[2*i-1] <= other[2*j-1]

\* The last range of a canonical vector is not empty.
LEMMA LastRange ==
  ASSUME NEW r \in Seq(Int), Canonical(r), r # << >>
  PROVE  /\ r[Len(r) - 1] \in Elements(r) /\ Last(r) - 1 \in Elements(r)
         /\ r[Len(r) - 1] \in Int /\ Last(r) \in Int
<1>1. Len(r) \in Nat /\ Len(r) % 2 = 0 /\ Len(r) # 0 /\ \A i \in 1 .. Len(r) : r[i] \in Int
  BY LenProperties, EmptySeq, ElementOfSeq DEF Canonical
<1> DEFINE k == Len(r) - 1
<1>2. k \in 1 .. Len(r) - 1 /\ k \in 1 .. Len(r) /\ k % 2 = 1 /\ k + 1 = Len(r) /\ k + 1 \in 1 .. Len(r)
  BY <1>1
<1>3. r[k] < r[k+1] /\ r[k] \in Int /\ r[k+1] \in Int
  BY <1>1, <1>2 DEF Canonical
<1> HIDE DEF k
<1>4. ASSUME NEW v \in Int, r[k] <= v, v < r[k+1]
      PROVE  v \in Elements(r)
  BY <1>1, <1>2, <1>4, ElementsIff
<1>5. r[k] \in Elements(r)
  BY <1>3, <1>4
<1>6. r[k+1] - 1 \in Elements(r)
  <2>1. r[k+1] - 1 \in Int /\ r[k] <= r[k+1] - 1 /\ r[k+1] - 1 < r[k+1]
    BY <1>3
  <2> QED
    BY <1>4, <2>1
<1> QED
  BY <1>2, <1>3, <1>5, <1>6 DEF k, Last

\* Every vector of pairs is read range by range.
LEMMA RangesIff ==
  ASSUME NEW r \in Seq(Int), Len(r) % 2 = 0
  PROVE  \A v : v \in Elements(r) <=>
           v \in Int /\ \E n \in 1 .. Len(r) \div 2 : r[2*n-1] <= v /\ v < r[2*n]
<1> DEFINE N == Len(r) \div 2
<1>1. Len(r) \in Nat /\ N \in Nat /\ Len(r) = 2 * N
  BY LenProperties
<1> HIDE DEF N
<1>2. ASSUME NEW v \in Int, NEW n \in 1 .. N, r[2*n-1] <= v, v < r[2*n]
      PROVE  \E j \in 1 .. Len(r) : j % 2 = 1 /\ r[j] <= v /\ v < r[j+1]
  <2>1. 2*n - 1 \in 1 .. Len(r) /\ (2*n - 1) % 2 = 1 /\ (2*n - 1) + 1 = 2*n
    BY <1>1
  <2> QED
    BY <1>2, <2>1
<1>3. ASSUME NEW v \in Int, NEW j \in 1 .. Len(r), j % 2 = 1, r[j] <= v, v < r[j+1]
      PROVE  \E n \in 1 .. N : r[2*n-1] <= v /\ v < r[2*n]
  <2> DEFINE n == (j + 1) \div 2
  <2>1. j \in Nat /\ j >= 1 /\ j <= 2 * N /\ j % 2 = 1
    BY <1>1, <1>3
  <2>2. n \in 1 .. N /\ 2*n - 1 = j /\ 2*n = j + 1
    BY <1>1, <2>1
  <2> HIDE DEF n
  <2> QED
    BY <1>3, <2>2
<1> QED
  BY <1>2, <1>3, ElementsIff DEF N

\* Appending such a vector to a canonical one with smaller elements: no assertion
\* fails, and the result is the canonical vector of the union.
LEMMA AppendAllResult ==
  ASSUME NEW r \in Seq(Int), Canonical(r), NEW other \in Seq(Int), StartsAscend(other),
         \A x \in Elements(r) : \A y \in Elements(other) : x < y
  PROVE  /\ appendAllAssert(r, other)
         /\ appendAll(r, other) \in Seq(Int) /\ Canonical(appendAll(r, other))
         /\ Elements(appendAll(r, other)) = Elements(r) \cup Elements(other)
<1> DEFINE N == Len(other) \div 2
           after == appendSteps(r, other)
           Here(s, n) ==
             /\ s \in Seq(Int) /\ Canonical(s)
             /\ s # << >> => \A j \in 1 .. N :
                  n < j /\ other[2*j-1] < other[2*j] => s[Len(s) - 1] <= other[2*j-1]
             /\ \A x \in Int : x \in Elements(s) <=>
                  x \in Elements(r) \/ \E i \in 1 .. n : other[2*i-1] <= x /\ x < other[2*i]
           S == { n \in Nat : n <= N => Here(after[n], n) }
<1>1. /\ Len(other) \in Nat /\ Len(other) % 2 = 0 /\ N \in Nat /\ Len(other) = 2 * N
      /\ \A j \in 1 .. N : other[2*j-1] \in Int /\ other[2*j] \in Int
      /\ \A i, j \in 1 .. N : i < j /\ other[2*i-1] < other[2*i] /\ other[2*j-1] < other[2*j]
           => other[2*i-1] <= other[2*j-1]
  <2>1. Len(other) \in Nat /\ Len(other) % 2 = 0 /\ \A i \in 1 .. Len(other) : other[i] \in Int
    BY LenProperties, ElementOfSeq DEF StartsAscend
  <2>2. N \in Nat /\ Len(other) = 2 * N
    BY <2>1
  <2>3. \A j \in 1 .. N : 2*j - 1 \in 1 .. Len(other) /\ 2*j \in 1 .. Len(other)
    <3> HIDE DEF N
    <3> QED
      BY <2>2
  <2> QED
    BY <2>1, <2>2, <2>3 DEF StartsAscend
<1>2. /\ after[0] = r
      /\ \A n \in 1 .. N : after[n] = append(after[n-1], other[2*n-1], other[2*n])
  BY AppendStepsAre
<1>11. \A v : v \in Elements(other) <=>
         v \in Int /\ \E n \in 1 .. N : other[2*n-1] <= v /\ v < other[2*n]
  BY <1>1, RangesIff
<1> HIDE DEF N, after
<1>3. 0 \in S
  <2>1. ASSUME r # << >>, NEW j \in 1 .. N, other[2*j-1] < other[2*j]
        PROVE  r[Len(r) - 1] <= other[2*j-1]
    <3>1. other[2*j-1] \in Elements(other) /\ other[2*j-1] \in Int
      BY <1>1, <1>11, <2>1
    <3>2. r[Len(r) - 1] \in Elements(r) /\ r[Len(r) - 1] \in Int
      BY <2>1, LastRange
    <3>3. r[Len(r) - 1] < other[2*j-1]
      BY <3>1, <3>2
    <3> QED
      BY <3>1, <3>2, <3>3
  <2>2. Here(r, 0)
    <3>1. \A i \in 1 .. 0 : FALSE
      OBVIOUS
    <3> QED
      BY <2>1, <3>1
  <2> HIDE DEF Here
  <2> QED
    BY <1>2, <2>2
<1>4. ASSUME NEW n \in Nat, n < N, Here(after[n], n)
      PROVE  /\ appendAssert(after[n], other[2*(n+1)-1], other[2*(n+1)])
             /\ Here(after[n+1], n + 1)
  <2> DEFINE s == after[n]
             t == after[n+1]
             v1 == other[2*(n+1)-1]
             v2 == other[2*(n+1)]
  <2>1. n + 1 \in 1 .. N /\ (n + 1) - 1 = n /\ n < n + 1
    BY <1>1, <1>4
  <2>2. v1 \in Int /\ v2 \in Int
    BY <1>1, <2>1
  <2>3. t = append(s, v1, v2)
    BY <1>2, <2>1
  <2>4. s \in Seq(Int) /\ Canonical(s) /\ (s # << >> /\ v1 < v2 => s[Len(s) - 1] <= v1)
    BY <1>4, <2>1
  <2>5. appendAssert(s, v1, v2)
    BY <2>2, <2>4 DEF appendAssert
  <2>6. v1 < v2 => \A j \in 1 .. N : n + 1 < j /\ other[2*j-1] < other[2*j] => v1 <= other[2*j-1]
    BY <1>1, <2>1
  <2>7. \A x \in Int : x \in Elements(s) <=>
          x \in Elements(r) \/ \E i \in 1 .. n : other[2*i-1] <= x /\ x < other[2*i]
    BY <1>4
  <2>8. s # << >> => \A j \in 1 .. N :
          n + 1 < j /\ other[2*j-1] < other[2*j] => s[Len(s) - 1] <= other[2*j-1]
    <3>1. \A j \in 1 .. N : n + 1 < j => n < j
      BY <1>1, <1>4
    <3>2. s # << >> => \A j \in 1 .. N :
            n < j /\ other[2*j-1] < other[2*j] => s[Len(s) - 1] <= other[2*j-1]
      BY <1>4
    <3> QED
      BY <3>1, <3>2
  <2> HIDE DEF s, t, v1, v2, Here
  <2>10. t \in Seq(Int) /\ Canonical(t)
    BY <2>2, <2>3, <2>4, <2>5, AppendType, AppendCanonical
  <2>11. Elements(t) = Elements(s) \cup (v1 .. v2 - 1)
    BY <2>2, <2>3, <2>4, <2>5, CanonicalOrdered, AppendElements
  <2>12. \A x \in Int : x \in Elements(t) <=>
           x \in Elements(r) \/ \E i \in 1 .. n + 1 : other[2*i-1] <= x /\ x < other[2*i]
    <3> SUFFICES ASSUME NEW x \in Int
                 PROVE  x \in Elements(t) <=>
                          x \in Elements(r) \/ \E i \in 1 .. n + 1 : other[2*i-1] <= x /\ x < other[2*i]
      OBVIOUS
    <3>1. x \in Elements(t) <=> x \in Elements(s) \/ (v1 <= x /\ x < v2)
      BY <2>2, <2>11
    <3>2. \A i : i \in 1 .. n + 1 <=> i \in 1 .. n \/ i = n + 1
      BY <1>4
    <3> QED
      BY <2>7, <3>1, <3>2 DEF v1, v2
  <2>13. \/ t = s
         \/ Len(s) \in Nat /\ Len(s) >= 2 /\ Len(t) = Len(s) /\ t[Len(t) - 1] = s[Len(s) - 1]
         \/ v1 < v2 /\ Len(t) \in Nat /\ t[Len(t) - 1] = v1
    <3>1. Len(s) \in Nat /\ Len(s) % 2 = 0 /\ (s # << >> => Len(s) # 0)
      BY <2>4, LenProperties, EmptySeq DEF Canonical
    <3>2. s # << >> => Len(s) >= 2 /\ Len(s) - 1 \in 1 .. Len(s) - 1
      BY <3>1
    <3>3. \/ t = s
          \/ s # << >> /\ Len(t) = Len(s) /\ (\A i \in 1 .. Len(s) - 1 : t[i] = s[i])
          \/ v1 < v2 /\ Len(t) = Len(s) + 2 /\ t[Len(s) + 1] = v1
      BY <2>2, <2>3, <2>4, AppendCases
    <3>4. ASSUME Len(t) = Len(s) + 2
          PROVE  Len(t) - 1 = Len(s) + 1 /\ Len(t) \in Nat
      BY <3>1, <3>4
    <3> QED
      BY <3>1, <3>2, <3>3, <3>4
  <2>14. t # << >> => \A j \in 1 .. N :
           n + 1 < j /\ other[2*j-1] < other[2*j] => t[Len(t) - 1] <= other[2*j-1]
    <3>1. CASE t = s
      BY <2>8, <3>1
    <3>2. CASE Len(s) \in Nat /\ Len(s) >= 2 /\ Len(t) = Len(s) /\ t[Len(t) - 1] = s[Len(s) - 1]
      <4>1. s # << >>
        BY <3>2
      <4> QED
        BY <2>8, <3>2, <4>1
    <3>3. CASE v1 < v2 /\ t[Len(t) - 1] = v1
      BY <2>6, <3>3
    <3> QED
      BY <2>13, <3>1, <3>2, <3>3
  <2>16. Here(t, n + 1)
    BY <2>10, <2>12, <2>14 DEF Here
  <2> QED
    BY <2>5, <2>16 DEF s, t, v1, v2
<1>5. ASSUME NEW n \in Nat, n \in S
      PROVE  n + 1 \in S
  <2>1. CASE n + 1 <= N
    <3>1. n < N
      BY <1>1, <2>1
    <3>2. n <= N
      BY <1>1, <3>1
    <3> HIDE DEF Here
    <3>3. Here(after[n], n)
      BY <1>5, <3>2
    <3>4. Here(after[n+1], n + 1)
      BY <1>4, <3>1, <3>3
    <3> QED
      BY <3>4
  <2>2. CASE ~ (n + 1 <= N)
    BY <2>2
  <2> QED
    BY <2>1, <2>2
<1>6. \A n \in Nat : n <= N => Here(after[n], n)
  <2>1. \A n \in Nat : n \in S
    <3> HIDE DEF S
    <3> QED
      BY <1>3, <1>5, NatSetInduction
  <2> HIDE DEF Here
  <2> QED
    BY <2>1
<1>7. appendAllAssert(r, other)
  <2> SUFFICES ASSUME NEW n \in 1 .. N
               PROVE  appendAssert(after[n-1], other[2*n-1], other[2*n])
    BY DEF appendAllAssert, after, N
  <2>1. n - 1 \in Nat /\ n - 1 < N /\ n - 1 <= N /\ (n - 1) + 1 = n
    BY <1>1
  <2> HIDE DEF Here
  <2>2. Here(after[n-1], n - 1)
    BY <1>6, <2>1
  <2>3. appendAssert(after[n-1], other[2*((n-1)+1)-1], other[2*((n-1)+1)])
    BY <1>4, <2>1, <2>2
  <2> QED
    BY <2>1, <2>3
<1>8. appendAll(r, other) = after[N]
  BY DEF appendAll, after, N
<1>9. Here(after[N], N)
  <2> HIDE DEF Here
  <2> QED
    BY <1>1, <1>6
<1>10. Elements(appendAll(r, other)) = Elements(r) \cup Elements(other)
  <2> DEFINE s == appendAll(r, other)
  <2>1. \A x \in Int : x \in Elements(s) <=>
          x \in Elements(r) \/ \E i \in 1 .. N : other[2*i-1] <= x /\ x < other[2*i]
    BY <1>8, <1>9
  <2>2. s \in Seq(Int) /\ Canonical(s)
    BY <1>8, <1>9
  <2>3. Len(s) % 2 = 0 /\ Len(r) % 2 = 0
    BY <2>2 DEF Canonical
  <2> HIDE DEF s
  <2>4. \A x : x \in Elements(s) \/ x \in Elements(r) => x \in Int
    BY <2>2, <2>3, ElementsIff
  <2> QED
    BY <1>11, <2>1, <2>4 DEF s
<1> QED
  BY <1>7, <1>8, <1>9, <1>10

\* An ordered vector begins its ranges in ascending order.
LEMMA OrderedStarts ==
  ASSUME NEW r \in Seq(Int), Ordered(r)
  PROVE  StartsAscend(r)
<1> DEFINE N == Len(r) \div 2
<1>1. Len(r) \in Nat /\ Len(r) % 2 = 0 /\ N \in Nat /\ Len(r) = 2 * N
  BY LenProperties DEF Ordered
<1>2. ASSUME NEW i \in 1 .. N, NEW j \in 1 .. N, i < j
      PROVE  r[2*i-1] <= r[2*j-1]
  <2> HIDE DEF N
  <2>1. 2*i - 1 \in 1 .. Len(r) /\ 2*j - 1 \in 1 .. Len(r) /\ 2*i - 1 <= 2*j - 1
    BY <1>1, <1>2
  <2> QED
    BY <2>1, AscendingPairs DEF Ordered, Ascending
<1> QED
  BY <1>1, <1>2 DEF StartsAscend

----------------------------------------------------------------------------
(* Natural numbers.                                                        *)

LEMMA LeastOfNats ==
  ASSUME NEW T \in SUBSET Nat, T # {}
  PROVE  \E x \in T : \A y \in T : x <= y
<1>1. PICK x \in T : \A y \in T : ~ (<< y, x >> \in OpToRel(<, Nat))
  BY NatLessThanWellFounded, WFMin
<1>2. \A y \in T : ~ (y < x)
  BY <1>1 DEF OpToRel
<1>3. \A y \in T : x <= y
  BY <1>2
<1> QED
  BY <1>3

\* The same for integers with a bound.
LEMMA LeastOfInts ==
  ASSUME NEW T \in SUBSET Int, T # {}, NEW bound \in Int, \A x \in T : bound <= x
  PROVE  \E x \in T : \A y \in T : x <= y
<1> DEFINE U == { x - bound : x \in T }
<1>1. U \in SUBSET Nat /\ U # {}
  <2>1. \A x \in T : x - bound \in Nat
    OBVIOUS
  <2>2. U \subseteq Nat
    BY <2>1
  <2>3. PICK x : x \in T
    OBVIOUS
  <2>4. x - bound \in U
    BY <2>3
  <2> QED
    BY <2>2, <2>4
<1>2. PICK u \in U : \A y \in U : u <= y
  <2> HIDE DEF U
  <2> QED
    BY <1>1, LeastOfNats
<1>3. PICK x \in T : u = x - bound
  BY <1>2
<1>4. \A y \in T : x <= y
  BY <1>2, <1>3
<1> QED
  BY <1>4

LEMMA GreatestOfInts ==
  ASSUME NEW T \in SUBSET Int, T # {}, NEW bound \in Int, \A x \in T : x <= bound
  PROVE  \E x \in T : \A y \in T : y <= x
<1> DEFINE U == { bound - x : x \in T }
<1>1. U \in SUBSET Nat /\ U # {}
  <2>1. \A x \in T : bound - x \in Nat
    OBVIOUS
  <2>2. U \subseteq Nat
    BY <2>1
  <2>3. PICK x : x \in T
    OBVIOUS
  <2>4. bound - x \in U
    BY <2>3
  <2> QED
    BY <2>2, <2>4
<1>2. PICK u \in U : \A y \in U : u <= y
  <2> HIDE DEF U
  <2> QED
    BY <1>1, LeastOfNats
<1>3. PICK x \in T : u = bound - x
  BY <1>2
<1>4. \A y \in T : y <= x
  BY <1>2, <1>3, SMTT(30)
<1> QED
  BY <1>4

\* The root that is taken is the root: isqrt of a number has it between two squares.
LEMMA RootIs ==
  ASSUME NEW a \in Nat
  PROVE  isqrt(a) \in Nat /\ isqrt(a) * isqrt(a) <= a /\ a < (isqrt(a) + 1) * (isqrt(a) + 1)
<1> DEFINE T == { n \in Nat : a < (n + 1) * (n + 1) }
           P(n) == n * n <= a /\ a < (n + 1) * (n + 1)
<1>1. a \in T
  <2>1. (a + 1) * (a + 1) = a * a + 2 * a + 1 /\ a * a \in Nat
    OBVIOUS
  <2> QED
    BY <2>1
<1>2. T \in SUBSET Nat
  OBVIOUS
<1> HIDE DEF T
<1>3. PICK n \in T : \A y \in T : n <= y
  BY <1>1, <1>2, LeastOfNats
<1>4. n \in Nat /\ a < (n + 1) * (n + 1)
  BY <1>3 DEF T
<1>5. n * n <= a
  <2>1. CASE n = 0
    BY <2>1
  <2>2. CASE n # 0
    <3>1. n - 1 \in Nat /\ ~ (n <= n - 1) /\ (n - 1) + 1 = n
      BY <1>4, <2>2
    <3>2. n - 1 \notin T
      BY <1>3, <3>1
    <3>3. ~ (a < n * n)
      BY <3>1, <3>2 DEF T
    <3> QED
      BY <1>4, <3>3
  <2> QED
    BY <2>1, <2>2
<1>6. n \in 0 .. a + 1
  BY <1>1, <1>3, <1>4
<1>7. \E k \in 0 .. a + 1 : P(k)
  BY <1>4, <1>5, <1>6
<1>8. isqrt(a) = CHOOSE k \in 0 .. a + 1 : P(k)
  BY DEF isqrt
<1>9. isqrt(a) \in 0 .. a + 1 /\ P(isqrt(a))
  <2> HIDE DEF P
  <2> QED
    BY <1>7, <1>8
<1> QED
  BY <1>9

\* Squares grow.
LEMMA SquaresGrow ==
  ASSUME NEW x \in Nat, NEW y \in Nat
  PROVE  /\ x * x \in Nat
         /\ x <= y <=> x * x <= y * y
         /\ x < y <=> x * x < y * y
<1>1. ASSUME NEW p \in Nat, NEW q \in Nat, p < q
      PROVE  p * p < q * q
  <2> DEFINE d == q - p
  <2>1. d \in Nat \ {0} /\ q = p + d
    BY <1>1
  <2> HIDE DEF d
  <2>2. q * q = p * p + 2 * (p * d) + d * d
    BY <2>1
  <2>3. p * d \in Nat /\ d * d \in Nat /\ d * d > 0 /\ p * p \in Nat
    BY <2>1
  <2> QED
    BY <2>2, <2>3
<1>2. x * x \in Nat /\ y * y \in Nat
  OBVIOUS
<1> QED
  BY <1>1, <1>2

----------------------------------------------------------------------------
(* The rings follow each other.                                            *)

\* The pixels of a ring, which may be ring 4*nside: there are none behind it.
FirstOf(b, ring) == get_ring_info_small(b, ring).startpix
Length(b, ring) == get_ring_info_small(b, ring).ringpix

LEMMA RingFields ==
  ASSUME NEW b, NEW ring
  PROVE  /\ ring < b.nside =>
              FirstOf(b, ring) = 2 * ring * (ring - 1) /\ Length(b, ring) = 4 * ring
         /\ ~ (ring < b.nside) /\ ring < 3 * b.nside =>
              /\ FirstOf(b, ring) = ncap(b) + (ring - b.nside) * 4 * b.nside
              /\ Length(b, ring) = 4 * b.nside
         /\ ~ (ring < b.nside) /\ ~ (ring < 3 * b.nside) =>
              /\ FirstOf(b, ring) = npix(b) - 2 * (4 * b.nside - ring) * ((4 * b.nside - ring) + 1)
              /\ Length(b, ring) = 4 * (4 * b.nside - ring)
BY DEF FirstOf, Length, get_ring_info_small

\* The borders of the polar caps, and the ends.
LEMMA Borders ==
  ASSUME NEW b, b.nside \in Nat \ {0}
  PROVE  /\ npface(b) \in Nat \ {0} /\ ncap(b) \in Nat /\ npix(b) \in Nat \ {0}
         /\ ncap(b) <= npix(b) - ncap(b) /\ ncap(b) <= npix(b)
         /\ b.nside <= npface(b)
         /\ FirstOf(b, 1) = 0 /\ FirstOf(b, 4 * b.nside) = npix(b)
         /\ FirstOf(b, b.nside) = ncap(b)
         /\ FirstOf(b, 3 * b.nside) = npix(b) - ncap(b) - 4 * b.nside
<1> DEFINE n == b.nside
<1>1. n \in Nat /\ n >= 1 /\ n * n \in Nat /\ n * n >= n
  OBVIOUS
<1>2. ncap(b) = 2 * (n * n) - 2 * n /\ npix(b) = 12 * (n * n) /\ npface(b) = n * n
  BY <1>1 DEF ncap, npix, npface
<1>3. FirstOf(b, 1) = 0
  <2>1. CASE 1 < n
    BY <2>1, RingFields
  <2>2. CASE ~ (1 < n)
    <3>1. n = 1
      BY <1>1, <2>2
    <3> QED
      BY <1>2, <3>1, RingFields
  <2> QED
    BY <2>1, <2>2
<1>4. FirstOf(b, 4 * n) = npix(b)
  <2>1. ~ (4 * n < n) /\ ~ (4 * n < 3 * n) /\ 4 * n - 4 * n = 0
    BY <1>1
  <2> QED
    BY <1>2, <2>1, RingFields
<1>5. FirstOf(b, n) = ncap(b)
  <2>1. ~ (n < n) /\ n < 3 * n /\ n - n = 0
    BY <1>1
  <2> QED
    BY <1>1, <1>2, <2>1, RingFields
<1>6. FirstOf(b, 3 * n) = npix(b) - ncap(b) - 4 * n
  <2>1. ~ (3 * n < n) /\ ~ (3 * n < 3 * n) /\ 4 * n - 3 * n = n
    BY <1>1
  <2>2. FirstOf(b, 3 * n) = npix(b) - 2 * n * (n + 1)
    BY <2>1, RingFields
  <2>3. 2 * n * (n + 1) = 2 * (n * n) + 2 * n
    BY <1>1
  <2> QED
    BY <1>1, <1>2, <2>2, <2>3
<1> QED
  BY <1>1, <1>2, <1>3, <1>4, <1>5, <1>6

\* Each ring begins where the one to the north of it ends.
LEMMA RingsTouch ==
  ASSUME NEW b, b.nside \in Nat \ {0}, NEW ring \in 1 .. 4 * b.nside - 1
  PROVE  /\ FirstOf(b, ring) \in Nat
         /\ Length(b, ring) \in Nat /\ 4 <= Length(b, ring) /\ Length(b, ring) <= 4 * b.nside
         /\ Length(b, ring) % 4 = 0
         /\ FirstOf(b, ring) + Length(b, ring) = FirstOf(b, ring + 1)
<1> DEFINE n == b.nside
           N == n * n
<1>1. n \in Nat /\ n >= 1 /\ N \in Nat /\ N >= n /\ ring \in Nat /\ ring >= 1 /\ ring < 4 * n
  OBVIOUS
<1>2. ncap(b) = 2 * N - 2 * n /\ npix(b) = 12 * N
  BY <1>1 DEF ncap, npix, npface
<1>3. CASE ring < n
  <2>1. FirstOf(b, ring) = 2 * ring * (ring - 1) /\ Length(b, ring) = 4 * ring
    BY <1>3, RingFields
  <2>2. 2 * ring * (ring - 1) \in Nat /\ 2 * ring * (ring - 1) + 4 * ring = 2 * (ring + 1) * ring
    BY <1>1
  <2>3. FirstOf(b, ring + 1) = 2 * (ring + 1) * ring
    <3>1. CASE ring + 1 < n
      <4>1. (ring + 1) - 1 = ring
        BY <1>1
      <4> QED
        BY <3>1, <4>1, RingFields
    <3>2. CASE ~ (ring + 1 < n)
      <4>1. ring + 1 = n /\ ring = n - 1
        BY <1>1, <1>3, <3>2
      <4>2. FirstOf(b, ring + 1) = ncap(b)
        BY <4>1, Borders
      <4>3. 2 * n * (n - 1) = 2 * N - 2 * n
        BY <1>1
      <4> QED
        BY <1>2, <4>1, <4>2, <4>3
    <3> QED
      BY <3>1, <3>2
  <2>4. Length(b, ring) \in Nat /\ 4 <= Length(b, ring) /\ Length(b, ring) <= 4 * n /\ Length(b, ring) % 4 = 0
    BY <1>1, <1>3, <2>1
  <2> QED
    BY <2>1, <2>2, <2>3, <2>4
<1>4. CASE ~ (ring < n) /\ ring < 3 * n
  <2>1. FirstOf(b, ring) = ncap(b) + (ring - n) * 4 * n /\ Length(b, ring) = 4 * n
    BY <1>4, RingFields
  <2>2. (ring - n) * 4 * n \in Nat /\ (ring - n) * 4 * n + 4 * n = ((ring + 1) - n) * 4 * n
    BY <1>1, <1>4
  <2>3. FirstOf(b, ring + 1) = ncap(b) + ((ring + 1) - n) * 4 * n
    <3>1. CASE ring + 1 < 3 * n
      <4>1. ~ (ring + 1 < n)
        BY <1>1, <1>4
      <4> QED
        BY <3>1, <4>1, RingFields
    <3>2. CASE ~ (ring + 1 < 3 * n)
      <4>1. ring + 1 = 3 * n /\ (ring + 1) - n = 2 * n
        BY <1>1, <1>4, <3>2
      <4>2. FirstOf(b, ring + 1) = npix(b) - ncap(b) - 4 * n
        BY <4>1, Borders
      <4>3. (2 * n) * 4 * n = 8 * N
        BY <1>1
      <4> QED
        BY <1>1, <1>2, <4>1, <4>2, <4>3
    <3> QED
      BY <3>1, <3>2
  <2>4. ncap(b) \in Nat /\ ncap(b) + (ring - n) * 4 * n \in Nat
    BY <2>2, Borders
  <2>5. Length(b, ring) \in Nat /\ 4 <= Length(b, ring) /\ Length(b, ring) <= 4 * n /\ Length(b, ring) % 4 = 0
    BY <1>1, <2>1
  <2> QED
    BY <2>1, <2>2, <2>3, <2>4, <2>5
<1>5. CASE ~ (ring < n) /\ ~ (ring < 3 * n)
  <2> DEFINE nr == 4 * n - ring
  <2>0. nr \in Nat /\ nr >= 1 /\ nr <= n /\ 4 * n - (ring + 1) = nr - 1
    BY <1>1, <1>5
  <2>1. FirstOf(b, ring) = npix(b) - 2 * nr * (nr + 1) /\ Length(b, ring) = 4 * nr
    BY <1>5, RingFields
  <2>2. ~ (ring + 1 < n) /\ ~ (ring + 1 < 3 * n)
    BY <1>1, <1>5
  <2>3. FirstOf(b, ring + 1) = npix(b) - 2 * (nr - 1) * ((nr - 1) + 1)
    BY <2>0, <2>2, RingFields
  <2> HIDE DEF nr
  <2>4. /\ 2 * nr * (nr + 1) = 2 * (nr * nr) + 2 * nr
        /\ 2 * (nr - 1) * ((nr - 1) + 1) = 2 * (nr * nr) - 2 * nr
        /\ nr * nr \in Nat
    BY <2>0
  <2>5. nr * nr <= N
    BY <1>1, <2>0, SquaresGrow
  <2>6. FirstOf(b, ring) \in Nat
    <3> HIDE DEF N
    <3> QED
      BY <1>1, <1>2, <2>0, <2>1, <2>4, <2>5
  <2>7. Length(b, ring) \in Nat /\ 4 <= Length(b, ring) /\ Length(b, ring) <= 4 * n /\ Length(b, ring) % 4 = 0
    BY <1>1, <2>0, <2>1
  <2>8. FirstOf(b, ring) + Length(b, ring) = FirstOf(b, ring + 1)
    <3> HIDE DEF N
    <3> QED
      BY <1>1, <1>2, <2>0, <2>1, <2>3, <2>4
  <2> QED
    BY <2>6, <2>7, <2>8
<1> QED
  BY <1>3, <1>4, <1>5


\* So the rings ascend.
LEMMA RingsAscend ==
  ASSUME NEW b, b.nside \in Nat \ {0},
         NEW ring \in 1 .. 4 * b.nside - 1, NEW south \in 1 .. 4 * b.nside, ring < south
  PROVE  FirstOf(b, south) \in Nat /\ FirstOf(b, ring) + Length(b, ring) <= FirstOf(b, south)
<1> DEFINE n == b.nside
           end == FirstOf(b, ring) + Length(b, ring)
           T == { k \in ring + 1 .. 4 * n : ~ (FirstOf(b, k) \in Nat /\ end <= FirstOf(b, k)) }
<1>1. n \in Nat /\ ring \in Nat /\ ring >= 1 /\ ring < 4 * n
  OBVIOUS
<1>2. end \in Nat /\ FirstOf(b, ring + 1) = end
  BY RingsTouch
<1>3. T = {}
  <2>1. SUFFICES ASSUME T # {}
                 PROVE  FALSE
    OBVIOUS
  <2>2. T \in SUBSET Nat
    BY <1>1
  <2>3. PICK k \in T : \A m \in T : k <= m
    BY <2>1, <2>2, LeastOfNats
  <2>4. k \in ring + 1 .. 4 * n /\ ~ (FirstOf(b, k) \in Nat /\ end <= FirstOf(b, k))
    BY <2>3
  <2>5. k # ring + 1
    BY <1>2, <2>4
  <2>6. k - 1 \in ring + 1 .. 4 * n /\ k - 1 \in 1 .. 4 * n - 1 /\ (k - 1) + 1 = k /\ ~ (k <= k - 1)
    BY <1>1, <2>4, <2>5
  <2>7. k - 1 \notin T
    BY <2>3, <2>6
  <2>8. FirstOf(b, k - 1) \in Nat /\ end <= FirstOf(b, k - 1)
    BY <2>6, <2>7
  <2>9. FirstOf(b, k) = FirstOf(b, k - 1) + Length(b, k - 1) /\ Length(b, k - 1) \in Nat
    BY <2>6, RingsTouch
  <2> QED
    BY <1>2, <2>4, <2>8, <2>9
<1>4. south \in ring + 1 .. 4 * n
  BY <1>1
<1> QED
  BY <1>3, <1>4

\* A pixel is in a ring; the rings from one to another hold the pixels from the
\* first of the one to the end of the other.
InTheRing(b, ring, pix) ==
  FirstOf(b, ring) <= pix /\ pix < FirstOf(b, ring) + Length(b, ring)

LEMMA RingsBetween ==
  ASSUME NEW b, b.nside \in Nat \ {0}, NEW pix \in Int,
         NEW ring \in 1 .. 4 * b.nside - 1, InTheRing(b, ring, pix),
         NEW other \in 1 .. 4 * b.nside - 1
  PROVE  /\ other <= ring <=> FirstOf(b, other) <= pix
         /\ ring <= other <=> pix < FirstOf(b, other) + Length(b, other)
         /\ InTheRing(b, other, pix) <=> other = ring
<1>1. b.nside \in Nat /\ ring \in Int /\ other \in Int
  OBVIOUS
<1>2. /\ FirstOf(b, ring) \in Nat /\ Length(b, ring) \in Nat
      /\ FirstOf(b, other) \in Nat /\ Length(b, other) \in Nat
  BY RingsTouch
<1>3. ring \in 1 .. 4 * b.nside /\ other \in 1 .. 4 * b.nside
  BY <1>1
<1>4. FirstOf(b, ring) <= pix /\ pix < FirstOf(b, ring) + Length(b, ring)
  BY DEF InTheRing
<1>5. CASE other < ring
  <2>1. FirstOf(b, other) + Length(b, other) <= FirstOf(b, ring)
    BY <1>3, <1>5, RingsAscend
  <2> QED
    BY <1>1, <1>2, <1>4, <1>5, <2>1 DEF InTheRing
<1>6. CASE ring < other
  <2>1. FirstOf(b, ring) + Length(b, ring) <= FirstOf(b, other)
    BY <1>3, <1>6, RingsAscend
  <2> QED
    BY <1>1, <1>2, <1>4, <1>6, <2>1 DEF InTheRing
<1>7. CASE other = ring
  BY <1>1, <1>2, <1>4, <1>7 DEF InTheRing
<1> QED
  BY <1>1, <1>5, <1>6, <1>7

----------------------------------------------------------------------------
(* The ring that ring2xyf computes for a pixel, and the place in it.       *)

\* The root of 1 + 2*p, halved, is the ring of pixel p of a polar cap, whose rings
\* have 4, 8, 12, ... pixels.
LEMMA CapRing ==
  ASSUME NEW p \in Nat
  PROVE  LET i == (1 + isqrt(1 + 2 * p)) \div 2
         IN  i \in Nat \ {0} /\ 2 * i * (i - 1) <= p /\ p < 2 * (i + 1) * i
<1> DEFINE q == isqrt(1 + 2 * p)
           i == (1 + q) \div 2
<1>1. q \in Nat /\ q * q <= 1 + 2 * p /\ 1 + 2 * p < (q + 1) * (q + 1)
  <2>1. 1 + 2 * p \in Nat
    OBVIOUS
  <2> QED
    BY <2>1, RootIs
<1>2. q # 0
  BY <1>1
<1> HIDE DEF q
<1>3. i \in Nat /\ i >= 1 /\ 2 * i - 1 <= q /\ q + 1 <= 2 * i + 1
  BY <1>1, <1>2
<1> HIDE DEF i
<1>4. (2 * i - 1) * (2 * i - 1) <= q * q
  <2>1. 2 * i - 1 \in Nat
    BY <1>3
  <2> QED
    BY <1>1, <1>3, <2>1, SquaresGrow
<1>5. (q + 1) * (q + 1) <= (2 * i + 1) * (2 * i + 1)
  <2>1. 2 * i + 1 \in Nat /\ q + 1 \in Nat
    BY <1>1, <1>3
  <2> QED
    BY <1>3, <2>1, SquaresGrow
<1>6. /\ (2 * i - 1) * (2 * i - 1) = 4 * (i * i) - 4 * i + 1
      /\ (2 * i + 1) * (2 * i + 1) = 4 * (i * i) + 4 * i + 1
      /\ 2 * i * (i - 1) = 2 * (i * i) - 2 * i
      /\ 2 * (i + 1) * i = 2 * (i * i) + 2 * i
      /\ i * i \in Nat /\ q * q \in Nat /\ (q + 1) * (q + 1) \in Nat
  BY <1>1, <1>3
<1>7. 4 * (i * i) - 4 * i + 1 <= 1 + 2 * p /\ 1 + 2 * p < 4 * (i * i) + 4 * i + 1
  <2> DEFINE A == (2 * i - 1) * (2 * i - 1)
             B == (2 * i + 1) * (2 * i + 1)
             Q == q * q
             R == (q + 1) * (q + 1)
  <2>1. A <= Q /\ Q <= 1 + 2 * p /\ 1 + 2 * p < R /\ R <= B /\ A \in Int /\ B \in Int /\ Q \in Int /\ R \in Int
    BY <1>1, <1>3, <1>4, <1>5, <1>6
  <2>2. A = 4 * (i * i) - 4 * i + 1 /\ B = 4 * (i * i) + 4 * i + 1
    BY <1>6
  <2> HIDE DEF A, B, Q, R
  <2>3. A <= 1 + 2 * p /\ 1 + 2 * p < B
    BY <2>1
  <2> QED
    BY <2>2, <2>3
<1>8. 2 * i * (i - 1) <= p /\ p < 2 * (i + 1) * i
  BY <1>3, <1>6, <1>7
<1> QED
  BY <1>3, <1>8 DEF i, q

\* The rings of a cap ascend.
LEMMA CapRings ==
  ASSUME NEW i \in Nat \ {0}, NEW n \in Nat \ {0}, 2 * i * (i - 1) < 2 * n * (n - 1)
  PROVE  i < n
<1>1. ASSUME n <= i
      PROVE  FALSE
  <2>1. n * n <= i * i /\ n * n \in Nat /\ i * i \in Nat
    BY <1>1, SquaresGrow
  <2> DEFINE d == i - n
  <2>2. d \in Nat /\ i = n + d
    BY <1>1
  <2> HIDE DEF d
  <2>3. /\ 2 * i * (i - 1) = 2 * n * (n - 1) + (4 * n - 2) * d + 2 * (d * d)
        /\ (4 * n - 2) * d \in Nat /\ d * d \in Nat /\ 2 * n * (n - 1) \in Nat
    BY <2>2
  <2> QED
    BY <2>3
<1> QED
  BY <1>1


LEMMA RingOfPixel ==
  ASSUME NEW b, b.nside \in Nat \ {0}, NEW pix \in Pixels(b)
  PROVE  LET c == InRing(b, pix)
         IN  /\ c.iring \in 1 .. 4 * b.nside - 1
             /\ InTheRing(b, c.iring, pix)
             /\ c.iphi = pix - FirstOf(b, c.iring) + 1
<1> DEFINE n == b.nside
           N == n * n
<1>1. n \in Nat /\ n >= 1 /\ N \in Nat /\ N >= n
  OBVIOUS
<1>2. ncap(b) = 2 * N - 2 * n /\ npix(b) = 12 * N /\ 2 * n * (n - 1) = 2 * N - 2 * n
  BY <1>1 DEF ncap, npix, npface
<1>3. pix \in Nat /\ pix < 12 * N
  BY <1>1, <1>2 DEF Pixels
<1>4. CASE pix < ncap(b)
  <2> DEFINE i == (1 + isqrt(1 + 2 * pix)) \div 2
  <2>1. i \in Nat \ {0} /\ 2 * i * (i - 1) <= pix /\ pix < 2 * (i + 1) * i
    BY <1>3, CapRing
  <2>2. InRing(b, pix).iring = i /\ InRing(b, pix).iphi = pix + 1 - 2 * i * (i - 1)
    BY <1>4 DEF InRing, NorthPolarCap
  <2> HIDE DEF i
  <2>3. 2 * i * (i - 1) \in Nat /\ 2 * (i + 1) * i = 2 * i * (i - 1) + 4 * i
    BY <2>1
  <2>4. 2 * i * (i - 1) < 2 * n * (n - 1)
    <3> HIDE DEF N
    <3> QED
      BY <1>1, <1>2, <1>3, <1>4, <2>1, <2>3
  <2>5. i < n
    BY <2>1, <2>4, CapRings
  <2>6. FirstOf(b, i) = 2 * i * (i - 1) /\ Length(b, i) = 4 * i
    BY <2>5, RingFields
  <2>7. i \in 1 .. 4 * n - 1
    BY <1>1, <2>1, <2>5
  <2>8. FirstOf(b, i) <= pix /\ pix < FirstOf(b, i) + Length(b, i)
    BY <1>3, <2>1, <2>3, <2>6
  <2>9. pix + 1 - 2 * i * (i - 1) = pix - FirstOf(b, i) + 1
    BY <1>3, <2>3, <2>6
  <2> QED
    BY <2>2, <2>7, <2>8, <2>9 DEF InTheRing
<1>5. CASE ~ (pix < ncap(b)) /\ pix < npix(b) - ncap(b)
  <2> DEFINE ip == pix - ncap(b)
             w == 4 * n
             k == ip \div w
             i == k + n
  <2>1. ip \in Nat /\ ip < 8 * N + 4 * n
    <3> HIDE DEF N
    <3> QED
      BY <1>1, <1>2, <1>3, <1>5
  <2>2. w \in Nat /\ w >= 4 /\ w * (2 * n + 1) = 8 * N + 4 * n
    BY <1>1
  <2>3. InRing(b, pix).iring = i /\ InRing(b, pix).iphi = (ip % w) + 1
    BY <1>5 DEF InRing, EquatorialRegion
  <2> HIDE DEF ip, w
  <2>4. k \in Nat /\ w * k <= ip /\ ip < w * (k + 1) /\ ip % w = ip - w * k
    BY <2>1, <2>2
  <2>5. k <= 2 * n
    <3>1. ASSUME 2 * n + 1 <= k
          PROVE  FALSE
      <4>1. w * (2 * n + 1) <= w * k
        BY <1>1, <2>2, <2>4, <3>1
      <4>2. w * k \in Int /\ w * (2 * n + 1) \in Int
        BY <1>1, <2>2, <2>4
      <4> HIDE DEF N
      <4> QED
        BY <1>1, <2>1, <2>2, <2>4, <4>1, <4>2
    <3> QED
      BY <1>1, <2>4, <3>1
  <2> HIDE DEF k
  <2>6. i \in 1 .. 4 * n - 1 /\ ~ (i < n) /\ i - n = k
    BY <1>1, <2>4, <2>5
  <2>7. FirstOf(b, i) = ncap(b) + w * k /\ Length(b, i) = w
    <3>1. CASE i < 3 * n
      <4>1. k * 4 * n = w * k
        BY <1>1, <2>4 DEF w
      <4> QED
        BY <2>6, <3>1, <4>1, RingFields DEF w
    <3>2. CASE ~ (i < 3 * n)
      <4>1. k = 2 * n /\ i = 3 * n /\ 4 * n - i = n
        <5>1. n \in Nat /\ k \in Nat /\ k <= 2 * n /\ ~ (k + n < 3 * n)
          BY <1>1, <2>4, <2>5, <3>2
        <5> QED
          BY <5>1
      <4>2. FirstOf(b, i) = npix(b) - ncap(b) - 4 * n
        BY <4>1, Borders
      <4>3. w * k = 8 * N
        BY <1>1, <4>1 DEF w
      <4>4. Length(b, i) = w
        BY <2>6, <3>2, <4>1, RingFields DEF w
      <4> HIDE DEF N
      <4> QED
        BY <1>1, <1>2, <4>2, <4>3, <4>4
    <3> QED
      BY <3>1, <3>2
  <2> HIDE DEF i
  <2>8. w * k \in Int /\ w * (k + 1) = w * k + w /\ ip = pix - ncap(b) /\ ncap(b) \in Nat
    BY <2>2, <2>4, Borders DEF ip
  <2>9. FirstOf(b, i) <= pix /\ pix < FirstOf(b, i) + Length(b, i)
    BY <1>3, <2>2, <2>4, <2>7, <2>8
  <2>10. (ip % w) + 1 = pix - FirstOf(b, i) + 1
    BY <1>3, <2>2, <2>4, <2>7, <2>8
  <2> QED
    BY <2>3, <2>6, <2>9, <2>10 DEF InTheRing
<1>6. CASE ~ (pix < ncap(b)) /\ ~ (pix < npix(b) - ncap(b))
  <2> DEFINE ip == npix(b) - pix
             i == (1 + isqrt(2 * ip - 1)) \div 2
             ring == 4 * n - i
  <2>1. ip \in Nat /\ ip >= 1 /\ ip <= 2 * N - 2 * n
    <3> HIDE DEF N
    <3> QED
      BY <1>1, <1>2, <1>3, <1>6
  <2>2. InRing(b, pix).iring = ring /\ InRing(b, pix).iphi = 4 * i + 1 - (ip - 2 * i * (i - 1))
    BY <1>6 DEF InRing, SouthPolarCap
  <2>3. i \in Nat \ {0} /\ 2 * i * (i - 1) <= ip - 1 /\ ip - 1 < 2 * (i + 1) * i
    <3>1. ip - 1 \in Nat /\ 1 + 2 * (ip - 1) = 2 * ip - 1
      BY <2>1
    <3> QED
      BY <3>1, CapRing
  <2>4. ip = npix(b) - pix
    OBVIOUS
  <2> HIDE DEF i, ip
  <2>5. 2 * i * (i - 1) \in Nat /\ 2 * (i + 1) * i = 2 * i * (i - 1) + 4 * i /\ 2 * (i + 1) * i \in Nat
    BY <2>3
  <2>6. i < n
    <3>1. 2 * i * (i - 1) < 2 * n * (n - 1)
      <4> HIDE DEF N
      <4> QED
        BY <1>1, <1>2, <2>1, <2>3, <2>5
    <3> QED
      BY <2>3, <3>1, CapRings
  <2>7. ring \in 1 .. 4 * n - 1 /\ ~ (ring < n) /\ ~ (ring < 3 * n) /\ 4 * n - ring = i
    BY <1>1, <2>3, <2>6
  <2>8. FirstOf(b, ring) = npix(b) - 2 * i * (i + 1) /\ Length(b, ring) = 4 * i
    BY <2>7, RingFields
  <2>9. 2 * i * (i + 1) = 2 * (i + 1) * i
    BY <2>3
  <2> HIDE DEF ring
  <2>10. npix(b) \in Nat
    BY Borders
  <2>11. FirstOf(b, ring) <= pix /\ pix < FirstOf(b, ring) + Length(b, ring)
    BY <1>3, <2>1, <2>3, <2>4, <2>5, <2>8, <2>9, <2>10
  <2>12. 4 * i + 1 - (ip - 2 * i * (i - 1)) = pix - FirstOf(b, ring) + 1
    BY <1>3, <2>1, <2>3, <2>4, <2>5, <2>8, <2>9, <2>10
  <2> QED
    BY <2>2, <2>7, <2>11, <2>12 DEF InTheRing
<1> QED
  BY <1>4, <1>5, <1>6


----------------------------------------------------------------------------
(* Colatitudes, by 3 * nside^2 * z.                                        *)

LEMMA HeightFields ==
  ASSUME NEW b, NEW ring
  PROVE  /\ ring < b.nside => ring2z(b, ring) = 3 * npface(b) - ring * ring
         /\ ~ (ring < b.nside) /\ ring <= 3 * b.nside =>
              ring2z(b, ring) = (2 * b.nside - ring) * 2 * b.nside
         /\ ~ (ring < b.nside) /\ ~ (ring <= 3 * b.nside) =>
              ring2z(b, ring) = (4 * b.nside - ring) * (4 * b.nside - ring) - 3 * npface(b)
BY DEF ring2z

\* The same with products that are sums, for the rings and the poles.
LEMMA Heights ==
  ASSUME NEW b, b.nside \in Nat \ {0}, NEW ring \in 0 .. 4 * b.nside
  PROVE  LET n == b.nside
             N == npface(b)
             nr == 4 * n - ring
         IN  /\ ring2z(b, ring) \in Int
             /\ ring <= n => ring2z(b, ring) = 3 * N - ring * ring
             /\ n <= ring /\ ring <= 3 * n => ring2z(b, ring) = 4 * N - 2 * (n * ring)
             /\ 3 * n <= ring => ring2z(b, ring) = nr * nr - 3 * N
<1> DEFINE n == b.nside
           N == npface(b)
           nr == 4 * n - ring
<1>1. n \in Nat /\ n >= 1 /\ N = n * n /\ N \in Nat /\ ring \in Nat /\ nr \in Nat
  BY DEF npface
<1>2. ring * ring \in Nat /\ nr * nr \in Nat /\ n * ring \in Nat
  BY <1>1
<1>3. (2 * n - ring) * 2 * n = 4 * N - 2 * (n * ring)
  BY <1>1
<1>4. ASSUME ring = n
      PROVE  3 * N - ring * ring = 4 * N - 2 * (n * ring)
  BY <1>1, <1>4
<1>5. ASSUME ring = 3 * n
      PROVE  nr * nr - 3 * N = 4 * N - 2 * (n * ring)
  <2>1. nr = n /\ n * ring = 3 * N
    BY <1>1, <1>5
  <2> QED
    BY <1>1, <2>1
<1>6. ring <= n => ring2z(b, ring) = 3 * N - ring * ring
  <2>1. CASE ring < n
    BY <2>1, HeightFields
  <2>2. CASE ring = n
    <3>1. ~ (ring < n) /\ ring <= 3 * n
      BY <1>1, <2>2
    <3> QED
      BY <1>3, <1>4, <2>2, <3>1, HeightFields
  <2> QED
    BY <1>1, <2>1, <2>2
<1>7. n <= ring /\ ring <= 3 * n => ring2z(b, ring) = 4 * N - 2 * (n * ring)
  <2>1. n <= ring => ~ (ring < n)
    BY <1>1
  <2> QED
    BY <1>3, <2>1, HeightFields
<1>8. 3 * n <= ring => ring2z(b, ring) = nr * nr - 3 * N
  <2>1. CASE ring = 3 * n
    <3>1. ~ (ring < n) /\ ring <= 3 * n
      BY <1>1, <2>1
    <3> QED
      BY <1>3, <1>5, <2>1, <3>1, HeightFields
  <2>2. CASE 3 * n < ring
    <3>1. ~ (ring < n) /\ ~ (ring <= 3 * n)
      BY <1>1, <2>2
    <3> QED
      BY <3>1, HeightFields
  <2>3. 3 * n <= ring => ring = 3 * n \/ 3 * n < ring
    <3>1. n \in Nat /\ ring \in Nat
      BY <1>1
    <3> QED
      BY <3>1
  <2> HIDE DEF n, N, nr
  <2> QED
    BY <2>1, <2>2, <2>3
<1>9. ring2z(b, ring) \in Int
  <2>1. ring <= n \/ (n <= ring /\ ring <= 3 * n) \/ 3 * n <= ring
    BY <1>1
  <2> HIDE DEF n, N, nr
  <2> QED
    BY <1>1, <1>2, <1>6, <1>7, <1>8, <2>1
<1> QED
  BY <1>6, <1>7, <1>8, <1>9

\* The rings descend.
LEMMA NextLower ==
  ASSUME NEW b, b.nside \in Nat \ {0}, NEW ring \in 0 .. 4 * b.nside - 1
  PROVE  ring2z(b, ring + 1) < ring2z(b, ring)
<1> DEFINE n == b.nside
           N == npface(b)
           nr == 4 * n - ring
<1>1. n \in Nat /\ n >= 1 /\ N \in Nat /\ ring \in Nat /\ nr \in Nat /\ nr >= 1
  BY DEF npface
<1>2. ring \in 0 .. 4 * n /\ ring + 1 \in 0 .. 4 * n /\ 4 * n - (ring + 1) = nr - 1
  BY <1>1
<1>3. CASE ring + 1 <= n
  <2>1. ring2z(b, ring) = 3 * N - ring * ring /\ ring2z(b, ring + 1) = 3 * N - (ring + 1) * (ring + 1)
    <3>1. ring <= n
      BY <1>1, <1>3
    <3>2. ring2z(b, ring) = 3 * N - ring * ring
      BY <1>2, <3>1, Heights
    <3>3. ring2z(b, ring + 1) = 3 * N - (ring + 1) * (ring + 1)
      BY <1>2, <1>3, Heights
    <3> QED
      BY <3>2, <3>3
  <2>2. (ring + 1) * (ring + 1) = ring * ring + 2 * ring + 1 /\ ring * ring \in Nat
    BY <1>1
  <2> HIDE DEF N
  <2> QED
    BY <1>1, <2>1, <2>2
<1>4. CASE n <= ring /\ ring + 1 <= 3 * n
  <2>1. /\ ring2z(b, ring) = 4 * N - 2 * (n * ring)
        /\ ring2z(b, ring + 1) = 4 * N - 2 * (n * (ring + 1))
    BY <1>1, <1>2, <1>4, Heights
  <2>2. n * (ring + 1) = n * ring + n /\ n * ring \in Nat
    BY <1>1
  <2> HIDE DEF N
  <2> QED
    BY <1>1, <2>1, <2>2
<1>5. CASE 3 * n <= ring
  <2>1. ring2z(b, ring) = nr * nr - 3 * N /\ ring2z(b, ring + 1) = (nr - 1) * (nr - 1) - 3 * N
    <3>1. 3 * n <= ring + 1
      BY <1>1, <1>5
    <3>2. ring2z(b, ring) = nr * nr - 3 * N
      BY <1>2, <1>5, Heights
    <3>3. ring2z(b, ring + 1) = (4 * n - (ring + 1)) * (4 * n - (ring + 1)) - 3 * N
      BY <1>2, <3>1, Heights
    <3> QED
      BY <1>2, <3>2, <3>3
  <2>2. (nr - 1) * (nr - 1) = nr * nr - 2 * nr + 1 /\ nr * nr \in Nat
    BY <1>1
  <2> HIDE DEF N, nr
  <2> QED
    BY <1>1, <2>1, <2>2
<1> QED
  BY <1>1, <1>3, <1>4, <1>5

LEMMA Lower ==
  ASSUME NEW b, b.nside \in Nat \ {0},
         NEW north \in 0 .. 4 * b.nside, NEW south \in 0 .. 4 * b.nside
  PROVE  /\ ring2z(b, north) \in Int /\ ring2z(b, south) \in Int
         /\ north < south <=> ring2z(b, south) < ring2z(b, north)
<1>1. ASSUME NEW p \in 0 .. 4 * b.nside, NEW q \in 0 .. 4 * b.nside, p < q
      PROVE  ring2z(b, q) < ring2z(b, p)
  <2> DEFINE T == { k \in p + 1 .. 4 * b.nside : ~ (ring2z(b, k) < ring2z(b, p)) }
  <2>0. b.nside \in Nat /\ p \in Nat
    OBVIOUS
  <2>1. T = {}
    <3>1. SUFFICES ASSUME T # {}
                   PROVE  FALSE
      OBVIOUS
    <3>2. T \in SUBSET Nat
      BY <2>0
    <3>3. PICK k \in T : \A m \in T : k <= m
      BY <3>1, <3>2, LeastOfNats
    <3>4. k \in p + 1 .. 4 * b.nside /\ ~ (ring2z(b, k) < ring2z(b, p))
      BY <3>3
    <3>5. /\ k - 1 \in 0 .. 4 * b.nside - 1 /\ (k - 1) + 1 = k /\ ~ (k <= k - 1)
          /\ k - 1 \in 0 .. 4 * b.nside /\ k \in 0 .. 4 * b.nside
          /\ k - 1 = p \/ k - 1 \in p + 1 .. 4 * b.nside
      BY <2>0, <3>4
    <3>6. ring2z(b, k) < ring2z(b, k - 1)
      BY <3>5, NextLower
    <3>7. k - 1 = p \/ ring2z(b, k - 1) < ring2z(b, p)
      BY <3>3, <3>5
    <3>8. ring2z(b, k) \in Int /\ ring2z(b, k - 1) \in Int /\ ring2z(b, p) \in Int
      BY <3>5, Heights
    <3> QED
      BY <3>4, <3>6, <3>7, <3>8
  <2>2. q \in p + 1 .. 4 * b.nside
    BY <2>0, <1>1
  <2> QED
    BY <2>1, <2>2
<1>2. ring2z(b, north) \in Int /\ ring2z(b, south) \in Int
  BY Heights
<1>3. north < south \/ north = south \/ south < north
  OBVIOUS
<1> QED
  BY <1>1, <1>2, <1>3


\* ring_above finds the ring at or next to the north of any z, on the borders of
\* the caps and at the poles, too.
LEMMA RingAbove ==
  ASSUME NEW b, b.nside \in Nat \ {0}, NEW z \in -(3 * npface(b)) .. 3 * npface(b)
  PROVE  /\ ring_above(b, z) \in 0 .. 4 * b.nside - 1
         /\ ring2z(b, ring_above(b, z)) >= z
         /\ z >= ring2z(b, ring_above(b, z) + 1)
<1> DEFINE n == b.nside
           N == npface(b)
           ring == ring_above(b, z)
           Right == /\ ring \in 0 .. 4 * n - 1
                    /\ ring2z(b, ring) >= z /\ z >= ring2z(b, ring + 1)
<1>1. n \in Nat /\ n >= 1 /\ N = n * n /\ N \in Nat /\ N >= n
  BY DEF npface
<1>2. z \in Int /\ -(3 * N) <= z /\ z <= 3 * N
  <2> HIDE DEF N
  <2> QED
    BY <1>1 DEF N
<1>3. CASE Abs(z) <= 2 * N
  <2> DEFINE w == 2 * n
             y == 4 * N - z
             k == y \div w
  <2>1. ring = k
    BY <1>3 DEF ring_above
  <2>2. -(2 * N) <= z /\ z <= 2 * N
    <3> HIDE DEF N
    <3> QED
      BY <1>1, <1>2, <1>3 DEF Abs
  <2>3. y \in Nat /\ 2 * N <= y /\ y <= 6 * N /\ y = 4 * N - z
    <3> HIDE DEF N
    <3> QED
      BY <1>1, <1>2, <2>2
  <2>4. w \in Nat /\ w >= 2
    BY <1>1
  <2> HIDE DEF w, y
  <2>5. k \in Nat /\ w * k <= y /\ y < w * (k + 1)
    BY <2>3, <2>4
  <2> HIDE DEF k
  <2>6. w * k \in Nat /\ w * (k + 1) = w * k + w /\ w * k = 2 * (n * k) /\ n * k \in Nat
    BY <1>1, <2>4, <2>5 DEF w
  <2>7. k <= 3 * n
    <3>1. ASSUME 3 * n + 1 <= k
          PROVE  FALSE
      <4>1. w * (3 * n + 1) <= w * k
        BY <1>1, <2>4, <2>5, <3>1
      <4>2. w * (3 * n + 1) = 6 * N + 2 * n
        BY <1>1 DEF w
      <4> HIDE DEF N
      <4> QED
        BY <1>1, <2>3, <2>5, <2>6, <4>1, <4>2
    <3> QED
      BY <1>1, <2>5, <3>1
  <2>8. n <= k
    <3>1. ASSUME k + 1 <= n
          PROVE  FALSE
      <4>1. w * (k + 1) <= w * n
        BY <1>1, <2>4, <2>5, <3>1
      <4>2. w * n = 2 * N
        BY <1>1 DEF w
      <4> HIDE DEF N
      <4> QED
        BY <1>1, <2>3, <2>4, <2>5, <2>6, <4>1, <4>2
    <3> QED
      BY <1>1, <2>5, <3>1
  <2>9. /\ k \in 0 .. 4 * n - 1 /\ k \in 0 .. 4 * n /\ k + 1 \in 0 .. 4 * n /\ n <= k + 1
        /\ k = 3 * n \/ k + 1 <= 3 * n
    <3>1. n \in Nat /\ n >= 1 /\ k \in Nat
      BY <1>1, <2>5
    <3> QED
      BY <2>7, <2>8, <3>1
  <2>10. ring2z(b, k) = 4 * N - 2 * (n * k)
    BY <2>7, <2>8, <2>9, Heights
  <2>11. ring2z(b, k) >= z
    <3> HIDE DEF N
    <3> QED
      BY <1>1, <1>2, <2>3, <2>5, <2>6, <2>10
  <2>12. z >= ring2z(b, k + 1)
    <3>1. CASE k + 1 <= 3 * n
      <4>1. ring2z(b, k + 1) = 4 * N - 2 * (n * (k + 1))
        BY <2>9, <3>1, Heights
      <4>2. w * (k + 1) = 2 * (n * (k + 1)) /\ n * (k + 1) \in Nat
        BY <1>1, <2>5 DEF w
      <4> HIDE DEF N
      <4> QED
        BY <1>1, <1>2, <2>3, <2>5, <4>1, <4>2
    <3>2. CASE k = 3 * n
      <4>1. 4 * n - (k + 1) = n - 1 /\ 3 * n <= k + 1
        BY <1>1, <2>5, <3>2
      <4>2. ring2z(b, k + 1) = (n - 1) * (n - 1) - 3 * N
        <5>1. ring2z(b, k + 1) = (4 * n - (k + 1)) * (4 * n - (k + 1)) - 3 * N
          BY <2>9, <4>1, Heights
        <5> QED
          BY <4>1, <5>1
      <4>3. (n - 1) * (n - 1) = N - 2 * n + 1
        BY <1>1
      <4> HIDE DEF N
      <4> QED
        BY <1>1, <1>2, <2>2, <4>2, <4>3
    <3> QED
      BY <2>9, <3>1, <3>2
  <2> QED
    BY <2>1, <2>9, <2>11, <2>12
<1>4. CASE ~ (Abs(z) <= 2 * N)
  <2> DEFINE a == 3 * N - Abs(z)
             i == isqrt(a)
  <2>1. a \in Nat /\ a < N /\ (IF z > 0 THEN a = 3 * N - z ELSE a = 3 * N + z)
    <3> HIDE DEF N
    <3> QED
      BY <1>1, <1>2, <1>4 DEF Abs
  <2>2. ring = IF z > 0 THEN i ELSE 4 * n - i - 1
    BY <1>4 DEF ring_above
  <2> HIDE DEF a
  <2>3. i \in Nat /\ i * i <= a /\ a < (i + 1) * (i + 1)
    BY <2>1, RootIs
  <2> HIDE DEF i
  <2>4. i * i \in Nat /\ (i + 1) * (i + 1) \in Nat
    BY <2>3
  <2>5. i < n
    <3>1. i * i < n * n
      <4> HIDE DEF N
      <4> QED
        BY <1>1, <2>1, <2>3, <2>4
    <3> QED
      BY <1>1, <2>3, <3>1, SquaresGrow
  <2>6. /\ i \in 0 .. 4 * n - 1 /\ i + 1 \in 0 .. 4 * n /\ i \in 0 .. 4 * n
        /\ i <= n /\ i + 1 <= n
        /\ 4 * n - i - 1 \in 0 .. 4 * n - 1 /\ 4 * n - i - 1 \in 0 .. 4 * n
        /\ (4 * n - i - 1) + 1 = 4 * n - i /\ 4 * n - i \in 0 .. 4 * n
        /\ 3 * n <= 4 * n - i - 1 /\ 3 * n <= 4 * n - i
        /\ 4 * n - (4 * n - i - 1) = i + 1 /\ 4 * n - (4 * n - i) = i
    <3>1. n \in Nat /\ i \in Nat
      BY <1>1, <2>3
    <3> QED
      BY <2>5, <3>1
  <2>7. CASE z > 0
    <3>1. ring2z(b, i) = 3 * N - i * i /\ ring2z(b, i + 1) = 3 * N - (i + 1) * (i + 1)
      BY <2>6, Heights
    <3> HIDE DEF N
    <3> QED
      BY <1>1, <1>2, <2>1, <2>2, <2>3, <2>4, <2>6, <2>7, <3>1
  <2>8. CASE ~ (z > 0)
    <3> DEFINE k == 4 * n - i - 1
               m == 4 * n - i
    <3>0. ring = k /\ k + 1 = m /\ k \in 0 .. 4 * n - 1
      BY <2>2, <2>6, <2>8
    <3>1. ring2z(b, k) = (i + 1) * (i + 1) - 3 * N
      <4>1. ring2z(b, k) = (4 * n - k) * (4 * n - k) - 3 * N
        BY <2>6, Heights
      <4> QED
        BY <2>6, <4>1
    <3>2. ring2z(b, m) = i * i - 3 * N
      <4>1. ring2z(b, m) = (4 * n - m) * (4 * n - m) - 3 * N
        BY <2>6, Heights
      <4> QED
        BY <2>6, <4>1
    <3>3. ring2z(b, k) >= z
      <4> HIDE DEF N
      <4> QED
        BY <1>1, <1>2, <2>1, <2>3, <2>4, <2>8, <3>1
    <3>4. z >= ring2z(b, m)
      <4> HIDE DEF N
      <4> QED
        BY <1>1, <1>2, <2>1, <2>3, <2>4, <2>8, <3>2
    <3> HIDE DEF k, m
    <3> QED
      BY <3>0, <3>3, <3>4
  <2> QED
    BY <2>7, <2>8
<1> QED
  BY <1>3, <1>4


\* So, unless z is the z of a ring, exactly the rings up to ring_above are not
\* south of z.
LEMMA RingsAbove ==
  ASSUME NEW b, b.nside \in Nat \ {0}, NEW z \in -(3 * npface(b)) .. 3 * npface(b),
         \A r \in 1 .. 4 * b.nside - 1 : ring2z(b, r) # z,
         NEW ring \in 0 .. 4 * b.nside - 1
  PROVE  ring <= ring_above(b, z) <=> ring2z(b, ring) >= z
<1> DEFINE k == ring_above(b, z)
<1>1. k \in 0 .. 4 * b.nside - 1 /\ ring2z(b, k) >= z /\ z >= ring2z(b, k + 1)
  BY RingAbove
<1> HIDE DEF k
<1>2. /\ b.nside \in Nat /\ npface(b) \in Nat
      /\ k \in 0 .. 4 * b.nside /\ k + 1 \in 0 .. 4 * b.nside /\ ring \in 0 .. 4 * b.nside
  BY <1>1, Borders
<1>3. z \in Int /\ ring2z(b, k) \in Int /\ ring2z(b, k + 1) \in Int /\ ring2z(b, ring) \in Int
  BY <1>2, Lower
<1>4. CASE ring <= k
  <2>1. ring2z(b, ring) >= ring2z(b, k)
    <3>1. ~ (k < ring)
      BY <1>1, <1>4
    <3> QED
      BY <1>2, <1>3, <3>1, Lower
  <2> QED
    BY <1>1, <1>3, <1>4, <2>1 DEF k
<1>5. CASE ~ (ring <= k)
  <2>1. k + 1 <= ring /\ k + 1 \in 1 .. 4 * b.nside - 1
    BY <1>1, <1>2, <1>5
  <2>2. ring2z(b, k + 1) < z
    BY <1>1, <1>3, <2>1
  <2>3. ring2z(b, ring) <= ring2z(b, k + 1)
    <3>1. ~ (ring < k + 1)
      BY <1>1, <2>1
    <3> QED
      BY <1>2, <1>3, <3>1, Lower
  <2> QED
    BY <1>3, <1>5, <2>2, <2>3 DEF k
<1> QED
  BY <1>4, <1>5

=============================================================================
