------------------------- MODULE RangesetCallsProofs ------------------------
(***************************************************************************)
(* A rangeset object after any legal sequence of calls, for every set of   *)
(* bounds: its positions fit, its queries answer about the set it stands   *)
(* for, it stays canonical when its callers do not pass empty ranges, and  *)
(* it implements the set of integers that its calls' names describe, calls *)
(* with other rangesets included.                                          *)
(***************************************************************************)
EXTENDS RangesetCalls, QueryLemmas

----------------------------------------------------------------------------
(* The loop of generalUnion.  Its invariant is about two operands a and b, *)
(* their flips fa and fb, the numbers ia and ib of boundaries stepped      *)
(* over, whether the position is inside (sa, sb, sr), and what is built, c.*)

\* Is x inside?  (iiv on any ascending vector, the last range perhaps open.)
Inside(s, x) == iiv(s, x) % 2 = 0

\* The first k boundaries of s are no larger than those of t after the first l.
Before(s, k, t, l) ==
  \A p \in 1 .. Len(s), q \in 1 .. Len(t) : p <= k /\ q > l => s[p] <= t[q]

StrictlyBefore(s, t, l) ==
  \A p \in 1 .. Len(s), q \in 1 .. Len(t) : q > l => s[p] < t[q]

\* x is below what is left of s after the first k boundaries.
Below(x, s, k) == \A q \in 1 .. Len(s) : q > k => x < s[q]

\* x belongs into the result when the union of the operands, each flipped or not,
\* has there another value than at minus infinity.
Wanted(a, b, fa, fb, x) ==
  ~ ((~ (Inside(a, x) <=> fa) \/ ~ (Inside(b, x) <=> fb)) <=> (fa \/ fb))

\* Up to the boundaries that are left, c is what it should be.
Built(a, b, fa, fb, ia, ib, c) ==
  \A x \in Int : Below(x, a, ia) /\ Below(x, b, ib) => (Inside(c, x) <=> Wanted(a, b, fa, fb, x))

Strict(c, a, ia, b, ib) ==
  /\ \A i \in 1 .. Len(c) - 1 : c[i] < c[i+1]
  /\ StrictlyBefore(c, a, ia) /\ StrictlyBefore(c, b, ib)

Operand(s, k) == s \in Seq(Int) /\ Ordered(s) /\ k \in 0 .. Len(s)

States(fa, fb, ia, ib, sa, sb, sr, c) ==
  /\ sa <=> ~ (fa <=> ia % 2 = 1)
  /\ sb <=> ~ (fb <=> ib % 2 = 1)
  /\ sr <=> sa \/ sb
  /\ Len(c) % 2 = 1 <=> ~ (sr <=> (fa \/ fb))

Merging(a, b, fa, fb, ia, ib, sa, sb, sr, c) ==
  /\ Operand(a, ia) /\ Operand(b, ib)
  /\ c \in Seq(Int) /\ Ascending(c)
  /\ States(fa, fb, ia, ib, sa, sb, sr, c)
  /\ Before(a, ia, b, ib) /\ Before(b, ib, a, ia)
  /\ Before(c, Len(c), a, ia) /\ Before(c, Len(c), b, ib)
  /\ Built(a, b, fa, fb, ia, ib, c)
  /\ Canonical(a) /\ Canonical(b) => Strict(c, a, ia, b, ib)

----------------------------------------------------------------------------
(* One turn.                                                               *)

\* The first k boundaries of s are up to val, the others from val on.
CutAt(s, k, val) ==
  \A p \in 1 .. Len(s) : (p <= k => s[p] <= val) /\ (p > k => s[p] >= val)

\* A turn steps over the next boundary of s, which is val, or leaves it, when
\* there is none or it is larger.
Stepped(s, k, val, steps, k2) ==
  \/ steps /\ k < Len(s) /\ s[k+1] = val /\ k2 = k + 1
  \/ ~ steps /\ (k = Len(s) \/ s[k+1] > val) /\ k2 = k

\* Once all before a position are up to x and all after it are larger, the
\* parity tells whether x is inside.
LEMMA ParityInside ==
  ASSUME NEW s \in Seq(Int), NEW k \in 0 .. Len(s), NEW val \in Int, NEW x \in Int,
         CutAt(s, k, val), val <= x, Below(x, s, k)
  PROVE  Inside(s, x) <=> k % 2 = 1
<1>1. Len(s) \in Nat /\ \A p \in 1 .. Len(s) : s[p] \in Int
  BY LenProperties, ElementOfSeq
<1>2. k - 1 \in -1 .. Len(s) - 1 /\ k \in Nat
  BY <1>1
<1>3. ASSUME NEW p \in 1 .. Len(s)
      PROVE  s[p] <= x <=> p - 1 <= k - 1
  <2>1. CASE p <= k
    BY <1>1, <1>2, <2>1 DEF CutAt
  <2>2. CASE ~ (p <= k)
    <3>1. x < s[p]
      BY <1>2, <2>2 DEF Below
    <3> QED
      BY <1>1, <1>2, <2>2, <3>1
  <2> QED
    BY <2>1, <2>2
<1>4. iiv(s, x) = k - 1
  BY <1>2, <1>3, PositionIs
<1>5. (k - 1) % 2 = 0 <=> k % 2 = 1
  BY <1>2
<1> QED
  BY <1>4, <1>5 DEF Inside

\* After the turn the operand is cut at val.
LEMMA SteppedCut ==
  ASSUME NEW s, NEW k, Operand(s, k), NEW val \in Int, NEW steps \in BOOLEAN, NEW k2,
         Stepped(s, k, val, steps, k2),
         \A p \in 1 .. Len(s) : p <= k => s[p] <= val
  PROVE  /\ Operand(s, k2) /\ CutAt(s, k2, val)
         /\ \A q \in 1 .. Len(s) : q > k => s[q] >= val
         /\ \A q \in 1 .. Len(s) : q > k2 => q > k
         /\ Canonical(s) => \A q \in 1 .. Len(s) : q > k2 => val < s[q]
<1>1. s \in Seq(Int) /\ Ordered(s) /\ k \in 0 .. Len(s)
  BY DEF Operand
<1>2. Len(s) \in Nat /\ \A p \in 1 .. Len(s) : s[p] \in Int
  BY <1>1, LenProperties, ElementOfSeq
<1>3. \A p, q \in 1 .. Len(s) : p <= q => s[p] <= s[q]
  BY <1>1, AscendingPairs DEF Ordered, Ascending
<1>4. k \in Int /\ 0 <= k /\ k <= Len(s)
  BY <1>1, <1>2
<1>5. CASE steps /\ k < Len(s) /\ s[k+1] = val /\ k2 = k + 1
  <2>1. k2 \in 1 .. Len(s) /\ s[k2] = val /\ k2 \in Int /\ k2 = k + 1
    BY <1>2, <1>4, <1>5
  <2>2. \A q \in 1 .. Len(s) : q > k => s[q] >= val
    <3> SUFFICES ASSUME NEW q \in 1 .. Len(s), q > k
                 PROVE  s[q] >= val
      OBVIOUS
    <3>1. k2 <= q
      BY <1>4, <2>1
    <3> QED
      BY <1>2, <1>3, <2>1, <3>1
  <2>3. CutAt(s, k2, val)
    <3> SUFFICES ASSUME NEW p \in 1 .. Len(s)
                 PROVE  (p <= k2 => s[p] <= val) /\ (p > k2 => s[p] >= val)
      BY DEF CutAt
    <3>1. p <= k2 => s[p] <= val
      BY <1>2, <1>3, <2>1
    <3>2. p > k2 => s[p] >= val
      BY <1>4, <2>1, <2>2
    <3> QED
      BY <3>1, <3>2
  <2>4. ASSUME Canonical(s), NEW q \in 1 .. Len(s), q > k2
        PROVE  val < s[q]
    <3>1. k2 \in 1 .. Len(s) - 1 /\ k2 + 1 \in 1 .. Len(s) /\ k2 + 1 <= q
      BY <1>2, <2>1, <2>4
    <3>2. s[k2] < s[k2+1] /\ s[k2+1] <= s[q]
      BY <1>3, <2>4, <3>1 DEF Canonical
    <3> QED
      BY <1>2, <2>1, <3>1, <3>2
  <2>5. Operand(s, k2) /\ \A q \in 1 .. Len(s) : q > k2 => q > k
    <3>1. k2 \in 0 .. Len(s)
      BY <1>2, <2>1
    <3>2. \A q \in 1 .. Len(s) : q > k2 => q > k
      BY <1>4, <2>1
    <3> QED
      BY <1>1, <3>1, <3>2 DEF Operand
  <2> QED
    BY <2>2, <2>3, <2>4, <2>5
<1>6. CASE ~ steps /\ (k = Len(s) \/ s[k+1] > val) /\ k2 = k
  <2>1. \A q \in 1 .. Len(s) : q > k => s[q] > val
    <3> SUFFICES ASSUME NEW q \in 1 .. Len(s), q > k
                 PROVE  s[q] > val
      OBVIOUS
    <3>1. k + 1 \in 1 .. Len(s) /\ k + 1 <= q /\ k # Len(s)
      BY <1>2, <1>4
    <3>2. s[k+1] > val /\ s[k+1] <= s[q] /\ s[k+1] \in Int /\ s[q] \in Int
      BY <1>2, <1>3, <1>6, <3>1
    <3> QED
      BY <3>2
  <2>2. \A q \in 1 .. Len(s) : q > k => s[q] >= val /\ val < s[q]
    BY <1>2, <2>1
  <2>3. CutAt(s, k2, val)
    BY <1>6, <2>2 DEF CutAt
  <2> QED
    BY <1>6, <2>2, <2>3
<1> QED
  BY <1>5, <1>6 DEF Stepped

\* What is pushed is the last boundary so far.
LEMMA PushedCut ==
  ASSUME NEW c \in Seq(Int), Ascending(c), NEW val \in Int, NEW c2,
         \A p \in 1 .. Len(c) : c[p] <= val,
         c2 = c \/ c2 = Append(c, val)
  PROVE  /\ c2 \in Seq(Int) /\ Ascending(c2) /\ CutAt(c2, Len(c2), val)
         /\ Len(c2) = IF c2 = c THEN Len(c) ELSE Len(c) + 1
         /\ \A x \in Int : x < val => (Inside(c2, x) <=> Inside(c, x))
<1>1. Len(c) \in Nat /\ \A p \in 1 .. Len(c) : c[p] \in Int
  BY LenProperties, ElementOfSeq
<1>2. CASE c2 = c
  BY <1>2 DEF CutAt
<1>3. CASE c2 = Append(c, val)
  <2>1. c2 \in Seq(Int) /\ Len(c2) = Len(c) + 1 /\ c2 # c
        /\ (\A p \in 1 .. Len(c) : c2[p] = c[p]) /\ c2[Len(c) + 1] = val
    BY <1>1, <1>3, AppendProperties
  <2>2. ASSUME NEW p \in 1 .. Len(c2)
        PROVE  c2[p] \in Int /\ c2[p] <= val
    <3>1. CASE p = Len(c) + 1
      BY <2>1, <3>1
    <3>2. CASE p # Len(c) + 1
      <4>1. p \in 1 .. Len(c)
        BY <1>1, <2>1, <3>2
      <4> QED
        BY <1>1, <2>1, <4>1
    <3> QED
      BY <3>1, <3>2
  <2>3. Ascending(c2)
    <3> SUFFICES ASSUME NEW i \in 1 .. Len(c2) - 1
                 PROVE  c2[i] <= c2[i+1]
      BY DEF Ascending
    <3>1. i \in 1 .. Len(c2) /\ i \in 1 .. Len(c)
      BY <1>1, <2>1
    <3>2. CASE i = Len(c)
      BY <2>1, <2>2, <3>1, <3>2
    <3>3. CASE i # Len(c)
      <4>1. i \in 1 .. Len(c) - 1 /\ i + 1 \in 1 .. Len(c)
        BY <1>1, <3>1, <3>3
      <4> QED
        BY <2>1, <3>1, <4>1 DEF Ascending
    <3> QED
      BY <3>2, <3>3
  <2>4. CutAt(c2, Len(c2), val)
    BY <1>1, <2>1, <2>2 DEF CutAt
  <2>5. ASSUME NEW x \in Int, x < val
        PROVE  Inside(c2, x) <=> Inside(c, x)
    <3>1. PICK k : /\ k = iiv(c, x) /\ k \in -1 .. Len(c) - 1
                   /\ \A p \in 1 .. Len(c) : c[p] <= x <=> p - 1 <= k
      BY PositionFound
    <3>2. k \in -1 .. Len(c2) - 1 /\ k \in Int /\ k <= Len(c) - 1
      BY <1>1, <2>1, <3>1
    <3>3. ASSUME NEW p \in 1 .. Len(c2)
          PROVE  c2[p] <= x <=> p - 1 <= k
      <4>1. CASE p = Len(c) + 1
        BY <1>1, <2>1, <2>5, <3>2, <4>1
      <4>2. CASE p # Len(c) + 1
        <5>1. p \in 1 .. Len(c)
          BY <1>1, <2>1, <4>2
        <5> QED
          BY <2>1, <3>1, <5>1
      <4> QED
        BY <4>1, <4>2
    <3>4. iiv(c2, x) = k
      BY <2>1, <3>2, <3>3, PositionIs
    <3> QED
      BY <3>1, <3>4 DEF Inside
  <2> QED
    BY <2>1, <2>3, <2>4, <2>5
<1> QED
  BY <1>2, <1>3

LEMMA NextParity ==
  ASSUME NEW n \in Int
  PROVE  (n + 1) % 2 = 1 <=> ~ (n % 2 = 1)
OBVIOUS

\* A turn keeps the invariant.
LEMMA TurnMerges ==
  ASSUME NEW a, NEW b, NEW fa, NEW fb, NEW ia, NEW ib, NEW sa, NEW sb, NEW sr, NEW c,
         Merging(a, b, fa, fb, ia, ib, sa, sb, sr, c),
         NEW val \in Int, NEW steps_a \in BOOLEAN, NEW steps_b \in BOOLEAN, steps_a \/ steps_b,
         NEW ia2, NEW ib2, NEW sa2, NEW sb2, NEW sr2, NEW c2,
         Stepped(a, ia, val, steps_a, ia2), Stepped(b, ib, val, steps_b, ib2),
         sa2 <=> ~ (sa <=> steps_a), sb2 <=> ~ (sb <=> steps_b), sr2 <=> sa2 \/ sb2,
         \/ (sr2 <=> sr) /\ c2 = c
         \/ ~ (sr2 <=> sr) /\ c2 = Append(c, val)
  PROVE  Merging(a, b, fa, fb, ia2, ib2, sa2, sb2, sr2, c2)
<1>1. /\ a \in Seq(Int) /\ Ordered(a) /\ ia \in 0 .. Len(a) /\ Operand(a, ia)
      /\ b \in Seq(Int) /\ Ordered(b) /\ ib \in 0 .. Len(b) /\ Operand(b, ib)
      /\ c \in Seq(Int) /\ Ascending(c)
  BY DEF Merging, Operand
<1>2. /\ States(fa, fb, ia, ib, sa, sb, sr, c)
      /\ Before(a, ia, b, ib) /\ Before(b, ib, a, ia)
      /\ Before(c, Len(c), a, ia) /\ Before(c, Len(c), b, ib)
      /\ Built(a, b, fa, fb, ia, ib, c)
      /\ Canonical(a) /\ Canonical(b) => Strict(c, a, ia, b, ib)
  BY DEF Merging
<1>3. /\ Len(a) \in Nat /\ (\A p \in 1 .. Len(a) : a[p] \in Int)
      /\ Len(b) \in Nat /\ (\A p \in 1 .. Len(b) : b[p] \in Int)
      /\ Len(c) \in Nat /\ (\A p \in 1 .. Len(c) : c[p] \in Int)
      /\ ia \in Int /\ 0 <= ia /\ ib \in Int /\ 0 <= ib
  <2>1. Len(a) \in Nat /\ Len(b) \in Nat /\ Len(c) \in Nat
    BY <1>1, LenProperties
  <2> QED
    BY <1>1, <2>1, ElementOfSeq
<1>4. \/ steps_a /\ ia + 1 \in 1 .. Len(a) /\ a[ia+1] = val
      \/ steps_b /\ ib + 1 \in 1 .. Len(b) /\ b[ib+1] = val
  BY <1>1, <1>3 DEF Stepped
<1>5. /\ \A p \in 1 .. Len(a) : p <= ia => a[p] <= val
      /\ \A p \in 1 .. Len(b) : p <= ib => b[p] <= val
      /\ \A p \in 1 .. Len(c) : c[p] <= val
  <2>1. CASE ia + 1 \in 1 .. Len(a) /\ a[ia+1] = val
    <3>1. ASSUME NEW p \in 1 .. Len(a), p <= ia
          PROVE  a[p] <= val
      <4>1. p <= ia + 1
        BY <1>3, <3>1
      <4> QED
        BY <1>1, <2>1, <4>1, AscendingPairs DEF Ordered, Ascending
    <3>2. ia + 1 > ia
      BY <1>3
    <3> QED
      BY <1>2, <1>3, <2>1, <3>1, <3>2 DEF Before
  <2>2. CASE ib + 1 \in 1 .. Len(b) /\ b[ib+1] = val
    <3>1. ASSUME NEW p \in 1 .. Len(b), p <= ib
          PROVE  b[p] <= val
      <4>1. p <= ib + 1
        BY <1>3, <3>1
      <4> QED
        BY <1>1, <2>2, <4>1, AscendingPairs DEF Ordered, Ascending
    <3>2. ib + 1 > ib
      BY <1>3
    <3> QED
      BY <1>2, <1>3, <2>2, <3>1, <3>2 DEF Before
  <2> QED
    BY <1>4, <2>1, <2>2
<1>6. /\ Operand(a, ia2) /\ CutAt(a, ia2, val)
      /\ \A q \in 1 .. Len(a) : q > ia => a[q] >= val
      /\ \A q \in 1 .. Len(a) : q > ia2 => q > ia
      /\ Canonical(a) => \A q \in 1 .. Len(a) : q > ia2 => val < a[q]
  BY <1>1, <1>5, SteppedCut
<1>7. /\ Operand(b, ib2) /\ CutAt(b, ib2, val)
      /\ \A q \in 1 .. Len(b) : q > ib => b[q] >= val
      /\ \A q \in 1 .. Len(b) : q > ib2 => q > ib
      /\ Canonical(b) => \A q \in 1 .. Len(b) : q > ib2 => val < b[q]
  BY <1>1, <1>5, SteppedCut
<1>8. /\ c2 \in Seq(Int) /\ Ascending(c2) /\ CutAt(c2, Len(c2), val)
      /\ Len(c2) = IF c2 = c THEN Len(c) ELSE Len(c) + 1
      /\ \A x \in Int : x < val => (Inside(c2, x) <=> Inside(c, x))
  BY <1>1, <1>5, PushedCut
<1>9. /\ Len(c2) \in Nat /\ (\A p \in 1 .. Len(c2) : c2[p] \in Int /\ c2[p] <= val)
      /\ ia2 \in 0 .. Len(a) /\ ib2 \in 0 .. Len(b)
  <2>1. Len(c2) \in Nat /\ (\A p \in 1 .. Len(c2) : c2[p] \in Int)
    BY <1>8, LenProperties, ElementOfSeq
  <2>2. \A p \in 1 .. Len(c2) : c2[p] <= val
    BY <1>8, <2>1 DEF CutAt
  <2> QED
    BY <1>6, <1>7, <2>1, <2>2 DEF Operand
<1>10. States(fa, fb, ia2, ib2, sa2, sb2, sr2, c2)
  <2>1. ia2 % 2 = 1 <=> ~ (ia % 2 = 1 <=> steps_a)
    <3>1. (ia + 1) % 2 = 1 <=> ~ (ia % 2 = 1)
      BY <1>3, NextParity
    <3>2. (steps_a /\ ia2 = ia + 1) \/ (~ steps_a /\ ia2 = ia)
      BY DEF Stepped
    <3> QED
      BY <3>1, <3>2, Zenon
  <2>2. ib2 % 2 = 1 <=> ~ (ib % 2 = 1 <=> steps_b)
    <3>1. (ib + 1) % 2 = 1 <=> ~ (ib % 2 = 1)
      BY <1>3, NextParity
    <3>2. (steps_b /\ ib2 = ib + 1) \/ (~ steps_b /\ ib2 = ib)
      BY DEF Stepped
    <3> QED
      BY <3>1, <3>2, Zenon
  <2>3. Len(c2) % 2 = 1 <=> ~ (Len(c) % 2 = 1 <=> ~ (sr2 <=> sr))
    <3>1. CASE (sr2 <=> sr) /\ c2 = c
      BY <3>1
    <3>2. CASE ~ (sr2 <=> sr) /\ c2 = Append(c, val)
      <4>1. Len(c2) = Len(c) + 1
        BY <1>1, <3>2, AppendProperties
      <4>2. Len(c2) % 2 = 1 <=> ~ (Len(c) % 2 = 1)
        BY <1>3, <4>1, NextParity
      <4> QED
        BY <3>2, <4>2
    <3> QED
      BY <3>1, <3>2
  <2> QED
    BY <1>2, <2>1, <2>2, <2>3, Zenon DEF States
<1>11. Before(a, ia2, b, ib2) /\ Before(b, ib2, a, ia2)
       /\ Before(c2, Len(c2), a, ia2) /\ Before(c2, Len(c2), b, ib2)
  <2>1. \A p \in 1 .. Len(a) : (p <= ia2 => a[p] <= val) /\ (p > ia2 => val <= a[p])
    BY <1>3, <1>6 DEF CutAt
  <2>2. \A p \in 1 .. Len(b) : (p <= ib2 => b[p] <= val) /\ (p > ib2 => val <= b[p])
    BY <1>3, <1>7 DEF CutAt
  <2>3. Before(a, ia2, b, ib2)
    BY <1>3, <2>1, <2>2 DEF Before
  <2>4. Before(b, ib2, a, ia2)
    BY <1>3, <2>1, <2>2 DEF Before
  <2>5. Before(c2, Len(c2), a, ia2)
    BY <1>3, <1>9, <2>1 DEF Before
  <2>6. Before(c2, Len(c2), b, ib2)
    BY <1>3, <1>9, <2>2 DEF Before
  <2> QED
    BY <2>3, <2>4, <2>5, <2>6
<1>12. Built(a, b, fa, fb, ia2, ib2, c2)
  <2> SUFFICES ASSUME NEW x \in Int, Below(x, a, ia2), Below(x, b, ib2)
               PROVE  Inside(c2, x) <=> Wanted(a, b, fa, fb, x)
    BY DEF Built
  <2>1. CASE x < val
    <3>1. Below(x, a, ia) /\ Below(x, b, ib)
      BY <1>3, <1>6, <1>7, <2>1 DEF Below
    <3>2. Inside(c, x) <=> Wanted(a, b, fa, fb, x)
      BY <1>2, <3>1 DEF Built
    <3> QED
      BY <1>8, <2>1, <3>2
  <2>2. CASE val <= x
    <3>1. Inside(a, x) <=> ia2 % 2 = 1
      BY <1>1, <1>6, <1>9, <2>2, ParityInside
    <3>2. Inside(b, x) <=> ib2 % 2 = 1
      BY <1>1, <1>7, <1>9, <2>2, ParityInside
    <3>3. Inside(c2, x) <=> Len(c2) % 2 = 1
      <4>1. Len(c2) \in 0 .. Len(c2)
        BY <1>9
      <4>2. Below(x, c2, Len(c2))
        BY <1>9 DEF Below
      <4> QED
        BY <1>8, <2>2, <4>1, <4>2, ParityInside
    <3> QED
      BY <1>10, <3>1, <3>2, <3>3, Zenon DEF States, Wanted
  <2> QED
    BY <2>1, <2>2
<1>13. ASSUME Canonical(a), Canonical(b)
       PROVE  Strict(c2, a, ia2, b, ib2)
  <2>1. /\ \A i \in 1 .. Len(c) - 1 : c[i] < c[i+1]
        /\ StrictlyBefore(c, a, ia) /\ StrictlyBefore(c, b, ib)
    BY <1>2, <1>13 DEF Strict
  <2>2. (\A q \in 1 .. Len(a) : q > ia2 => val < a[q]) /\ (\A q \in 1 .. Len(b) : q > ib2 => val < b[q])
    BY <1>6, <1>7, <1>13
  <2>3. \A p \in 1 .. Len(c) : c[p] < val
    <3>1. CASE ia + 1 \in 1 .. Len(a) /\ a[ia+1] = val
      BY <1>3, <2>1, <3>1 DEF StrictlyBefore
    <3>2. CASE ib + 1 \in 1 .. Len(b) /\ b[ib+1] = val
      BY <1>3, <2>1, <3>2 DEF StrictlyBefore
    <3> QED
      BY <1>4, <3>1, <3>2
  <2>4. StrictlyBefore(c2, a, ia2) /\ StrictlyBefore(c2, b, ib2)
    <3>1. ASSUME NEW p \in 1 .. Len(c2), NEW q \in 1 .. Len(a), q > ia2
          PROVE  c2[p] < a[q]
      BY <1>3, <1>9, <2>2, <3>1
    <3>2. ASSUME NEW p \in 1 .. Len(c2), NEW q \in 1 .. Len(b), q > ib2
          PROVE  c2[p] < b[q]
      BY <1>3, <1>9, <2>2, <3>2
    <3> QED
      BY <3>1, <3>2 DEF StrictlyBefore
  <2>5. \A i \in 1 .. Len(c2) - 1 : c2[i] < c2[i+1]
    <3>1. CASE c2 = c
      BY <2>1, <3>1
    <3>2. CASE c2 = Append(c, val)
      <4> SUFFICES ASSUME NEW i \in 1 .. Len(c2) - 1
                   PROVE  c2[i] < c2[i+1]
        OBVIOUS
      <4>1. Len(c2) = Len(c) + 1 /\ (\A p \in 1 .. Len(c) : c2[p] = c[p]) /\ c2[Len(c) + 1] = val
        BY <1>1, <3>2, AppendProperties
      <4>2. i \in 1 .. Len(c)
        BY <1>3, <4>1
      <4>3. CASE i = Len(c)
        BY <2>3, <4>1, <4>2, <4>3
      <4>4. CASE i # Len(c)
        <5>1. i \in 1 .. Len(c) - 1 /\ i + 1 \in 1 .. Len(c)
          BY <1>3, <4>2, <4>4
        <5> QED
          BY <2>1, <4>1, <4>2, <5>1
      <4> QED
        BY <4>3, <4>4
    <3> QED
      BY <3>1, <3>2
  <2> QED
    BY <2>4, <2>5 DEF Strict
<1> QED
  BY <1>6, <1>7, <1>8, <1>10, <1>11, <1>12, <1>13 DEF Merging

----------------------------------------------------------------------------
(* The whole call.                                                         *)

\* Before the first boundary nothing is inside.
LEMMA NothingBelow ==
  ASSUME NEW s \in Seq(Int), NEW x \in Int, Below(x, s, 0)
  PROVE  ~ Inside(s, x)
<1>1. Len(s) \in Nat /\ \A p \in 1 .. Len(s) : s[p] \in Int
  BY LenProperties, ElementOfSeq
<1>2. CutAt(s, 0, x)
  BY <1>1 DEF CutAt, Below
<1>3. Inside(s, x) <=> 0 % 2 = 1
  BY <1>1, <1>2, ParityInside
<1> QED
  BY <1>3

\* The loop starts with its invariant ...
LEMMA EnteredMerges ==
  ASSUME NEW a \in Seq(Int), Ordered(a), NEW b \in Seq(Int), Ordered(b), NEW fa, NEW fb,
         NEW sr, sr <=> fa \/ fb
  PROVE  Merging(a, b, fa, fb, 0, 0, fa, fb, sr, << >>)
<1>1. Len(a) \in Nat /\ Len(b) \in Nat
  BY LenProperties
<1>2. Operand(a, 0) /\ Operand(b, 0)
  BY <1>1 DEF Operand
<1>3. << >> \in Seq(Int) /\ Len(<< >>) = 0
  OBVIOUS
<1>4. Ascending(<< >>)
  BY <1>3 DEF Ascending
<1>5. States(fa, fb, 0, 0, fa, fb, sr, << >>)
  <2>1. ~ (0 % 2 = 1) /\ ~ (Len(<< >>) % 2 = 1)
    BY <1>3
  <2> QED
    BY <2>1, Zenon DEF States
<1>6. Before(a, 0, b, 0) /\ Before(b, 0, a, 0)
  BY <1>1 DEF Before
<1>7. Before(<< >>, Len(<< >>), a, 0) /\ Before(<< >>, Len(<< >>), b, 0)
  BY <1>3 DEF Before
<1>8. Built(a, b, fa, fb, 0, 0, << >>)
  <2> SUFFICES ASSUME NEW x \in Int, Below(x, a, 0), Below(x, b, 0)
               PROVE  Inside(<< >>, x) <=> Wanted(a, b, fa, fb, x)
    BY DEF Built
  <2>1. ~ Inside(a, x) /\ ~ Inside(b, x)
    BY NothingBelow
  <2>2. Below(x, << >>, 0)
    BY <1>3 DEF Below
  <2>3. ~ Inside(<< >>, x)
    BY <1>3, <2>2, NothingBelow
  <2> QED
    BY <2>1, <2>3, Zenon DEF Wanted
<1>9. Strict(<< >>, a, 0, b, 0)
  BY <1>3 DEF Strict, StrictlyBefore
<1> QED
  BY <1>2, <1>3, <1>4, <1>5, <1>6, <1>7, <1>8, <1>9 DEF Merging

\* ... and ends with a vector of the integers that are wanted.
LEMMA MergedResult ==
  ASSUME NEW a, NEW b, NEW fa, NEW fb, NEW ia, NEW ib, NEW sa, NEW sb, NEW sr, NEW c,
         Merging(a, b, fa, fb, ia, ib, sa, sb, sr, c), ia = Len(a), ib = Len(b)
  PROVE  /\ c \in Seq(Int) /\ Ordered(c)
         /\ Canonical(a) /\ Canonical(b) => Canonical(c)
         /\ \A x \in Int :
              x \in Elements(c) <=>
                ~ ((~ (x \in Elements(a) <=> fa) \/ ~ (x \in Elements(b) <=> fb)) <=> (fa \/ fb))
<1>1. /\ a \in Seq(Int) /\ Ordered(a) /\ b \in Seq(Int) /\ Ordered(b)
      /\ c \in Seq(Int) /\ Ascending(c)
      /\ States(fa, fb, ia, ib, sa, sb, sr, c)
      /\ Built(a, b, fa, fb, ia, ib, c)
      /\ Canonical(a) /\ Canonical(b) => Strict(c, a, ia, b, ib)
  BY DEF Merging, Operand
<1>2. Len(a) \in Nat /\ Len(b) \in Nat /\ Len(c) \in Nat
  BY <1>1, LenProperties
<1>3. ~ (ia % 2 = 1) /\ ~ (ib % 2 = 1)
  BY <1>1, <1>2 DEF Ordered
<1>4. ~ (Len(c) % 2 = 1)
  BY <1>1, <1>3, Zenon DEF States
<1>5. Len(c) % 2 = 0
  <2>1. PICK n : n = Len(c)
    BY Zenon
  <2>2. n \in Nat /\ ~ (n % 2 = 1)
    BY <1>2, <1>4, <2>1
  <2>3. n % 2 = 0
    BY <2>2
  <2> QED
    BY <2>1, <2>3
<1>6. Ordered(c)
  BY <1>1, <1>5 DEF Ordered, Ascending
<1>7. Canonical(a) /\ Canonical(b) => Canonical(c)
  BY <1>1, <1>5 DEF Canonical, Strict
<1>8. ASSUME NEW x \in Int
      PROVE  x \in Elements(c) <=>
               ~ ((~ (x \in Elements(a) <=> fa) \/ ~ (x \in Elements(b) <=> fb)) <=> (fa \/ fb))
  <2>1. Below(x, a, ia) /\ Below(x, b, ib)
    BY <1>2 DEF Below
  <2>2. Inside(c, x) <=> Wanted(a, b, fa, fb, x)
    BY <1>1, <2>1 DEF Built
  <2>3. (Inside(a, x) <=> x \in Elements(a)) /\ (Inside(b, x) <=> x \in Elements(b))
    BY <1>1, MemberPosition DEF Inside
  <2>4. Inside(c, x) <=> x \in Elements(c)
    BY <1>1, <1>6, MemberPosition DEF Inside
  <2> QED
    BY <2>2, <2>3, <2>4, Zenon DEF Wanted
<1> QED
  BY <1>1, <1>6, <1>7, <1>8

\* The locals of a call that runs.
Locals ==
  [ a : Seq(Int), b : Seq(Int), ia : Int, ib : Int,
    state_a : BOOLEAN, state_b : BOOLEAN, state_res : BOOLEAN, c : Seq(Int) ]

Loop(l, flips) ==
  /\ l \in Locals
  /\ Merging(l.a, l.b, flips[1], flips[2], l.ia, l.ib, l.state_a, l.state_b, l.state_res, l.c)

\* Entered is the loop before its first turn.
LEMMA EnteredLoop ==
  ASSUME NEW a \in Seq(Int), Ordered(a), NEW b \in Seq(Int), Ordered(b), NEW flips \in BOOLEAN \X BOOLEAN
  PROVE  /\ Loop(Entered(a, b, flips), flips)
         /\ Entered(a, b, flips).a = a /\ Entered(a, b, flips).b = b
<1>1. PICK fa \in BOOLEAN, fb \in BOOLEAN : flips = << fa, fb >>
  OBVIOUS
<1>2. PICK sr : sr = (fa \/ fb)
  BY Zenon
<1>3. flips[1] = fa /\ flips[2] = fb
  BY <1>1
<1>4. PICK l : l = [ a |-> a, b |-> b, ia |-> 0, ib |-> 0,
                     state_a |-> fa, state_b |-> fb, state_res |-> sr, c |-> << >> ]
  BY Zenon
<1>5. Entered(a, b, flips) = l
  BY <1>2, <1>3, <1>4, Zenon DEF Entered
<1>6. /\ l.a = a /\ l.b = b /\ l.ia = 0 /\ l.ib = 0
      /\ l.state_a = fa /\ l.state_b = fb /\ l.state_res = sr /\ l.c = << >>
  BY <1>4
<1>7. Merging(a, b, fa, fb, 0, 0, fa, fb, sr, << >>)
  BY <1>2, EnteredMerges, Zenon
<1>8. sr \in BOOLEAN /\ << >> \in Seq(Int) /\ 0 \in Int
  BY <1>2
<1>9. l \in Locals
  BY <1>4, <1>8, Zenon DEF Locals
<1> QED
  BY <1>3, <1>5, <1>6, <1>7, <1>9, Zenon DEF Loop

\* Turn is a turn of the loop.
LEMMA TurnLoop ==
  ASSUME NEW l, NEW flips, Loop(l, flips), runa(l) \/ runb(l)
  PROVE  Loop(Turn(l), flips) /\ Turn(l).a = l.a /\ Turn(l).b = l.b
<1>1. /\ l.a \in Seq(Int) /\ l.b \in Seq(Int) /\ l.ia \in Int /\ l.ib \in Int /\ l.c \in Seq(Int)
      /\ l.state_a \in BOOLEAN /\ l.state_b \in BOOLEAN /\ l.state_res \in BOOLEAN
  BY DEF Loop, Locals
<1>2. PICK a, b, ia, ib, sa, sb, sr, c :
         /\ a = l.a /\ b = l.b /\ ia = l.ia /\ ib = l.ib
         /\ sa = l.state_a /\ sb = l.state_b /\ sr = l.state_res /\ c = l.c
  BY Zenon
<1>3. Merging(a, b, flips[1], flips[2], ia, ib, sa, sb, sr, c)
  BY <1>2 DEF Loop
<1>4. PICK steps_a, steps_b : steps_a = adv_a(l) /\ steps_b = adv_b(l)
  BY Zenon
<1>14. steps_a \in BOOLEAN /\ steps_b \in BOOLEAN
  <2>1. adv_a(l) \in BOOLEAN /\ adv_b(l) \in BOOLEAN
    BY Zenon DEF adv_a, adv_b
  <2> QED
    BY <1>4, <2>1, Zenon
<1>5. PICK val, ia2, ib2, sa2, sb2, sr2, c2 :
         /\ val = IF steps_b THEN b[ib+1] ELSE a[ia+1]
         /\ ia2 = IF steps_a THEN ia + 1 ELSE ia
         /\ ib2 = IF steps_b THEN ib + 1 ELSE ib
         /\ sa2 = (sa # steps_a) /\ sb2 = (sb # steps_b) /\ sr2 = (sa2 \/ sb2)
         /\ c2 = IF sr2 # sr THEN Append(c, val) ELSE c
  BY Zenon
<1>6. Turn(l) = [ l EXCEPT !.ia = ia2, !.ib = ib2, !.state_a = sa2, !.state_b = sb2,
                           !.state_res = sr2, !.c = c2 ]
  BY <1>2, <1>4, <1>5, Zenon DEF Turn
<1>7. PICK t : t = [ l EXCEPT !.ia = ia2, !.ib = ib2, !.state_a = sa2, !.state_b = sb2,
                              !.state_res = sr2, !.c = c2 ]
  BY Zenon
<1>8. /\ t.a = a /\ t.b = b /\ t.ia = ia2 /\ t.ib = ib2
      /\ t.state_a = sa2 /\ t.state_b = sb2 /\ t.state_res = sr2 /\ t.c = c2
  <2>1. l \in Locals
    BY DEF Loop
  <2> QED
    BY <1>2, <1>7, <2>1 DEF Locals
<1>9. /\ steps_a <=> ia # Len(a) /\ (~ (ib # Len(b)) \/ a[ia+1] <= b[ib+1])
      /\ steps_b <=> ib # Len(b) /\ (~ (ia # Len(a)) \/ b[ib+1] <= a[ia+1])
      /\ ia # Len(a) \/ ib # Len(b)
  <2>1. /\ adv_a(l) <=> ia # Len(a) /\ (~ (ib # Len(b)) \/ a[ia+1] <= b[ib+1])
        /\ adv_b(l) <=> ib # Len(b) /\ (~ (ia # Len(a)) \/ b[ib+1] <= a[ia+1])
    BY <1>2, Zenon DEF adv_a, adv_b, runa, runb
  <2>2. ia # Len(a) \/ ib # Len(b)
    BY <1>2, Zenon DEF runa, runb
  <2> QED
    BY <1>4, <2>1, <2>2, Zenon
<1>10. /\ a \in Seq(Int) /\ b \in Seq(Int) /\ c \in Seq(Int)
       /\ ia \in Int /\ 0 <= ia /\ ia <= Len(a) /\ ib \in Int /\ 0 <= ib /\ ib <= Len(b)
       /\ Len(a) \in Nat /\ Len(b) \in Nat
       /\ ia # Len(a) => a[ia+1] \in Int
       /\ ib # Len(b) => b[ib+1] \in Int
  <2>1. a \in Seq(Int) /\ b \in Seq(Int) /\ c \in Seq(Int) /\ ia \in 0 .. Len(a) /\ ib \in 0 .. Len(b)
    BY <1>3 DEF Merging, Operand
  <2>2. Len(a) \in Nat /\ Len(b) \in Nat
    BY <2>1, LenProperties
  <2>3. ASSUME ia # Len(a)
        PROVE  a[ia+1] \in Int
    <3>1. ia + 1 \in 1 .. Len(a)
      BY <2>1, <2>2, <2>3
    <3> QED
      BY <2>1, <3>1, ElementOfSeq
  <2>4. ASSUME ib # Len(b)
        PROVE  b[ib+1] \in Int
    <3>1. ib + 1 \in 1 .. Len(b)
      BY <2>1, <2>2, <2>4
    <3> QED
      BY <2>1, <3>1, ElementOfSeq
  <2> QED
    BY <2>1, <2>2, <2>3, <2>4
<1>11. /\ val \in Int /\ (steps_a \/ steps_b)
       /\ Stepped(a, ia, val, steps_a, ia2) /\ Stepped(b, ib, val, steps_b, ib2)
  <2>1. PICK x, y : x = a[ia+1] /\ y = b[ib+1]
    BY Zenon
  <2>2. CASE ia # Len(a) /\ ib # Len(b)
    <3>1. x \in Int /\ y \in Int /\ (steps_a <=> x <= y) /\ (steps_b <=> y <= x) /\ ia < Len(a) /\ ib < Len(b)
      BY <1>9, <1>10, <2>1, <2>2
    <3>2. val = IF steps_b THEN y ELSE x
      BY <1>5, <2>1
    <3>3. CASE x = y
      BY <1>5, <2>1, <3>1, <3>2, <3>3 DEF Stepped
    <3>4. CASE x < y
      <4>1. steps_a /\ ~ steps_b /\ val = x
        BY <3>1, <3>2, <3>4
      <4> QED
        BY <1>5, <2>1, <3>1, <3>4, <4>1 DEF Stepped
    <3>5. CASE y < x
      <4>1. steps_b /\ ~ steps_a /\ val = y
        BY <3>1, <3>2, <3>5
      <4> QED
        BY <1>5, <2>1, <3>1, <3>5, <4>1 DEF Stepped
    <3> QED
      BY <3>1, <3>3, <3>4, <3>5
  <2>3. CASE ia # Len(a) /\ ib = Len(b)
    <3>1. steps_a /\ ~ steps_b /\ val = x /\ x \in Int /\ ia < Len(a)
      BY <1>5, <1>9, <1>10, <2>1, <2>3
    <3> QED
      BY <1>5, <2>1, <2>3, <3>1 DEF Stepped
  <2>4. CASE ia = Len(a) /\ ib # Len(b)
    <3>1. steps_b /\ ~ steps_a /\ val = y /\ y \in Int /\ ib < Len(b)
      BY <1>5, <1>9, <1>10, <2>1, <2>4
    <3> QED
      BY <1>5, <2>1, <2>4, <3>1 DEF Stepped
  <2> QED
    BY <1>9, <2>2, <2>3, <2>4
<1>12. /\ sa2 \in BOOLEAN /\ sb2 \in BOOLEAN /\ sr2 \in BOOLEAN
       /\ sa2 <=> ~ (sa <=> steps_a)
       /\ sb2 <=> ~ (sb <=> steps_b)
       /\ sr2 <=> sa2 \/ sb2
       /\ \/ (sr2 <=> sr) /\ c2 = c
          \/ ~ (sr2 <=> sr) /\ c2 = Append(c, val)
  <2>1. sa \in BOOLEAN /\ sb \in BOOLEAN /\ sr \in BOOLEAN
    BY <1>1, <1>2
  <2>2. sa2 \in BOOLEAN /\ sb2 \in BOOLEAN /\ sr2 \in BOOLEAN
    BY <1>5, Zenon
  <2>3. (sa2 <=> ~ (sa <=> steps_a)) /\ (sb2 <=> ~ (sb <=> steps_b)) /\ (sr2 <=> sa2 \/ sb2)
    BY <1>5, <1>14, <2>1, Zenon
  <2>6. c2 = IF sr2 # sr THEN Append(c, val) ELSE c
    BY <1>5
  <2>4. ASSUME sr2 = sr
        PROVE  (sr2 <=> sr) /\ c2 = c
    BY <2>4, <2>6
  <2>5. ASSUME sr2 # sr
        PROVE  ~ (sr2 <=> sr) /\ c2 = Append(c, val)
    <3>1. c2 = Append(c, val)
      BY <2>5, <2>6
    <3>2. ~ (sr2 <=> sr)
      <4>1. sr \in {TRUE, FALSE} /\ sr2 \in {TRUE, FALSE}
        BY <2>1, <2>2
      <4> QED
        BY <2>5, <4>1
    <3> QED
      BY <3>1, <3>2
  <2> QED
    BY <2>2, <2>3, <2>4, <2>5
<1>13. Merging(a, b, flips[1], flips[2], ia2, ib2, sa2, sb2, sr2, c2)
  BY <1>3, <1>11, <1>12, <1>14, TurnMerges
<1>15. t \in Locals
  <2>1. ia2 \in Int /\ ib2 \in Int /\ c2 \in Seq(Int)
    <3>1. ia2 \in Int /\ ib2 \in Int
      BY <1>5, <1>10
    <3>2. c2 \in Seq(Int)
      BY <1>13 DEF Merging
    <3> QED
      BY <3>1, <3>2
  <2>2. t = [ a |-> a, b |-> b, ia |-> ia2, ib |-> ib2,
              state_a |-> sa2, state_b |-> sb2, state_res |-> sr2, c |-> c2 ]
    <3>1. l \in Locals
      BY DEF Loop
    <3> QED
      BY <1>2, <1>7, <3>1 DEF Locals
  <2> QED
    BY <1>10, <1>12, <2>1, <2>2, Zenon DEF Locals
<1> QED
  BY <1>2, <1>6, <1>7, <1>8, <1>13, <1>15 DEF Loop

LEMMA FlipsType ==
  /\ DOMAIN Flips = { "unite", "intersect", "subtract" }
  /\ Flips["unite"] = << FALSE, FALSE >>
  /\ Flips["intersect"] = << TRUE, TRUE >>
  /\ Flips["subtract"] = << TRUE, FALSE >>
  /\ \A name \in DOMAIN Flips : Flips[name] \in BOOLEAN \X BOOLEAN
<1>1. DOMAIN Flips = { "unite", "intersect", "subtract" }
  BY DEF Flips
<1>2. Flips["unite"] = << FALSE, FALSE >>
  BY DEF Flips
<1>3. Flips["intersect"] = << TRUE, TRUE >>
  BY DEF Flips
<1>4. Flips["subtract"] = << TRUE, FALSE >>
  BY DEF Flips
<1>5. << FALSE, FALSE >> \in BOOLEAN \X BOOLEAN /\ << TRUE, TRUE >> \in BOOLEAN \X BOOLEAN
      /\ << TRUE, FALSE >> \in BOOLEAN \X BOOLEAN
  OBVIOUS
<1> QED
  BY <1>1, <1>2, <1>3, <1>4, <1>5

\* What the call leaves: the union, the intersection or the difference.
Combined(name, a, b) ==
  IF name = "unite" THEN Elements(a) \cup Elements(b)
  ELSE IF name = "intersect" THEN Elements(a) \cap Elements(b)
  ELSE Elements(a) \ Elements(b)

LEMMA MergedSet ==
  ASSUME NEW l, NEW name \in DOMAIN Flips, Loop(l, Flips[name]), ~ runa(l), ~ runb(l)
  PROVE  /\ l.c \in Seq(Int) /\ Ordered(l.c)
         /\ Canonical(l.a) /\ Canonical(l.b) => Canonical(l.c)
         /\ Elements(l.c) = Combined(name, l.a, l.b)
<1>1. PICK a, b, fa, fb, c : a = l.a /\ b = l.b /\ fa = Flips[name][1] /\ fb = Flips[name][2] /\ c = l.c
  BY Zenon
<1>2. Merging(a, b, fa, fb, l.ia, l.ib, l.state_a, l.state_b, l.state_res, c)
      /\ l.ia = Len(a) /\ l.ib = Len(b)
  BY <1>1, Zenon DEF Loop, runa, runb
<1>3. /\ c \in Seq(Int) /\ Ordered(c)
      /\ Canonical(a) /\ Canonical(b) => Canonical(c)
      /\ \A x \in Int :
           x \in Elements(c) <=>
             ~ ((~ (x \in Elements(a) <=> fa) \/ ~ (x \in Elements(b) <=> fb)) <=> (fa \/ fb))
  BY <1>2, MergedResult
<1>4. a \in Seq(Int) /\ Ordered(a) /\ b \in Seq(Int) /\ Ordered(b)
  BY <1>2 DEF Merging, Operand
<1>5. \A x : (x \in Elements(a) => x \in Int) /\ (x \in Elements(b) => x \in Int)
             /\ (x \in Elements(c) => x \in Int)
  BY <1>3, <1>4, ElementsIff DEF Ordered
<1>6. \/ name = "unite" /\ fa = FALSE /\ fb = FALSE
      \/ name = "intersect" /\ fa = TRUE /\ fb = TRUE
      \/ name = "subtract" /\ fa = TRUE /\ fb = FALSE
  <2>1. name = "unite" \/ name = "intersect" \/ name = "subtract"
    BY FlipsType
  <2>2. PICK f : f = Flips[name]
    BY Zenon
  <2>3. fa = f[1] /\ fb = f[2]
    BY <1>1, <2>2
  <2>4. CASE name = "unite"
    <3>1. f = << FALSE, FALSE >>
      BY <2>2, <2>4, FlipsType, Zenon
    <3> QED
      BY <2>3, <2>4, <3>1
  <2>5. CASE name = "intersect"
    <3>1. f = << TRUE, TRUE >>
      BY <2>2, <2>5, FlipsType, Zenon
    <3> QED
      BY <2>3, <2>5, <3>1
  <2>6. CASE name = "subtract"
    <3>1. f = << TRUE, FALSE >>
      BY <2>2, <2>6, FlipsType, Zenon
    <3> QED
      BY <2>3, <2>6, <3>1
  <2> QED
    BY <2>1, <2>4, <2>5, <2>6
<1>7. Elements(c) = Combined(name, a, b)
  <2>1. CASE name = "unite" /\ fa = FALSE /\ fb = FALSE
    <3>1. \A x \in Int : x \in Elements(c) <=> x \in Elements(a) \/ x \in Elements(b)
      BY <1>3, <2>1
    <3>2. Elements(c) = Elements(a) \cup Elements(b)
      BY <1>5, <3>1
    <3> QED
      BY <2>1, <3>2 DEF Combined
  <2>2. CASE name = "intersect" /\ fa = TRUE /\ fb = TRUE
    <3>1. \A x \in Int : x \in Elements(c) <=> x \in Elements(a) /\ x \in Elements(b)
      BY <1>3, <2>2
    <3>2. Elements(c) = Elements(a) \cap Elements(b)
      BY <1>5, <3>1
    <3> QED
      BY <2>2, <3>2 DEF Combined
  <2>3. CASE name = "subtract" /\ fa = TRUE /\ fb = FALSE
    <3>1. \A x \in Int : x \in Elements(c) <=> x \in Elements(a) /\ x \notin Elements(b)
      BY <1>3, <2>3
    <3>2. Elements(c) = Elements(a) \ Elements(b)
      BY <1>5, <3>1
    <3> QED
      BY <2>3, <3>2 DEF Combined
  <2> QED
    BY <1>6, <2>1, <2>2, <2>3
<1> QED
  BY <1>1, <1>3, <1>7

----------------------------------------------------------------------------
(* The object.                                                             *)

\* While generalUnion runs the vector is its first operand, and the loop's
\* invariant holds; between calls the last call is known by its length.
Running ==
  \E name \in DOMAIN Flips, other \in Others :
    /\ call = << name, other >>
    /\ u.a = r /\ u.b = other
    /\ Loop(u, Flips[name])

ObjectInv ==
  /\ r \in Seq(Int) /\ Ordered(r)
  /\ u = << >> => Len(call) = 1 \/ Len(call) = 3
  /\ u # << >> => Running

LEMMA LocalsNotEmpty ==
  ASSUME NEW l \in Locals
  PROVE  l # << >>
<1>1. "ia" \in DOMAIN l
  BY DEF Locals
<1>2. "ia" \notin DOMAIN << >>
  OBVIOUS
<1> QED
  BY <1>1, <1>2

LEMMA OthersType ==
  \A s \in Others : s \in Seq(Int) /\ Ordered(s)
<1> SUFFICES ASSUME NEW s \in Others
             PROVE  s \in Seq(Int) /\ Ordered(s)
  OBVIOUS
<1>1. s \in Seq(Values) /\ Ordered(s) /\ Values \subseteq Int
  BY ValuesAssumption, OthersAssumption
<1>2. Len(s) \in Nat /\ (\A i \in 1 .. Len(s) : s[i] \in Int) /\ s = [ i \in 1 .. Len(s) |-> s[i] ]
  BY <1>1, ElementOfSeq, LenProperties
<1> QED
  BY <1>1, <1>2

\* What each of the calls with a range does to the vector.
LEMMA RangeCallKeeps ==
  ASSUME NEW s \in Seq(Int), Ordered(s), NEW v1 \in Int, NEW v2 \in Int
  PROVE  /\ appendAssert(s, v1, v2) =>
              /\ append(s, v1, v2) \in Seq(Int) /\ Ordered(append(s, v1, v2))
              /\ Elements(append(s, v1, v2)) = Elements(s) \cup (v1 .. v2 - 1)
              /\ Canonical(s) => Canonical(append(s, v1, v2))
         /\ v1 <= v2 =>
              /\ add(s, v1, v2) \in Seq(Int) /\ Ordered(add(s, v1, v2))
              /\ Elements(add(s, v1, v2)) = Elements(s) \cup (v1 .. v2 - 1)
              /\ Canonical(s) /\ v1 < v2 => Canonical(add(s, v1, v2))
              /\ remove(s, v1, v2) \in Seq(Int) /\ Ordered(remove(s, v1, v2))
              /\ Elements(remove(s, v1, v2)) = Elements(s) \ (v1 .. v2 - 1)
              /\ Canonical(s) /\ v1 < v2 => Canonical(remove(s, v1, v2))
              /\ intersect(s, v1, v2) \in Seq(Int) /\ Ordered(intersect(s, v1, v2))
              /\ Elements(intersect(s, v1, v2)) = Elements(s) \cap (v1 .. v2 - 1)
              /\ Canonical(s) /\ v1 < v2 => Canonical(intersect(s, v1, v2))
<1>1. ASSUME appendAssert(s, v1, v2)
      PROVE  /\ append(s, v1, v2) \in Seq(Int) /\ Ordered(append(s, v1, v2))
             /\ Elements(append(s, v1, v2)) = Elements(s) \cup (v1 .. v2 - 1)
             /\ Canonical(s) => Canonical(append(s, v1, v2))
  <2>1. append(s, v1, v2) \in Seq(Int)
    BY AppendType
  <2>2. Ordered(append(s, v1, v2))
    BY AppendOrdered
  <2>3. Elements(append(s, v1, v2)) = Elements(s) \cup (v1 .. v2 - 1)
    BY <1>1, AppendElements
  <2>4. Canonical(s) => Canonical(append(s, v1, v2))
    BY <1>1, AppendCanonical
  <2> QED
    BY <2>1, <2>2, <2>3, <2>4
<1>2. ASSUME v1 <= v2
      PROVE  /\ add(s, v1, v2) \in Seq(Int) /\ Ordered(add(s, v1, v2))
             /\ Elements(add(s, v1, v2)) = Elements(s) \cup (v1 .. v2 - 1)
             /\ Canonical(s) /\ v1 < v2 => Canonical(add(s, v1, v2))
  BY <1>2, AddRemoveResult, AddElements DEF add
<1>3. ASSUME v1 <= v2
      PROVE  /\ remove(s, v1, v2) \in Seq(Int) /\ Ordered(remove(s, v1, v2))
             /\ Elements(remove(s, v1, v2)) = Elements(s) \ (v1 .. v2 - 1)
             /\ Canonical(s) /\ v1 < v2 => Canonical(remove(s, v1, v2))
  BY <1>3, AddRemoveResult, RemoveElements DEF remove
<1>4. ASSUME v1 <= v2
      PROVE  /\ intersect(s, v1, v2) \in Seq(Int) /\ Ordered(intersect(s, v1, v2))
             /\ Elements(intersect(s, v1, v2)) = Elements(s) \cap (v1 .. v2 - 1)
             /\ Canonical(s) /\ v1 < v2 => Canonical(intersect(s, v1, v2))
  BY <1>4, IntersectResult, IntersectElements
<1> QED
  BY <1>1, <1>2, <1>3, <1>4

LEMMA InitObject == Init => ObjectInv
<1> SUFFICES ASSUME Init
             PROVE  ObjectInv
  OBVIOUS
<1>1. r = << >> /\ u = << >> /\ call = << "clear" >>
  BY DEF Init
<1>2. r \in Seq(Int) /\ Ordered(r) /\ Len(call) = 1
  BY <1>1 DEF Ordered
<1> QED
  BY <1>1, <1>2 DEF ObjectInv

\* The calls that return at once, one by one.
LEMMA RangeCallSteps ==
  ASSUME NEW v1 \in Values, NEW v2 \in Values, ObjectInv,
         Append2(v1, v2) \/ Add(v1, v2) \/ Remove(v1, v2) \/ Intersect(v1, v2)
  PROVE  /\ r' \in Seq(Int) /\ Ordered(r') /\ Len(call') = 3 /\ call'[2] = v1 /\ call'[3] = v2
         /\ Canonical(r) /\ v1 < v2 => Canonical(r')
         /\ \/ call' \in { << "append", v1, v2 >>, << "add", v1, v2 >> }
               /\ Elements(r') = Elements(r) \cup (v1 .. v2 - 1)
            \/ call' = << "remove", v1, v2 >> /\ Elements(r') = Elements(r) \ (v1 .. v2 - 1)
            \/ call' = << "intersect", v1, v2 >> /\ Elements(r') = Elements(r) \cap (v1 .. v2 - 1)
<1>1. v1 \in Int /\ v2 \in Int /\ r \in Seq(Int) /\ Ordered(r)
  BY ValuesAssumption DEF ObjectInv
<1>2. CASE Append2(v1, v2)
  <2>1. appendAssert(r, v1, v2) /\ r' = append(r, v1, v2) /\ call' = << "append", v1, v2 >>
    BY <1>2 DEF Append2
  <2>2. /\ append(r, v1, v2) \in Seq(Int) /\ Ordered(append(r, v1, v2))
        /\ Elements(append(r, v1, v2)) = Elements(r) \cup (v1 .. v2 - 1)
        /\ Canonical(r) => Canonical(append(r, v1, v2))
    BY <1>1, <2>1, RangeCallKeeps
  <2> QED
    BY <2>1, <2>2
<1>3. CASE Add(v1, v2)
  <2>1. v1 <= v2 /\ r' = add(r, v1, v2) /\ call' = << "add", v1, v2 >>
    BY <1>3 DEF Add, Legal
  <2>2. /\ add(r, v1, v2) \in Seq(Int) /\ Ordered(add(r, v1, v2))
        /\ Elements(add(r, v1, v2)) = Elements(r) \cup (v1 .. v2 - 1)
        /\ Canonical(r) /\ v1 < v2 => Canonical(add(r, v1, v2))
    BY <1>1, <2>1, RangeCallKeeps
  <2> QED
    BY <2>1, <2>2
<1>4. CASE Remove(v1, v2)
  <2>1. v1 <= v2 /\ r' = remove(r, v1, v2) /\ call' = << "remove", v1, v2 >>
    BY <1>4 DEF Remove, Legal
  <2>2. /\ remove(r, v1, v2) \in Seq(Int) /\ Ordered(remove(r, v1, v2))
        /\ Elements(remove(r, v1, v2)) = Elements(r) \ (v1 .. v2 - 1)
        /\ Canonical(r) /\ v1 < v2 => Canonical(remove(r, v1, v2))
    BY <1>1, <2>1, RangeCallKeeps
  <2> QED
    BY <2>1, <2>2
<1>5. CASE Intersect(v1, v2)
  <2>1. v1 <= v2 /\ r' = intersect(r, v1, v2) /\ call' = << "intersect", v1, v2 >>
    BY <1>5 DEF Intersect, Legal
  <2>2. /\ intersect(r, v1, v2) \in Seq(Int) /\ Ordered(intersect(r, v1, v2))
        /\ Elements(intersect(r, v1, v2)) = Elements(r) \cap (v1 .. v2 - 1)
        /\ Canonical(r) /\ v1 < v2 => Canonical(intersect(r, v1, v2))
    BY <1>1, <2>1, RangeCallKeeps
  <2> QED
    BY <2>1, <2>2
<1> QED
  BY <1>2, <1>3, <1>4, <1>5

\* The steps of a call with another rangeset.
LEMMA MergeSteps ==
  ASSUME ObjectInv, u # << >>
  PROVE  /\ MergeTurn => Running' /\ u' # << >>
         /\ Swap => \E name \in DOMAIN Flips, other \in Others :
                      /\ call = << name, other >> /\ u.b = other
                      /\ r' \in Seq(Int) /\ Ordered(r')
                      /\ Canonical(r) /\ Canonical(u.b) => Canonical(r')
                      /\ Elements(r') = Combined(name, r, other)
<1>1. PICK name \in DOMAIN Flips, other \in Others :
        /\ call = << name, other >>
        /\ u.a = r /\ u.b = other
        /\ Loop(u, Flips[name])
  BY DEF ObjectInv, Running
<1>2. ASSUME MergeTurn
      PROVE  Running' /\ u' # << >>
  <2>1. (runa(u) \/ runb(u)) /\ u' = Turn(u) /\ r' = r /\ call' = call
    BY <1>2 DEF MergeTurn
  <2>2. Loop(Turn(u), Flips[name]) /\ Turn(u).a = u.a /\ Turn(u).b = u.b
    BY <1>1, <2>1, TurnLoop
  <2>3. Loop(u', Flips[name]) /\ u'.a = r' /\ u'.b = other /\ call' = << name, other >>
    BY <1>1, <2>1, <2>2
  <2>4. u' # << >>
    BY <2>3, LocalsNotEmpty DEF Loop
  <2> QED
    BY <2>3, <2>4 DEF Running
<1>3. ASSUME Swap
      PROVE  /\ r' \in Seq(Int) /\ Ordered(r')
             /\ Canonical(r) /\ Canonical(u.b) => Canonical(r')
             /\ Elements(r') = Combined(name, r, other)
  <2>1. ~ runa(u) /\ ~ runb(u) /\ r' = u.c
    BY <1>3 DEF Swap
  <2>2. /\ u.c \in Seq(Int) /\ Ordered(u.c)
        /\ Canonical(u.a) /\ Canonical(u.b) => Canonical(u.c)
        /\ Elements(u.c) = Combined(name, u.a, u.b)
    BY <1>1, <2>1, MergedSet
  <2> QED
    BY <1>1, <2>1, <2>2
<1> QED
  BY <1>1, <1>2, <1>3

\* The step that starts one.
LEMMA CallWithStep ==
  ASSUME ObjectInv, NEW name \in DOMAIN Flips, NEW other \in Others, CallWith(name, other)
  PROVE  Running' /\ u' # << >> /\ r' = r /\ call' = << name, other >>
<1>1. r' = r /\ u' = Entered(r, other, Flips[name]) /\ call' = << name, other >>
  BY DEF CallWith
<1>2. /\ r \in Seq(Int) /\ Ordered(r) /\ other \in Seq(Int) /\ Ordered(other)
      /\ Flips[name] \in BOOLEAN \X BOOLEAN
  BY FlipsType, OthersType DEF ObjectInv
<1>3. /\ Loop(Entered(r, other, Flips[name]), Flips[name])
      /\ Entered(r, other, Flips[name]).a = r /\ Entered(r, other, Flips[name]).b = other
  BY <1>2, EnteredLoop
<1>4. Loop(u', Flips[name]) /\ u'.a = r' /\ u'.b = other
  BY <1>1, <1>3
<1>5. u' # << >>
  BY <1>4, LocalsNotEmpty DEF Loop
<1> QED
  BY <1>1, <1>4, <1>5 DEF Running

LEMMA NextObject == ObjectInv /\ [Next]_vars => ObjectInv'
<1> SUFFICES ASSUME ObjectInv, [Next]_vars
             PROVE  ObjectInv'
  OBVIOUS
<1>1. CASE u = << >> /\ u' = << >> /\ Clear
  <2>1. r' = << >> /\ call' = << "clear" >>
    BY <1>1 DEF Clear
  <2>2. r' \in Seq(Int) /\ Ordered(r') /\ Len(call') = 1
    BY <2>1 DEF Ordered
  <2> QED
    BY <1>1, <2>2 DEF ObjectInv
<1>2. ASSUME u = << >>, u' = << >>, NEW v1 \in Values, NEW v2 \in Values,
             Append2(v1, v2) \/ Add(v1, v2) \/ Remove(v1, v2) \/ Intersect(v1, v2)
      PROVE  ObjectInv'
  <2>1. r' \in Seq(Int) /\ Ordered(r') /\ Len(call') = 3
    BY <1>2, RangeCallSteps
  <2> QED
    BY <1>2, <2>1 DEF ObjectInv
<1>3. ASSUME u = << >>, NEW name \in DOMAIN Flips, NEW other \in Others, CallWith(name, other)
      PROVE  ObjectInv'
  BY <1>3, CallWithStep DEF ObjectInv
<1>4. CASE u # << >> /\ MergeTurn
  <2>1. Running' /\ u' # << >> /\ r' = r
    BY <1>4, MergeSteps DEF MergeTurn
  <2> QED
    BY <2>1 DEF ObjectInv
<1>5. CASE u # << >> /\ Swap
  <2>1. r' \in Seq(Int) /\ Ordered(r')
    BY <1>5, MergeSteps
  <2>2. u' = << >> /\ call' = << "returned" >>
    BY <1>5 DEF Swap
  <2>3. Len(call') = 1
    BY <2>2
  <2> QED
    BY <2>1, <2>2, <2>3 DEF ObjectInv
<1>6. CASE UNCHANGED vars
  BY <1>6 DEF vars, ObjectInv, Running
<1> QED
  BY <1>1, <1>2, <1>3, <1>4, <1>5, <1>6 DEF Next

\* Between any two calls, and while one runs, the boundaries are in pairs and in
\* order, and generalUnion's loop has built what is wanted up to where it is.
THEOREM ObjectInvariance == Spec => []ObjectInv
BY InitObject, NextObject, PTL DEF Spec

----------------------------------------------------------------------------
(* The properties.                                                         *)

\* With an empty range, intersect writes outside exactly where a range starts.
LEMMA EmptyIntersect ==
  ASSUME NEW s \in Seq(Int), Ordered(s), NEW v \in Int
  PROVE  intersectInBounds(s, v, v) <=> ~StartsRange(s, v)
<1> DEFINE k == iiv(s, v)
           pos2 == IF k >= 0 /\ s[k+1] = v THEN k - 1 ELSE k
           starts == k % 2 = 0 /\ s[k+1] = v
<1>1. intersectInBounds(s, v, v) <=> (k % 2 = 0 => k < pos2 + 1 + (IF pos2 % 2 = 0 THEN 1 ELSE 0))
  BY Zenon DEF intersectInBounds
<1>2. StartsRange(s, v) <=> starts
  BY DEF StartsRange, contains
<1>3. k \in Int /\ -1 <= k
  <2>1. k \in -1 .. Len(s) - 1
    BY MemberPosition
  <2> QED
    BY <2>1, LenProperties
<1> HIDE DEF k
<1>4. CASE starts
  <2>1. k >= 0 /\ pos2 = k - 1 /\ (k - 1) % 2 # 0
    BY <1>3, <1>4
  <2> HIDE DEF pos2
  <2> QED
    BY <1>1, <1>2, <1>3, <1>4, <2>1
<1>5. CASE ~starts
  <2>1. k % 2 = 0 => pos2 = k
    BY <1>3, <1>5
  <2> HIDE DEF pos2
  <2> QED
    BY <1>1, <1>2, <1>3, <1>5, <2>1
<1> QED
  BY <1>4, <1>5

\* PositionsFit: no position that add, remove or intersect computes is outside
\* the vector, whatever was called before (addRemove's "cannot happen"), but for an
\* intersect with the empty range where one of the object's ranges starts.
THEOREM PositionsAlwaysFit == Spec => []PositionsFit
<1>1. ObjectInv => PositionsFit
  <2> SUFFICES ASSUME ObjectInv
               PROVE  PositionsFit
    OBVIOUS
  <2>1. r \in Seq(Int) /\ Ordered(r)
    BY DEF ObjectInv
  <2>2. ASSUME NEW v1 \in Values, NEW v2 \in Values
        PROVE  v1 <= v2 =>
                 /\ addRemoveInBounds(r, v1, v2, 0)
                 /\ addRemoveInBounds(r, v1, v2, 1)
                 /\ intersectInBounds(r, v1, v2) <=> v1 < v2 \/ ~StartsRange(r, v1)
    <3>1. v1 \in Int /\ v2 \in Int
      BY ValuesAssumption
    <3>2. ASSUME v1 <= v2
          PROVE  addRemoveInBounds(r, v1, v2, 0) /\ addRemoveInBounds(r, v1, v2, 1)
      BY <2>1, <3>1, <3>2, AddRemoveResult
    <3>3. ASSUME v1 < v2
          PROVE  intersectInBounds(r, v1, v2)
      <4>1. v1 <= v2
        BY <3>1, <3>3
      <4> QED
        BY <2>1, <3>1, <3>3, <4>1, IntersectResult
    <3>4. ASSUME v1 = v2
          PROVE  intersectInBounds(r, v1, v2) <=> ~StartsRange(r, v1)
      BY <2>1, <3>1, <3>4, EmptyIntersect
    <3>5. v1 <= v2 => v1 < v2 \/ v1 = v2
      BY <3>1
    <3>6. v1 = v2 => ~ v1 < v2
      BY <3>1
    <3> QED
      BY <3>2, <3>3, <3>4, <3>5, <3>6
  <2> QED
    BY <2>1, <2>2 DEF PositionsFit
<1> QED
  BY <1>1, ObjectInvariance, PTL

\* QueriesAgree: contains, findInterval and (on canonical vectors) containsAll
\* answer about the set that the object stands for, after any history.
THEOREM QueriesAlwaysAgree == Spec => []QueriesAgree
<1>1. ObjectInv => QueriesAgree
  <2> SUFFICES ASSUME ObjectInv, NEW v \in Values
               PROVE  /\ contains(r, v) <=> v \in Elements(r)
                      /\ v \in Elements(r) =>
                           v \in r[2 * findInterval(r, v) + 1] .. r[2 * findInterval(r, v) + 2] - 1
                      /\ v \notin Elements(r) => findInterval(r, v) = -1
                      /\ Canonical(r) =>
                           \A w \in Values :
                             v < w => (containsAll(r, v, w) <=> v .. w - 1 \subseteq Elements(r))
    BY DEF QueriesAgree
  <2>1. r \in Seq(Int) /\ Ordered(r) /\ v \in Int
    BY ValuesAssumption DEF ObjectInv
  <2>2. ASSUME Canonical(r), NEW w \in Values, v < w
        PROVE  containsAll(r, v, w) <=> v .. w - 1 \subseteq Elements(r)
    <3>1. w \in Int
      BY ValuesAssumption
    <3> QED
      BY <2>1, <2>2, <3>1, RangeQuery
  <2> QED
    BY <2>1, <2>2, MemberQueries
<1> QED
  BY <1>1, ObjectInvariance, PTL

\* StaysCanonical: no call with a nonempty range, or with a canonical rangeset,
\* leaves an empty range or two that touch.
THEOREM StaysCanonicalAlways == Spec => StaysCanonical
<1>1. ASSUME ObjectInv, [Next]_vars, Canonical(r), Len(call') = 3 => call'[2] < call'[3],
             u # << >> => Canonical(u.b)
      PROVE  Canonical(r')
  <2>1. CASE Clear
    <3>1. r' = << >>
      BY <2>1 DEF Clear
    <3> QED
      BY <3>1 DEF Canonical
  <2>2. ASSUME NEW v1 \in Values, NEW v2 \in Values,
               Append2(v1, v2) \/ Add(v1, v2) \/ Remove(v1, v2) \/ Intersect(v1, v2)
        PROVE  Canonical(r')
    BY <1>1, <2>2, RangeCallSteps
  <2>3. ASSUME NEW name \in DOMAIN Flips, NEW other \in Others, CallWith(name, other)
        PROVE  Canonical(r')
    BY <1>1, <2>3 DEF CallWith
  <2>4. CASE u # << >> /\ MergeTurn
    BY <1>1, <2>4 DEF MergeTurn
  <2>5. CASE u # << >> /\ Swap
    BY <1>1, <2>5, MergeSteps
  <2>6. CASE UNCHANGED vars
    BY <1>1, <2>6 DEF vars
  <2> QED
    BY <1>1, <2>1, <2>2, <2>3, <2>4, <2>5, <2>6 DEF Next
<1>2. ObjectInv /\ [Next]_vars =>
        [ Canonical(r) /\ (Len(call') = 3 => call'[2] < call'[3])
          /\ (u # << >> => Canonical(u.b)) => Canonical(r') ]_vars
  BY <1>1
<1> QED
  BY <1>2, ObjectInvariance, PTL DEF Spec, StaysCanonical

----------------------------------------------------------------------------
(* The refinement.                                                         *)

\* The last call as the set's user sees it.
Seen == IF u = << >> THEN call ELSE << call[1], Elements(call[2]) >>

\* A rangeset of the integers that ranges between the bounds can have.
LEMMA OthersElements ==
  ASSUME NEW other \in Others
  PROVE  Elements(other) \in IntSet!Sets
<1>1. other \in Seq(Values) /\ Values \subseteq Int
  BY OthersAssumption, ValuesAssumption
<1>2. other \in Seq(Int) /\ Len(other) % 2 = 0
  BY OthersType DEF Ordered
<1>3. ASSUME NEW x \in Elements(other)
      PROVE  \E v1, v2 \in Values : x \in IntSet!Range(v1, v2)
  <2>1. PICK i \in 1 .. Len(other) : x \in Int /\ i % 2 = 1 /\ other[i] <= x /\ x < other[i+1]
    BY <1>2, <1>3, ElementsIff
  <2>2. Len(other) \in Nat
    BY <1>2, LenProperties
  <2>3. i # Len(other)
    BY <1>2, <2>1, <2>2
  <2>4. i + 1 \in 1 .. Len(other)
    BY <2>2, <2>3
  <2>5. other[i] \in Values /\ other[i+1] \in Values
    BY <1>1, <2>4, ElementOfSeq
  <2>6. x \in other[i] .. other[i+1] - 1
    <3>1. other[i] \in Int /\ other[i+1] \in Int
      BY <1>1, <2>5
    <3> QED
      BY <2>1, <3>1
  <2> QED
    BY <2>5, <2>6 DEF IntSet!Range
<1> QED
  BY <1>3 DEF IntSet!Sets

\* A step of the object is one of the set, or none.
LEMMA StepOfTheSet ==
  ObjectInv /\ [Next]_vars => [IntSet!Next]_<< Elements(r), Seen >>
<1> SUFFICES ASSUME ObjectInv, [Next]_vars
             PROVE  IntSet!Next \/ UNCHANGED << Elements(r), Seen >>
  OBVIOUS
<1>0. ObjectInv'
  BY NextObject
<1>1. u = << >> => ~ IntSet!Busy /\ Seen = call
  <2>1. u = << >> => Len(Seen) = 1 \/ Len(Seen) = 3
    BY DEF ObjectInv, Seen
  <2>2. PICK n : n = Len(Seen)
    BY Zenon
  <2>3. n = 1 \/ n = 3 => n # 2
    OBVIOUS
  <2>4. IntSet!Busy <=> Len(Seen) = 2
    BY DEF IntSet!Busy, Seen
  <2> QED
    BY <2>1, <2>2, <2>3, <2>4 DEF Seen
<1>2. CASE u = << >> /\ u' = << >> /\ Clear
  <2>1. r' = << >> /\ Seen' = << "clear" >>
    BY <1>2 DEF Clear, Seen
  <2>2. Elements(r') = {}
    BY <2>1 DEF Elements
  <2>3. IntSet!Clear
    BY <2>1, <2>2 DEF IntSet!Clear, Seen
  <2> QED
    BY <1>1, <1>2, <2>3 DEF IntSet!Next, IntSet!RangeCall
<1>3. ASSUME u = << >>, u' = << >>, NEW v1 \in Values, NEW v2 \in Values,
             Append2(v1, v2) \/ Add(v1, v2) \/ Remove(v1, v2) \/ Intersect(v1, v2)
      PROVE  IntSet!Next
  <2>1. \/ Seen' \in { << "append", v1, v2 >>, << "add", v1, v2 >> }
           /\ Elements(r)' = Elements(r) \cup (v1 .. v2 - 1)
        \/ Seen' = << "remove", v1, v2 >> /\ Elements(r)' = Elements(r) \ (v1 .. v2 - 1)
        \/ Seen' = << "intersect", v1, v2 >> /\ Elements(r)' = Elements(r) \cap (v1 .. v2 - 1)
    BY <1>3, RangeCallSteps DEF Seen
  <2>2. IntSet!Add(v1, v2) \/ IntSet!Remove(v1, v2) \/ IntSet!Intersect(v1, v2)
    BY <2>1 DEF IntSet!Add, IntSet!Remove, IntSet!Intersect, IntSet!Range, Seen
  <2> QED
    BY <1>1, <1>3, <2>2 DEF IntSet!Next, IntSet!RangeCall
<1>4. ASSUME u = << >>, NEW name \in DOMAIN Flips, NEW other \in Others, CallWith(name, other)
      PROVE  IntSet!Next
  <2>1. u' # << >> /\ r' = r /\ call' = << name, other >>
    BY <1>4, CallWithStep
  <2>2. Seen' = << name, Elements(other) >>
    BY <2>1 DEF Seen
  <2>3. IntSet!Begin(name, Elements(other))
    BY <2>1, <2>2 DEF IntSet!Begin, Seen
  <2>4. name \in { "unite", "intersect", "subtract" }
    BY FlipsType
  <2>5. IntSet!CallWith
    BY <2>3, <2>4, OthersElements DEF IntSet!CallWith
  <2> QED
    BY <1>1, <1>4, <2>5 DEF IntSet!Next
<1>5. CASE u # << >> /\ MergeTurn
  <2>1. r' = r /\ call' = call /\ u' # << >>
    BY <1>5, MergeSteps DEF MergeTurn
  <2>2. Seen' = Seen
    BY <1>5, <2>1 DEF Seen
  <2> QED
    BY <2>1, <2>2
<1>6. CASE u # << >> /\ Swap
  <2>1. PICK name \in DOMAIN Flips, other \in Others :
          /\ call = << name, other >>
          /\ Elements(r') = Combined(name, r, other)
    BY <1>6, MergeSteps
  <2>2. Seen' = << "returned" >>
    BY <1>6 DEF Swap, Seen
  <2>3. Seen = << name, Elements(other) >>
    BY <1>6, <2>1 DEF Seen
  <2>4. IntSet!Busy
    BY <2>3 DEF IntSet!Busy, Seen
  <2>5. Seen[1] = name /\ Seen[2] = Elements(other)
    BY <2>3
  <2>6. \/ name = "unite" /\ Elements(r') = Elements(r) \cup Elements(other)
        \/ name = "intersect" /\ Elements(r') = Elements(r) \cap Elements(other)
        \/ name = "subtract" /\ Elements(r') = Elements(r) \ Elements(other)
    BY <2>1, FlipsType DEF Combined
  <2>7. IntSet!Return
    BY <2>2, <2>5, <2>6 DEF IntSet!Return, Seen
  <2> QED
    BY <2>4, <2>7 DEF IntSet!Next
<1>7. CASE UNCHANGED vars
  BY <1>7 DEF vars, Seen
<1> QED
  BY <1>2, <1>3, <1>4, <1>5, <1>6, <1>7 DEF Next

\* ImplementsSet: whatever is called, the vector stands for the set that the
\* names of the calls describe, those with other rangesets included.  (Of
\* subtract, the comment at rangeset.h:212 says something else.)
THEOREM ObjectImplementsSet == Spec => ImplementsSet
<1>1. Init => IntSet!Init
  <2> SUFFICES ASSUME Init
               PROVE  Elements(r) = {} /\ Seen = << "clear" >>
    BY DEF IntSet!Init, Seen
  <2> QED
    BY DEF Init, Elements, Seen
<1>2. ObjectInv /\ [Next]_vars => [IntSet!Next]_<< Elements(r), IF u = << >> THEN call ELSE << call[1], Elements(call[2]) >> >>
  BY StepOfTheSet DEF Seen
<1> QED
  BY <1>1, <1>2, ObjectInvariance, PTL DEF Spec, ImplementsSet, IntSet!Spec

=============================================================================
