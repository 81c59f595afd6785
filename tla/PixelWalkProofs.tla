--------------------------- MODULE PixelWalkProofs --------------------------
(***************************************************************************)
(* The conversions of pixel numbers, for bases of every order and side: a  *)
(* number that a caller gets is one of a pixel of its base, the tables of  *)
(* the rings agree with the pixels, RING numbers are in the order of the   *)
(* sphere, a conversion keeps the pixel, the centre of a pixel is in it,   *)
(* the neighbors of a pixel are those that share its corners, the Peano    *)
(* curve goes on across an edge, and a map keeps its values.               *)
(***************************************************************************)
EXTENDS HealpixMap, QueryLemmas, FiniteSetTheorems

----------------------------------------------------------------------------
(* Bits.                                                                   *)

\* The functions that move the bits of a number are defined for all numbers.
BitStep(f, v, a, d) == IF v = 0 THEN 0 ELSE a * f[v \div d] + (v % 2)

LEMMA BitsRecur ==
  ASSUME NEW a \in Nat, NEW d \in { 2, 4 }
  PROVE  LET bits == CHOOSE f : f = [ v \in Nat |-> BitStep(f, v, a, d) ]
         IN  bits \in [ Nat -> Nat ] /\ \A v \in Nat : bits[v] = BitStep(bits, v, a, d)
<1> DEFINE Partial(g, k) == /\ g \in [ 0 .. k -> Nat ]
                            /\ \A v \in 0 .. k : g[v] = BitStep(g, v, a, d)
           S == { k \in Nat : \E g : Partial(g, k) }
           f == [ v \in Nat |-> (CHOOSE g : Partial(g, v))[v] ]
<1>1. ASSUME NEW v \in Nat, v # 0
      PROVE  v \div d \in 0 .. v - 1
  <2>1. CASE d = 2
    BY <1>1, <2>1
  <2>2. CASE d = 4
    BY <1>1, <2>2
  <2> QED
    BY <2>1, <2>2
<1>2. \A k \in Nat : k \in S
  <2>1. 0 \in S
    <3>1. Partial([ v \in 0 .. 0 |-> 0 ], 0)
      BY DEF BitStep
    <3> HIDE DEF Partial
    <3> QED
      BY <3>1
  <2>2. ASSUME NEW k \in Nat, k \in S
        PROVE  k + 1 \in S
    <3>1. PICK g : Partial(g, k)
      BY <2>2
    <3> DEFINE h == [ v \in 0 .. k + 1 |-> BitStep(g, v, a, d) ]
    <3>2. ASSUME NEW v \in 0 .. k
          PROVE  h[v] = g[v]
      <4>1. v \in 0 .. k + 1 /\ g[v] = BitStep(g, v, a, d)
        BY <3>1
      <4> QED
        BY <4>1
    <3>3. ASSUME NEW v \in 0 .. k + 1
          PROVE  h[v] = BitStep(h, v, a, d) /\ h[v] \in Nat
      <4> HIDE DEF Partial
      <4>1. CASE v = 0
        BY <4>1 DEF BitStep
      <4>2. CASE v # 0
        <5>1. v \in Nat /\ v \div d \in 0 .. k
          BY <1>1, <4>2
        <5>2. g[v \div d] \in Nat /\ h[v \div d] = g[v \div d]
          BY <3>1, <3>2, <5>1 DEF Partial
        <5>3. h[v] = a * g[v \div d] + (v % 2)
          BY <4>2 DEF BitStep
        <5>4. v % 2 \in Nat
          BY <5>1
        <5> HIDE DEF h
        <5> QED
          BY <4>2, <5>2, <5>3, <5>4 DEF BitStep
      <4> QED
        BY <4>1, <4>2
    <3>4. Partial(h, k + 1)
      <4> HIDE DEF Partial
      <4>1. h \in [ 0 .. k + 1 -> Nat ]
        BY <3>3
      <4> HIDE DEF h
      <4> QED
        BY <3>3, <4>1 DEF Partial
    <3> HIDE DEF Partial, h
    <3> QED
      BY <3>4
  <2> HIDE DEF S
  <2> QED
    BY <2>1, <2>2, NatSetInduction
<1>3. ASSUME NEW k \in Nat
      PROVE  Partial((CHOOSE g : Partial(g, k)), k)
  <2> HIDE DEF Partial
  <2> QED
    BY <1>2
<1>4. ASSUME NEW k \in Nat, NEW g, Partial(g, k), NEW m \in Nat, NEW h, Partial(h, m),
             NEW v \in Nat, v <= k, v <= m
      PROVE  g[v] = h[v]
  <2> DEFINE T == { u \in Nat : u <= k /\ u <= m /\ g[u] # h[u] }
  <2>1. T = {}
    <3>1. SUFFICES ASSUME T # {}
                   PROVE  FALSE
      OBVIOUS
    <3>2. PICK u \in T : \A w \in T : u <= w
      <4>1. T \in SUBSET Nat
        OBVIOUS
      <4> HIDE DEF T
      <4> QED
        BY <3>1, <4>1, LeastOfNats
    <3>3. u \in 0 .. k /\ u \in 0 .. m /\ u \in Nat
      OBVIOUS
    <3>4. g[u] = BitStep(g, u, a, d) /\ h[u] = BitStep(h, u, a, d)
      BY <1>4, <3>3
    <3> HIDE DEF Partial
    <3>5. u # 0
      BY <3>4 DEF BitStep
    <3>6. u \div d \in 0 .. u - 1
      BY <1>1, <3>3, <3>5
    <3>7. u \div d \in Nat /\ ~ (u <= u \div d) /\ u \div d <= k /\ u \div d <= m
      BY <3>3, <3>6
    <3>8. g[u \div d] = h[u \div d]
      BY <3>2, <3>7
    <3> QED
      BY <3>2, <3>4, <3>5, <3>8 DEF BitStep
  <2> QED
    BY <1>4, <2>1
<1>5. ASSUME NEW v \in Nat
      PROVE  f[v] = BitStep(f, v, a, d) /\ f[v] \in Nat
  <2> DEFINE g == CHOOSE u : Partial(u, v)
             h == CHOOSE u : Partial(u, v \div d)
  <2>1. f[v] = g[v]
    OBVIOUS
  <2>2. Partial(g, v)
    BY <1>3
  <2> HIDE DEF g
  <2>3. v \in 0 .. v /\ g[v] \in Nat /\ g[v] = BitStep(g, v, a, d)
    BY <2>2
  <2>4. CASE v = 0
    BY <2>1, <2>3, <2>4 DEF BitStep
  <2>5. CASE v # 0
    <3>1. v \div d \in Nat /\ v \div d <= v
      BY <1>1, <2>5
    <3>2. Partial(h, v \div d) /\ f[v \div d] = h[v \div d]
      BY <1>3, <3>1
    <3> HIDE DEF h, Partial, f
    <3>3. v \div d <= v \div d
      BY <3>1
    <3>4. g[v \div d] = h[v \div d]
      BY <1>4, <2>2, <3>1, <3>2, <3>3
    <3> QED
      BY <2>1, <2>3, <2>5, <3>2, <3>4 DEF BitStep
  <2> QED
    BY <2>4, <2>5
<1>6. f = [ v \in Nat |-> BitStep(f, v, a, d) ]
  <2> DEFINE g == [ v \in Nat |-> BitStep(f, v, a, d) ]
  <2>1. \A v \in Nat : f[v] = g[v]
    BY <1>5
  <2>2. f = [ v \in Nat |-> f[v] ] /\ g = [ v \in Nat |-> g[v] ]
    OBVIOUS
  <2> HIDE DEF f, g
  <2>3. f = g
    BY <2>1, <2>2
  <2> QED
    BY <2>3 DEF g
<1> HIDE DEF f
<1> DEFINE bits == CHOOSE g : g = [ v \in Nat |-> BitStep(g, v, a, d) ]
<1>7. bits = [ v \in Nat |-> BitStep(bits, v, a, d) ]
  BY <1>6
<1> HIDE DEF bits
<1>8. \A v \in Nat : bits[v] = BitStep(bits, v, a, d)
  BY <1>7
<1>9. ASSUME NEW v \in Nat
      PROVE  bits[v] \in Nat
  <2> DEFINE T == { u \in Nat : bits[u] \notin Nat }
  <2>1. T = {}
    <3>1. SUFFICES ASSUME T # {}
                   PROVE  FALSE
      OBVIOUS
    <3>2. PICK u \in T : \A w \in T : u <= w
      <4>1. T \in SUBSET Nat
        OBVIOUS
      <4> HIDE DEF T
      <4> QED
        BY <3>1, <4>1, LeastOfNats
    <3>3. u \in Nat /\ u # 0
      BY <1>8 DEF BitStep
    <3>4. u \div d \in 0 .. u - 1
      BY <1>1, <3>3
    <3>5. u \div d \in Nat /\ ~ (u <= u \div d) /\ u % 2 \in Nat
      BY <3>3, <3>4
    <3>6. bits[u \div d] \in Nat
      BY <3>2, <3>5
    <3>7. a * bits[u \div d] + (u % 2) \in Nat
      BY <3>5, <3>6
    <3>8. bits[u] = a * bits[u \div d] + (u % 2)
      BY <1>8, <3>3 DEF BitStep
    <3> QED
      BY <3>2, <3>7, <3>8
  <2> QED
    BY <2>1
<1>10. bits \in [ Nat -> Nat ]
  BY <1>7, <1>9
<1> QED
  BY <1>8, <1>10 DEF bits

LEMMA Bits ==
  /\ spread_bits \in [ Nat -> Nat ] /\ compress_bits \in [ Nat -> Nat ]
  /\ spread_bits[0] = 0 /\ compress_bits[0] = 0
  /\ \A v \in Nat :
       /\ spread_bits[v] = 4 * spread_bits[v \div 2] + (v % 2)
       /\ compress_bits[v] = 2 * compress_bits[v \div 4] + (v % 2)
<1>1. 4 \in Nat /\ 2 \in Nat /\ 2 \in { 2, 4 } /\ 4 \in { 2, 4 }
  OBVIOUS
<1>2. spread_bits = CHOOSE f : f = [ v \in Nat |-> BitStep(f, v, 4, 2) ]
  BY DEF spread_bits, BitStep
<1>3. compress_bits = CHOOSE f : f = [ v \in Nat |-> BitStep(f, v, 2, 4) ]
  BY DEF compress_bits, BitStep
<1>4. spread_bits \in [ Nat -> Nat ] /\ \A v \in Nat : spread_bits[v] = BitStep(spread_bits, v, 4, 2)
  <2> DEFINE f == CHOOSE f : f = [ v \in Nat |-> BitStep(f, v, 4, 2) ]
  <2>1. f \in [ Nat -> Nat ] /\ \A v \in Nat : f[v] = BitStep(f, v, 4, 2)
    BY <1>1, BitsRecur
  <2> QED
    BY <1>2, <2>1
<1>5. compress_bits \in [ Nat -> Nat ] /\ \A v \in Nat : compress_bits[v] = BitStep(compress_bits, v, 2, 4)
  <2> DEFINE f == CHOOSE f : f = [ v \in Nat |-> BitStep(f, v, 2, 4) ]
  <2>1. f \in [ Nat -> Nat ] /\ \A v \in Nat : f[v] = BitStep(f, v, 2, 4)
    BY <1>1, BitsRecur
  <2> QED
    BY <1>3, <2>1
<1>6. spread_bits[0] = 0 /\ compress_bits[0] = 0
  BY <1>4, <1>5 DEF BitStep
<1>7. ASSUME NEW v \in Nat
      PROVE  /\ spread_bits[v] = 4 * spread_bits[v \div 2] + (v % 2)
             /\ compress_bits[v] = 2 * compress_bits[v \div 4] + (v % 2)
  <2>1. CASE v = 0
    <3>1. v \div 2 = 0 /\ v \div 4 = 0 /\ v % 2 = 0
      BY <2>1
    <3> QED
      BY <1>6, <2>1, <3>1
  <2>2. CASE v # 0
    BY <1>4, <1>5, <2>2 DEF BitStep
  <2> QED
    BY <2>1, <2>2
<1> QED
  BY <1>4, <1>5, <1>6, <1>7

\* A number of k bits spreads to one of 2k bits, every second of them zero, ...
LEMMA SpreadBound ==
  ASSUME NEW n \in Nat, PowersUpTo(n), NEW x \in 0 .. 2^n - 1
  PROVE  spread_bits[x] \in Nat /\ 3 * spread_bits[x] <= 4^n - 1
<1> DEFINE S == { k \in Nat : k <= n => \A y \in 0 .. 2^k - 1 : 3 * spread_bits[y] <= 2^k * 2^k - 1 }
<1>1. 0 \in S
  <2>1. 2^0 = 1
    BY DEF PowersUpTo
  <2>2. \A y \in 0 .. 2^0 - 1 : y = 0
    BY <2>1
  <2>3. 3 * 0 <= 1 * 1 - 1
    OBVIOUS
  <2> QED
    BY <2>1, <2>2, <2>3, Bits
<1>2. ASSUME NEW k \in Nat, k \in S
      PROVE  k + 1 \in S
  <2>1. SUFFICES ASSUME k + 1 <= n, NEW y \in 0 .. 2^(k+1) - 1
                 PROVE  3 * spread_bits[y] <= 2^(k+1) * 2^(k+1) - 1
    OBVIOUS
  <2> DEFINE P == 2^k
             s == spread_bits[y \div 2]
  <2>2. k <= n /\ k \in 0 .. n
    BY <2>1
  <2>3. P \in Nat \ {0} /\ 2^(k+1) = 2 * P
    BY <2>2 DEF PowersUpTo
  <2> HIDE DEF P
  <2>4. y \in Nat /\ y < 2 * P
    BY <2>1, <2>3
  <2>5. y \div 2 \in 0 .. P - 1 /\ y \div 2 \in Nat /\ y % 2 \in 0 .. 1
    BY <2>3, <2>4
  <2>6. 3 * s <= P * P - 1
    BY <1>2, <2>2, <2>5 DEF P
  <2>7. s \in Nat /\ spread_bits[y] = 4 * s + (y % 2)
    BY <2>4, <2>5, Bits
  <2> HIDE DEF s
  <2>8. (2 * P) * (2 * P) = 4 * (P * P) /\ P * P \in Nat
    BY <2>3
  <2>9. 3 * spread_bits[y] <= 4 * (P * P) - 1
    <3> DEFINE Q == P * P
               c == y % 2
    <3>1. Q \in Nat /\ c \in 0 .. 1 /\ 3 * s <= Q - 1 /\ spread_bits[y] = 4 * s + c
      BY <2>5, <2>6, <2>7, <2>8
    <3> HIDE DEF Q, c
    <3>2. 3 * spread_bits[y] <= 4 * Q - 1
      BY <2>7, <3>1
    <3> QED
      BY <3>2 DEF Q
  <2> QED
    BY <2>3, <2>8, <2>9
<1>3. n \in S
  <2> HIDE DEF S
  <2>1. \A k \in Nat : k \in S => k + 1 \in S
    BY <1>2
  <2> QED
    BY <1>1, <2>1, NatSetInduction
<1>4. 3 * spread_bits[x] <= 2^n * 2^n - 1
  BY <1>3
<1>5. n \in 0 .. n
  OBVIOUS
<1>6. 4^n = 2^n * 2^n /\ 2^n \in Nat
  BY <1>5 DEF PowersUpTo
<1>7. x \in Nat
  BY <1>6
<1>8. spread_bits[x] \in Nat
  BY <1>7, Bits
<1> QED
  BY <1>4, <1>6, <1>8

\* ... a number of 2k bits compresses to one of k bits, ...
LEMMA CompressBound ==
  ASSUME NEW n \in Nat, PowersUpTo(n), NEW p \in 0 .. 4^n - 1
  PROVE  compress_bits[p] \in 0 .. 2^n - 1
<1> DEFINE S == { k \in Nat : k <= n => \A v \in 0 .. 2^k * 2^k - 1 : compress_bits[v] <= 2^k - 1 }
<1>1. 0 \in S
  <2>1. 2^0 = 1 /\ 1 * 1 = 1
    BY DEF PowersUpTo
  <2>2. \A v \in 0 .. 2^0 * 2^0 - 1 : v = 0
    BY <2>1
  <2> QED
    BY <2>1, <2>2, Bits
<1>2. ASSUME NEW k \in Nat, k \in S
      PROVE  k + 1 \in S
  <2>1. SUFFICES ASSUME k + 1 <= n, NEW v \in 0 .. 2^(k+1) * 2^(k+1) - 1
                 PROVE  compress_bits[v] <= 2^(k+1) - 1
    OBVIOUS
  <2> DEFINE P == 2^k
             Q == P * P
             c == compress_bits[v \div 4]
  <2>2. k <= n /\ k \in 0 .. n
    BY <2>1
  <2>3. P \in Nat \ {0} /\ 2^(k+1) = 2 * P
    BY <2>2 DEF PowersUpTo
  <2>4. Q \in Nat /\ 2^(k+1) * 2^(k+1) = 4 * Q
    <3> HIDE DEF P
    <3>1. (2 * P) * (2 * P) = 4 * (P * P) /\ P * P \in Nat
      BY <2>3
    <3> QED
      BY <2>3, <3>1
  <2>5. \A w \in 0 .. Q - 1 : compress_bits[w] <= P - 1
    BY <1>2, <2>2
  <2> HIDE DEF Q, P
  <2>6. v \in Nat /\ v < 4 * Q
    BY <2>1, <2>4
  <2>7. v \div 4 \in 0 .. Q - 1 /\ v \div 4 \in Nat /\ v % 2 \in 0 .. 1
    BY <2>4, <2>6
  <2>8. c <= P - 1
    BY <2>5, <2>7
  <2>9. c \in Nat /\ compress_bits[v] = 2 * c + (v % 2)
    BY <2>6, <2>7, Bits
  <2> HIDE DEF c
  <2> QED
    BY <2>3, <2>7, <2>8, <2>9
<1>3. n \in S
  <2> HIDE DEF S
  <2>1. \A k \in Nat : k \in S => k + 1 \in S
    BY <1>2
  <2> QED
    BY <1>1, <2>1, NatSetInduction
<1>4. n \in 0 .. n
  OBVIOUS
<1>5. 4^n = 2^n * 2^n /\ 2^n \in Nat
  BY <1>4 DEF PowersUpTo
<1>6. compress_bits[p] <= 2^n - 1
  BY <1>3, <1>5
<1>7. p \in Nat
  BY <1>5
<1>8. compress_bits[p] \in Nat
  BY <1>7, Bits
<1> QED
  BY <1>5, <1>6, <1>8

\* ... and two numbers that were interleaved are separated again.
LEMMA CompressSpread ==
  ASSUME NEW x \in Nat, NEW y \in Nat
  PROVE  LET p == spread_bits[x] + 2 * spread_bits[y]
         IN  compress_bits[p] = x /\ compress_bits[p \div 2] = y
<1> DEFINE Both(u, v) == spread_bits[u] + 2 * spread_bits[v]
           S == { k \in Nat : \A u \in 0 .. k : \A v \in 0 .. k : compress_bits[Both(u, v)] = u }
<1>1. 0 \in S
  <2>1. \A u \in 0 .. 0 : u = 0
    OBVIOUS
  <2>2. Both(0, 0) = 0
    BY Bits
  <2> HIDE DEF Both
  <2> QED
    BY <2>1, <2>2, Bits
<1>2. ASSUME NEW k \in Nat, k \in S
      PROVE  k + 1 \in S
  <2>1. SUFFICES ASSUME NEW u \in 0 .. k + 1, NEW v \in 0 .. k + 1
                 PROVE  compress_bits[Both(u, v)] = u
    OBVIOUS
  <2> DEFINE su == spread_bits[u \div 2]
             sv == spread_bits[v \div 2]
  <2>2. /\ u \in Nat /\ u \div 2 \in 0 .. k /\ u \div 2 \in Nat /\ u % 2 \in 0 .. 1
        /\ u = 2 * (u \div 2) + (u % 2)
        /\ v \in Nat /\ v \div 2 \in 0 .. k /\ v \div 2 \in Nat /\ v % 2 \in 0 .. 1
    OBVIOUS
  <2>3. su \in Nat /\ sv \in Nat /\ spread_bits[u] = 4 * su + (u % 2) /\ spread_bits[v] = 4 * sv + (v % 2)
    BY <2>2, Bits
  <2>4. Both(u \div 2, v \div 2) = su + 2 * sv
    OBVIOUS
  <2>5. compress_bits[su + 2 * sv] = u \div 2
    <3> HIDE DEF Both, su, sv
    <3> QED
      BY <1>2, <2>2, <2>4
  <2> DEFINE p == Both(u, v)
  <2> HIDE DEF su, sv
  <2>6. p \in Nat /\ p \div 4 = su + 2 * sv /\ p % 2 = u % 2
    <3> DEFINE cu == u % 2
               cv == v % 2
    <3>1. cu \in 0 .. 1 /\ cv \in 0 .. 1 /\ p = (4 * su + cu) + 2 * (4 * sv + cv)
      BY <2>2, <2>3
    <3> HIDE DEF cu, cv, p
    <3>2. p \in Nat /\ p \div 4 = su + 2 * sv /\ p % 2 = cu
      BY <2>3, <3>1
    <3> QED
      BY <3>2 DEF cu
  <2> HIDE DEF p
  <2>7. compress_bits[p] = 2 * compress_bits[p \div 4] + (p % 2)
    BY <2>6, Bits
  <2>8. compress_bits[p] = u
    BY <2>2, <2>5, <2>6, <2>7
  <2> QED
    BY <2>8 DEF p
<1>3. \A k \in Nat : k \in S
  <2> HIDE DEF S
  <2>1. \A k \in Nat : k \in S => k + 1 \in S
    BY <1>2
  <2> QED
    BY <1>1, <2>1, NatSetInduction
<1>4. ASSUME NEW u \in Nat, NEW v \in Nat
      PROVE  compress_bits[Both(u, v)] = u
  <2>1. u + v \in S /\ u \in 0 .. u + v /\ v \in 0 .. u + v
    BY <1>3
  <2> HIDE DEF Both
  <2> QED
    BY <2>1
<1>5. Both(x, y) \div 2 = Both(y, x \div 2)
  <2> DEFINE sx == spread_bits[x \div 2]
             sy == spread_bits[y]
  <2>1. x \div 2 \in Nat /\ x % 2 \in 0 .. 1
    OBVIOUS
  <2>2. sx \in Nat /\ sy \in Nat /\ spread_bits[x] = 4 * sx + (x % 2)
    BY <2>1, Bits
  <2> DEFINE c == x % 2
  <2>3. Both(x, y) = 4 * sx + c + 2 * sy /\ Both(y, x \div 2) = sy + 2 * sx /\ c \in 0 .. 1
    BY <2>1, <2>2
  <2> HIDE DEF sx, sy, c, Both
  <2> QED
    BY <2>2, <2>3
<1>6. x \div 2 \in Nat
  OBVIOUS
<1> HIDE DEF Both
<1>7. compress_bits[Both(x, y)] = x /\ compress_bits[Both(x, y) \div 2] = y
  BY <1>4, <1>5, <1>6
<1> QED
  BY <1>7 DEF Both

----------------------------------------------------------------------------
(* Division.                                                               *)

LEMMA Divided ==
  ASSUME NEW a \in Int, NEW w \in Nat \ {0}
  PROVE  /\ a \div w \in Int /\ a % w \in 0 .. w - 1
         /\ a = w * (a \div w) + (a % w)
OBVIOUS

LEMMA Division ==
  ASSUME NEW a \in Int, NEW w \in Nat \ {0}, NEW q \in Int, NEW r \in 0 .. w - 1,
         a = w * q + r
  PROVE  a \div w = q /\ a % w = r
OBVIOUS

----------------------------------------------------------------------------
(* NEST numbers.                                                           *)

\* A base with an order, whose pixels have NEST numbers.
Hierarchical(b) == b.order \in Nat /\ b.nside = 2^b.order /\ PowersUpTo(b.order)

LEMMA Hierarchy ==
  ASSUME NEW b, Hierarchical(b)
  PROVE  /\ b.nside \in Nat \ {0} /\ npface(b) \in Nat \ {0}
         /\ npface(b) = 4^b.order /\ Pixels(b) = 0 .. 12 * npface(b) - 1
<1>1. b.order \in 0 .. b.order
  BY DEF Hierarchical
<1>2. b.nside \in Nat \ {0} /\ 4^b.order = b.nside * b.nside
  BY <1>1 DEF Hierarchical, PowersUpTo
<1>3. b.nside * b.nside \in Nat \ {0}
  BY <1>2
<1> QED
  BY <1>2, <1>3 DEF npface, npix, Pixels

\* A NEST number is the number of a place, ...
LEMMA NestPlace ==
  ASSUME NEW b, Hierarchical(b), NEW num \in Pixels(b)
  PROVE  nest2xyf(b, num) \in Places(b)
<1> DEFINE N == npface(b)
           f == num \div N
           p == num % N
<1>1. N \in Nat \ {0} /\ N = 4^b.order /\ num \in Nat /\ num < 12 * N /\ b.nside = 2^b.order
  BY Hierarchy DEF Hierarchical
<1>0. N \in Nat \ {0}
  BY <1>1
<1> HIDE DEF N
<1>2. f \in Int /\ p \in 0 .. N - 1 /\ num = N * f + p
  <2>1. num \in Int
    BY <1>1
  <2> QED
    BY <1>1, <2>1, Divided
<1>3. f \in 0 .. 11
  <2> HIDE DEF f, p
  <2>1. CASE f < 0
    <3> DEFINE g == -f - 1
    <3>1. g \in Nat /\ f = -g - 1
      BY <1>2, <2>1
    <3> HIDE DEF g
    <3>2. N * f = -(N * g) - N /\ N * g \in Nat
      BY <1>0, <3>1
    <3> QED
      BY <1>1, <1>2, <3>2
  <2>2. CASE f > 11
    <3> DEFINE g == f - 12
    <3>1. g \in Nat /\ f = g + 12
      BY <1>2, <2>2
    <3> HIDE DEF g
    <3>2. N * f = N * g + 12 * N /\ N * g \in Nat
      BY <1>0, <3>1
    <3> QED
      BY <1>1, <1>2, <3>2
  <2> QED
    BY <1>2, <2>1, <2>2
<1> HIDE DEF f, p
<1>4. p \div 2 \in 0 .. N - 1
  BY <1>1, <1>2
<1>5. compress_bits[p] \in 0 .. b.nside - 1 /\ compress_bits[p \div 2] \in 0 .. b.nside - 1
  BY <1>1, <1>2, <1>4, CompressBound DEF Hierarchical
<1>6. nest2xyf(b, num) = [ face |-> f, ix |-> compress_bits[p], iy |-> compress_bits[p \div 2] ]
  BY DEF nest2xyf, f, p, N
<1> QED
  BY <1>3, <1>5, <1>6 DEF Places

\* ... and a place has one.
LEMMA PlaceNest ==
  ASSUME NEW b, Hierarchical(b), NEW at \in Places(b)
  PROVE  xyf2nest(b, at) \in Pixels(b) /\ nest2xyf(b, xyf2nest(b, at)) = at
<1> DEFINE N == npface(b)
           q == spread_bits[at.ix] + 2 * spread_bits[at.iy]
           num == xyf2nest(b, at)
<1>1. N \in Nat \ {0} /\ N = 4^b.order /\ b.nside = 2^b.order /\ b.nside \in Nat \ {0}
  BY Hierarchy DEF Hierarchical
<1>2. /\ at.face \in 0 .. 11 /\ at.ix \in 0 .. b.nside - 1 /\ at.iy \in 0 .. b.nside - 1
      /\ at = [ face |-> at.face, ix |-> at.ix, iy |-> at.iy ]
  BY DEF Places
<1>3. /\ spread_bits[at.ix] \in Nat /\ 3 * spread_bits[at.ix] <= N - 1
      /\ spread_bits[at.iy] \in Nat /\ 3 * spread_bits[at.iy] <= N - 1
  BY <1>1, <1>2, SpreadBound DEF Hierarchical
<1>4. num = N * at.face + q
  <2> HIDE DEF N
  <2>1. num = at.face * N + spread_bits[at.ix] + 2 * spread_bits[at.iy]
    BY DEF xyf2nest, N
  <2> QED
    BY <1>1, <1>2, <1>3, <2>1
<1> HIDE DEF N
<1>5. q \in 0 .. N - 1
  BY <1>1, <1>3
<1>6. q \in Int
  BY <1>3
<1>7. compress_bits[q] = at.ix /\ compress_bits[q \div 2] = at.iy
  <2>1. at.ix \in Nat /\ at.iy \in Nat
    BY <1>1, <1>2
  <2> QED
    BY <2>1, CompressSpread
<1> HIDE DEF q, num
<1>8. num \in Nat /\ num < 12 * N /\ num \in Int
  <2>1. N * at.face <= 11 * N /\ N * at.face \in Nat
    BY <1>1, <1>2
  <2> QED
    BY <1>1, <1>4, <1>5, <2>1
<1>9. num \div N = at.face /\ num % N = q
  <2>1. at.face \in Int
    BY <1>2
  <2> QED
    BY <1>1, <1>4, <1>5, <1>8, <2>1, Division
<1>10. nest2xyf(b, num) = [ face |-> num \div N, ix |-> compress_bits[num % N], iy |-> compress_bits[(num % N) \div 2] ]
  BY DEF nest2xyf, N
<1>11. nest2xyf(b, num) = at
  BY <1>2, <1>7, <1>9, <1>10
<1>12. num \in Pixels(b)
  BY <1>1, <1>8, Hierarchy DEF N
<1> QED
  BY <1>11, <1>12 DEF num

----------------------------------------------------------------------------
(* Places and RING numbers.                                                *)

\* The ring of a place, a quarter of the length of a ring, and kshift.
RowOf(b, at) == jrll(at.face) * b.nside - at.ix - at.iy - 1
Quarter(b, ring) == Smaller(b.nside, Smaller(ring, 4 * b.nside - ring))
Shift(b, ring) == IF get_ring_info_small(b, ring).shifted THEN 0 ELSE 1

\* The rows of faces.
LEMMA Rows ==
  ASSUME NEW face \in 0 .. 11
  PROVE  /\ face \in 0 .. 3 => jrll(face) = 2 /\ jpll(face) = 2 * face + 1
         /\ face \in 4 .. 7 => jrll(face) = 3 /\ jpll(face) = 2 * (face - 4)
         /\ face \in 8 .. 11 => jrll(face) = 4 /\ jpll(face) = 2 * (face - 8) + 1
<1>1. \/ face = 0 \/ face = 1 \/ face = 2 \/ face = 3 \/ face = 4 \/ face = 5
      \/ face = 6 \/ face = 7 \/ face = 8 \/ face = 9 \/ face = 10 \/ face = 11
  OBVIOUS
<1> QED
  BY <1>1 DEF jrll, jpll

LEMMA Quarters ==
  ASSUME NEW b, b.nside \in Nat \ {0}, NEW ring \in 1 .. 4 * b.nside - 1
  PROVE  LET n == b.nside
         IN  /\ Quarter(b, ring) \in 1 .. n /\ Length(b, ring) = 4 * Quarter(b, ring)
             /\ ring <= n => Quarter(b, ring) = ring
             /\ n <= ring /\ ring <= 3 * n => Quarter(b, ring) = n
             /\ 3 * n <= ring => Quarter(b, ring) = 4 * n - ring
             /\ Shift(b, ring) \in 0 .. 1
             /\ n <= ring /\ ring <= 3 * n => Shift(b, ring) = (ring + n) % 2
             /\ ring < n \/ 3 * n < ring => Shift(b, ring) = 0
<1> DEFINE n == b.nside
<1>1. n \in Nat /\ n >= 1 /\ ring \in Nat /\ ring >= 1 /\ ring < 4 * n
  OBVIOUS
<1>2. /\ Quarter(b, ring) \in 1 .. n
      /\ ring <= n => Quarter(b, ring) = ring
      /\ n <= ring /\ ring <= 3 * n => Quarter(b, ring) = n
      /\ 3 * n <= ring => Quarter(b, ring) = 4 * n - ring
  BY <1>1 DEF Quarter, Smaller
<1>3. Length(b, ring) = 4 * Quarter(b, ring)
  BY <1>1, <1>2, RingFields
<1>4. ring < n => get_ring_info_small(b, ring).shifted = TRUE
  BY DEF get_ring_info_small
<1>5. n <= ring /\ ring < 3 * n => (get_ring_info_small(b, ring).shifted <=> (ring - n) % 2 = 0)
  <2>1. SUFFICES ASSUME ~ (ring < n), ring < 3 * n
                 PROVE  get_ring_info_small(b, ring).shifted <=> (ring - n) % 2 = 0
    BY <1>1
  <2> DEFINE even == (ring - n) % 2 = 0
             first == ncap(b) + (ring - n) * 4 * n
             length == 4 * n
  <2> HIDE DEF even, first, length
  <2>2. get_ring_info_small(b, ring) = [ startpix |-> first, ringpix |-> length, shifted |-> even ]
    BY <2>1 DEF get_ring_info_small, even, first, length
  <2>3. get_ring_info_small(b, ring).shifted = even
    BY <2>2
  <2> QED
    BY <2>3 DEF even
<1>6. 3 * n <= ring => get_ring_info_small(b, ring).shifted = TRUE
  BY <1>1 DEF get_ring_info_small
<1>7. (ring - n) % 2 = 0 <=> (ring + n) % 2 = 0
  BY <1>1
<1>8. (ring + n) % 2 \in 0 .. 1 /\ (ring = 3 * n => (ring + n) % 2 = 0)
  BY <1>1
<1>9. ring < n \/ 3 * n < ring => Shift(b, ring) = 0
  BY <1>1, <1>4, <1>6 DEF Shift
<1>10. n <= ring /\ ring <= 3 * n => Shift(b, ring) = (ring + n) % 2
  <2>1. CASE n <= ring /\ ring < 3 * n
    BY <1>5, <1>7, <1>8, <2>1 DEF Shift
  <2>2. CASE ring = 3 * n
    BY <1>1, <1>6, <1>8, <2>2 DEF Shift
  <2> QED
    BY <1>1, <2>1, <2>2
<1> QED
  BY <1>1, <1>2, <1>3, <1>8, <1>9, <1>10

\* The longitudes of the faces of a row are a quarter turn apart.
LEMMA Columns ==
  ASSUME NEW face \in 0 .. 11, NEW nr \in Nat
  PROVE  \E m \in 0 .. 3 * nr :
           \/ jrll(face) = 2 /\ jpll(face) * nr = 2 * m + nr
           \/ jrll(face) = 3 /\ jpll(face) * nr = 2 * m
           \/ jrll(face) = 4 /\ jpll(face) * nr = 2 * m + nr
<1>1. ASSUME NEW f \in 0 .. 3
      PROVE  f * nr \in 0 .. 3 * nr /\ (2 * f + 1) * nr = 2 * (f * nr) + nr /\ (2 * f) * nr = 2 * (f * nr)
  <2>1. f = 0 \/ f = 1 \/ f = 2 \/ f = 3
    OBVIOUS
  <2> QED
    BY <2>1
<1>2. CASE face \in 0 .. 3
  BY <1>1, <1>2, Rows
<1>3. CASE face \in 4 .. 7
  <2>1. face - 4 \in 0 .. 3
    BY <1>3
  <2> QED
    BY <1>1, <1>3, <2>1, Rows
<1>4. CASE face \in 8 .. 11
  <2>1. face - 8 \in 0 .. 3
    BY <1>4
  <2> QED
    BY <1>1, <1>4, <2>1, Rows
<1>5. face \in 0 .. 3 \/ face \in 4 .. 7 \/ face \in 8 .. 11
  OBVIOUS
<1> QED
  BY <1>2, <1>3, <1>4, <1>5

\* Twice the position of a place in its ring, before it is taken once around.
Twice(b, at) ==
  jpll(at.face) * Quarter(b, RowOf(b, at)) + at.ix - at.iy + 1 + Shift(b, RowOf(b, at))

LEMMA TwiceBounds ==
  ASSUME NEW b, b.nside \in Nat \ {0}, NEW at \in Places(b)
  PROVE  LET n == b.nside
             ring == RowOf(b, at)
             nr == Quarter(b, ring)
             all == Twice(b, at)
         IN  /\ ring \in 1 .. 4 * n - 1
             /\ all \in Int /\ all % 2 = 0 /\ all <= 8 * nr
             /\ all >= 2 \/ (nr = n /\ all >= 2 - n)
<1> DEFINE n == b.nside
           x == at.ix
           y == at.iy
           ring == RowOf(b, at)
           nr == Quarter(b, ring)
           s == Shift(b, ring)
           d == jrll(at.face)
           c == jpll(at.face) * nr
           all == Twice(b, at)
<1>1. n \in Nat /\ n >= 1 /\ x \in 0 .. n - 1 /\ y \in 0 .. n - 1 /\ at.face \in 0 .. 11
  BY DEF Places
<1>2. d = 2 \/ d = 3 \/ d = 4
  BY <1>1, Rows
<1>3. ring = d * n - x - y - 1
  BY DEF RowOf
<1>4. /\ d = 2 => ring = 2 * n - x - y - 1
      /\ d = 3 => ring = 3 * n - x - y - 1
      /\ d = 4 => ring = 4 * n - x - y - 1
  BY <1>3
<1>5. ring \in 1 .. 4 * n - 1
  <2> HIDE DEF n, x, y, ring, d
  <2> QED
    BY <1>1, <1>2, <1>4
<1>6. /\ nr \in 1 .. n
      /\ ring <= n => nr = ring
      /\ n <= ring /\ ring <= 3 * n => nr = n
      /\ 3 * n <= ring => nr = 4 * n - ring
      /\ s \in 0 .. 1
      /\ n <= ring /\ ring <= 3 * n => s = (ring + n) % 2
      /\ ring < n \/ 3 * n < ring => s = 0
  BY <1>5, Quarters
<1>7. PICK m \in 0 .. 3 * nr :
        \/ d = 2 /\ c = 2 * m + nr
        \/ d = 3 /\ c = 2 * m
        \/ d = 4 /\ c = 2 * m + nr
  <2>1. nr \in Nat
    BY <1>6
  <2> QED
    BY <1>1, <2>1, Columns
<1>8. all = c + x - y + 1 + s
  BY DEF Twice
<1> HIDE DEF n, x, y, ring, nr, s, d, c, all
<1>9. CASE ring < n
  <2>1. d = 2
    BY <1>1, <1>2, <1>4, <1>9
  <2>2. nr = ring /\ s = 0 /\ ring = 2 * n - x - y - 1 /\ c = 2 * m + nr
    BY <1>1, <1>4, <1>5, <1>6, <1>7, <1>9, <2>1
  <2>3. all = 2 * (m + n - y)
    BY <1>1, <1>8, <2>2
  <2>4. all \in Int /\ all % 2 = 0 /\ all <= 8 * nr /\ all >= 2
    BY <1>1, <1>5, <2>2, <2>3
  <2> QED
    BY <1>5, <2>4 DEF n, ring, nr, all
<1>10. CASE 3 * n < ring
  <2>1. d = 4
    BY <1>1, <1>2, <1>4, <1>10
  <2>2. nr = x + y + 1 /\ s = 0 /\ c = 2 * m + nr
    BY <1>1, <1>4, <1>5, <1>6, <1>7, <1>10, <2>1
  <2>3. all = 2 * (m + x + 1)
    BY <1>1, <1>8, <2>2
  <2>4. all \in Int /\ all % 2 = 0 /\ all <= 8 * nr /\ all >= 2
    BY <1>1, <1>5, <2>2, <2>3
  <2> QED
    BY <1>5, <2>4 DEF n, ring, nr, all
<1>11. CASE n <= ring /\ ring <= 3 * n
  <2>1. nr = n /\ s = (ring + n) % 2 /\ s \in 0 .. 1
    BY <1>6, <1>11
  <2>2. PICK k \in Int : ring + n = 2 * k + s
    <3>1. ring + n = 2 * ((ring + n) \div 2) + ((ring + n) % 2) /\ (ring + n) \div 2 \in Int
      BY <1>1, <1>5
    <3> QED
      BY <2>1, <3>1
  <2>3. CASE d = 3
    <3>1. c = 2 * m /\ ring = 3 * n - x - y - 1
      BY <1>4, <1>7, <2>3
    <3>2. all = 2 * (m + x + 1 + k - 2 * n + s)
      BY <1>1, <1>5, <1>8, <2>1, <2>2, <3>1
    <3>3. all \in Int /\ all % 2 = 0
      BY <1>1, <2>1, <2>2, <3>2
    <3>4. all <= 8 * nr /\ all >= 2 - n
      BY <1>1, <1>8, <2>1, <3>1
    <3> QED
      BY <1>5, <2>1, <3>3, <3>4 DEF n, ring, nr, all
  <2>4. CASE d # 3
    <3>1. c = 2 * m + n /\ (ring = 2 * n - x - y - 1 \/ ring = 4 * n - x - y - 1)
      BY <1>2, <1>4, <1>7, <2>1, <2>4
    <3>2. all = 2 * m + n + x - y + 1 + s
      BY <1>1, <1>8, <2>1, <3>1
    <3>3. all = 2 * (m + x + 1 + k + s - n) \/ all = 2 * (m + x + 1 + k + s - 2 * n)
      BY <1>1, <1>5, <2>1, <2>2, <3>1, <3>2
    <3>4. all \in Int /\ all % 2 = 0
      BY <1>1, <2>1, <2>2, <3>3
    <3>5. all <= 8 * n + 1 /\ all >= 2
      BY <1>1, <2>1, <3>2
    <3>6. all <= 8 * nr
      BY <1>1, <2>1, <3>4, <3>5
    <3> QED
      BY <1>5, <3>4, <3>5, <3>6 DEF n, ring, nr, all
  <2> QED
    BY <2>3, <2>4
<1> QED
  BY <1>1, <1>5, <1>9, <1>10, <1>11

LEMMA Halved ==
  ASSUME NEW a \in Int, a % 2 = 0
  PROVE  quot(a, 2) \in Int /\ 2 * quot(a, 2) = a
BY DEF quot

\* A place is in its ring, and where it is there.
LEMMA PlaceRing ==
  ASSUME NEW b, b.nside \in Nat \ {0}, NEW at \in Places(b)
  PROVE  LET n == b.nside
             ring == RowOf(b, at)
             nr == Quarter(b, ring)
             position == xyf2ring(b, at) - FirstOf(b, ring) + 1
         IN  /\ ring \in 1 .. 4 * n - 1
             /\ InTheRing(b, ring, xyf2ring(b, at))
             /\ position \in 1 .. 4 * nr /\ xyf2ring(b, at) \in Int
             /\ Twice(b, at) \in Int /\ (Twice(b, at) < 2 => nr = n)
             /\ 2 * position = Twice(b, at) + (IF Twice(b, at) < 2 THEN 8 * n ELSE 0)
             /\ xyf2ringAssert(b, at)
<1> DEFINE n == b.nside
           ring == RowOf(b, at)
           nr == Quarter(b, ring)
           all == Twice(b, at)
           first == FirstOf(b, ring)
           step == xyf2ringStep(b, at)
           jp == quot(all, 2)
<1>1. /\ ring \in 1 .. 4 * n - 1
      /\ all \in Int /\ all % 2 = 0 /\ all <= 8 * nr
      /\ all >= 2 \/ (nr = n /\ all >= 2 - n)
  BY TwiceBounds
<1>2. nr \in 1 .. n /\ Length(b, ring) = 4 * nr
  BY <1>1, Quarters
<1>3. first \in Nat
  BY <1>1, RingsTouch
<1>4. jp \in Int /\ 2 * jp = all
  BY <1>1, Halved
<1>5. step.before = first /\ step.nr = nr /\ step.jp = jp
  <2> DEFINE info == get_ring_info_small(b, ring)
             k == IF info.shifted THEN 0 ELSE 1
             q == info.ringpix \div 4
  <2>1. step = [ before |-> info.startpix, nr |-> q,
                 jp |-> quot(jpll(at.face) * q + at.ix - at.iy + 1 + k, 2) ]
    BY DEF xyf2ringStep, RowOf
  <2>2. info.startpix = first /\ k = Shift(b, ring)
    BY DEF FirstOf, Shift
  <2>3. q = nr
    <3>1. info.ringpix = 4 * nr
      BY <1>2 DEF Length
    <3> QED
      BY <1>2, <3>1
  <2> HIDE DEF q, k, info
  <2>4. jpll(at.face) * q + at.ix - at.iy + 1 + k = all
    BY <2>2, <2>3 DEF Twice
  <2> QED
    BY <2>1, <2>2, <2>3, <2>4
<1>6. xyf2ring(b, at) = first + (IF jp < 1 THEN jp + 4 * n ELSE jp) - 1
  BY <1>5 DEF xyf2ring
<1> DEFINE place == IF jp < 1 THEN jp + 4 * n ELSE jp
           num == xyf2ring(b, at)
<1> HIDE DEF ring, nr, all, first, step, jp
<1>7. n \in Nat /\ n >= 1
  OBVIOUS
<1>8. place \in 1 .. 4 * nr /\ 2 * place = all + (IF all < 2 THEN 8 * n ELSE 0) /\ (all < 2 => nr = n)
  BY <1>1, <1>2, <1>4, <1>7
<1> HIDE DEF place
<1>9. num = first + place - 1
  BY <1>6 DEF place
<1> HIDE DEF num
<1>10. num - first + 1 = place /\ num \in Int /\ first <= num /\ num < first + 4 * nr
  BY <1>2, <1>3, <1>8, <1>9
<1>11. InTheRing(b, ring, num)
  BY <1>2, <1>10 DEF InTheRing, first
<1>12. jp <= 4 * nr /\ (jp < 1 => nr = n)
  BY <1>1, <1>2, <1>4, <1>7
<1>13. xyf2ringAssert(b, at)
  BY <1>5, <1>12 DEF xyf2ringAssert, step
<1> QED
  BY <1>1, <1>8, <1>10, <1>11, <1>13 DEF ring, nr, all, first, num

\* The two halves of a RING number: its ring, and its position there.
LEMMA RingNumber ==
  ASSUME NEW b, b.nside \in Nat \ {0}, NEW num \in Pixels(b)
  PROVE  LET n == b.nside
             c == InRing(b, num)
         IN  /\ c.iring \in 1 .. 4 * n - 1 /\ InTheRing(b, c.iring, num)
             /\ c.iphi = num - FirstOf(b, c.iring) + 1
             /\ c.iphi \in 1 .. 4 * Quarter(b, c.iring)
             /\ c.nr = Quarter(b, c.iring) /\ c.kshift = Shift(b, c.iring)
             /\ num < ncap(b) <=> c.iring < n
             /\ num < npix(b) - ncap(b) <=> c.iring <= 3 * n
<1> DEFINE n == b.nside
           c == InRing(b, num)
           ring == c.iring
           nr == Quarter(b, ring)
<1>1. /\ ring \in 1 .. 4 * n - 1 /\ InTheRing(b, ring, num)
      /\ c.iphi = num - FirstOf(b, ring) + 1
  BY RingOfPixel
<1>2. n \in Nat /\ n >= 1 /\ n \in 1 .. 4 * n - 1 /\ 3 * n \in 1 .. 4 * n - 1
  OBVIOUS
<1>3. num \in Nat /\ num \in Int /\ ncap(b) \in Nat /\ npix(b) \in Nat /\ ncap(b) <= npix(b) - ncap(b)
  BY Borders DEF Pixels
<1>4. /\ nr \in 1 .. n /\ Length(b, ring) = 4 * nr
      /\ ring <= n => nr = ring
      /\ n <= ring /\ ring <= 3 * n => nr = n /\ Shift(b, ring) = (ring + n) % 2
      /\ 3 * n <= ring => nr = 4 * n - ring
      /\ ring < n \/ 3 * n < ring => Shift(b, ring) = 0
  BY <1>1, Quarters
<1>5. FirstOf(b, ring) \in Nat
  BY <1>1, RingsTouch
<1>6. c.iphi \in 1 .. 4 * nr
  <2> DEFINE f == FirstOf(b, ring)
             i == c.iphi
  <2>1. f <= num /\ num < f + 4 * nr /\ i = num - f + 1 /\ f \in Nat
    BY <1>1, <1>4, <1>5 DEF InTheRing
  <2> HIDE DEF f, i, nr
  <2>2. i \in 1 .. 4 * nr
    BY <1>3, <1>4, <2>1
  <2> QED
    BY <2>2 DEF i
<1>7. n <= ring <=> ncap(b) <= num
  <2>1. n <= ring <=> FirstOf(b, n) <= num
    BY <1>1, <1>2, <1>3, RingsBetween
  <2> QED
    BY <2>1, Borders
<1>8. ring <= 3 * n <=> num < npix(b) - ncap(b)
  <2>1. ring <= 3 * n <=> num < FirstOf(b, 3 * n) + Length(b, 3 * n)
    BY <1>1, <1>2, <1>3, RingsBetween
  <2>2. Length(b, 3 * n) = 4 * n
    <3>1. Quarter(b, 3 * n) = n /\ Length(b, 3 * n) = 4 * Quarter(b, 3 * n)
      BY <1>2, Quarters
    <3> QED
      BY <3>1
  <2>3. FirstOf(b, 3 * n) = npix(b) - ncap(b) - 4 * n
    BY Borders
  <2>4. FirstOf(b, 3 * n) + Length(b, 3 * n) = npix(b) - ncap(b)
    BY <1>2, <1>3, <2>2, <2>3
  <2> QED
    BY <2>1, <2>4
<1>9. c.nr = nr /\ c.kshift = Shift(b, ring)
  <2>1. CASE num < ncap(b)
    <3>1. ring < n
      BY <1>1, <1>2, <1>3, <1>7, <2>1
    <3>2. c = NorthPolarCap(b, num)
      BY <2>1 DEF InRing
    <3>3. c.nr = ring /\ c.kshift = 0
      BY <3>2 DEF NorthPolarCap
    <3> QED
      BY <1>1, <1>2, <1>4, <3>1, <3>3
  <2>2. CASE ~ (num < ncap(b)) /\ num < npix(b) - ncap(b)
    <3>1. n <= ring /\ ring <= 3 * n
      BY <1>1, <1>2, <1>3, <1>7, <1>8, <2>2
    <3>2. c = EquatorialRegion(b, num)
      BY <2>2 DEF InRing
    <3>3. c.nr = n /\ c.kshift = (ring + n) % 2
      BY <3>2 DEF EquatorialRegion
    <3> QED
      BY <1>4, <3>1, <3>3
  <2>3. CASE ~ (num < ncap(b)) /\ ~ (num < npix(b) - ncap(b))
    <3>1. 3 * n < ring
      BY <1>1, <1>2, <1>8, <2>3
    <3>2. c = SouthPolarCap(b, num)
      BY <2>3 DEF InRing
    <3> DEFINE ip == npix(b) - num
               i == (1 + isqrt(2 * ip - 1)) \div 2
    <3>3. c.nr = i /\ ring = 4 * n - i /\ c.kshift = 0
      BY <3>2 DEF SouthPolarCap
    <3>4. i \in Int
      <4>1. ip \in Nat \ {0}
        BY <1>3, Borders DEF Pixels
      <4> HIDE DEF ip
      <4>2. 2 * ip - 1 \in Nat
        BY <4>1
      <4>3. isqrt(2 * ip - 1) \in Nat
        BY <4>2, RootIs
      <4> QED
        BY <4>3
    <3> HIDE DEF i
    <3>5. i = 4 * n - ring
      BY <1>1, <1>2, <3>3, <3>4
    <3> QED
      BY <1>1, <1>2, <1>4, <3>1, <3>3, <3>5
  <2> QED
    BY <2>1, <2>2, <2>3
<1>10. num < ncap(b) <=> ring < n
  BY <1>1, <1>2, <1>3, <1>7
<1> QED
  BY <1>1, <1>6, <1>8, <1>9, <1>10

\* The centre of the pixel at a position in a ring.
Spot(b, ring, position) ==
  [ z |-> ring2z(b, ring), phi |-> 2 * position - 1 - Shift(b, ring), den |-> 2 * Quarter(b, ring) ]

LEMMA RingSpot ==
  ASSUME NEW b, b.nside \in Nat \ {0}, b.scheme = "RING", NEW num \in Pixels(b)
  PROVE  pix2loc(b, num) = Spot(b, InRing(b, num).iring, InRing(b, num).iphi)
<1> DEFINE n == b.nside
           c == InRing(b, num)
           ring == c.iring
           odd == num \in ncap(b) .. npix(b) - ncap(b) - 1 /\ (ring + n) % 2 = 1
<1>1. /\ ring \in 1 .. 4 * n - 1 /\ c.iphi \in Int
      /\ c.nr = Quarter(b, ring)
      /\ num < ncap(b) <=> ring < n
      /\ num < npix(b) - ncap(b) <=> ring <= 3 * n
  <2>1. Quarter(b, ring) \in 1 .. n
    BY RingNumber, Quarters
  <2> QED
    BY <2>1, RingNumber
<1>2. n \in Nat /\ ncap(b) \in Nat /\ npix(b) \in Nat /\ num \in Nat
  BY Borders DEF Pixels
<1>3. /\ Shift(b, ring) \in 0 .. 1
      /\ n <= ring /\ ring <= 3 * n => Shift(b, ring) = (ring + n) % 2
      /\ ring < n \/ 3 * n < ring => Shift(b, ring) = 0
  BY <1>1, Quarters
<1>4. odd <=> Shift(b, ring) = 1
  <2>1. num \in ncap(b) .. npix(b) - ncap(b) - 1 <=> n <= ring /\ ring <= 3 * n
    BY <1>1, <1>2
  <2>2. (n <= ring /\ ring <= 3 * n) \/ ring < n \/ 3 * n < ring
    BY <1>1, <1>2
  <2> HIDE DEF n, ring
  <2> QED
    BY <1>3, <2>1, <2>2
<1>5. pix2loc(b, num) =
        [ z |-> ring2z(b, ring), phi |-> 2 * c.iphi - (IF odd THEN 2 ELSE 1), den |-> 2 * c.nr ]
  BY DEF pix2loc
<1> HIDE DEF odd
<1>6. 2 * c.iphi - (IF odd THEN 2 ELSE 1) = 2 * c.iphi - 1 - Shift(b, ring)
  <2> HIDE DEF c, ring
  <2> QED
    BY <1>1, <1>3, <1>4
<1> QED
  BY <1>1, <1>5, <1>6 DEF Spot

\* A place's RING number is one of its ring and position.
LEMMA NumberOfPlace ==
  ASSUME NEW b, b.nside \in Nat \ {0}, NEW at \in Places(b)
  PROVE  LET num == xyf2ring(b, at)
         IN  /\ num \in Pixels(b) /\ InRing(b, num).iring = RowOf(b, at)
             /\ InRing(b, num).iphi = num - FirstOf(b, RowOf(b, at)) + 1
<1> DEFINE n == b.nside
           num == xyf2ring(b, at)
           ring == RowOf(b, at)
<1>1. ring \in 1 .. 4 * n - 1 /\ InTheRing(b, ring, num) /\ num \in Int
  BY PlaceRing
<1>2. num \in Pixels(b)
  <2>1. ring < 4 * n /\ 4 * n \in 1 .. 4 * n
    BY <1>1
  <2>2. FirstOf(b, ring) + Length(b, ring) <= FirstOf(b, 4 * n)
    BY <1>1, <2>1, RingsAscend
  <2>3. FirstOf(b, ring) \in Nat /\ Length(b, ring) \in Nat /\ FirstOf(b, 4 * n) = npix(b) /\ npix(b) \in Nat
    BY <1>1, RingsTouch, Borders
  <2>4. FirstOf(b, ring) <= num /\ num < FirstOf(b, ring) + Length(b, ring)
    BY <1>1 DEF InTheRing
  <2> HIDE DEF num, ring
  <2> QED
    BY <1>1, <2>2, <2>3, <2>4 DEF Pixels
<1>3. /\ InRing(b, num).iring \in 1 .. 4 * n - 1 /\ InTheRing(b, InRing(b, num).iring, num)
      /\ InRing(b, num).iphi = num - FirstOf(b, InRing(b, num).iring) + 1
  BY <1>2, RingNumber
<1>4. InRing(b, num).iring = ring
  BY <1>1, <1>3, RingsBetween
<1> QED
  BY <1>2, <1>3, <1>4

\* In NEST numbering the centre is computed from the place; it is at the position
\* of the place's RING number.
LEMMA NestSpot ==
  ASSUME NEW b, b.nside \in Nat \ {0}, b.scheme # "RING",
         NEW num, nest2xyf(b, num) \in Places(b)
  PROVE  LET at == nest2xyf(b, num)
             ring == RowOf(b, at)
         IN  pix2loc(b, num) = Spot(b, ring, xyf2ring(b, at) - FirstOf(b, ring) + 1)
<1> DEFINE n == b.nside
           at == nest2xyf(b, num)
           ring == RowOf(b, at)
           nr == Quarter(b, ring)
           all == Twice(b, at)
           s == Shift(b, ring)
           tmp == jpll(at.face) * nr + at.ix - at.iy
           position == xyf2ring(b, at) - FirstOf(b, ring) + 1
<1>1. /\ ring \in 1 .. 4 * n - 1 /\ position \in Int /\ all \in Int
      /\ all < 2 => nr = n
      /\ 2 * position = all + (IF all < 2 THEN 8 * n ELSE 0)
  <2>1. position \in 1 .. 4 * nr
    BY PlaceRing
  <2>2. nr \in Nat
    BY PlaceRing, Quarters
  <2> HIDE DEF position, nr
  <2>3. position \in Int
    BY <2>1, <2>2
  <2> QED
    BY <2>3, PlaceRing DEF position, nr
<1>2. s \in 0 .. 1 /\ nr \in Nat /\ n \in Nat
  BY <1>1, Quarters
<1>3. all % 2 = 0
  BY TwiceBounds
<1>4. tmp \in Int /\ all = tmp + 1 + s
  <2>1. at.ix \in Int /\ at.iy \in Int /\ jpll(at.face) \in Int
    <3>1. at.ix \in 0 .. n - 1 /\ at.iy \in 0 .. n - 1 /\ at.face \in 0 .. 11
      BY DEF Places
    <3>2. jpll(at.face) \in Int
      BY <3>1, Rows
    <3> HIDE DEF at
    <3> QED
      BY <1>2, <3>1, <3>2
  <2> HIDE DEF at, nr, s
  <2>2. jpll(at.face) * nr \in Int
    BY <1>2, <2>1
  <2>3. all = jpll(at.face) * nr + at.ix - at.iy + 1 + s
    BY DEF Twice, nr, s
  <2> HIDE DEF all
  <2> QED
    BY <1>2, <2>1, <2>2, <2>3
<1>5. pix2loc(b, num) = [ z |-> ring2z(b, ring), phi |-> IF tmp < 0 THEN tmp + 8 * nr ELSE tmp,
                          den |-> 2 * nr ]
  <2>1. pix2ring(b, num) = ring
    BY DEF pix2ring, RowOf
  <2> QED
    BY <2>1 DEF pix2loc, Quarter
<1>6. (IF tmp < 0 THEN tmp + 8 * nr ELSE tmp) = 2 * position - 1 - s
  <2> HIDE DEF tmp, nr, position, s, all, n
  <2> QED
    BY <1>1, <1>2, <1>3, <1>4
<1> QED
  BY <1>5, <1>6 DEF Spot

\* What ring2xyf computes: the row of the face and the column in it.
Column(b, face, c) ==
  LET all == 2 * c.iphi - jpll(face) * c.nr - c.kshift - 1
  IN  IF all >= 2 * b.nside THEN all - 8 * b.nside ELSE all

Depth(b, face, c) == jrll(face) * b.nside - c.iring - 1

\* The place found lies in its face.
InFace(b, c) ==
  LET ix == (Column(b, c.face, c) + Depth(b, c.face, c)) \div 2
      iy == (Depth(b, c.face, c) - Column(b, c.face, c)) \div 2
  IN  /\ c.face \in 0 .. 11 /\ ix \in 0 .. b.nside - 1 /\ iy \in 0 .. b.nside - 1
      /\ ix + iy = Depth(b, c.face, c) /\ ix - iy = Column(b, c.face, c)

LEMMA NorthInFace ==
  ASSUME NEW b, b.nside \in Nat \ {0}, NEW num \in Pixels(b), num < ncap(b)
  PROVE  InFace(b, InRing(b, num))
<1> DEFINE n == b.nside
           c == InRing(b, num)
           ring == c.iring
           iphi == c.iphi
           f == (iphi - 1) \div ring
           e == (iphi - 1) % ring
<1>1. ring \in 1 .. n - 1 /\ n \in Nat
  BY RingNumber, Borders DEF Pixels
<1>2. c.nr = ring /\ c.kshift = 0 /\ c.face = f
  <2>1. c = NorthPolarCap(b, num)
    BY DEF InRing
  <2> QED
    BY <2>1 DEF NorthPolarCap
<1>3. iphi \in 1 .. 4 * ring
  <2>1. iphi \in 1 .. 4 * Quarter(b, ring) /\ Quarter(b, ring) = c.nr
    BY RingNumber
  <2> QED
    BY <1>2, <2>1
<1> HIDE DEF n, c, ring, iphi
<1>4. f \in Int /\ e \in 0 .. ring - 1 /\ iphi - 1 = ring * f + e
  <2>1. iphi - 1 \in Int /\ ring \in Nat \ {0}
    BY <1>1, <1>3
  <2> QED
    BY <2>1, Divided
<1>5. f = 0 \/ f = 1 \/ f = 2 \/ f = 3
  <2>1. 0 <= iphi - 1 /\ iphi - 1 < ring * 4 /\ iphi - 1 \in Nat /\ ring \in Nat \ {0} /\ 4 \in Nat
    BY <1>1, <1>3
  <2> QED
    BY <2>1
<1>6. jrll(f) = 2 /\ jpll(f) = 2 * f + 1
  BY <1>5, Rows
<1> HIDE DEF f, e
<1>7. ring * f = iphi - 1 - e /\ (2 * f + 1) * ring = 2 * (ring * f) + ring
  BY <1>1, <1>3, <1>4, <1>5
<1>8. Column(b, f, c) = 2 * e + 1 - ring
  <2> DEFINE all == 2 * iphi - jpll(f) * c.nr - c.kshift - 1
  <2>1. all = 2 * e + 1 - ring
    BY <1>1, <1>2, <1>3, <1>4, <1>6, <1>7
  <2>2. ~ (all >= 2 * n)
    BY <1>1, <1>4, <2>1
  <2> QED
    BY <2>1, <2>2 DEF Column, n, iphi
<1>9. Depth(b, f, c) = 2 * n - ring - 1
  BY <1>6 DEF Depth, n, ring
<1> DEFINE ix == (Column(b, f, c) + Depth(b, f, c)) \div 2
           iy == (Depth(b, f, c) - Column(b, f, c)) \div 2
<1>10. ix = e + n - ring /\ iy = n - e - 1
  BY <1>1, <1>4, <1>8, <1>9
<1>11. /\ ix \in 0 .. n - 1 /\ iy \in 0 .. n - 1
       /\ ix + iy = Depth(b, f, c) /\ ix - iy = Column(b, f, c)
  <2> HIDE DEF ix, iy
  <2> QED
    BY <1>1, <1>4, <1>8, <1>9, <1>10
<1> HIDE DEF ix, iy
<1> QED
  BY <1>2, <1>5, <1>11 DEF InFace, ix, iy, n, c

LEMMA SouthInFace ==
  ASSUME NEW b, b.nside \in Nat \ {0}, NEW num \in Pixels(b), ~ (num < npix(b) - ncap(b))
  PROVE  InFace(b, InRing(b, num))
<1> DEFINE n == b.nside
           c == InRing(b, num)
           ring == c.iring
           nr == c.nr
           iphi == c.iphi
           f == (iphi - 1) \div nr
           e == (iphi - 1) % nr
<1>1. n \in Nat /\ n >= 1 /\ ring \in 1 .. 4 * n - 1 /\ ~ (ring <= 3 * n)
  BY RingNumber
<1>2. nr = 4 * n - ring /\ nr \in 1 .. n - 1 /\ iphi \in 1 .. 4 * nr
  <2>1. iphi \in 1 .. 4 * Quarter(b, ring) /\ Quarter(b, ring) = nr
    BY RingNumber
  <2>2. 3 * n <= ring => Quarter(b, ring) = 4 * n - ring
    BY <1>1, Quarters
  <2> HIDE DEF n, ring, iphi, nr
  <2> QED
    BY <1>1, <2>1, <2>2
<1>3. c.kshift = 0 /\ c.face = 8 + f
  <2>1. ~ (num < ncap(b))
    BY Borders DEF Pixels
  <2>2. c = SouthPolarCap(b, num)
    BY <2>1 DEF InRing
  <2> QED
    BY <2>2 DEF SouthPolarCap
<1> HIDE DEF n, c, ring, iphi, nr
<1>4. f \in Int /\ e \in 0 .. nr - 1 /\ iphi - 1 = nr * f + e
  <2>1. iphi - 1 \in Int /\ nr \in Nat \ {0}
    BY <1>2
  <2> QED
    BY <2>1, Divided
<1>5. f = 0 \/ f = 1 \/ f = 2 \/ f = 3
  <2>1. 0 <= iphi - 1 /\ iphi - 1 < nr * 4 /\ iphi - 1 \in Nat /\ nr \in Nat \ {0} /\ 4 \in Nat
    BY <1>2
  <2> QED
    BY <2>1
<1>6. jrll(8 + f) = 4 /\ jpll(8 + f) = 2 * f + 1
  <2>1. 8 + f \in 0 .. 11 /\ 8 + f \in 8 .. 11 /\ (8 + f) - 8 = f
    BY <1>5
  <2> QED
    BY <2>1, Rows
<1> HIDE DEF f, e
<1>7. nr * f = iphi - 1 - e /\ (2 * f + 1) * nr = 2 * (nr * f) + nr
  BY <1>2, <1>4, <1>5
<1>8. Column(b, 8 + f, c) = 2 * e + 1 - nr
  <2> DEFINE all == 2 * iphi - jpll(8 + f) * nr - c.kshift - 1
  <2>1. all = 2 * e + 1 - nr
    BY <1>2, <1>3, <1>4, <1>6, <1>7
  <2>2. ~ (all >= 2 * n)
    BY <1>1, <1>2, <1>4, <2>1
  <2> QED
    BY <2>1, <2>2 DEF Column, n, iphi, nr
<1>9. Depth(b, 8 + f, c) = nr - 1
  <2>1. Depth(b, 8 + f, c) = 4 * n - ring - 1
    BY <1>6 DEF Depth, n, ring
  <2> QED
    BY <1>1, <1>2, <2>1
<1> DEFINE ix == (Column(b, 8 + f, c) + Depth(b, 8 + f, c)) \div 2
           iy == (Depth(b, 8 + f, c) - Column(b, 8 + f, c)) \div 2
<1>10. ix = e /\ iy = nr - e - 1
  <2>1. /\ Column(b, 8 + f, c) + Depth(b, 8 + f, c) = 2 * e
        /\ Depth(b, 8 + f, c) - Column(b, 8 + f, c) = 2 * (nr - e - 1)
    BY <1>2, <1>4, <1>8, <1>9
  <2>2. (2 * e) \div 2 = e /\ (2 * (nr - e - 1)) \div 2 = nr - e - 1
    BY <1>2, <1>4
  <2> QED
    BY <2>1, <2>2
<1>11. /\ ix \in 0 .. n - 1 /\ iy \in 0 .. n - 1
       /\ ix + iy = Depth(b, 8 + f, c) /\ ix - iy = Column(b, 8 + f, c)
  <2> HIDE DEF ix, iy
  <2> QED
    BY <1>1, <1>2, <1>4, <1>8, <1>9, <1>10
<1>12. 8 + f \in 0 .. 11
  BY <1>5
<1> HIDE DEF ix, iy
<1> QED
  BY <1>3, <1>11, <1>12 DEF InFace, ix, iy, n, c

\* In the equatorial region the two columns between edges differ by one at most.
LEMMA EquatorInFace ==
  ASSUME NEW b, b.nside \in Nat \ {0}, NEW num \in Pixels(b),
         ~ (num < ncap(b)), num < npix(b) - ncap(b)
  PROVE  InFace(b, InRing(b, num))
<1> DEFINE n == b.nside
           c == InRing(b, num)
           ring == c.iring
           iphi == c.iphi
           s == c.kshift
           ire == ring - n + 1
           irm == 2 * n + 2 - ire
           A == iphi - ire \div 2 + n - 1
           B == iphi - irm \div 2 + n - 1
           ifm == A \div n
           ifp == B \div n
           a == A % n
           p == B % n
           f == c.face
<1>1. /\ n \in Nat \ {0} /\ ring \in 1 .. 4 * n - 1 /\ n <= ring /\ ring <= 3 * n
      /\ s = (ring + n) % 2 /\ c.nr = n /\ iphi \in 1 .. 4 * n
  <2>1. /\ n \in Nat \ {0} /\ ring \in 1 .. 4 * n - 1 /\ ~ (ring < n) /\ ring <= 3 * n
        /\ s = Shift(b, ring) /\ c.nr = Quarter(b, ring) /\ iphi \in 1 .. 4 * Quarter(b, ring)
    BY RingNumber
  <2>2. n <= ring
    BY <2>1
  <2>3. Quarter(b, ring) = n /\ Shift(b, ring) = (ring + n) % 2
    BY <2>1, <2>2, Quarters
  <2> QED
    BY <2>1, <2>2, <2>3
<1>2. f = equatorialFace(ifp, ifm)
  <2>1. c = EquatorialRegion(b, num)
    BY DEF InRing
  <2> QED
    BY <2>1 DEF EquatorialRegion
<1> HIDE DEF n, c, ring, iphi, s, f
<1>3. s \in 0 .. 1 /\ ire \in 1 .. 2 * n + 1 /\ irm \in 1 .. 2 * n + 1 /\ ire + irm = 2 * n + 2
  BY <1>1
<1>4. ire = ring - n + 1 /\ irm = 3 * n + 1 - ring
  BY <1>1
<1>5. 2 * (ire \div 2) = ire - 1 + s /\ 2 * (irm \div 2) = irm - 1 + s
  <2>1. (ire % 2 = 1 <=> s = 0) /\ (irm % 2 = 1 <=> s = 0)
    BY <1>1, <1>4
  <2> HIDE DEF ire, irm
  <2> QED
    BY <1>3, <2>1
<1>6. A - B = 2 * n - ring /\ A + B = 2 * iphi + n - s - 2 /\ A \in Int /\ B \in Int
  <2> DEFINE h == ire \div 2
             k == irm \div 2
  <2>1. h \in Int /\ k \in Int /\ A = iphi - h + n - 1 /\ B = iphi - k + n - 1
    BY <1>1, <1>3
  <2>2. 2 * h = ring - n + s /\ 2 * k = 3 * n - ring + s
    BY <1>1, <1>3, <1>4, <1>5
  <2> HIDE DEF h, k, A, B
  <2> QED
    BY <1>1, <1>3, <2>1, <2>2
<1>7. A >= 0 /\ B >= 0 /\ A < 5 * n /\ B < 5 * n
  <2> DEFINE h == ire \div 2
             k == irm \div 2
  <2>1. h \in 0 .. n /\ k \in 0 .. n
    BY <1>1, <1>3
  <2>2. A = iphi - h + n - 1 /\ B = iphi - k + n - 1
    OBVIOUS
  <2> HIDE DEF h, k, A, B
  <2> QED
    BY <1>1, <2>1, <2>2
<1> HIDE DEF ire, irm, A, B
<1>8. /\ ifm \in Int /\ a \in 0 .. n - 1 /\ A = n * ifm + a
      /\ ifp \in Int /\ p \in 0 .. n - 1 /\ B = n * ifp + p
  BY <1>1, <1>6, Divided
<1>9. ifm \in 0 .. 4 /\ ifp \in 0 .. 4
  <2>1. n \in Nat \ {0} /\ A \in Nat /\ B \in Nat /\ A < n * 5 /\ B < n * 5
    BY <1>1, <1>6, <1>7
  <2> QED
    BY <2>1
<1> HIDE DEF ifm, ifp, a, p
<1> DEFINE x == a
           y == n - 1 - p
           Right(face) == /\ face \in 0 .. 11
                          /\ Column(b, face, c) = x - y /\ Depth(b, face, c) = x + y
<1>10. ASSUME NEW k \in 0 .. 4, NEW d \in 2 .. 4, NEW j \in 0 .. 7, NEW face \in 0 .. 11,
              jrll(face) = d, jpll(face) = j,
              d * n - ring - 1 = x + y,
              \/ A + B - n + 1 - j * n = x - y
              \/ A + B - n + 1 - j * n = x - y + 8 * n
       PROVE  Right(face)
  <2> DEFINE all == 2 * iphi - j * n - s - 1
  <2>1. all = A + B - n + 1 - j * n
    <3> DEFINE q == j * n
    <3>1. q \in Int
      BY <1>1
    <3> HIDE DEF q
    <3>2. 2 * iphi - q - s - 1 = A + B - n + 1 - q
      BY <1>1, <1>3, <1>6, <3>1
    <3> QED
      BY <3>2 DEF q
  <2>2. x - y < 2 * n /\ x - y > -n /\ x - y \in Int
    BY <1>1, <1>8
  <2> HIDE DEF all, x, y
  <2>3. (IF all >= 2 * n THEN all - 8 * n ELSE all) = x - y
    <3>1. CASE all = x - y
      BY <1>1, <2>2, <3>1
    <3>2. CASE all = x - y + 8 * n
      BY <1>1, <2>2, <3>2
    <3> QED
      BY <1>10, <2>1, <3>1, <3>2
  <2>4. Column(b, face, c) = x - y
    BY <1>1, <1>10, <2>3 DEF Column, all, n, iphi, s
  <2>5. Depth(b, face, c) = x + y
    BY <1>10 DEF Depth, n, ring
  <2> QED
    BY <2>4, <2>5
<1>11. Right(f)
  <2> HIDE DEF Right
  <2>1. CASE ifp = ifm
    <3> DEFINE k == ifp % 4
    <3>1. f = k + 4
      BY <1>2, <2>1 DEF equatorialFace
    <3>2. k \in 0 .. 3 /\ (ifp = k \/ (ifp = 4 /\ k = 0))
      BY <1>9
    <3> HIDE DEF k
    <3>3. f \in 4 .. 7 /\ f \in 0 .. 11 /\ f - 4 = k
      BY <3>1, <3>2
    <3>4. jrll(f) = 3 /\ jpll(f) = 2 * k
      BY <3>3, Rows
    <3>5. 3 * n - ring - 1 = x + y
      <4>1. A - B = a - p
        BY <1>1, <1>8, <2>1
      <4> QED
        BY <1>1, <1>6, <1>8, <4>1
    <3>6. n * ifp = k * n \/ n * ifp = k * n + 4 * n
      BY <1>1, <3>2
    <3>7. (2 * k) * n = 2 * (k * n) /\ k * n \in Int
      BY <1>1, <3>2
    <3>8. \/ A + B - n + 1 - (2 * k) * n = x - y
          \/ A + B - n + 1 - (2 * k) * n = x - y + 8 * n
      BY SMTT(30), <1>1, <1>8, <2>1, <3>6, <3>7
    <3>9. 2 * k \in 0 .. 7 /\ 3 \in 2 .. 4 /\ k \in 0 .. 4
      BY <3>2
    <3> HIDE DEF x, y
    <3> QED
      BY <1>10, <3>3, <3>4, <3>5, <3>8, <3>9
  <2>2. CASE ifp < ifm
    <3>1. f = ifp
      BY <1>2, <1>9, <2>2 DEF equatorialFace
    <3>2. n * ifm = n * ifp + n /\ ifm = ifp + 1 /\ ifp \in 0 .. 3
      <4> DEFINE k == ifm - ifp - 1
      <4>1. k \in Nat /\ ifm = ifp + 1 + k
        BY <1>9, <2>2
      <4> HIDE DEF k
      <4>2. n * ifm = n * ifp + n + n * k /\ n * ifp \in Int /\ n * k \in Nat
        BY <1>1, <1>9, <4>1
      <4>3. CASE k = 0
        BY <1>1, <1>9, <4>1, <4>2, <4>3
      <4>4. CASE k # 0
        <5>1. n * k >= n
          BY <1>1, <4>1, <4>4
        <5> QED
          BY <1>1, <1>6, <1>8, <4>2, <5>1
      <4> QED
        BY <4>3, <4>4
    <3>3. f \in 0 .. 11 /\ jrll(f) = 2 /\ jpll(f) = 2 * ifp + 1
      BY <3>1, <3>2, Rows
    <3>4. 2 * n - ring - 1 = x + y
      BY <1>1, <1>6, <1>8, <3>2
    <3>5. (2 * ifp + 1) * n = 2 * (n * ifp) + n /\ n * ifp \in Int
      BY <1>1, <3>2
    <3>6. A + B - n + 1 - (2 * ifp + 1) * n = x - y
      BY SMTT(30), <1>1, <1>8, <3>2, <3>5
    <3>7. 2 * ifp + 1 \in 0 .. 7 /\ 2 \in 2 .. 4 /\ ifp \in 0 .. 4
      BY <3>2
    <3> HIDE DEF x, y
    <3> QED
      BY SMTT(30), <1>10, <3>3, <3>4, <3>6, <3>7
  <2>3. CASE ifm < ifp
    <3>1. f = ifm + 8
      BY <1>2, <1>9, <2>3 DEF equatorialFace
    <3>2. n * ifp = n * ifm + n /\ ifp = ifm + 1 /\ ifm \in 0 .. 3
      <4> DEFINE k == ifp - ifm - 1
      <4>1. k \in Nat /\ ifp = ifm + 1 + k
        BY <1>9, <2>3
      <4> HIDE DEF k
      <4>2. n * ifp = n * ifm + n + n * k /\ n * ifm \in Int /\ n * k \in Nat
        BY <1>1, <1>9, <4>1
      <4>3. CASE k = 0
        BY <1>1, <1>9, <4>1, <4>2, <4>3
      <4>4. CASE k # 0
        <5>1. n * k >= n
          BY <1>1, <4>1, <4>4
        <5> QED
          BY <1>1, <1>6, <1>8, <4>2, <5>1
      <4> QED
        BY <4>3, <4>4
    <3>3. f \in 0 .. 11 /\ jrll(f) = 4 /\ jpll(f) = 2 * ifm + 1
      <4>1. f \in 8 .. 11 /\ f \in 0 .. 11 /\ f - 8 = ifm
        BY <3>1, <3>2
      <4> QED
        BY <4>1, Rows
    <3>4. 4 * n - ring - 1 = x + y
      BY <1>1, <1>6, <1>8, <3>2
    <3>5. (2 * ifm + 1) * n = 2 * (n * ifm) + n /\ n * ifm \in Int
      BY <1>1, <3>2
    <3>6. A + B - n + 1 - (2 * ifm + 1) * n = x - y
      BY SMTT(30), <1>1, <1>8, <3>2, <3>5
    <3>7. 2 * ifm + 1 \in 0 .. 7 /\ 4 \in 2 .. 4 /\ ifm \in 0 .. 4
      BY <3>2
    <3> HIDE DEF x, y
    <3> QED
      BY <1>10, <3>3, <3>4, <3>6, <3>7
  <2> QED
    BY SMTT(30), <1>9, <2>1, <2>2, <2>3
<1>12. x \in 0 .. n - 1 /\ y \in 0 .. n - 1
  BY <1>1, <1>8
<1> DEFINE u == Column(b, f, c)
           v == Depth(b, f, c)
<1>13. u = x - y /\ v = x + y /\ f \in 0 .. 11
  BY <1>11
<1> HIDE DEF x, y, u, v
<1>14. (u + v) \div 2 = x /\ (v - u) \div 2 = y /\ x + y = v /\ x - y = u
  <2>1. u + v = 2 * x /\ v - u = 2 * y /\ x \in Int /\ y \in Int
    BY <1>1, <1>12, <1>13
  <2>2. (2 * x) \div 2 = x /\ (2 * y) \div 2 = y
    BY <2>1
  <2> QED
    BY <1>13, <2>1, <2>2
<1> QED
  BY <1>12, <1>13, <1>14 DEF InFace, u, v, f, n, c

\* The place that ring2xyf finds in the face of the pixel.
LEMMA RingFace ==
  ASSUME NEW b, b.nside \in Nat \ {0}, NEW num \in Pixels(b)
  PROVE  LET c == InRing(b, num)
             at == ring2xyf(b, num)
         IN  /\ at = [ face |-> c.face, ix |-> at.ix, iy |-> at.iy ]
             /\ c.face \in 0 .. 11 /\ at.ix \in 0 .. b.nside - 1 /\ at.iy \in 0 .. b.nside - 1
             /\ at.ix + at.iy = Depth(b, c.face, c) /\ at.ix - at.iy = Column(b, c.face, c)
<1> DEFINE n == b.nside
           c == InRing(b, num)
           f == c.face
           u == Column(b, f, c)
           v == Depth(b, f, c)
           at == ring2xyf(b, num)
<1>1. InFace(b, c)
  <2>1. num < ncap(b) \/ ~ (num < ncap(b))
    OBVIOUS
  <2> QED
    BY <2>1, NorthInFace, EquatorInFace, SouthInFace
<1>2. n \in Nat \ {0} /\ c.iring \in 1 .. 4 * n - 1
  BY RingNumber
<1>4. f \in 0 .. 11 /\ jrll(f) \in Int /\ jpll(f) \in Int
  BY <1>1, Rows DEF InFace
<1> DEFINE x == (u + v) \div 2
           y == (v - u) \div 2
<1>5. x \in 0 .. n - 1 /\ y \in 0 .. n - 1 /\ x + y = v /\ x - y = u
  BY <1>1 DEF InFace
<1>6. at = [ face |-> f, ix |-> x, iy |-> y ]
  <2> DEFINE irt == c.iring - jrll(f) * n + 1
             ipt == u
  <2>1. at = [ face |-> f, ix |-> (ipt - irt) \div 2, iy |-> (-ipt - irt) \div 2 ]
    BY DEF ring2xyf, Column
  <2>2. -irt = v /\ irt \in Int
    <3> DEFINE q == jrll(f) * n
    <3>1. q \in Int
      BY <1>2, <1>4
    <3>2. v = q - c.iring - 1
      BY DEF Depth
    <3> HIDE DEF q, v
    <3>3. -(c.iring - q + 1) = v /\ c.iring - q + 1 \in Int
      BY <1>2, <3>1, <3>2
    <3> QED
      BY <3>3 DEF q
  <2>3. u \in Int /\ v \in Int
    <3>1. x \in Int /\ y \in Int
      BY <1>2, <1>5
    <3> HIDE DEF x, y
    <3> QED
      BY <1>5, <3>1
  <2> HIDE DEF irt, u, v
  <2>4. ipt - irt = u + v /\ -ipt - irt = v - u
    BY <2>2, <2>3
  <2> QED
    BY <2>1, <2>4
<1> HIDE DEF x, y
<1>7. at.ix = x /\ at.iy = y
  BY <1>6
<1> HIDE DEF at, u, v, n, c
<1> QED
  BY <1>4, <1>5, <1>6, <1>7 DEF at, u, v, f, n, c

\* ring2xyf returns a place, and xyf2ring takes it back.
LEMMA RingPlace ==
  ASSUME NEW b, b.nside \in Nat \ {0}, NEW num \in Pixels(b)
  PROVE  LET at == ring2xyf(b, num)
         IN  /\ at \in Places(b) /\ xyf2ring(b, at) = num
             /\ RowOf(b, at) = InRing(b, num).iring
<1> DEFINE n == b.nside
           c == InRing(b, num)
           f == c.face
           u == Column(b, f, c)
           v == Depth(b, f, c)
           at == ring2xyf(b, num)
           x == at.ix
           y == at.iy
<1>2. /\ n \in Nat \ {0} /\ c.iring \in 1 .. 4 * n - 1
      /\ c.iphi \in 1 .. 4 * Quarter(b, c.iring) /\ c.iphi = num - FirstOf(b, c.iring) + 1
      /\ c.nr = Quarter(b, c.iring) /\ c.kshift = Shift(b, c.iring)
  BY RingNumber
<1>3. Quarter(b, c.iring) \in 1 .. n /\ Shift(b, c.iring) \in 0 .. 1
  BY <1>2, Quarters
<1>5. x \in 0 .. n - 1 /\ y \in 0 .. n - 1 /\ x + y = v /\ x - y = u
  BY RingFace
<1>6. at = [ face |-> f, ix |-> x, iy |-> y ] /\ f \in 0 .. 11
  BY RingFace
<1>4. f \in 0 .. 11 /\ jrll(f) \in Int /\ jpll(f) \in Int
  BY <1>6, Rows
<1> HIDE DEF x, y
<1>7. at \in Places(b)
  BY <1>4, <1>5, <1>6 DEF Places
<1>8. at.face = f /\ at.ix = x /\ at.iy = y
  BY <1>6 DEF x, y
<1> HIDE DEF at
<1>9. RowOf(b, at) = c.iring
  <2> DEFINE q == jrll(f) * n
  <2>1. q \in Int /\ RowOf(b, at) = q - x - y - 1 /\ v = q - c.iring - 1
    BY <1>2, <1>4, <1>8 DEF RowOf, Depth
  <2> HIDE DEF q, v
  <2> QED
    BY <1>2, <1>5, <2>1
<1>10. Twice(b, at) = 2 * c.iphi \/ Twice(b, at) = 2 * c.iphi - 8 * n
  <2> DEFINE q == jpll(f) * c.nr
             s == c.kshift
             all == 2 * c.iphi - q - s - 1
  <2>1. q \in Int /\ s \in Int /\ c.iphi \in Int
    BY <1>2, <1>3, <1>4
  <2>2. Twice(b, at) = q + x - y + 1 + s
    BY <1>2, <1>8, <1>9 DEF Twice
  <2>3. u = IF all >= 2 * n THEN all - 8 * n ELSE all
    BY DEF Column
  <2> HIDE DEF q, s, u
  <2> QED
    BY <1>2, <1>5, <2>1, <2>2, <2>3
<1> DEFINE place == xyf2ring(b, at) - FirstOf(b, c.iring) + 1
<1>11. /\ 2 * place = Twice(b, at) + (IF Twice(b, at) < 2 THEN 8 * n ELSE 0)
       /\ xyf2ring(b, at) \in Int /\ place \in 1 .. 4 * Quarter(b, c.iring)
  BY <1>7, <1>9, PlaceRing
<1>12. FirstOf(b, c.iring) \in Nat /\ num \in Int
  <2>1. npix(b) \in Nat
    BY Borders
  <2> QED
    BY <1>2, <2>1, RingsTouch DEF Pixels
<1> DEFINE q == Quarter(b, c.iring)
           t == Twice(b, at)
<1>13. place = c.iphi
  <2>1. place \in Int /\ c.iphi \in Int /\ c.iphi >= 1 /\ c.iphi <= 4 * n
    BY <1>2, <1>3, <1>11
  <2> HIDE DEF place, t, q
  <2> QED
    BY <1>2, <1>10, <1>11, <2>1
<1>14. xyf2ring(b, at) = num
  <2> DEFINE r == xyf2ring(b, at)
             first == FirstOf(b, c.iring)
  <2> HIDE DEF r, first
  <2>1. r - first + 1 = num - first + 1
    BY <1>2, <1>13 DEF r, first
  <2>2. r \in Int /\ first \in Int /\ num \in Int
    BY <1>11, <1>12 DEF r, first
  <2>3. r = num
    BY <2>1, <2>2
  <2> QED
    BY <2>3 DEF r
<1> QED
  BY <1>7, <1>9, <1>14 DEF at

----------------------------------------------------------------------------
(* The bases of the walk.                                                  *)

LEMMA PowersGrow ==
  ASSUME NEW n \in Nat, PowersUpTo(n), NEW i \in 0 .. n, NEW j \in 0 .. n, i < j
  PROVE  2^i < 2^j
<1> DEFINE S == { k \in Nat : i + (k + 1) <= n => 2^i < 2^(i + (k + 1)) }
<1>1. ASSUME NEW m \in 0 .. n
      PROVE  2^m \in Nat \ {0} /\ 2^(m + 1) = 2 * 2^m
  BY DEF PowersUpTo
<1>2. 0 \in S
  <2>1. 2^i \in Nat \ {0} /\ 2^(i + 1) = 2 * 2^i
    BY <1>1
  <2>2. 2^i < 2^(i + 1)
    <3> DEFINE P == 2^i
    <3>1. P \in Nat \ {0} /\ 2^(i + 1) = 2 * P
      BY <2>1
    <3> HIDE DEF P
    <3>2. P < 2^(i + 1)
      BY <3>1
    <3> QED
      BY <3>2 DEF P
  <2>3. 0 + 1 = 1
    OBVIOUS
  <2> QED
    BY <2>2, <2>3
<1>3. ASSUME NEW k \in Nat, k \in S
      PROVE  k + 1 \in S
  <2>1. SUFFICES ASSUME i + ((k + 1) + 1) <= n
                 PROVE  2^i < 2^(i + ((k + 1) + 1))
    OBVIOUS
  <2> DEFINE m == i + (k + 1)
             P == 2^m
             R == 2^i
  <2>2. m \in 0 .. n /\ i + ((k + 1) + 1) = m + 1 /\ i + (k + 1) <= n
    BY <2>1
  <2>3. R < P
    BY <1>3, <2>2
  <2>4. P \in Nat \ {0} /\ 2^(m + 1) = 2 * P /\ R \in Nat \ {0}
    BY <1>1, <2>2
  <2> HIDE DEF m, P, R
  <2>5. R < 2^(m + 1)
    BY <2>3, <2>4
  <2> QED
    BY <2>2, <2>5 DEF R
<1>4. \A k \in Nat : k \in S
  <2> HIDE DEF S
  <2> QED
    BY <1>2, <1>3, NatSetInduction
<1>5. j - i - 1 \in Nat /\ i + ((j - i - 1) + 1) = j /\ j <= n
  OBVIOUS
<1>6. j - i - 1 \in S
  BY <1>4, <1>5
<1> QED
  BY <1>5, <1>6

LEMMA PowerAbove ==
  ASSUME NEW n \in Nat, PowersUpTo(n)
  PROVE  n < 2^n
<1> DEFINE S == { k \in Nat : k <= n => k < 2^k }
<1>1. 0 \in S
  BY DEF PowersUpTo
<1>2. ASSUME NEW k \in Nat, k \in S
      PROVE  k + 1 \in S
  <2>1. SUFFICES ASSUME k + 1 <= n
                 PROVE  k + 1 < 2^(k + 1)
    OBVIOUS
  <2> DEFINE P == 2^k
  <2>2. k \in 0 .. n /\ k <= n
    BY <2>1
  <2>3. P \in Nat \ {0} /\ 2^(k + 1) = 2 * P
    BY <2>2 DEF PowersUpTo
  <2>4. k < P
    BY <1>2, <2>2
  <2> HIDE DEF P
  <2> QED
    BY <2>3, <2>4
<1>3. n \in S
  <2> HIDE DEF S
  <2> QED
    BY <1>1, <1>2, NatSetInduction
<1> QED
  BY <1>3

\* What Set and SetNside leave of a base; the scheme can change.
IsBase(b) ==
  /\ b \in [ order : Int, nside : Nat \ {0}, scheme : { "RING", "NEST" } ]
  /\ b.order = nside2order(b.nside)
  /\ b.order >= 0 => Hierarchical(b)
  /\ b.scheme = "NEST" => b.order >= 0

LEMMA PowersBelow ==
  ASSUME NEW n \in Nat, PowersUpTo(3 * n)
  PROVE  PowersUpTo(n)
<1>1. \A k \in 0 .. n : k \in 0 .. 3 * n
  OBVIOUS
<1> QED
  BY <1>1 DEF PowersUpTo

LEMMA SetIsBase ==
  ASSUME NEW order \in Orders, NEW scheme \in { "RING", "NEST" }
  PROVE  IsBase(Set(order, scheme))
<1> DEFINE N == 2^order
           b == Set(order, scheme)
<1>1. order \in Nat /\ PowersUpTo(order) /\ PowersUpTo(N)
  <2>1. order \in Nat /\ PowersUpTo(3 * order) /\ PowersUpTo(3 * N)
    BY WalkAssumption, Powers
  <2>2. PowersUpTo(order) /\ order \in 0 .. order
    BY <2>1, PowersBelow
  <2>3. N \in Nat
    BY <2>2 DEF PowersUpTo
  <2> QED
    BY <2>1, <2>2, <2>3, PowersBelow
<1>2. N \in Nat \ {0} /\ order < N
  BY <1>1, PowerAbove DEF PowersUpTo
<1>3. order \in 0 .. N /\ N = 2^order
  BY <1>1, <1>2
<1>4. nside2order(N) = order
  <2>1. \A k \in 0 .. N : N = 2^k => k = order
    <3>1. SUFFICES ASSUME NEW k \in 0 .. N, N = 2^k, k # order
                   PROVE  FALSE
      OBVIOUS
    <3>2. k < order \/ order < k
      BY <1>1, <3>1
    <3>3. ~ (N < N)
      BY <1>2
    <3> QED
      BY <1>1, <1>2, <1>3, <3>1, <3>2, <3>3, PowersGrow
  <2> HIDE DEF N
  <2> QED
    BY <1>3, <2>1 DEF nside2order
<1>5. b.order = order /\ b.nside = N /\ b.scheme = scheme
      /\ b \in [ order : Int, nside : Nat \ {0}, scheme : { "RING", "NEST" } ]
  <2> HIDE DEF N
  <2>1. b = [ order |-> order, nside |-> N, scheme |-> scheme ]
    BY DEF Set, N
  <2> HIDE DEF b
  <2> QED
    BY <1>1, <1>2, <2>1
<1> HIDE DEF b
<1>6. Hierarchical(b)
  BY <1>1, <1>5 DEF Hierarchical
<1>7. b.order >= 0
  BY <1>1, <1>5
<1>8. b.order = nside2order(b.nside)
  BY <1>4, <1>5
<1>9. IsBase(b)
  BY <1>5, <1>6, <1>7, <1>8 DEF IsBase
<1> QED
  BY <1>9 DEF b

LEMMA SetNsideIsBase ==
  ASSUME NEW nside \in Nat \ {0}, PowersUpTo(nside), NEW scheme \in { "RING", "NEST" },
         scheme = "NEST" => nside2order(nside) >= 0
  PROVE  IsBase(SetNside(nside, scheme))
<1> DEFINE o == nside2order(nside)
           b == SetNside(nside, scheme)
<1>1. nside \in Nat \ {0} /\ PowersUpTo(nside)
  OBVIOUS
<1>2. o = -1 \/ (o \in 0 .. nside /\ nside = 2^o)
  BY DEF nside2order
<1>3. o \in Int
  BY <1>1, <1>2
<1>4. b.order = o /\ b.nside = nside /\ b.scheme = scheme
      /\ b \in [ order : Int, nside : Nat \ {0}, scheme : { "RING", "NEST" } ]
  <2> HIDE DEF o
  <2>1. b = [ order |-> o, nside |-> nside, scheme |-> scheme ]
    BY DEF SetNside, o
  <2> HIDE DEF b
  <2> QED
    BY <1>1, <1>3, <2>1
<1>5. ASSUME o >= 0
      PROVE  Hierarchical(b)
  <2>1. o \in 0 .. nside /\ nside = 2^o
    BY <1>2, <1>5
  <2>2. o \in Nat /\ \A k \in 0 .. o : k \in 0 .. nside
    BY <1>1, <2>1
  <2>3. PowersUpTo(o)
    <3> HIDE DEF o
    <3> QED
      BY <1>1, <2>2 DEF PowersUpTo
  <2> HIDE DEF o, b
  <2> QED
    BY <1>4, <2>1, <2>2, <2>3 DEF Hierarchical
<1>6. /\ b.order = nside2order(b.nside) /\ (b.order >= 0 => Hierarchical(b))
      /\ (b.scheme = "NEST" => b.order >= 0)
  BY <1>4, <1>5
<1> HIDE DEF b
<1>7. IsBase(b)
  BY <1>4, <1>6 DEF IsBase
<1> QED
  BY <1>7 DEF b

----------------------------------------------------------------------------
(* Peano indices.                                                          *)

\* The two tables of a direction undo those of the other, and lead to the same path.
LEMMA PeanoTables ==
  ASSUME NEW path \in 0 .. 7, NEW sub \in 0 .. 3
  PROVE  /\ \A dir \in 0 .. 1 : /\ peano_subpix(dir, path, sub) \in 0 .. 3
                                /\ peano_subpath(dir, path, sub) \in 0 .. 7
         /\ peano_subpix(1, path, peano_subpix(0, path, sub)) = sub
         /\ peano_subpath(1, path, peano_subpix(0, path, sub)) = peano_subpath(0, path, sub)
<1>1. CASE path = 0
  BY <1>1 DEF peano_subpix, peano_subpath
<1>2. CASE path = 1
  BY <1>2 DEF peano_subpix, peano_subpath
<1>3. CASE path = 2
  BY <1>3 DEF peano_subpix, peano_subpath
<1>4. CASE path = 3
  BY <1>4 DEF peano_subpix, peano_subpath
<1>5. CASE path = 4
  BY <1>5 DEF peano_subpix, peano_subpath
<1>6. CASE path = 5
  BY <1>6 DEF peano_subpix, peano_subpath
<1>7. CASE path = 6
  BY <1>7 DEF peano_subpix, peano_subpath
<1>8. CASE path = 7
  BY <1>8 DEF peano_subpix, peano_subpath
<1> QED
  BY <1>1, <1>2, <1>3, <1>4, <1>5, <1>6, <1>7, <1>8

LEMMA PeanoFaces ==
  ASSUME NEW face \in 0 .. 11
  PROVE  /\ \A dir \in 0 .. 1 : /\ peano_face2face(dir, face) \in 0 .. 11
                                /\ peano_face2path(dir, face) \in 0 .. 7
         /\ peano_face2face(1, peano_face2face(0, face)) = face
         /\ peano_face2path(1, peano_face2face(0, face)) = peano_face2path(0, face)
<1>1. /\ \A dir \in 0 .. 1 : /\ peano_face2face(dir, face) \in 0 .. 11
                             /\ peano_face2path(dir, face) \in 0 .. 7
  BY DEF peano_face2face, peano_face2path
<1>2. peano_face2face(1, peano_face2face(0, face)) = face
  BY DEF peano_face2face
<1>3. peano_face2path(1, peano_face2face(0, face)) = peano_face2path(0, face)
  BY DEF peano_face2face, peano_face2path
<1> QED
  BY <1>1, <1>2, <1>3

\* The walk down the quadrants is defined.
PeanoStart(face, dir) == [ result |-> 0, path |-> peano_face2path(dir, face) ]
PeanoStep(last, dir, spix) ==
  [ result |-> 4 * last.result + peano_subpix(dir, last.path, spix),
    path   |-> peano_subpath(dir, last.path, spix) ]

LEMMA PeanoTurns ==
  ASSUME NEW b, b.order \in Nat, NEW num, NEW dir
  PROVE  \E h : /\ h[0] = PeanoStart(num \div npface(b), dir)
                /\ \A i \in 1 .. b.order :
                     h[i] = PeanoStep(h[i-1], dir, (num \div 4^(b.order - i)) % 4)
                /\ nest_peano_helper(b, num, dir)
                     = h[b.order].result + peano_face2face(dir, num \div npface(b)) * npface(b)
<1> DEFINE n == b.order
           Step(f, i) == IF i = 0 THEN PeanoStart(num \div npface(b), dir)
                         ELSE PeanoStep(f[i-1], dir, (num \div 4^(n - i)) % 4)
           S == { j \in Nat : \E f : f = [ i \in 0 .. j |-> Step(f, i) ] }
           after == CHOOSE f : f = [ i \in 0 .. n |-> Step(f, i) ]
<1>1. 0 \in S
  <2> DEFINE f == [ i \in 0 .. 0 |-> PeanoStart(num \div npface(b), dir) ]
  <2>1. f = [ i \in 0 .. 0 |-> Step(f, i) ]
    OBVIOUS
  <2> HIDE DEF f
  <2> QED
    BY <2>1
<1>2. ASSUME NEW j \in Nat, j \in S
      PROVE  j + 1 \in S
  <2>1. PICK f : f = [ i \in 0 .. j |-> Step(f, i) ]
    BY <1>2
  <2> DEFINE g == [ i \in 0 .. j + 1 |-> Step(f, i) ]
  <2>2. \A i \in 0 .. j : g[i] = f[i]
    <3> HIDE DEF Step
    <3> QED
      BY <2>1
  <2>3. ASSUME NEW i \in 0 .. j + 1
        PROVE  Step(f, i) = Step(g, i)
    <3>1. CASE i = 0
      BY <3>1
    <3>2. CASE i # 0
      <4>1. i - 1 \in 0 .. j
        BY <3>2
      <4>2. g[i-1] = f[i-1]
        BY <2>2, <4>1
      <4> HIDE DEF g
      <4> QED
        BY <3>2, <4>2
    <3> QED
      BY <3>1, <3>2
  <2>4. g = [ i \in 0 .. j + 1 |-> Step(g, i) ]
    <3> HIDE DEF Step
    <3> QED
      BY <2>3
  <2> HIDE DEF g, Step
  <2> QED
    BY <2>4
<1>3. n \in S
  <2> HIDE DEF S
  <2>1. \A j \in Nat : j \in S => j + 1 \in S
    BY <1>2
  <2> QED
    BY <1>1, <2>1, NatSetInduction
<1>4. after = [ i \in 0 .. n |-> Step(after, i) ]
  <2> HIDE DEF Step
  <2> QED
    BY <1>3
<1>5. nest_peano_helper(b, num, dir)
        = after[n].result + peano_face2face(dir, num \div npface(b)) * npface(b)
  BY DEF nest_peano_helper, PeanoStart, PeanoStep
<1> HIDE DEF after
<1>6. after[0] = PeanoStart(num \div npface(b), dir)
  BY <1>4
<1>7. ASSUME NEW i \in 1 .. n
      PROVE  after[i] = PeanoStep(after[i-1], dir, (num \div 4^(n - i)) % 4)
  <2>1. i \in 0 .. n /\ i # 0
    OBVIOUS
  <2> QED
    BY <1>4, <2>1
<1> QED
  BY <1>5, <1>6, <1>7

LEMMA Quartered ==
  ASSUME NEW a \in Nat, NEW w \in Nat \ {0}
  PROVE  (a \div w) \div 4 = a \div (4 * w) /\ a \div w \in Nat /\ a \div 1 = a
<1> DEFINE q == a \div w
           r == a % w
           x == q \div 4
           y == q % 4
<1>1. q \in Nat /\ r \in 0 .. w - 1 /\ a = w * q + r
  <2>1. a \in Int
    OBVIOUS
  <2>2. q \in Int /\ r \in 0 .. w - 1 /\ a = w * q + r
    BY <2>1, Divided
  <2> HIDE DEF q, r
  <2>3. ASSUME q <= -1
        PROVE  FALSE
    <3>1. w * q <= w * (-1)
      BY <2>2, <2>3
    <3>2. w * (-1) = -w
      OBVIOUS
    <3> QED
      BY <2>2, <3>1, <3>2
  <2> QED
    BY <2>2, <2>3
<1> HIDE DEF q, r
<1>2. x \in Int /\ y \in 0 .. 3 /\ q = 4 * x + y
  <2>1. q \in Int /\ 4 \in Nat \ {0}
    BY <1>1
  <2> QED
    BY <2>1, Divided
<1> HIDE DEF x, y
<1>3. w * y <= 3 * w /\ 0 <= w * y /\ w * y \in Int
  BY <1>2
<1>4. w * q = (4 * w) * x + w * y
  BY <1>2
<1> DEFINE e == w * y + r
           v == 4 * w
<1>5. e \in 0 .. v - 1 /\ v \in Nat \ {0} /\ a = v * x + e
  BY <1>1, <1>2, <1>3, <1>4
<1> HIDE DEF e, v
<1>6. a \div v = x
  BY <1>2, <1>5, Division
<1>7. a \div 1 = a
  OBVIOUS
<1> QED
  BY <1>1, <1>6, <1>7 DEF q, x, v

LEMMA FourPowers ==
  ASSUME NEW b, Hierarchical(b)
  PROVE  /\ b.order \in Nat /\ 4^0 = 1
         /\ \A k \in 0 .. b.order : 4^k \in Nat \ {0}
         /\ \A k \in 0 .. b.order - 1 : 4^(k+1) = 4 * 4^k
<1> DEFINE n == b.order
<1>1. n \in Nat /\ PowersUpTo(n)
  BY DEF Hierarchical
<1>2. ASSUME NEW k \in 0 .. n
      PROVE  4^k = 2^k * 2^k /\ 2^k \in Nat \ {0} /\ 2^(k+1) = 2 * 2^k
  BY <1>1 DEF PowersUpTo
<1>3. ASSUME NEW k \in 0 .. n
      PROVE  4^k \in Nat \ {0}
  <2> DEFINE P == 2^k
  <2>1. 4^k = P * P /\ P \in Nat \ {0}
    BY <1>2
  <2> HIDE DEF P
  <2>2. P * P \in Nat \ {0}
    BY <2>1
  <2> QED
    BY <2>1, <2>2
<1>4. ASSUME NEW k \in 0 .. n - 1
      PROVE  4^(k+1) = 4 * 4^k
  <2> DEFINE P == 2^k
             R == 2^(k+1)
  <2>1. k \in 0 .. n /\ k + 1 \in 0 .. n
    BY <1>1
  <2>2. 4^k = P * P /\ P \in Nat \ {0} /\ R = 2 * P /\ 4^(k+1) = R * R
    BY <1>2, <2>1
  <2> HIDE DEF P, R
  <2>3. R * R = 4 * (P * P)
    BY <2>2
  <2> QED
    BY <2>2, <2>3
<1>5. 4^0 = 1
  BY <1>1 DEF PowersUpTo
<1> HIDE DEF n
<1> QED
  BY <1>1, <1>3, <1>4, <1>5 DEF n

\* A number built of quadrants has those quadrants, ...
LEMMA QuadrantsOf ==
  ASSUME NEW b, Hierarchical(b), NEW t, NEW d,
         \A i \in 0 .. b.order : t[i] \in Nat,
         \A i \in 1 .. b.order : d[i] \in 0 .. 3 /\ t[i] = 4 * t[i-1] + d[i]
  PROVE  /\ t[b.order] \div 4^b.order = t[0]
         /\ \A i \in 1 .. b.order : (t[b.order] \div 4^(b.order - i)) % 4 = d[i]
<1> DEFINE n == b.order
           a == t[n]
           S == { k \in Nat : k <= n => a \div 4^k = t[n-k] }
<1>1. /\ n \in Nat /\ a \in Nat /\ 4^0 = 1
      /\ \A k \in 0 .. n : 4^k \in Nat \ {0}
      /\ \A k \in 0 .. n - 1 : 4^(k+1) = 4 * 4^k
  BY FourPowers
<1>2. 0 \in S
  <2>1. a \div 1 = a /\ n - 0 = n
    BY <1>1
  <2> QED
    BY <1>1, <2>1
<1>3. ASSUME NEW k \in Nat, k \in S
      PROVE  k + 1 \in S
  <2>1. SUFFICES ASSUME k + 1 <= n
                 PROVE  a \div 4^(k+1) = t[n - (k+1)]
    OBVIOUS
  <2>2. k \in 0 .. n - 1 /\ k \in 0 .. n /\ k <= n /\ n - k \in 1 .. n /\ (n - k) - 1 = n - (k+1)
        /\ n - (k+1) \in 0 .. n
    BY <1>1, <2>1
  <2>3. a \div 4^k = t[n-k]
    BY <1>3, <2>2
  <2>4. a \div (4 * 4^k) = (a \div 4^k) \div 4
    BY <1>1, <2>2, Quartered
  <2>5. t[n-k] = 4 * t[n - (k+1)] + d[n-k] /\ d[n-k] \in 0 .. 3 /\ t[n - (k+1)] \in Nat
    BY <2>2
  <2>6. t[n-k] \div 4 = t[n - (k+1)]
    BY <2>5
  <2> QED
    BY <1>1, <2>2, <2>3, <2>4, <2>6
<1>4. \A k \in Nat : k \in S
  <2> HIDE DEF S
  <2> QED
    BY <1>2, <1>3, NatSetInduction
<1>5. a \div 4^n = t[0]
  <2>1. n \in S /\ n - n = 0
    BY <1>1, <1>4
  <2> QED
    BY <1>1, <2>1
<1>6. ASSUME NEW i \in 1 .. n
      PROVE  (a \div 4^(n-i)) % 4 = d[i]
  <2>1. n - i \in Nat /\ n - i <= n /\ n - (n - i) = i /\ i - 1 \in 0 .. n
    BY <1>1
  <2>2. a \div 4^(n-i) = t[i]
    BY <1>4, <2>1
  <2>3. t[i] = 4 * t[i-1] + d[i] /\ d[i] \in 0 .. 3 /\ t[i-1] \in Nat
    BY <2>1
  <2>4. t[i] % 4 = d[i]
    BY <2>3
  <2> QED
    BY <2>2, <2>4
<1> QED
  BY <1>5, <1>6

\* ... and is the only one that begins like it and has them.
LEMMA QuadrantsMake ==
  ASSUME NEW b, Hierarchical(b), NEW num \in Nat, NEW t, t[0] = num \div 4^b.order,
         \A i \in 1 .. b.order : t[i] = 4 * t[i-1] + ((num \div 4^(b.order - i)) % 4)
  PROVE  t[b.order] = num
<1> DEFINE n == b.order
           S == { k \in Nat : k <= n => t[k] = num \div 4^(n-k) }
<1>1. /\ n \in Nat /\ 4^0 = 1
      /\ \A k \in 0 .. n : 4^k \in Nat \ {0}
      /\ \A k \in 0 .. n - 1 : 4^(k+1) = 4 * 4^k
  BY FourPowers
<1>2. 0 \in S
  <2>1. n - 0 = n
    BY <1>1
  <2> QED
    BY <2>1
<1>3. ASSUME NEW k \in Nat, k \in S
      PROVE  k + 1 \in S
  <2>1. SUFFICES ASSUME k + 1 <= n
                 PROVE  t[k+1] = num \div 4^(n - (k+1))
    OBVIOUS
  <2> DEFINE m == n - (k+1)
             q == num \div 4^m
  <2>2. m \in 0 .. n - 1 /\ m \in 0 .. n /\ m + 1 = n - k /\ k <= n
        /\ k + 1 \in 1 .. n /\ (k + 1) - 1 = k
    BY <1>1, <2>1
  <2>3. t[k] = num \div 4^(m+1)
    BY <1>3, <2>2
  <2>4. num \div (4 * 4^m) = q \div 4 /\ q \in Nat
    BY <1>1, <2>2, Quartered
  <2>5. t[k+1] = 4 * t[k] + (q % 4)
    BY <2>2
  <2>6. t[k] = q \div 4
    BY <1>1, <2>2, <2>3, <2>4
  <2> HIDE DEF q
  <2>7. q \in Int /\ q = 4 * (q \div 4) + (q % 4)
    BY <2>4
  <2>8. t[k+1] = q
    BY <2>5, <2>6, <2>7, Zenon
  <2> QED
    BY <2>8 DEF q
<1>4. n \in S
  <2> HIDE DEF S
  <2> QED
    BY <1>1, <1>2, <1>3, NatSetInduction
<1>5. t[n] = num \div 1
  <2>1. n - n = 0 /\ n <= n
    BY <1>1
  <2> QED
    BY <1>1, <1>4, <2>1
<1> QED
  BY <1>5, Quartered

LEMMA FaceOf ==
  ASSUME NEW b, Hierarchical(b), NEW num \in Pixels(b)
  PROVE  num \in Nat /\ num \div npface(b) \in 0 .. 11
<1> DEFINE N == npface(b)
           q == num \div N
<1>1. N \in Nat \ {0} /\ num \in 0 .. 12 * N - 1
  BY Hierarchy
<1> HIDE DEF N
<1>2. num \in Int
  BY <1>1
<1>3. q \in Int /\ num % N \in 0 .. N - 1 /\ num = N * q + (num % N)
  BY <1>1, <1>2, Divided
<1> HIDE DEF q
<1> DEFINE r == num % N
<1>4. r \in 0 .. N - 1 /\ num = N * q + r
  BY <1>3
<1> HIDE DEF r
<1>5. ASSUME q <= -1
      PROVE  FALSE
  <2>1. N * q <= N * (-1) /\ N * (-1) = -N
    BY <1>1, <1>3, <1>5
  <2> QED
    BY <1>1, <1>3, <1>4, <2>1
<1>6. ASSUME q >= 12
      PROVE  FALSE
  <2>1. N * q >= N * 12 /\ N * 12 = 12 * N
    BY <1>1, <1>3, <1>6
  <2> QED
    BY <1>1, <1>3, <1>4, <2>1
<1>7. num \in Nat /\ q \in 0 .. 11
  BY <1>1, <1>3, <1>5, <1>6
<1> QED
  BY <1>7 DEF q, N

\* The numbers and the paths on the way down.
LEMMA PeanoWalked ==
  ASSUME NEW b, Hierarchical(b), NEW num \in Nat, NEW dir \in 0 .. 1, NEW face \in 0 .. 11,
         NEW h, h[0] = PeanoStart(face, dir),
         \A i \in 1 .. b.order : h[i] = PeanoStep(h[i-1], dir, (num \div 4^(b.order - i)) % 4)
  PROVE  /\ \A i \in 1 .. b.order : (num \div 4^(b.order - i)) % 4 \in 0 .. 3
         /\ \A i \in 0 .. b.order : h[i].result \in 0 .. 4^i - 1 /\ h[i].path \in 0 .. 7
<1> DEFINE n == b.order
           S == { k \in Nat : k <= n => h[k].result \in 0 .. 4^k - 1 /\ h[k].path \in 0 .. 7 }
<1>1. /\ n \in Nat /\ 4^0 = 1
      /\ \A k \in 0 .. n : 4^k \in Nat \ {0}
      /\ \A k \in 0 .. n - 1 : 4^(k+1) = 4 * 4^k
  BY FourPowers
<1>2. ASSUME NEW i \in 1 .. n
      PROVE  (num \div 4^(n-i)) % 4 \in 0 .. 3
  <2>1. n - i \in 0 .. n
    BY <1>1
  <2>2. num \div 4^(n-i) \in Nat
    BY <1>1, <2>1, Quartered
  <2> QED
    BY <2>2
<1>3. 0 \in S
  <2>1. h[0].result = 0 /\ h[0].path = peano_face2path(dir, face)
    BY DEF PeanoStart
  <2> QED
    BY <1>1, <2>1, PeanoFaces
<1>4. ASSUME NEW k \in Nat, k \in S
      PROVE  k + 1 \in S
  <2>1. SUFFICES ASSUME k + 1 <= n
                 PROVE  h[k+1].result \in 0 .. 4^(k+1) - 1 /\ h[k+1].path \in 0 .. 7
    OBVIOUS
  <2> DEFINE s == (num \div 4^(n - (k+1))) % 4
             P == 4^k
             d == peano_subpix(dir, h[k].path, s)
  <2>2. k \in 0 .. n - 1 /\ k \in 0 .. n /\ k <= n /\ k + 1 \in 1 .. n /\ (k + 1) - 1 = k
    BY <1>1, <2>1
  <2>3. s \in 0 .. 3
    BY <1>2, <2>2
  <2>4. h[k].result \in 0 .. P - 1 /\ h[k].path \in 0 .. 7
    BY <1>4, <2>2
  <2>5. h[k+1] = PeanoStep(h[k], dir, s)
    BY <2>2
  <2> HIDE DEF s
  <2>6. h[k+1].result = 4 * h[k].result + d /\ h[k+1].path = peano_subpath(dir, h[k].path, s)
    BY <2>5 DEF PeanoStep
  <2>7. d \in 0 .. 3 /\ peano_subpath(dir, h[k].path, s) \in 0 .. 7
    BY <2>3, <2>4, PeanoTables
  <2>8. P \in Nat \ {0} /\ 4^(k+1) = 4 * P
    BY <1>1, <2>2
  <2> HIDE DEF P, d
  <2> QED
    BY <2>4, <2>6, <2>7, <2>8
<1>5. \A k \in Nat : k \in S
  <2> HIDE DEF S
  <2> QED
    BY <1>3, <1>4, NatSetInduction
<1>6. ASSUME NEW i \in 0 .. n
      PROVE  h[i].result \in 0 .. 4^i - 1 /\ h[i].path \in 0 .. 7
  <2>1. i \in Nat /\ i <= n
    BY <1>1
  <2> QED
    BY <1>5, <2>1
<1> QED
  BY <1>2, <1>6

\* A Peano index is one of a pixel, and so is the NEST number of one.
LEMMA PeanoPixel ==
  ASSUME NEW b, Hierarchical(b), NEW num \in Pixels(b), NEW dir \in 0 .. 1
  PROVE  nest_peano_helper(b, num, dir) \in Pixels(b)
<1> DEFINE n == b.order
           N == npface(b)
           face == num \div N
           to == peano_face2face(dir, face)
<1>1. PICK h : /\ h[0] = PeanoStart(face, dir)
               /\ \A i \in 1 .. n : h[i] = PeanoStep(h[i-1], dir, (num \div 4^(n - i)) % 4)
               /\ nest_peano_helper(b, num, dir) = h[n].result + to * N
  <2>1. n \in Nat
    BY FourPowers
  <2> QED
    BY <2>1, PeanoTurns
<1>2. num \in Nat /\ face \in 0 .. 11 /\ n \in Nat
  BY FaceOf, FourPowers
<1>3. n \in 0 .. n /\ h[n].result \in 0 .. 4^n - 1
  <2>1. n \in 0 .. n
    BY <1>2
  <2> HIDE DEF face
  <2> QED
    BY <1>1, <1>2, <2>1, PeanoWalked
<1>4. to \in 0 .. 11
  BY <1>2, PeanoFaces
<1>5. N \in Nat \ {0} /\ N = 4^n /\ Pixels(b) = 0 .. 12 * N - 1
  BY Hierarchy
<1> DEFINE r == h[n].result
<1>6. r \in 0 .. N - 1
  BY <1>3, <1>5
<1> HIDE DEF N, to, r, face
<1>7. N \in Nat \ {0}
  BY <1>5
<1>8. to * N <= 11 * N /\ 0 <= to * N /\ to * N \in Int
  BY <1>4, <1>7
<1>9. r + to * N \in 0 .. 12 * N - 1
  BY <1>6, <1>7, <1>8
<1> QED
  BY <1>1, <1>5, <1>9 DEF r

LEMMA Carried ==
  ASSUME NEW x \in Nat, NEW y \in Nat, NEW d \in Nat, y = 4 * x + d,
         NEW a \in Nat, NEW P \in Nat, NEW Q, Q = 4 * P
  PROVE  y + a * Q = 4 * (x + a * P) + d /\ y + a * Q \in Nat /\ x + a * P \in Nat
<1>1. a * Q = 4 * (a * P) /\ a * P \in Nat
  OBVIOUS
<1> QED
  BY <1>1

\* The way back takes, quadrant by quadrant, the same paths.
LEMMA PeanoBack ==
  ASSUME NEW b, Hierarchical(b), NEW num \in Pixels(b)
  PROVE  nest2peano(b, num) \in Pixels(b) /\ peano2nest(b, nest2peano(b, num)) = num
<1> DEFINE n == b.order
           N == npface(b)
           face == num \div N
           to == peano_face2face(0, face)
           there == nest2peano(b, num)
           sub(i) == (num \div 4^(n - i)) % 4
<1>1. there \in Pixels(b) /\ there = nest_peano_helper(b, num, 0)
  BY PeanoPixel DEF nest2peano
<1>2. /\ n \in Nat /\ 4^0 = 1
      /\ \A k \in 0 .. n : 4^k \in Nat \ {0}
      /\ \A k \in 0 .. n - 1 : 4^(k+1) = 4 * 4^k
  BY FourPowers
<1>3. N = 4^n /\ num \in Nat /\ there \in Nat /\ face \in 0 .. 11 /\ to \in 0 .. 11
  <2>1. N = 4^n
    BY Hierarchy
  <2>2. num \in Nat /\ face \in 0 .. 11
    BY FaceOf
  <2>3. there \in Nat
    <3> HIDE DEF there
    <3> QED
      BY <1>1, FaceOf
  <2>4. to \in 0 .. 11
    <3> HIDE DEF face
    <3> QED
      BY <2>2, PeanoFaces
  <2> QED
    BY <2>1, <2>2, <2>3, <2>4
<1>4. PICK h : /\ h[0] = PeanoStart(face, 0)
               /\ \A i \in 1 .. n : h[i] = PeanoStep(h[i-1], 0, sub(i))
               /\ there = h[n].result + to * N
  BY <1>1, <1>2, PeanoTurns
<1>5. /\ \A i \in 1 .. n : sub(i) \in 0 .. 3
      /\ \A i \in 0 .. n : h[i].result \in Nat /\ h[i].path \in 0 .. 7
  <2>1. /\ \A i \in 1 .. n : sub(i) \in 0 .. 3
        /\ \A i \in 0 .. n : h[i].result \in 0 .. 4^i - 1 /\ h[i].path \in 0 .. 7
    <3> HIDE DEF face
    <3> QED
      BY <1>3, <1>4, PeanoWalked
  <2> HIDE DEF sub
  <2> QED
    BY <1>2, <2>1
<1> DEFINE down == [ i \in 1 .. n |-> peano_subpix(0, h[i-1].path, sub(i)) ]
           t == [ i \in 0 .. n |-> h[i].result + to * 4^i ]
<1>6. ASSUME NEW i \in 1 .. n
      PROVE  /\ i - 1 \in 0 .. n /\ i \in 0 .. n
             /\ down[i] \in 0 .. 3 /\ t[i] = 4 * t[i-1] + down[i]
             /\ t[i] \in Nat /\ t[i-1] \in Nat
  <2> DEFINE d == peano_subpix(0, h[i-1].path, sub(i))
  <2>1. i - 1 \in 0 .. n /\ i \in 0 .. n /\ i - 1 \in 0 .. n - 1 /\ (i - 1) + 1 = i
    BY <1>2
  <2>2. d \in 0 .. 3 /\ down[i] = d
    <3>1. sub(i) \in 0 .. 3 /\ h[i-1].path \in 0 .. 7
      BY <1>5, <2>1
    <3> HIDE DEF sub
    <3> QED
      BY <3>1, PeanoTables
  <2>3. h[i].result = 4 * h[i-1].result + d
    <3> DEFINE s == sub(i)
    <3>1. h[i] = PeanoStep(h[i-1], 0, s)
      BY <1>4
    <3> HIDE DEF s, sub
    <3>2. h[i].result = 4 * h[i-1].result + peano_subpix(0, h[i-1].path, s)
      BY <3>1 DEF PeanoStep
    <3> QED
      BY <3>2 DEF s
  <2>4. 4^i = 4 * 4^(i-1) /\ 4^(i-1) \in Nat
    BY <1>2, <2>1
  <2>5. h[i].result \in Nat /\ h[i-1].result \in Nat /\ to \in Nat /\ d \in Nat
    <3> HIDE DEF d, to, sub, down
    <3> QED
      BY <1>3, <1>5, <2>1, <2>2
  <2>6. t[i] = h[i].result + to * 4^i /\ t[i-1] = h[i-1].result + to * 4^(i-1)
    BY <2>1
  <2> HIDE DEF d, down, t, to, sub
  <2>7. /\ h[i].result + to * 4^i = 4 * (h[i-1].result + to * 4^(i-1)) + d
        /\ h[i].result + to * 4^i \in Nat /\ h[i-1].result + to * 4^(i-1) \in Nat
    <3> DEFINE x == h[i-1].result
               y == h[i].result
               P == 4^(i-1)
               Q == 4^i
    <3>1. x \in Nat /\ y \in Nat /\ P \in Nat /\ Q = 4 * P /\ y = 4 * x + d /\ d \in Nat /\ to \in Nat
      BY <2>3, <2>4, <2>5
    <3> HIDE DEF x, y, P, Q
    <3>2. y + to * Q = 4 * (x + to * P) + d /\ y + to * Q \in Nat /\ x + to * P \in Nat
      BY <3>1, Carried
    <3> QED
      BY <3>2 DEF x, y, P, Q
  <2> QED
    BY <2>1, <2>2, <2>6, <2>7
<1>7. t[0] = to /\ t[n] = there /\ \A i \in 0 .. n : t[i] \in Nat
  <2>1. t[0] = h[0].result + to * 4^0 /\ t[n] = h[n].result + to * 4^n
    BY <1>2
  <2>2. h[0].result = 0
    BY <1>4 DEF PeanoStart
  <2> HIDE DEF t, to
  <2>3. t[0] = to
    BY <1>2, <1>3, <2>1, <2>2
  <2>4. t[n] = there
    BY <1>3, <1>4, <2>1
  <2>5. ASSUME NEW i \in 0 .. n
        PROVE  t[i] \in Nat
    <3>1. CASE i = 0
      BY <1>3, <2>3, <3>1
    <3>2. CASE i # 0
      <4>1. i \in 1 .. n
        BY <1>2, <3>2
      <4> QED
        BY <1>6, <4>1
    <3> QED
      BY <3>1, <3>2
  <2> QED
    BY <2>3, <2>4, <2>5
<1>8. there \div N = to /\ \A i \in 1 .. n : (there \div 4^(n - i)) % 4 = down[i]
  <2> HIDE DEF t, down, to, there
  <2> QED
    BY <1>3, <1>6, <1>7, QuadrantsOf
<1>9. PICK g : /\ g[0] = PeanoStart(to, 1)
               /\ \A i \in 1 .. n : g[i] = PeanoStep(g[i-1], 1, down[i])
               /\ peano2nest(b, there) = g[n].result + face * N
  <2>1. PICK g : /\ g[0] = PeanoStart(there \div N, 1)
                 /\ \A i \in 1 .. n : g[i] = PeanoStep(g[i-1], 1, (there \div 4^(n - i)) % 4)
                 /\ peano2nest(b, there) = g[n].result + peano_face2face(1, there \div N) * N
    <3> HIDE DEF there
    <3> QED
      BY <1>2, PeanoTurns DEF peano2nest
  <2>2. peano_face2face(1, to) = face
    BY <1>3, PeanoFaces
  <2> HIDE DEF there, down, to, face
  <2> QED
    BY <1>8, <2>1, <2>2
<1> DEFINE u == [ i \in 0 .. n |-> g[i].result + face * 4^i ]
           S == { k \in Nat : k <= n => g[k].path = h[k].path /\ g[k].result \in Nat }
<1>10. ASSUME NEW k \in 0 .. n - 1, g[k].path = h[k].path, g[k].result \in Nat
       PROVE  /\ g[k+1].path = h[k+1].path /\ g[k+1].result \in Nat
              /\ g[k+1].result = 4 * g[k].result + sub(k+1)
  <2> DEFINE s == sub(k+1)
             p == h[k].path
             d == peano_subpix(0, p, s)
  <2>1. k + 1 \in 1 .. n /\ (k + 1) - 1 = k /\ k \in 0 .. n
    BY <1>2
  <2>2. s \in 0 .. 3 /\ p \in 0 .. 7
    BY <1>5, <2>1
  <2>3. down[k+1] = d
    BY <2>1
  <2>4. g[k+1] = PeanoStep(g[k], 1, d) /\ h[k+1] = PeanoStep(h[k], 0, s)
    <3> HIDE DEF down, d
    <3>1. g[k+1] = PeanoStep(g[k+1-1], 1, down[k+1]) /\ h[k+1] = PeanoStep(h[k+1-1], 0, s)
      BY <1>4, <1>9, <2>1
    <3> HIDE DEF s, sub
    <3> QED
      BY <2>1, <2>3, <3>1
  <2> HIDE DEF s, sub, down
  <2>5. peano_subpix(1, p, d) = s /\ peano_subpath(1, p, d) = peano_subpath(0, p, s)
    BY <2>2, PeanoTables
  <2> HIDE DEF d, p
  <2>6. g[k+1].result = 4 * g[k].result + peano_subpix(1, p, d)
        /\ g[k+1].path = peano_subpath(1, p, d) /\ h[k+1].path = peano_subpath(0, p, s)
    BY <1>10, <2>4 DEF PeanoStep, p
  <2>7. g[k+1].result = 4 * g[k].result + s /\ g[k+1].path = h[k+1].path
    BY <2>5, <2>6
  <2>8. g[k+1].result \in Nat
    BY <1>10, <2>2, <2>7
  <2> QED
    BY <2>7, <2>8 DEF s
<1>11. \A k \in Nat : k \in S
  <2>1. 0 \in S
    <3>1. g[0].path = peano_face2path(1, to) /\ g[0].result = 0 /\ h[0].path = peano_face2path(0, face)
      BY <1>4, <1>9 DEF PeanoStart
    <3>2. peano_face2path(1, to) = peano_face2path(0, face)
      BY <1>3, PeanoFaces
    <3> QED
      BY <3>1, <3>2
  <2>2. ASSUME NEW k \in Nat, k \in S
        PROVE  k + 1 \in S
    <3>1. SUFFICES ASSUME k + 1 <= n
                   PROVE  g[k+1].path = h[k+1].path /\ g[k+1].result \in Nat
      OBVIOUS
    <3>2. k \in 0 .. n - 1 /\ k <= n
      BY <1>2, <3>1
    <3>3. g[k].path = h[k].path /\ g[k].result \in Nat
      BY <2>2, <3>2
    <3> QED
      BY <1>10, <3>2, <3>3
  <2> HIDE DEF S
  <2> QED
    BY <2>1, <2>2, NatSetInduction
<1>12. ASSUME NEW i \in 1 .. n
       PROVE  u[i] = 4 * u[i-1] + sub(i)
  <2>1. i - 1 \in 0 .. n - 1 /\ i - 1 \in 0 .. n /\ i \in 0 .. n /\ (i - 1) + 1 = i
        /\ i - 1 \in Nat /\ i - 1 <= n
    BY <1>2
  <2>2. g[i-1].path = h[i-1].path /\ g[i-1].result \in Nat
    BY <1>11, <2>1
  <2>3. g[i].result \in Nat /\ g[i].result = 4 * g[i-1].result + sub(i)
    <3> HIDE DEF sub
    <3> QED
      BY <1>10, <2>1, <2>2
  <2>4. 4^i = 4 * 4^(i-1) /\ 4^(i-1) \in Nat
    BY <1>2, <2>1
  <2>5. sub(i) \in Nat /\ face \in Nat
    <3>1. sub(i) \in 0 .. 3
      BY <1>5
    <3> HIDE DEF sub
    <3> QED
      BY <1>3, <3>1
  <2>6. u[i] = g[i].result + face * 4^i /\ u[i-1] = g[i-1].result + face * 4^(i-1)
    BY <2>1
  <2> HIDE DEF u, sub, face
  <2>7. g[i].result + face * 4^i = 4 * (g[i-1].result + face * 4^(i-1)) + sub(i)
    <3> DEFINE x == g[i-1].result
               y == g[i].result
               s == sub(i)
               P == 4^(i-1)
               Q == 4^i
    <3>1. x \in Nat /\ y \in Nat /\ P \in Nat /\ Q = 4 * P /\ y = 4 * x + s /\ s \in Nat /\ face \in Nat
      BY <2>2, <2>3, <2>4, <2>5
    <3> HIDE DEF x, y, P, Q, s
    <3>2. y + face * Q = 4 * (x + face * P) + s
      BY <3>1, Carried
    <3> QED
      BY <3>2 DEF x, y, P, Q, s
  <2> QED
    BY <2>6, <2>7
<1>13. u[0] = num \div 4^n /\ u[n] = g[n].result + face * N
  <2>1. u[0] = g[0].result + face * 4^0 /\ u[n] = g[n].result + face * 4^n
    BY <1>2
  <2>2. g[0].result = 0
    BY <1>9 DEF PeanoStart
  <2>3. face = num \div 4^n
    BY <1>3
  <2> HIDE DEF u, face
  <2>4. u[0] = face
    BY <1>2, <1>3, <2>1, <2>2
  <2>5. u[n] = g[n].result + face * N
    BY <1>3, <2>1
  <2> QED
    BY <2>3, <2>4, <2>5
<1>14. u[n] = num
  <2> HIDE DEF u
  <2> QED
    BY <1>3, <1>12, <1>13, QuadrantsMake
<1>15. peano2nest(b, there) = num
  <2> HIDE DEF u, face, there
  <2> QED
    BY <1>9, <1>13, <1>14
<1> QED
  BY <1>1, <1>15

----------------------------------------------------------------------------
(* Neighbors.                                                              *)

LEMMA PixelOfPlace ==
  ASSUME NEW b, IsBase(b), NEW at \in Places(b)
  PROVE  xyf2pix(b, at) \in Pixels(b)
<1>1. b.nside \in Nat \ {0} /\ (b.scheme # "RING" => Hierarchical(b))
  BY DEF IsBase
<1>2. CASE b.scheme = "RING"
  BY <1>1, <1>2, NumberOfPlace DEF xyf2pix
<1>3. CASE b.scheme # "RING"
  BY <1>1, <1>3, PlaceNest DEF xyf2pix
<1> QED
  BY <1>2, <1>3

LEMMA PlaceOfPixel ==
  ASSUME NEW b, IsBase(b), NEW num \in Pixels(b)
  PROVE  pix2xyf(b, num) \in Places(b)
<1>1. b.nside \in Nat \ {0} /\ (b.scheme # "RING" => Hierarchical(b))
  BY DEF IsBase
<1>2. CASE b.scheme = "RING"
  BY <1>1, <1>2, RingPlace DEF pix2xyf
<1>3. CASE b.scheme # "RING"
  BY <1>1, <1>3, NestPlace DEF pix2xyf
<1> QED
  BY <1>2, <1>3

\* Across each of the borders and corners there is a face or none.
LEMMA FacesAround ==
  ASSUME NEW nbnum \in 0 .. 8, NEW face \in 0 .. 11
  PROVE  nb_facearray(nbnum, face) \in 0 .. 11 \/ nb_facearray(nbnum, face) = -1
<1>1. CASE nbnum = 0
  BY <1>1 DEF nb_facearray
<1>2. CASE nbnum = 1
  BY <1>2 DEF nb_facearray
<1>3. CASE nbnum = 2
  BY <1>3 DEF nb_facearray
<1>4. CASE nbnum = 3
  BY <1>4 DEF nb_facearray
<1>5. CASE nbnum = 4
  BY <1>5 DEF nb_facearray
<1>6. CASE nbnum = 5
  BY <1>6 DEF nb_facearray
<1>7. CASE nbnum = 6
  BY <1>7 DEF nb_facearray
<1>8. CASE nbnum = 7
  BY <1>8 DEF nb_facearray
<1>9. CASE nbnum = 8
  BY <1>9 DEF nb_facearray
<1> QED
  BY <1>1, <1>2, <1>3, <1>4, <1>5, <1>6, <1>7, <1>8, <1>9

LEMMA Across ==
  ASSUME NEW b, IsBase(b), NEW face \in 0 .. 11, NEW x0 \in Int, NEW y0 \in Int
  PROVE  AcrossBorder(b, face, x0, y0) \in Pixels(b) \cup { -1 }
<1> DEFINE n == b.nside
           nbnum == 4 + (IF x0 < 0 THEN -1 ELSE IF x0 >= n THEN 1 ELSE 0)
                      + (IF y0 < 0 THEN -3 ELSE IF y0 >= n THEN 3 ELSE 0)
           f == nb_facearray(nbnum, face)
           bits == nb_swaparray(nbnum, face)
           x1 == IF bits % 2 = 1 THEN n - (x0 % n) - 1 ELSE x0 % n
           y1 == IF (bits \div 2) % 2 = 1 THEN n - (y0 % n) - 1 ELSE y0 % n
           turned == bits \div 4 = 1
           at == [ face |-> f, ix |-> IF turned THEN y1 ELSE x1, iy |-> IF turned THEN x1 ELSE y1 ]
<1>1. n \in Nat \ {0}
  BY DEF IsBase
<1>2. AcrossBorder(b, face, x0, y0) = IF f < 0 THEN -1 ELSE xyf2pix(b, at)
  BY DEF AcrossBorder
<1>3. f \in 0 .. 11 \/ f = -1
  <2>1. nbnum \in 0 .. 8
    BY <1>1
  <2> HIDE DEF nbnum
  <2> QED
    BY <2>1, FacesAround
<1>4. x1 \in 0 .. n - 1 /\ y1 \in 0 .. n - 1
  <2>1. x0 % n \in 0 .. n - 1 /\ y0 % n \in 0 .. n - 1
    BY <1>1
  <2> HIDE DEF bits
  <2> DEFINE u == x0 % n
             v == y0 % n
  <2>2. u \in 0 .. n - 1 /\ v \in 0 .. n - 1
    BY <2>1
  <2> HIDE DEF u, v
  <2>3. n - u - 1 \in 0 .. n - 1 /\ n - v - 1 \in 0 .. n - 1
    BY <1>1, <2>2
  <2> QED
    BY <2>2, <2>3 DEF u, v
<1> HIDE DEF f, x1, y1, turned
<1>5. CASE f = -1
  BY <1>2, <1>5
<1>6. CASE f \in 0 .. 11
  <2>1. at \in Places(b) /\ ~ (f < 0)
    BY <1>4, <1>6 DEF Places
  <2> HIDE DEF at
  <2> QED
    BY <1>2, <2>1, PixelOfPlace
<1> QED
  BY <1>3, <1>5, <1>6

LEMMA NeighborsTyped ==
  ASSUME NEW b, IsBase(b), NEW at \in Places(b), NEW i \in 0 .. 7
  PROVE  neighbors(b, at)[i] \in Pixels(b) \cup { -1 }
<1> DEFINE inside == { at.ix, at.iy } \subseteq 1 .. b.nside - 2
           x == at.ix + nb_xoffset(i)
           y == at.iy + nb_yoffset(i)
           o == [ face |-> at.face, ix |-> x, iy |-> y ]
<1>1. b.nside \in Nat \ {0} /\ at.face \in 0 .. 11
      /\ at.ix \in 0 .. b.nside - 1 /\ at.iy \in 0 .. b.nside - 1
  BY DEF IsBase, Places
<1>2. nb_xoffset(i) \in -1 .. 1 /\ nb_yoffset(i) \in -1 .. 1
  BY DEF nb_xoffset, nb_yoffset
<1>3. neighbors(b, at)[i] = IF inside THEN xyf2pix(b, o) ELSE AcrossBorder(b, at.face, x, y)
  BY DEF neighbors
<1>4. x \in Int /\ y \in Int
  BY <1>1, <1>2
<1>5. ASSUME inside
      PROVE  o \in Places(b)
  <2>1. x \in 0 .. b.nside - 1 /\ y \in 0 .. b.nside - 1
    BY <1>1, <1>2, <1>5
  <2> HIDE DEF x, y
  <2> QED
    BY <1>1, <2>1 DEF Places
<1> HIDE DEF inside, x, y, o
<1>6. CASE inside
  BY <1>3, <1>5, <1>6, PixelOfPlace
<1>7. CASE ~ inside
  BY <1>1, <1>3, <1>4, <1>7, Across
<1> QED
  BY <1>6, <1>7

----------------------------------------------------------------------------
(* The invariant: the number held is one of a pixel of the base, and it is *)
(* a Peano index only while the base is in the NEST scheme.                *)

\* Everything that is computed from a base but for the choice of a numbering is
\* computed from its side.
LEMMA SameSide ==
  ASSUME NEW b, NEW c, c.nside = b.nside
  PROVE  /\ npface(c) = npface(b) /\ ncap(c) = ncap(b) /\ npix(c) = npix(b)
         /\ Pixels(c) = Pixels(b) /\ Places(c) = Places(b)
         /\ \A ring : /\ get_ring_info_small(c, ring) = get_ring_info_small(b, ring)
                      /\ ring2z(c, ring) = ring2z(b, ring)
                      /\ FirstOf(c, ring) = FirstOf(b, ring)
                      /\ Length(c, ring) = Length(b, ring)
                      /\ Quarter(c, ring) = Quarter(b, ring) /\ Shift(c, ring) = Shift(b, ring)
         /\ \A at : RowOf(c, at) = RowOf(b, at) /\ xyf2ring(c, at) = xyf2ring(b, at)
         /\ \A num : InRing(c, num) = InRing(b, num) /\ nest2xyf(c, num) = nest2xyf(b, num)
<1>1. npface(c) = npface(b) /\ ncap(c) = ncap(b) /\ npix(c) = npix(b)
  BY DEF npface, ncap, npix
<1>2. Pixels(c) = Pixels(b) /\ Places(c) = Places(b)
  BY <1>1 DEF Pixels, Places
<1>3. ASSUME NEW ring
      PROVE  /\ get_ring_info_small(c, ring) = get_ring_info_small(b, ring)
             /\ ring2z(c, ring) = ring2z(b, ring)
             /\ Quarter(c, ring) = Quarter(b, ring)
  <2>1. get_ring_info_small(c, ring) = get_ring_info_small(b, ring)
    BY <1>1 DEF get_ring_info_small
  <2>2. ring2z(c, ring) = ring2z(b, ring)
    BY <1>1 DEF ring2z
  <2>3. Quarter(c, ring) = Quarter(b, ring)
    BY DEF Quarter
  <2> QED
    BY <2>1, <2>2, <2>3
<1>4. ASSUME NEW ring
      PROVE  /\ FirstOf(c, ring) = FirstOf(b, ring) /\ Length(c, ring) = Length(b, ring)
             /\ Shift(c, ring) = Shift(b, ring)
  BY <1>3 DEF FirstOf, Length, Shift
<1>5. ASSUME NEW at
      PROVE  RowOf(c, at) = RowOf(b, at) /\ xyf2ring(c, at) = xyf2ring(b, at)
  <2>1. RowOf(c, at) = RowOf(b, at)
    BY DEF RowOf
  <2>2. xyf2ringStep(c, at) = xyf2ringStep(b, at)
    BY <1>3 DEF xyf2ringStep
  <2>3. xyf2ring(c, at) = xyf2ring(b, at)
    BY <2>2 DEF xyf2ring
  <2> QED
    BY <2>1, <2>3
<1>6. ASSUME NEW num
      PROVE  InRing(c, num) = InRing(b, num) /\ nest2xyf(c, num) = nest2xyf(b, num)
  <2>1. /\ EquatorialRegion(c, num) = EquatorialRegion(b, num)
        /\ SouthPolarCap(c, num) = SouthPolarCap(b, num)
        /\ NorthPolarCap(c, num) = NorthPolarCap(b, num)
    BY <1>1 DEF EquatorialRegion, SouthPolarCap, NorthPolarCap
  <2>2. InRing(c, num) = InRing(b, num)
    BY <1>1, <2>1 DEF InRing
  <2>3. nest2xyf(c, num) = nest2xyf(b, num)
    BY <1>1 DEF nest2xyf
  <2> QED
    BY <2>2, <2>3
<1> QED
  BY <1>1, <1>2, <1>3, <1>4, <1>5, <1>6

LEMMA SchemeSet ==
  ASSUME NEW b, IsBase(b), NEW scheme \in { "RING", "NEST" }, scheme = "NEST" => b.order >= 0
  PROVE  LET c == [b EXCEPT !.scheme = scheme]
         IN  IsBase(c) /\ c.nside = b.nside /\ c.order = b.order /\ c.scheme = scheme
<1> DEFINE c == [b EXCEPT !.scheme = scheme]
<1>1. /\ c \in [ order : Int, nside : Nat \ {0}, scheme : { "RING", "NEST" } ]
      /\ c.nside = b.nside /\ c.order = b.order /\ c.scheme = scheme
  BY DEF IsBase
<1> HIDE DEF c
<1>2. IsBase(c)
  <2>1. c.order = nside2order(c.nside) /\ (c.order >= 0 => Hierarchical(c))
    BY <1>1 DEF IsBase, Hierarchical
  <2> QED
    BY <1>1, <2>1 DEF IsBase
<1>3. IsBase(c) /\ c.nside = b.nside /\ c.order = b.order /\ c.scheme = scheme
  BY <1>1, <1>2
<1> QED
  BY <1>3 DEF c

WalkInv ==
  /\ IsBase(base)
  /\ pix \in Pixels(base)
  /\ peano \in BOOLEAN /\ (peano => base.scheme = "NEST")

LEMMA WalkBegins == Init => WalkInv
<1>1. SUFFICES ASSUME Init
               PROVE  WalkInv
  OBVIOUS
<1>2. IsBase(base)
  <2>1. ASSUME NEW order \in Orders, NEW scheme \in { "RING", "NEST" }, base = Set(order, scheme)
        PROVE  IsBase(base)
    BY <2>1, SetIsBase
  <2>2. ASSUME NEW nside \in Nsides, base = SetNside(nside, "RING")
        PROVE  IsBase(base)
    <3>1. nside \in Nat \ {0} /\ PowersUpTo(nside)
      BY WalkAssumption, Powers, PowersBelow
    <3> QED
      BY <2>2, <3>1, SetNsideIsBase
  <2> QED
    BY <1>1, <2>1, <2>2 DEF Init
<1>3. pix \in Pixels(base)
  <2>1. base.nside \in Nat \ {0}
    BY <1>2 DEF IsBase
  <2>2. npix(base) \in Nat \ {0}
    BY <2>1, Borders
  <2>3. pix = 0
    BY <1>1 DEF Init
  <2> QED
    BY <2>2, <2>3 DEF Pixels
<1>4. peano = FALSE
  BY <1>1 DEF Init
<1> QED
  BY <1>2, <1>3, <1>4 DEF WalkInv

LEMMA WalkGoesOn == WalkInv /\ [Next]_vars => WalkInv'
<1>1. SUFFICES ASSUME WalkInv, [Next]_vars
               PROVE  WalkInv'
  OBVIOUS
<1> USE DEF WalkInv
<1>2. IsBase(base) /\ pix \in Pixels(base) /\ peano \in BOOLEAN
      /\ (peano => base.scheme = "NEST")
      /\ base.nside \in Nat \ {0} /\ (base.scheme = "NEST" => base.order >= 0)
      /\ (base.order >= 0 => Hierarchical(base))
  BY <1>1 DEF IsBase
<1>3. CASE Nest2ring
  <2>1. base.scheme = "NEST" /\ pix' = nest2ring(base, pix) /\ peano' = peano /\ ~ peano
        /\ base' = [base EXCEPT !.scheme = "RING"]
    BY <1>3 DEF Nest2ring
  <2>2. IsBase(base') /\ base'.nside = base.nside
    BY <1>2, <2>1, SchemeSet
  <2>3. nest2xyf(base, pix) \in Places(base)
    BY <1>2, <2>1, NestPlace
  <2>4. pix' \in Pixels(base)
    BY <1>2, <2>1, <2>3, NumberOfPlace DEF nest2ring
  <2>5. pix' \in Pixels(base')
    BY <2>2, <2>4, SameSide
  <2> QED
    BY <1>2, <2>1, <2>2, <2>5
<1>4. CASE Ring2nest
  <2>1. base.scheme = "RING" /\ base.order >= 0 /\ pix' = ring2nest(base, pix) /\ peano' = peano
        /\ base' = [base EXCEPT !.scheme = "NEST"]
    BY <1>4 DEF Ring2nest
  <2>2. IsBase(base') /\ base'.nside = base.nside /\ base'.scheme = "NEST"
    BY <1>2, <2>1, SchemeSet
  <2>3. ring2xyf(base, pix) \in Places(base)
    BY <1>2, RingPlace
  <2>4. pix' \in Pixels(base)
    BY <1>2, <2>1, <2>3, PlaceNest DEF ring2nest
  <2>5. pix' \in Pixels(base')
    BY <2>2, <2>4, SameSide
  <2> QED
    BY <1>2, <2>1, <2>2, <2>5
<1>5. CASE Nest2peano
  <2>1. base.scheme = "NEST" /\ pix' = nest2peano(base, pix) /\ peano' = TRUE /\ base' = base
    BY <1>5 DEF Nest2peano
  <2>2. pix' \in Pixels(base)
    BY <1>2, <2>1, PeanoPixel DEF nest2peano
  <2> QED
    BY <1>2, <2>1, <2>2
<1>6. CASE Peano2nest
  <2>1. peano /\ pix' = peano2nest(base, pix) /\ peano' = FALSE /\ base' = base
    BY <1>6 DEF Peano2nest
  <2>2. pix' \in Pixels(base)
    BY <1>2, <2>1, PeanoPixel DEF peano2nest
  <2> QED
    BY <1>2, <2>1, <2>2
<1>7. ASSUME NEW i \in 0 .. 7, Neighbor(i)
      PROVE  WalkInv'
  <2>1. PICK at \in { pix2xyf(base, pix) } : pix' \in { neighbors(base, at)[i] } \ { -1 }
    BY <1>7 DEF Neighbor
  <2>2. at \in Places(base)
    BY <1>2, <2>1, PlaceOfPixel
  <2>3. pix' \in Pixels(base)
    BY <1>2, <2>1, <2>2, NeighborsTyped
  <2>4. base' = base /\ peano' = peano
    BY <1>7 DEF Neighbor
  <2> QED
    BY <1>2, <2>3, <2>4
<1>8. CASE UNCHANGED vars
  BY <1>2, <1>8 DEF vars
<1> QED
  BY <1>1, <1>3, <1>4, <1>5, <1>6, <1>7, <1>8 DEF Next, Convert

\* The caller of PixelWalk is the one that holds a map beside its pixel.
LEMMA MapWalks == MapSpec => Spec
<1>1. MapInit => Init
  BY DEF MapInit
<1>2. [MapNext]_<< vars, mapvars >> => [Next]_vars
  <2>1. SUFFICES ASSUME [MapNext]_<< vars, mapvars >>
                 PROVE  [Next]_vars
    OBVIOUS
  <2>2. CASE SwapBegin \/ Import_nograde
    BY <2>2 DEF SwapBegin, Import_nograde, Resting
  <2>3. CASE SwapMove \/ SwapClose
    BY <2>3 DEF SwapMove, SwapClose, vars
  <2>4. ASSUME NEW fact \in 2 .. 3, NEW s \in { "RING", "NEST" }, NEW pessimistic \in BOOLEAN,
               ImportThereAndBack(fact, s, pessimistic)
        PROVE  UNCHANGED vars
    BY <2>4 DEF ImportThereAndBack, Resting
  <2>5. CASE swap = << >> /\ Next /\ UNCHANGED mapvars
    BY <2>5
  <2>6. CASE UNCHANGED << vars, mapvars >>
    BY <2>6
  <2> QED
    BY <2>1, <2>2, <2>3, <2>4, <2>5, <2>6 DEF MapNext
<1> QED
  BY <1>1, <1>2, PTL DEF MapSpec, Spec

\* Wherever the walk goes, the number that the caller holds is one of a pixel of
\* a base that Set or SetNside made, and a Peano index is only held in NEST.
THEOREM WalkTyped == Spec => []WalkInv
BY WalkBegins, WalkGoesOn, PTL DEF Spec

----------------------------------------------------------------------------
(* The tables of the rings.                                                *)

\* For every base of the walk ring_above finds the ring at or next to the north of
\* any z from pole to pole.
THEOREM RingAboveAlways == Spec => []RingAboveExact
<1>1. WalkInv => RingAboveExact
  <2>1. SUFFICES ASSUME WalkInv, NEW z \in -(3 * npface(base)) .. 3 * npface(base)
                 PROVE  LET ring == ring_above(base, z)
                        IN  /\ ring \in 0 .. 4 * base.nside - 1
                            /\ ring2z(base, ring) >= z /\ z >= ring2z(base, ring + 1)
    BY DEF RingAboveExact
  <2>2. base.nside \in Nat \ {0}
    BY <2>1 DEF WalkInv, IsBase
  <2> QED
    BY <2>1, <2>2, RingAbove
<1> QED
  BY <1>1, WalkTyped, PTL

LEMMA RingProducts ==
  ASSUME NEW n \in Int, NEW ring \in Int
  PROVE  /\ (ring - n) * (4 * n) = 4 * (n * ring) - 4 * (n * n)
         /\ (ring - n) * 4 * n = 4 * (n * ring) - 4 * (n * n)
         /\ (4 * n - ring - n) * (4 * n) = 12 * (n * n) - 4 * (n * ring)
OBVIOUS

\* get_ring_info mirrors the southern rings, get_ring_info_small computes them.
LEMMA InfoAlike ==
  ASSUME NEW b, b.nside \in Nat \ {0}, NEW ring \in 1 .. 4 * b.nside - 1
  PROVE  get_ring_info(b, ring) = get_ring_info_small(b, ring)
<1> DEFINE n == b.nside
           N == n * n
           m == n * ring
<1>1. n \in Nat /\ n >= 1 /\ N \in Nat /\ m \in Int /\ ring \in Int /\ 1 <= ring /\ ring < 4 * n
  OBVIOUS
<1>2. ncap(b) = 2 * N - 2 * n /\ npix(b) = 12 * N
  BY DEF ncap, npix, npface
<1>7. n \in Int /\ ring \in Int
  BY <1>1
<1>8. /\ (ring - n) * (4 * n) = 4 * (n * ring) - 4 * (n * n)
      /\ (ring - n) * 4 * n = 4 * (n * ring) - 4 * (n * n)
      /\ (4 * n - ring - n) * (4 * n) = 12 * (n * n) - 4 * (n * ring)
  <2> HIDE DEF n
  <2> QED
    BY <1>7, RingProducts
<1>3. CASE ring < n
  <2>1. ~ (ring > 2 * n)
    BY <1>1, <1>3
  <2>2. get_ring_info(b, ring) = [ startpix |-> 2 * ring * (ring - 1), ringpix |-> 4 * ring,
                                   shifted |-> TRUE ]
    BY <1>3, <2>1 DEF get_ring_info
  <2> QED
    BY <1>3, <2>2 DEF get_ring_info_small
<1>4. CASE n <= ring /\ ring <= 2 * n
  <2>1. ~ (ring > 2 * n) /\ ~ (ring < n) /\ ring < 3 * n
    BY <1>1, <1>4
  <2>2. get_ring_info(b, ring) = [ startpix |-> ncap(b) + (ring - n) * (4 * n), ringpix |-> 4 * n,
                                   shifted |-> (ring - n) % 2 = 0 ]
    BY <2>1 DEF get_ring_info
  <2>3. get_ring_info_small(b, ring)
          = [ startpix |-> ncap(b) + (ring - n) * 4 * n, ringpix |-> 4 * n,
              shifted |-> (ring - n) % 2 = 0 ]
    BY <2>1 DEF get_ring_info_small
  <2>4. (ring - n) * (4 * n) = (ring - n) * 4 * n
    BY <1>8, Zenon
  <2> QED
    BY <2>2, <2>3, <2>4
<1>5. CASE 2 * n < ring /\ ring < 3 * n
  <2>1. ring > 2 * n /\ ~ (ring < n) /\ ~ (4 * n - ring < n) /\ 4 * n - ring # ring
    BY <1>1, <1>5
  <2>2. get_ring_info(b, ring)
          = [ startpix |-> npix(b) - (ncap(b) + (4 * n - ring - n) * (4 * n)) - 4 * n,
              ringpix |-> 4 * n, shifted |-> (4 * n - ring - n) % 2 = 0 ]
    BY <2>1 DEF get_ring_info
  <2>3. get_ring_info_small(b, ring)
          = [ startpix |-> ncap(b) + (ring - n) * 4 * n, ringpix |-> 4 * n,
              shifted |-> (ring - n) % 2 = 0 ]
    BY <1>5, <2>1 DEF get_ring_info_small
  <2>4. npix(b) - (ncap(b) + (4 * n - ring - n) * (4 * n)) - 4 * n = ncap(b) + (ring - n) * 4 * n
    <3>1. (4 * n - ring - n) * (4 * n) = 12 * N - 4 * m /\ (ring - n) * 4 * n = 4 * m - 4 * N
      BY <1>8, Zenon
    <3> HIDE DEF N, m
    <3> QED
      BY <1>1, <1>2, <3>1
  <2>5. (4 * n - ring - n) % 2 = 0 <=> (ring - n) % 2 = 0
    BY <1>1
  <2> QED
    BY <2>2, <2>3, <2>4, <2>5
<1>6. CASE 3 * n <= ring
  <2> DEFINE nr == 4 * n - ring
  <2>1. ring > 2 * n /\ ~ (ring < n) /\ ~ (ring < 3 * n) /\ nr # ring /\ nr \in 1 .. n
    BY <1>1, <1>6
  <2>2. get_ring_info_small(b, ring)
          = [ startpix |-> npix(b) - 2 * nr * (nr + 1), ringpix |-> 4 * nr, shifted |-> TRUE ]
    BY <2>1 DEF get_ring_info_small
  <2>3. CASE nr < n
    <3>1. get_ring_info(b, ring)
            = [ startpix |-> npix(b) - 2 * nr * (nr - 1) - 4 * nr, ringpix |-> 4 * nr,
                shifted |-> TRUE ]
      BY <2>1, <2>3 DEF get_ring_info
    <3>2. npix(b) - 2 * nr * (nr - 1) - 4 * nr = npix(b) - 2 * nr * (nr + 1)
      <4> HIDE DEF nr
      <4>1. nr \in Int /\ npix(b) \in Int
        BY <1>1, <1>2, <2>1
      <4>2. 2 * nr * (nr - 1) + 4 * nr = 2 * nr * (nr + 1) /\ 2 * nr * (nr - 1) \in Int
        BY <4>1
      <4> QED
        BY <4>1, <4>2
    <3> HIDE DEF nr
    <3> QED
      BY <2>2, <3>1, <3>2
  <2>4. CASE nr = n
    <3>1. ~ (nr < n)
      BY <1>1, <2>4
    <3>2. get_ring_info(b, ring)
            = [ startpix |-> npix(b) - (ncap(b) + (nr - n) * (4 * n)) - 4 * n, ringpix |-> 4 * n,
                shifted |-> (nr - n) % 2 = 0 ]
      BY <2>1, <3>1 DEF get_ring_info
    <3>3. (nr - n) % 2 = 0
      BY <1>1, <2>4
    <3>4. npix(b) - (ncap(b) + (nr - n) * (4 * n)) - 4 * n = npix(b) - 2 * nr * (nr + 1)
      <4> HIDE DEF nr
      <4>1. (nr - n) * (4 * n) = 0 /\ 2 * nr * (nr + 1) = 2 * N + 2 * n
        BY <1>1, <2>4
      <4> HIDE DEF N
      <4> QED
        BY <1>1, <1>2, <4>1
    <3> HIDE DEF nr
    <3> QED
      BY <2>2, <2>4, <3>2, <3>3, <3>4
  <2> QED
    BY <1>1, <2>1, <2>3, <2>4
<1> QED
  BY <1>1, <1>3, <1>4, <1>5, <1>6

\* The pixel held, in RING numbering, and its ring.
LEMMA HeldInRing ==
  ASSUME NEW b, IsBase(b), NEW num \in Pixels(b)
  PROVE  LET ring == pix2ring(b, num)
             ringpix == IF b.scheme = "RING" THEN num ELSE nest2ring(b, num)
         IN  /\ ringpix \in Pixels(b) /\ ring \in 1 .. 4 * b.nside - 1
             /\ InRing(b, ringpix).iring = ring
             /\ InRing(b, ringpix).iphi \in 1 .. 4 * Quarter(b, ring)
             /\ InTheRing(b, ring, ringpix)
             /\ pix2loc(b, num) = Spot(b, ring, InRing(b, ringpix).iphi)
<1> DEFINE ring == pix2ring(b, num)
           ringpix == IF b.scheme = "RING" THEN num ELSE nest2ring(b, num)
           at == nest2xyf(b, num)
<1>1. b.nside \in Nat \ {0} /\ (b.scheme # "RING" => Hierarchical(b))
  BY DEF IsBase
<1>2. /\ ringpix \in Pixels(b) /\ InRing(b, ringpix).iring = ring
      /\ pix2loc(b, num) = Spot(b, ring, InRing(b, ringpix).iphi)
  <2>1. CASE b.scheme = "RING"
    <3>1. ringpix = num /\ ring = InRing(b, num).iring
      BY <2>1 DEF pix2ring
    <3> HIDE DEF ringpix, ring
    <3> QED
      BY <1>1, <2>1, <3>1, RingSpot
  <2>2. CASE b.scheme # "RING"
    <3>1. at \in Places(b)
      BY <1>1, <2>2, NestPlace
    <3>2. ring = RowOf(b, at) /\ ringpix = xyf2ring(b, at)
      BY <2>2 DEF pix2ring, RowOf, nest2ring
    <3>3. pix2loc(b, num) = Spot(b, RowOf(b, at), xyf2ring(b, at) - FirstOf(b, RowOf(b, at)) + 1)
      BY <1>1, <2>2, <3>1, NestSpot
    <3> HIDE DEF ringpix, ring, at
    <3>4. /\ xyf2ring(b, at) \in Pixels(b) /\ InRing(b, xyf2ring(b, at)).iring = RowOf(b, at)
          /\ InRing(b, xyf2ring(b, at)).iphi = xyf2ring(b, at) - FirstOf(b, RowOf(b, at)) + 1
      BY <1>1, <3>1, NumberOfPlace
    <3> QED
      BY <3>2, <3>3, <3>4
  <2> QED
    BY <2>1, <2>2
<1> HIDE DEF ring, ringpix
<1>3. /\ ring \in 1 .. 4 * b.nside - 1 /\ InTheRing(b, ring, ringpix)
      /\ InRing(b, ringpix).iphi \in 1 .. 4 * Quarter(b, ring)
  BY <1>1, <1>2, RingNumber
<1>4. /\ ringpix \in Pixels(b) /\ ring \in 1 .. 4 * b.nside - 1
      /\ InRing(b, ringpix).iring = ring
      /\ InRing(b, ringpix).iphi \in 1 .. 4 * Quarter(b, ring)
      /\ InTheRing(b, ring, ringpix)
      /\ pix2loc(b, num) = Spot(b, ring, InRing(b, ringpix).iphi)
  BY <1>2, <1>3
<1> QED
  BY <1>4 DEF ring, ringpix

\* The first pixel of a ring.
LEMMA FirstInRing ==
  ASSUME NEW b, b.nside \in Nat \ {0}, NEW ring \in 1 .. 4 * b.nside - 1
  PROVE  /\ FirstOf(b, ring) \in Pixels(b)
         /\ InRing(b, FirstOf(b, ring)).iring = ring /\ InRing(b, FirstOf(b, ring)).iphi = 1
<1> DEFINE n == b.nside
           f == FirstOf(b, ring)
           l == Length(b, ring)
<1>1. n \in Nat \ {0} /\ ring \in Int /\ 1 <= ring /\ ring <= 4 * n - 1
  OBVIOUS
<1>2. f \in Nat /\ l \in Nat /\ 4 <= l /\ f + l = FirstOf(b, ring + 1)
  BY RingsTouch
<1>3. FirstOf(b, 4 * n) = npix(b) /\ npix(b) \in Nat
  BY Borders
<1>4. f < npix(b)
  <2>1. ring \in 1 .. 4 * n - 1 /\ 4 * n \in 1 .. 4 * n /\ ring < 4 * n
    BY <1>1
  <2>2. f + l <= FirstOf(b, 4 * n)
    BY <1>1, <2>1, RingsAscend
  <2> HIDE DEF f, l, n
  <2> QED
    BY <1>2, <1>3, <2>2
<1>5. f \in Pixels(b)
  <2> HIDE DEF f
  <2> QED
    BY <1>2, <1>3, <1>4 DEF Pixels
<1>6. InTheRing(b, ring, f)
  <2>1. f <= f /\ f < f + l
    <3> HIDE DEF f, l
    <3> QED
      BY <1>2
  <2> QED
    BY <2>1 DEF InTheRing
<1> DEFINE c == InRing(b, f)
<1>7. c.iring \in 1 .. 4 * n - 1 /\ InTheRing(b, c.iring, f) /\ c.iphi = f - FirstOf(b, c.iring) + 1
  <2> HIDE DEF f
  <2> QED
    BY <1>5, RingNumber
<1> HIDE DEF c
<1>8. c.iring = ring
  <2>1. f \in Int
    BY <1>2
  <2> HIDE DEF f
  <2> QED
    BY <1>1, <1>6, <1>7, <2>1, RingsBetween
<1>9. c.iphi = 1
  <2>1. c.iphi = f - f + 1
    BY <1>7, <1>8
  <2> HIDE DEF f
  <2> QED
    BY <1>2, <2>1
<1> QED
  BY <1>5, <1>8, <1>9 DEF c

\* The tables of the rings agree with each other and with the pixels, in both
\* numberings, wherever the caller walks.
THEOREM RingsFitAlways == Spec => []RingsFit
<1>1. WalkInv => RingsFit
  <2>1. SUFFICES ASSUME WalkInv, ~ peano
                 PROVE  RingsFit
    BY DEF RingsFit
  <2> DEFINE ring == pix2ring(base, pix)
             info == get_ring_info_small(base, ring)
             ringpix == IF base.scheme = "RING" THEN pix ELSE nest2ring(base, pix)
             c == [base EXCEPT !.scheme = "RING"]
             first == pix2loc(c, info.startpix)
  <2>2. IsBase(base) /\ pix \in Pixels(base) /\ base.nside \in Nat \ {0}
    BY <2>1 DEF WalkInv, IsBase
  <2>3. /\ ringpix \in Pixels(base) /\ ring \in 1 .. 4 * base.nside - 1
        /\ InTheRing(base, ring, ringpix)
        /\ pix2loc(base, pix) = Spot(base, ring, InRing(base, ringpix).iphi)
    BY <2>2, HeldInRing
  <2>4. info.startpix = FirstOf(base, ring) /\ info.ringpix = Length(base, ring)
        /\ (info.shifted <=> Shift(base, ring) = 0)
    BY DEF FirstOf, Length, Shift
  <2> HIDE DEF ring, ringpix
  <2>5. FirstOf(base, ring) \in Nat /\ Length(base, ring) \in Nat
    BY <2>2, <2>3, RingsTouch
  <2>6. get_ring_info(base, ring) = info
    BY <2>2, <2>3, InfoAlike
  <2> HIDE DEF info
  <2>7. ringpix \in info.startpix .. info.startpix + info.ringpix - 1
    <3>1. ringpix \in Int /\ FirstOf(base, ring) <= ringpix
          /\ ringpix < FirstOf(base, ring) + Length(base, ring)
      BY <2>3 DEF InTheRing, Pixels
    <3> QED
      BY <2>4, <2>5, <3>1
  <2>8. pix2loc(base, pix).z = ring2z(base, ring)
    BY <2>3 DEF Spot
  <2>9. c.nside = base.nside /\ c.scheme = "RING"
    BY <2>2, SchemeSet
  <2>10. first = Spot(base, ring, 1)
    <3> DEFINE num == FirstOf(base, ring)
    <3>1. num \in Pixels(base) /\ InRing(base, num).iring = ring /\ InRing(base, num).iphi = 1
      BY <2>2, <2>3, FirstInRing
    <3>2. first = pix2loc(c, num)
      BY <2>4
    <3> HIDE DEF num, first, c
    <3>3. num \in Pixels(c) /\ InRing(c, num) = InRing(base, num) /\ c.nside \in Nat \ {0}
      BY <2>2, <2>9, <3>1, SameSide
    <3>4. pix2loc(c, num) = Spot(c, ring, 1)
      BY <2>9, <3>1, <3>3, RingSpot
    <3>5. Spot(c, ring, 1) = Spot(base, ring, 1)
      BY <2>9, SameSide DEF Spot
    <3> QED
      BY <3>2, <3>4, <3>5
  <2> HIDE DEF first
  <2>11. first.z = ring2z(base, ring) /\ (info.shifted <=> first.phi # 0)
    <3>1. Shift(base, ring) \in 0 .. 1
      BY <2>2, <2>3, Quarters
    <3>2. first.z = ring2z(base, ring) /\ first.phi = 2 * 1 - 1 - Shift(base, ring)
      BY <2>10 DEF Spot
    <3> QED
      BY <2>4, <3>1, <3>2
  <2> QED
    BY <2>6, <2>7, <2>8, <2>11 DEF RingsFit, info, ring, ringpix, first
<1> QED
  BY <1>1, WalkTyped, PTL

\* RING numbers ascend from north to south and from west to east, for bases of every
\* order and side.
THEOREM RingOrderAlways == Spec => []RingOrder
<1>1. WalkInv => RingOrder
  <2>1. SUFFICES ASSUME WalkInv, base.scheme = "RING"
                 PROVE  RingOrder
    BY DEF RingOrder
  <2> DEFINE n == base.nside
             here == pix2loc(base, pix)
             ring == InRing(base, pix).iring
             iphi == InRing(base, pix).iphi
             q == Quarter(base, ring)
             s == Shift(base, ring)
  <2>2. n \in Nat \ {0} /\ pix \in Pixels(base) /\ pix \in Int
    BY <2>1 DEF WalkInv, IsBase, Pixels
  <2>3. /\ ring \in 1 .. 4 * n - 1 /\ InTheRing(base, ring, pix)
        /\ iphi = pix - FirstOf(base, ring) + 1 /\ iphi \in 1 .. 4 * q
    BY <2>2, RingNumber
  <2>4. here = Spot(base, ring, iphi)
    BY <2>1, <2>2, RingSpot
  <2> HIDE DEF here, ring, iphi
  <2>5. q \in 1 .. n /\ s \in 0 .. 1
    BY <2>2, <2>3, Quarters
  <2>6. here.z = ring2z(base, ring) /\ here.phi = 2 * iphi - 1 - s /\ here.den = 2 * q
    BY <2>4 DEF Spot
  <2> HIDE DEF q, s
  <2>7. here.phi \in 0 .. 4 * here.den - 1
    BY <2>2, <2>3, <2>5, <2>6
  <2>8. ASSUME NEW e, e = pix + 1, e \in Pixels(base)
        PROVE  LET next == pix2loc(base, e)
               IN  next.z < here.z \/ (next.z = here.z /\ next.phi > here.phi)
    <3>0. e \in Pixels(base) /\ e = pix + 1
      BY <2>8
    <3> DEFINE south == InRing(base, e).iring
               jphi == InRing(base, e).iphi
               next == pix2loc(base, e)
    <3>1. /\ south \in 1 .. 4 * n - 1 /\ InTheRing(base, south, e)
          /\ jphi = e - FirstOf(base, south) + 1
      BY <2>2, <3>0, RingNumber
    <3>2. next = Spot(base, south, jphi)
      BY <2>1, <2>2, <3>0, RingSpot
    <3> HIDE DEF next, south, jphi
    <3>3. /\ FirstOf(base, ring) \in Nat /\ FirstOf(base, ring) <= pix
      BY <2>2, <2>3, RingsTouch DEF InTheRing
    <3>4. ring <= south
      <4>1. FirstOf(base, ring) <= e /\ e \in Int
        BY <2>2, <3>0, <3>3
      <4> QED
        BY <2>2, <2>3, <3>1, <4>1, RingsBetween
    <3>5. CASE ring = south
      <4>1. next.z = here.z /\ next.phi = 2 * jphi - 1 - s /\ jphi = e - FirstOf(base, ring) + 1
        BY <2>6, <3>1, <3>2, <3>5 DEF Spot, s
      <4> QED
        BY <2>2, <2>3, <2>5, <2>6, <3>0, <3>3, <4>1 DEF next
    <3>6. CASE ring # south
      <4>1. ring < south /\ ring \in 0 .. 4 * n /\ south \in 0 .. 4 * n
        BY <2>2, <2>3, <3>1, <3>4, <3>6
      <4>2. ring2z(base, south) < ring2z(base, ring)
        BY <2>2, <4>1, Lower
      <4>3. next.z = ring2z(base, south)
        BY <3>2 DEF Spot
      <4> QED
        BY <2>6, <4>2, <4>3 DEF next
    <3> QED
      BY <3>5, <3>6 DEF next
  <2> QED
    BY <2>7, <2>8 DEF RingOrder, here
<1> QED
  BY <1>1, WalkTyped, PTL

----------------------------------------------------------------------------
(* Conversions.                                                            *)

LEMMA SameSpot ==
  ASSUME NEW b, NEW c, c.nside = b.nside, NEW ring, NEW position
  PROVE  Spot(c, ring, position) = Spot(b, ring, position)
BY SameSide DEF Spot

\* A conversion keeps the centre of the pixel held: every path between the three
\* numberings leads to the same place.
THEOREM ConversionsStayAlways == Spec => ConversionsStay
<1>1. WalkInv /\ Convert => Location' = Location
  <2>1. SUFFICES ASSUME WalkInv, Convert
                 PROVE  Location' = Location
    OBVIOUS
  <2>2. /\ IsBase(base) /\ pix \in Pixels(base) /\ base.nside \in Nat \ {0}
        /\ (base.scheme = "NEST" => base.order >= 0)
        /\ (base.order >= 0 => Hierarchical(base))
    BY <2>1 DEF WalkInv, IsBase
  <2>3. CASE Nest2ring
    <3>1. /\ base.scheme = "NEST" /\ ~ peano /\ pix' = nest2ring(base, pix) /\ peano' = peano
          /\ base' = [base EXCEPT !.scheme = "RING"]
      BY <2>3 DEF Nest2ring
    <3>2. base'.nside = base.nside /\ base'.scheme = "RING"
      BY <2>2, <3>1, SchemeSet
    <3> DEFINE ring == pix2ring(base, pix)
               p == InRing(base, pix').iphi
    <3>3. pix' \in Pixels(base) /\ InRing(base, pix').iring = ring /\ Location = Spot(base, ring, p)
      BY <2>2, <3>1, HeldInRing DEF Location
    <3>4. pix' \in Pixels(base') /\ InRing(base', pix') = InRing(base, pix')
      BY <3>2, <3>3, SameSide
    <3>5. pix2loc(base', pix') = Spot(base', InRing(base', pix').iring, InRing(base', pix').iphi)
      BY <2>2, <3>2, <3>4, RingSpot
    <3>6. Location' = pix2loc(base', pix')
      BY <3>1 DEF Location
    <3>7. Spot(base', ring, p) = Spot(base, ring, p)
      BY <3>2, SameSpot
    <3> QED
      BY <3>3, <3>4, <3>5, <3>6, <3>7
  <2>4. CASE Ring2nest
    <3>1. /\ base.scheme = "RING" /\ base.order >= 0 /\ pix' = ring2nest(base, pix) /\ peano' = peano
          /\ base' = [base EXCEPT !.scheme = "NEST"]
      BY <2>4 DEF Ring2nest
    <3>2. IsBase(base') /\ base'.nside = base.nside /\ base'.scheme = "NEST"
      BY <2>2, <3>1, SchemeSet
    <3>3. ~ peano
      BY <2>1, <3>1 DEF WalkInv
    <3> DEFINE at == ring2xyf(base, pix)
               c == InRing(base, pix)
    <3>4. at \in Places(base) /\ xyf2ring(base, at) = pix
      BY <2>2, RingPlace
    <3> HIDE DEF at
    <3>5. pix' = xyf2nest(base, at) /\ Hierarchical(base)
      BY <2>2, <3>1 DEF ring2nest, at
    <3>6. pix' \in Pixels(base) /\ nest2xyf(base, pix') = at
      BY <3>4, <3>5, PlaceNest
    <3>7. pix' \in Pixels(base') /\ nest2xyf(base', pix') = at /\ xyf2ring(base', at) = pix
          /\ InRing(base', pix) = c
      BY <3>2, <3>4, <3>6, SameSide
    <3>8. nest2ring(base', pix') = pix
      BY <3>7 DEF nest2ring
    <3>9. LET ring == pix2ring(base', pix')
          IN  InRing(base', pix).iring = ring
              /\ pix2loc(base', pix') = Spot(base', ring, InRing(base', pix).iphi)
      BY <3>2, <3>7, <3>8, HeldInRing
    <3>10. Location = Spot(base, c.iring, c.iphi)
      BY <2>2, <3>1, <3>3, RingSpot DEF Location
    <3>11. Location' = pix2loc(base', pix')
      BY <3>1, <3>3 DEF Location
    <3>12. Spot(base', c.iring, c.iphi) = Spot(base, c.iring, c.iphi)
      BY <3>2, SameSpot
    <3> QED
      BY <3>7, <3>9, <3>10, <3>11, <3>12
  <2>5. CASE Nest2peano
    <3>1. /\ base.scheme = "NEST" /\ ~ peano /\ pix' = nest2peano(base, pix) /\ peano' = TRUE
          /\ base' = base
      BY <2>5 DEF Nest2peano
    <3>2. peano2nest(base, pix') = pix
      BY <2>2, <3>1, PeanoBack
    <3> QED
      BY <3>1, <3>2 DEF Location
  <2>6. CASE Peano2nest
    BY <2>6 DEF Peano2nest, Location
  <2> QED
    BY <2>1, <2>3, <2>4, <2>5, <2>6 DEF Convert
<1>2. WalkInv => [Convert => Location' = Location]_vars
  BY <1>1
<1> QED
  BY <1>2, WalkTyped, PTL DEF ConversionsStay

----------------------------------------------------------------------------
(* The pixel that contains a centre.                                       *)

LEMMA RootOfSquare ==
  ASSUME NEW n \in Nat
  PROVE  isqrt(n * n) = n
<1> DEFINE q == isqrt(n * n)
<1>1. n * n \in Nat
  OBVIOUS
<1>2. q \in Nat /\ q * q <= n * n /\ n * n < (q + 1) * (q + 1)
  BY <1>1, RootIs
<1> HIDE DEF q
<1>3. q <= n
  BY <1>2, SquaresGrow
<1>4. n < q + 1
  <2>1. q + 1 \in Nat
    BY <1>2
  <2> QED
    BY <1>2, <2>1, SquaresGrow
<1>5. q = n
  BY <1>2, <1>3, <1>4
<1> QED
  BY <1>5 DEF q

\* A number is made of the two that it is separated into.
LEMMA SpreadCompress ==
  ASSUME NEW p \in Nat
  PROVE  spread_bits[compress_bits[p]] + 2 * spread_bits[compress_bits[p \div 2]] = p
<1> DEFINE Whole(v) == spread_bits[compress_bits[v]] + 2 * spread_bits[compress_bits[v \div 2]]
           S == { k \in Nat : \A v \in 0 .. k : Whole(v) = v }
<1>1. 0 \in S
  <2>1. \A v \in 0 .. 0 : v = 0
    OBVIOUS
  <2>2. 0 \div 2 = 0 /\ 0 + 2 * 0 = 0
    OBVIOUS
  <2>3. Whole(0) = 0
    BY <2>2, Bits
  <2> HIDE DEF Whole
  <2> QED
    BY <2>1, <2>3
<1>2. ASSUME NEW k \in Nat, k \in S
      PROVE  k + 1 \in S
  <2>1. SUFFICES ASSUME NEW v \in 0 .. k + 1, v # 0
                 PROVE  Whole(v) = v
    <3>1. Whole(0) = 0
      BY <1>1
    <3> HIDE DEF Whole
    <3> QED
      BY <3>1
  <2> DEFINE a == v \div 4
             c == v % 2
             d == (v \div 2) % 2
             x == compress_bits[a]
             y == compress_bits[a \div 2]
  <2>2. /\ v \in Nat /\ v \div 2 \in Nat /\ a \in 0 .. k /\ a \in Nat /\ a \div 2 \in Nat
        /\ c \in 0 .. 1 /\ d \in 0 .. 1 /\ v = 4 * a + 2 * d + c /\ (v \div 2) \div 4 = a \div 2
    BY <2>1
  <2>3. x \in Nat /\ y \in Nat /\ compress_bits[v] = 2 * x + c
        /\ compress_bits[v \div 2] = 2 * y + d
    BY <2>2, Bits
  <2>4. spread_bits[x] + 2 * spread_bits[y] = a
    <3>1. Whole(a) = a
      BY <1>2, <2>2
    <3> QED
      BY <3>1
  <2> HIDE DEF a, c, d, x, y
  <2>5. ASSUME NEW u \in Nat, NEW e \in 0 .. 1
        PROVE  spread_bits[2 * u + e] = 4 * spread_bits[u] + e /\ spread_bits[u] \in Nat
    <3>1. 2 * u + e \in Nat /\ (2 * u + e) \div 2 = u /\ (2 * u + e) % 2 = e
      OBVIOUS
    <3> QED
      BY <3>1, Bits
  <2>6. Whole(v) = (4 * spread_bits[x] + c) + 2 * (4 * spread_bits[y] + d)
    <3>1. spread_bits[2 * x + c] = 4 * spread_bits[x] + c
      BY <2>2, <2>3, <2>5, Zenon
    <3>2. spread_bits[2 * y + d] = 4 * spread_bits[y] + d
      BY <2>2, <2>3, <2>5, Zenon
    <3> QED
      BY <2>3, <3>1, <3>2, Zenon
  <2>7. spread_bits[x] \in Nat /\ spread_bits[y] \in Nat
    BY <2>2, <2>3, <2>5
  <2> HIDE DEF Whole
  <2> QED
    BY <2>2, <2>4, <2>6, <2>7
<1>3. p \in S
  <2> HIDE DEF S
  <2> QED
    BY <1>1, <1>2, NatSetInduction
<1> QED
  BY <1>3

LEMMA NestNumber ==
  ASSUME NEW b, Hierarchical(b), NEW num \in Pixels(b)
  PROVE  xyf2nest(b, nest2xyf(b, num)) = num
<1> DEFINE N == npface(b)
           f == num \div N
           p == num % N
<1>1. N \in Nat \ {0} /\ num \in Nat /\ num \in Int /\ f \in 0 .. 11
  BY Hierarchy, FaceOf
<1>2. p \in Nat /\ num = N * f + p
  <2>1. p \in 0 .. N - 1 /\ num = N * f + p
    <3> HIDE DEF N
    <3> QED
      BY <1>1, Divided
  <2> HIDE DEF p, N, f
  <2> QED
    BY <1>1, <2>1
<1>3. xyf2nest(b, nest2xyf(b, num))
        = f * N + spread_bits[compress_bits[p]] + 2 * spread_bits[compress_bits[p \div 2]]
  BY DEF xyf2nest, nest2xyf
<1> HIDE DEF f, p, N
<1>4. spread_bits[compress_bits[p]] + 2 * spread_bits[compress_bits[p \div 2]] = p
  BY <1>2, SpreadCompress
<1>5. spread_bits[compress_bits[p]] \in Nat /\ spread_bits[compress_bits[p \div 2]] \in Nat
  <2>1. p \div 2 \in Nat
    BY <1>2
  <2>2. compress_bits[p] \in Nat /\ compress_bits[p \div 2] \in Nat
    BY <1>2, <2>1, Bits
  <2> QED
    BY <2>2, Bits
<1>6. f * N = N * f /\ N * f \in Int
  BY <1>1
<1> QED
  BY <1>2, <1>3, <1>4, <1>5, <1>6

\* In a polar cap, r rings from the pole: the quarter turn and the edge lines of the
\* pixel at position p.
LEMMA PolarEdges ==
  ASSUME NEW b, b.nside \in Nat \ {0}, NEW r \in 1 .. b.nside - 1, NEW p \in 1 .. 4 * r, NEW loc,
         Abs(loc.z) = 3 * npface(b) - r * r, loc.phi = 2 * p - 1, loc.den = 2 * r
  PROVE  LET k == (p - 1) \div r
             j == (p - 1) % r
         IN  /\ ~ (Abs(loc.z) <= 2 * npface(b))
             /\ k \in 0 .. 3 /\ j \in 0 .. r - 1 /\ p - 1 = r * k + j
             /\ jpPolar(b, loc) = j /\ jmPolar(b, loc) = r - j - 1
             /\ loc.phi \div loc.den = k /\ (loc.phi * r) \div loc.den = p - 1
<1> DEFINE n == b.nside
           N == npface(b)
           k == (p - 1) \div r
           j == (p - 1) % r
           w == 2 * r
<1>1. n \in Nat /\ r \in Nat /\ r >= 1 /\ r < n /\ p \in Int /\ 1 <= p /\ p <= 4 * r /\ N = n * n
  BY DEF npface
<1>2. r * r \in Nat /\ r * r < N /\ N \in Nat
  <2>1. n * n \in Nat
    BY <1>1
  <2> QED
    BY <1>1, <2>1, SquaresGrow
<1>3. ~ (Abs(loc.z) <= 2 * N) /\ 3 * N - Abs(loc.z) = r * r
  <2>1. Abs(loc.z) = 3 * N - r * r
    OBVIOUS
  <2> HIDE DEF N
  <2> QED
    BY <1>2, <2>1
<1>4. isqrt(3 * N - Abs(loc.z)) = r
  BY <1>1, <1>3, RootOfSquare
<1>5. k \in Int /\ j \in 0 .. r - 1 /\ p - 1 = r * k + j
  <2>1. p - 1 \in Int /\ r \in Nat \ {0}
    BY <1>1
  <2> QED
    BY <2>1, Divided
<1> HIDE DEF k, j, n, N
<1>6. k \in 0 .. 3
  <2>1. ASSUME k <= -1
        PROVE  FALSE
    <3>1. r * k <= r * (-1) /\ r * (-1) = -r
      BY <1>1, <1>5, <2>1
    <3> QED
      BY <1>1, <1>5, <3>1
  <2>2. ASSUME 4 <= k
        PROVE  FALSE
    <3>1. r * 4 <= r * k /\ r * 4 = 4 * r
      BY <1>1, <1>5, <2>2
    <3> QED
      BY <1>1, <1>5, <3>1
  <2> QED
    BY <1>5, <2>1, <2>2
<1>7. w \in Nat \ {0} /\ w = 2 * r
  BY <1>1
<1>8. loc.phi = w * k + (2 * j + 1) /\ 2 * j + 1 \in 0 .. w - 1
  <2>1. w * k = 2 * (r * k)
    BY <1>1, <1>5
  <2> QED
    BY <1>1, <1>5, <2>1
<1>9. loc.phi \div w = k /\ loc.phi % w = 2 * j + 1
  <2> DEFINE phi == loc.phi
             e == 2 * j + 1
  <2>1. phi \in Int /\ k \in Int
    BY <1>1, <1>5
  <2>2. e \in 0 .. w - 1 /\ phi = w * k + e
    BY <1>8
  <2> HIDE DEF w, e, phi
  <2>3. phi \div w = k /\ phi % w = e
    BY <1>7, <2>1, <2>2, Division
  <2> QED
    BY <2>3 DEF e, phi
<1>10. ASSUME NEW x \in Int, NEW a \in Int, a = w * x + r
       PROVE  a \div w = x
  <2>1. r \in 0 .. w - 1
    BY <1>1, <1>7
  <2> HIDE DEF w
  <2> QED
    BY <1>7, <1>10, <2>1, Division
<1>11. jpPolar(b, loc) = j
  <2>1. (2 * j + 1) * r = w * j + r /\ (2 * j + 1) * r \in Int /\ j \in Int
    BY <1>1, <1>5
  <2>2. jpPolar(b, loc) = ((loc.phi % w) * r) \div w
    BY <1>4 DEF jpPolar, N
  <2> HIDE DEF w
  <2>3. ((2 * j + 1) * r) \div w = j
    BY <1>10, <2>1
  <2> QED
    BY <1>9, <2>2, <2>3
<1>12. jmPolar(b, loc) = r - j - 1
  <2>1. (w - (2 * j + 1)) * r = w * (r - j - 1) + r /\ (w - (2 * j + 1)) * r \in Int /\ r - j - 1 \in Int
    BY <1>1, <1>5
  <2>2. jmPolar(b, loc) = ((w - (loc.phi % w)) * r) \div w
    BY <1>4 DEF jmPolar, N
  <2> HIDE DEF w
  <2>3. ((w - (2 * j + 1)) * r) \div w = r - j - 1
    BY <1>10, <2>1
  <2> QED
    BY <1>9, <2>2, <2>3
<1>13. (loc.phi * r) \div w = p - 1
  <2>1. loc.phi * r = w * (p - 1) + r /\ loc.phi * r \in Int /\ p - 1 \in Int
    BY <1>1
  <2> HIDE DEF w
  <2> QED
    BY <1>10, <2>1
<1> QED
  BY <1>3, <1>5, <1>6, <1>9, <1>11, <1>12, <1>13 DEF k, j, N

\* The products that jpEquatorial and jmEquatorial divide.
EdgesAt(n, ring, phi, q) ==
  LET N == n * n
      z == 4 * N - 2 * (n * ring)
  IN  /\ phi + ring - n = 2 * q + 1 =>
           2 * n * (2 * n + 2 * phi) * n - z * (2 * n) = (8 * N) * q + 4 * N
      /\ phi + 3 * n - ring = 2 * q + 1 =>
           2 * n * (2 * n + 2 * phi) * n + z * (2 * n) = (8 * N) * q + 4 * N
      /\ 4 * n * (2 * n) = 8 * N

LEMMA EdgeProducts ==
  ASSUME NEW n \in Int, NEW ring \in Int, NEW phi \in Int, NEW q \in Int
  PROVE  EdgesAt(n, ring, phi, q)
<1> DEFINE N == n * n
           A == N * n
           B == N * phi
           C == N * ring
           z == 4 * N - 2 * (n * ring)
<1>1. N \in Int /\ A \in Int /\ B \in Int /\ C \in Int /\ N * q \in Int
  OBVIOUS
<1>2. 2 * n * (2 * n + 2 * phi) * n = 4 * A + 4 * B
  OBVIOUS
<1>3. z * (2 * n) = 8 * A - 4 * C
  <2>1. (n * ring) * (2 * n) = 2 * C /\ N * (2 * n) = 2 * A
    OBVIOUS
  <2> DEFINE u == n * ring
             v == 2 * n
  <2>2. u \in Int /\ v \in Int /\ z = 4 * N - 2 * u
    OBVIOUS
  <2>3. u * v = 2 * C /\ N * v = 2 * A
    BY <2>1
  <2> HIDE DEF N, u, v, z, A, C
  <2>4. z * v = 4 * (N * v) - 2 * (u * v) /\ u * v \in Int /\ N * v \in Int
    BY <1>1, <2>2
  <2>5. z * v = 8 * A - 4 * C
    BY <1>1, <2>3, <2>4
  <2> QED
    BY <2>5 DEF v
<1>4. (8 * N) * q = 8 * (N * q)
  OBVIOUS
<1>5. ASSUME phi + ring - n = 2 * q + 1
      PROVE  B + C - A = 2 * (N * q) + N
  <2> HIDE DEF N
  <2>1. N * (phi + ring - n) = N * (2 * q + 1)
    BY <1>5
  <2> QED
    BY <1>1, <2>1
<1>6. ASSUME phi + 3 * n - ring = 2 * q + 1
      PROVE  B + 3 * A - C = 2 * (N * q) + N
  <2> HIDE DEF N
  <2>1. N * (phi + 3 * n - ring) = N * (2 * q + 1)
    BY <1>6
  <2> QED
    BY <1>1, <2>1
<1>7. 4 * n * (2 * n) = 8 * N
  OBVIOUS
<1> DEFINE left == 2 * n * (2 * n + 2 * phi) * n
           right == z * (2 * n)
           Q == N * q
           P == (8 * N) * q
<1>8. left = 4 * A + 4 * B /\ right = 8 * A - 4 * C /\ P = 8 * Q /\ Q \in Int
  BY <1>1, <1>2, <1>3, <1>4
<1>9. /\ phi + ring - n = 2 * q + 1 => B + C - A = 2 * Q + N
      /\ phi + 3 * n - ring = 2 * q + 1 => B + 3 * A - C = 2 * Q + N
  BY <1>5, <1>6
<1> DEFINE one == phi + ring - n = 2 * q + 1
           two == phi + 3 * n - ring = 2 * q + 1
<1>10. (one => left - right = P + 4 * N) /\ (two => left + right = P + 4 * N)
  <2> HIDE DEF left, right, Q, P, A, B, C, N, one, two
  <2>1. (one => B + C - A = 2 * Q + N) /\ (two => B + 3 * A - C = 2 * Q + N)
    BY <1>9 DEF one, two
  <2> QED
    BY <1>1, <1>8, <2>1
<1> QED
  BY <1>7, <1>10 DEF EdgesAt

\* In the equatorial region.
LEMMA EquatorialEdges ==
  ASSUME NEW b, b.nside \in Nat \ {0}, NEW ring \in b.nside .. 3 * b.nside, NEW p \in Int,
         NEW s \in 0 .. 1, NEW t \in Int, ring - b.nside = 2 * t + s, NEW loc,
         loc.z = 4 * npface(b) - 2 * (b.nside * ring), loc.phi = 2 * p - 1 - s,
         loc.den = 2 * b.nside
  PROVE  /\ Abs(loc.z) <= 2 * npface(b)
         /\ jpEquatorial(b, loc) = p - 1 + t
         /\ jmEquatorial(b, loc) = p - 1 - s + b.nside - t
<1> DEFINE n == b.nside
           N == n * n
           m == n * ring
           phi == loc.phi
           z == 4 * N - 2 * m
           D == 8 * N
           x == p - 1 + t
           y == p - 1 - s + n - t
<1>1. n \in Nat /\ n >= 1 /\ ring \in Int /\ n <= ring /\ ring <= 3 * n /\ ring - n = 2 * t + s
  OBVIOUS
<1>2. N \in Nat \ {0} /\ m \in Int /\ N <= m /\ m <= 3 * N
  <2>1. n * n <= n * ring /\ n * ring <= n * (3 * n) /\ n * (3 * n) = 3 * (n * n)
    BY <1>1
  <2>2. n * n \in Nat \ {0} /\ n * ring \in Int
    BY <1>1
  <2> QED
    BY <2>1, <2>2
<1>3. loc.z = z /\ npface(b) = N /\ z \in Int
  BY <1>2 DEF npface
<1>4. Abs(loc.z) <= 2 * npface(b)
  <2> HIDE DEF N, m
  <2>1. -(2 * N) <= z /\ z <= 2 * N
    BY <1>2
  <2> HIDE DEF z
  <2> QED
    BY <1>2, <1>3, <2>1 DEF Abs
<1>5. x \in Int /\ y \in Int /\ phi \in Int
      /\ phi + ring - n = 2 * x + 1 /\ phi + 3 * n - ring = 2 * y + 1
  BY <1>1
<1>6. jpEquatorial(b, loc) = (2 * n * (2 * n + 2 * phi) * n - z * (2 * n)) \div (4 * n * (2 * n))
      /\ jmEquatorial(b, loc) = (2 * n * (2 * n + 2 * phi) * n + z * (2 * n)) \div (4 * n * (2 * n))
  BY <1>3 DEF jpEquatorial, jmEquatorial
<1>7. 2 * n * (2 * n + 2 * phi) * n - z * (2 * n) = D * x + 4 * N
      /\ 2 * n * (2 * n + 2 * phi) * n + z * (2 * n) = D * y + 4 * N
      /\ 4 * n * (2 * n) = D
  <2>1. n \in Int /\ ring \in Int /\ phi \in Int
    BY <1>1, <1>5
  <2> HIDE DEF n, phi, x, y
  <2>2. EdgesAt(n, ring, phi, x) /\ EdgesAt(n, ring, phi, y)
    BY <1>5, <2>1, EdgeProducts, Zenon
  <2>3. /\ phi + ring - n = 2 * x + 1 =>
             2 * n * (2 * n + 2 * phi) * n - z * (2 * n) = D * x + 4 * N
        /\ phi + 3 * n - ring = 2 * y + 1 =>
             2 * n * (2 * n + 2 * phi) * n + z * (2 * n) = D * y + 4 * N
        /\ 4 * n * (2 * n) = D
    BY <2>2, Zenon DEF EdgesAt
  <2> HIDE DEF z, D, N
  <2> QED
    BY <1>5, <2>3, Zenon
<1>8. ASSUME NEW q \in Int
      PROVE  (D * q + 4 * N) \div D = q
  <2> DEFINE e == 4 * N
             a == D * q + e
  <2> HIDE DEF N
  <2>1. D \in Nat \ {0} /\ e \in 0 .. D - 1
    BY <1>2
  <2> HIDE DEF D, e
  <2>2. a \in Int /\ a = D * q + e
    BY <2>1
  <2> HIDE DEF a
  <2>3. a \div D = q
    BY <2>1, <2>2, Division
  <2> QED
    BY <2>3 DEF a, e
<1>9. jpEquatorial(b, loc) = x /\ jmEquatorial(b, loc) = y
  <2> HIDE DEF n, phi, x, y, z, D, N
  <2> QED
    BY <1>5, <1>6, <1>7, <1>8, Zenon
<1> QED
  BY <1>4, <1>9

\* loc2pix, numbering by numbering and region by region.
LEMMA Loc2pix ==
  ASSUME NEW b, NEW loc
  PROVE  /\ b.scheme = "RING" /\ Abs(loc.z) <= 2 * npface(b) =>
              LET jp == jpEquatorial(b, loc)
                  jm == jmEquatorial(b, loc)
                  ir == b.nside + 1 + jp - jm
                  kshift == IF ir % 2 = 0 THEN 1 ELSE 0
                  t1 == jp + jm - b.nside + kshift + 1 + 8 * b.nside
              IN  loc2pix(b, loc)
                    = ncap(b) + (ir - 1) * 4 * b.nside + ((t1 \div 2) % (4 * b.nside))
         /\ b.scheme = "RING" /\ ~ (Abs(loc.z) <= 2 * npface(b)) =>
              LET ir == jpPolar(b, loc) + jmPolar(b, loc) + 1
                  ip == (loc.phi * ir) \div loc.den
              IN  loc2pix(b, loc) = IF loc.z > 0 THEN 2 * ir * (ir - 1) + ip
                                    ELSE npix(b) - 2 * ir * (ir + 1) + ip
         /\ b.scheme = "NEST" /\ Abs(loc.z) <= 2 * npface(b) =>
              LET jp == jpEquatorial(b, loc)
                  jm == jmEquatorial(b, loc)
              IN  loc2pix(b, loc)
                    = xyf2nest(b, [ face |-> equatorialFace(jp \div b.nside, jm \div b.nside),
                                    ix |-> jm % b.nside, iy |-> b.nside - (jp % b.nside) - 1 ])
         /\ b.scheme = "NEST" /\ ~ (Abs(loc.z) <= 2 * npface(b)) =>
              LET x == Smaller(jpPolar(b, loc), b.nside - 1)
                  y == Smaller(jmPolar(b, loc), b.nside - 1)
                  ntt == loc.phi \div loc.den
              IN  loc2pix(b, loc)
                    = xyf2nest(b, IF loc.z >= 0
                                  THEN [ face |-> ntt, ix |-> b.nside - y - 1,
                                         iy |-> b.nside - x - 1 ]
                                  ELSE [ face |-> ntt + 8, ix |-> x, iy |-> y ])
<1> DEFINE equatorial == Abs(loc.z) <= 2 * npface(b)
<1>1. CASE b.scheme = "RING" /\ equatorial
  BY <1>1 DEF loc2pix
<1>2. CASE b.scheme = "RING" /\ ~ equatorial
  BY <1>2 DEF loc2pix
<1>3. CASE b.scheme = "NEST" /\ equatorial
  BY <1>3 DEF loc2pix
<1>4. CASE b.scheme = "NEST" /\ ~ equatorial
  BY <1>4 DEF loc2pix
<1> QED
  BY <1>1, <1>2, <1>3, <1>4

\* In a polar cap, as PolarEdges needs it.
LEMMA CapSpot ==
  ASSUME NEW b, b.nside \in Nat \ {0}, NEW ring \in 1 .. 4 * b.nside - 1,
         ring < b.nside \/ 3 * b.nside < ring, NEW p \in 1 .. 4 * Quarter(b, ring)
  PROVE  LET r == Quarter(b, ring)
             loc == Spot(b, ring, p)
         IN  /\ r \in 1 .. b.nside - 1 /\ r = (IF ring < b.nside THEN ring ELSE 4 * b.nside - ring)
             /\ Abs(loc.z) = 3 * npface(b) - r * r /\ loc.phi = 2 * p - 1 /\ loc.den = 2 * r
             /\ loc.z > 0 <=> ring < b.nside
             /\ loc.z >= 0 <=> ring < b.nside
<1> DEFINE n == b.nside
           N == npface(b)
           r == Quarter(b, ring)
           loc == Spot(b, ring, p)
           z == loc.z
           R == r * r
<1>1. n \in Nat /\ n >= 1 /\ ring \in Int /\ 1 <= ring /\ ring < 4 * n /\ (ring < n \/ 3 * n < ring)
  OBVIOUS
<1>2. r = (IF ring < n THEN ring ELSE 4 * n - ring) /\ Shift(b, ring) = 0
  <2>1. /\ ring <= n => r = ring
        /\ 3 * n <= ring => r = 4 * n - ring
        /\ ring < n \/ 3 * n < ring => Shift(b, ring) = 0
    BY Quarters
  <2> HIDE DEF r
  <2> QED
    BY <1>1, <2>1
<1> HIDE DEF r
<1>3. r \in 1 .. n - 1
  BY <1>1, <1>2
<1>4. R \in Nat /\ R < N /\ N \in Nat
  <2>1. r \in Nat /\ n \in Nat /\ r < n /\ N = n * n /\ n * n \in Nat
    BY <1>1, <1>3 DEF npface
  <2> QED
    BY <2>1, SquaresGrow
<1>5. z = (IF ring < n THEN 3 * N - R ELSE R - 3 * N)
  <2>1. z = ring2z(b, ring)
    BY DEF Spot
  <2>2. ring \in 0 .. 4 * n
    BY <1>1
  <2>3. /\ ring <= n => ring2z(b, ring) = 3 * N - ring * ring
        /\ 3 * n <= ring => ring2z(b, ring) = (4 * n - ring) * (4 * n - ring) - 3 * N
    BY <2>2, Heights
  <2> HIDE DEF z, N
  <2>4. CASE ring < n
    <3>1. r = ring /\ ring <= n
      BY <1>1, <1>2, <2>4
    <3> QED
      BY <2>1, <2>3, <2>4, <3>1
  <2>5. CASE ~ (ring < n)
    <3>1. r = 4 * n - ring /\ 3 * n <= ring
      BY <1>1, <1>2, <2>5
    <3> QED
      BY <2>1, <2>3, <2>5, <3>1
  <2> QED
    BY <2>4, <2>5
<1>6. loc.phi = 2 * p - 1 /\ loc.den = 2 * r
  <2>1. loc.phi = 2 * p - 1 - Shift(b, ring) /\ loc.den = 2 * r /\ p \in Int
    <3>1. loc.phi = 2 * p - 1 - Shift(b, ring) /\ loc.den = 2 * r
      BY DEF Spot, r
    <3>2. p \in 1 .. 4 * r
      BY DEF r
    <3> QED
      BY <1>3, <3>1, <3>2
  <2> HIDE DEF loc
  <2> QED
    BY <1>2, <2>1
<1> HIDE DEF z, N, R, n
<1>7. Abs(z) = 3 * N - R /\ (z > 0 <=> ring < n) /\ (z >= 0 <=> ring < n)
  <2>1. CASE ring < n
    BY <1>4, <1>5, <2>1 DEF Abs
  <2>2. CASE ~ (ring < n)
    BY <1>4, <1>5, <2>2 DEF Abs
  <2> QED
    BY <2>1, <2>2
<1> HIDE DEF loc
<1> QED
  BY <1>2, <1>3, <1>6, <1>7 DEF loc, z, N, R, n, r

\* In the equatorial region, as EquatorialEdges needs it.
LEMMA BeltSpot ==
  ASSUME NEW b, b.nside \in Nat \ {0}, NEW ring \in b.nside .. 3 * b.nside, NEW p \in Int
  PROVE  LET n == b.nside
             loc == Spot(b, ring, p)
             s == Shift(b, ring)
             t == (ring - n) \div 2
         IN  /\ s \in 0 .. 1 /\ s = (ring + n) % 2 /\ t \in Int /\ ring - n = 2 * t + s
             /\ Quarter(b, ring) = n
             /\ Abs(loc.z) <= 2 * npface(b)
             /\ jpEquatorial(b, loc) = p - 1 + t
             /\ jmEquatorial(b, loc) = p - 1 - s + n - t
<1> DEFINE n == b.nside
           loc == Spot(b, ring, p)
           s == Shift(b, ring)
           t == (ring - n) \div 2
<1>1. n \in Nat /\ n >= 1 /\ ring \in Int /\ n <= ring /\ ring <= 3 * n /\ ring \in 1 .. 4 * n - 1
      /\ ring \in 0 .. 4 * n
  OBVIOUS
<1>2. s \in 0 .. 1 /\ s = (ring + n) % 2 /\ Quarter(b, ring) = n
  BY <1>1, Quarters
<1>3. t \in Int /\ ring - n = 2 * t + s
  <2> HIDE DEF s, n
  <2>1. (ring + n) % 2 = (ring - n) % 2
    BY <1>1
  <2> QED
    BY <1>1, <1>2, <2>1
<1>4. loc.z = 4 * npface(b) - 2 * (n * ring)
  <2>1. loc.z = ring2z(b, ring)
    BY DEF Spot
  <2> QED
    BY <1>1, <2>1, Heights
<1>5. loc.phi = 2 * p - 1 - s /\ loc.den = 2 * n
  BY <1>2 DEF Spot
<1> HIDE DEF loc, s, t
<1>6. /\ Abs(loc.z) <= 2 * npface(b)
      /\ jpEquatorial(b, loc) = p - 1 + t
      /\ jmEquatorial(b, loc) = p - 1 - s + n - t
  BY <1>2, <1>3, <1>4, <1>5, EquatorialEdges
<1> QED
  BY <1>2, <1>3, <1>6 DEF loc, s, t

\* In RING numbering loc2pix counts the position of a centre from the ring's first
\* pixel.
LEMMA LocatedRing ==
  ASSUME NEW b, b.nside \in Nat \ {0}, b.scheme = "RING", NEW ring \in 1 .. 4 * b.nside - 1,
         NEW p \in 1 .. 4 * Quarter(b, ring)
  PROVE  loc2pix(b, Spot(b, ring, p)) = FirstOf(b, ring) + p - 1
<1> DEFINE n == b.nside
           r == Quarter(b, ring)
           loc == Spot(b, ring, p)
<1>1. n \in Nat /\ n >= 1 /\ ring \in Int /\ 1 <= ring /\ ring < 4 * n
  OBVIOUS
<1>2. r \in 1 .. n /\ p \in 1 .. 4 * r
  BY Quarters
<1>3. CASE ring < n \/ 3 * n < ring
  <2> DEFINE jp == jpPolar(b, loc)
             jm == jmPolar(b, loc)
             ir == jp + jm + 1
             ip == (loc.phi * ir) \div loc.den
             j == (p - 1) % r
             where == IF loc.z > 0 THEN 2 * ir * (ir - 1) + ip ELSE npix(b) - 2 * ir * (ir + 1) + ip
  <2>1. /\ r \in 1 .. n - 1 /\ r = (IF ring < n THEN ring ELSE 4 * n - ring)
        /\ Abs(loc.z) = 3 * npface(b) - r * r /\ loc.phi = 2 * p - 1 /\ loc.den = 2 * r
        /\ loc.z > 0 <=> ring < n
    BY <1>3, CapSpot
  <2> HIDE DEF loc, r
  <2>2. /\ ~ (Abs(loc.z) <= 2 * npface(b)) /\ j \in 0 .. r - 1
        /\ jp = j /\ jm = r - j - 1 /\ (loc.phi * r) \div loc.den = p - 1
    BY <1>2, <2>1, PolarEdges
  <2>3. loc2pix(b, loc) = where
    BY <2>2, Loc2pix
  <2>4. ir = r
    <3> HIDE DEF j, jp, jm
    <3> QED
      BY <2>1, <2>2
  <2> HIDE DEF ir
  <2>5. ip = p - 1
    BY <2>2, <2>4
  <2> HIDE DEF ip
  <2>6. CASE ring < n
    <3>1. where = 2 * ring * (ring - 1) + (p - 1)
      BY <2>1, <2>4, <2>5, <2>6
    <3>2. FirstOf(b, ring) = 2 * ring * (ring - 1)
      BY <2>6, RingFields
    <3>3. 2 * ring * (ring - 1) \in Int /\ p \in Int
      BY <1>1, <1>2
    <3> DEFINE first == 2 * ring * (ring - 1)
    <3> HIDE DEF first, where
    <3>4. where = first + p - 1
      BY <3>1, <3>3 DEF first
    <3> QED
      BY <2>3, <3>2, <3>4 DEF loc, first
  <2>7. CASE ~ (ring < n)
    <3>1. where = npix(b) - 2 * r * (r + 1) + (p - 1)
      BY <2>1, <2>4, <2>5, <2>7
    <3>2. FirstOf(b, ring) = npix(b) - 2 * r * (r + 1)
      <4>1. ~ (ring < 3 * n) /\ r = 4 * n - ring
        BY <1>1, <1>3, <2>1, <2>7
      <4>2. FirstOf(b, ring) = npix(b) - 2 * (4 * n - ring) * ((4 * n - ring) + 1)
        BY <2>7, <4>1, RingFields
      <4> QED
        BY <4>1, <4>2
    <3>3. npix(b) - 2 * r * (r + 1) \in Int /\ p \in Int
      <4>1. npix(b) \in Int
        BY Borders
      <4> QED
        BY <1>2, <2>1, <4>1
    <3> DEFINE first == npix(b) - 2 * r * (r + 1)
    <3> HIDE DEF first, where
    <3>4. where = first + p - 1
      BY <3>1, <3>3 DEF first
    <3> QED
      BY <2>3, <3>2, <3>4 DEF loc, first
  <2> QED
    BY <2>6, <2>7
<1>4. CASE ~ (ring < n \/ 3 * n < ring)
  <2> DEFINE jp == jpEquatorial(b, loc)
             jm == jmEquatorial(b, loc)
             ir == n + 1 + jp - jm
             kshift == IF ir % 2 = 0 THEN 1 ELSE 0
             t1 == jp + jm - n + kshift + 1 + 8 * n
             s == Shift(b, ring)
             t == (ring - n) \div 2
  <2>1. ring \in n .. 3 * n /\ p \in Int
    BY <1>1, <1>2, <1>4
  <2>2. /\ s \in 0 .. 1 /\ t \in Int /\ ring - n = 2 * t + s
        /\ Quarter(b, ring) = n /\ Abs(loc.z) <= 2 * npface(b)
        /\ jp = p - 1 + t /\ jm = p - 1 - s + n - t
    BY <2>1, BeltSpot
  <2>3. p \in 1 .. 4 * n
    BY <1>2, <2>2
  <2>4. loc2pix(b, loc) = ncap(b) + (ir - 1) * 4 * n + ((t1 \div 2) % (4 * n))
    BY <2>2, Loc2pix
  <2> HIDE DEF jp, jm, s, t, loc
  <2>5. ir = ring - n + 1 /\ ir = 2 * t + s + 1
    BY <1>1, <2>1, <2>2
  <2> HIDE DEF ir
  <2>6. kshift = s
    BY <2>2, <2>5
  <2> HIDE DEF kshift
  <2>7. t1 = 2 * (p - 1 + 4 * n) + 1
    BY <1>1, <2>1, <2>2, <2>6
  <2> HIDE DEF t1
  <2>8. t1 \div 2 = p - 1 + 4 * n
    BY <1>1, <2>1, <2>7
  <2>9. (p - 1 + 4 * n) % (4 * n) = p - 1
    <3> DEFINE w == 4 * n
               a == p - 1 + 4 * n
               e == p - 1
               q == 1
    <3>1. w \in Nat \ {0} /\ a \in Int /\ q \in Int /\ e \in 0 .. w - 1 /\ a = w * q + e
      BY <1>1, <2>3
    <3> HIDE DEF w, a, e, q
    <3>2. a \div w = q /\ a % w = e
      BY <3>1, Division
    <3> QED
      BY <3>2 DEF w, a, e
  <2> DEFINE first == ncap(b) + (ring - n) * 4 * n
  <2>10. ir - 1 = ring - n
    BY <1>1, <2>5
  <2>11. loc2pix(b, loc) = first + (p - 1)
    BY <2>4, <2>8, <2>9, <2>10
  <2>12. FirstOf(b, ring) = first /\ first \in Int
    <3>1. ncap(b) = 2 * (n * n) - 2 * n /\ npix(b) = 12 * (n * n)
      BY DEF ncap, npix, npface
    <3>2. (ring - n) * 4 * n \in Int /\ n * n \in Int
      BY <1>1
    <3>3. first \in Int
      BY <1>1, <3>1, <3>2
    <3>4. CASE ring < 3 * n
      <4>1. ~ (ring < n)
        BY <1>4
      <4> QED
        BY <3>3, <3>4, <4>1, RingFields
    <3>5. CASE ring = 3 * n
      <4>1. FirstOf(b, 3 * n) = npix(b) - ncap(b) - 4 * n
        BY Borders
      <4>2. (3 * n - n) * 4 * n = 8 * (n * n)
        BY <1>1
      <4> QED
        BY <1>1, <3>1, <3>2, <3>3, <3>5, <4>1, <4>2
    <3> QED
      BY <1>1, <1>4, <3>4, <3>5
  <2> HIDE DEF first
  <2>13. loc2pix(b, loc) = first + p - 1
    BY <2>1, <2>11, <2>12
  <2> QED
    BY <2>12, <2>13 DEF loc
<1> QED
  BY <1>3, <1>4

\* A pixel in a polar cap, r rings from the pole: the quarter turn and the position
\* in it, and the face.
CapAt(b, c, r, k, e, f) ==
  /\ b.nside \in Nat \ {0} /\ r \in 1 .. b.nside - 1 /\ k \in 0 .. 3 /\ e \in 0 .. r - 1
  /\ c.iphi \in Int /\ c.iphi - 1 = r * k + e /\ c.nr = r /\ c.kshift = 0
  /\ f = k \/ f = k + 8

\* What ring2xyf computes there.
LEMMA CapColumns ==
  ASSUME NEW b, NEW c, NEW r, NEW k, NEW e, NEW f, CapAt(b, c, r, k, e, f)
  PROVE  /\ Column(b, f, c) = 2 * e + 1 - r
         /\ Depth(b, f, c) = (IF f = k THEN 2 * b.nside ELSE 4 * b.nside) - c.iring - 1
<1>0. /\ b.nside \in Nat \ {0} /\ r \in 1 .. b.nside - 1 /\ k \in 0 .. 3 /\ e \in 0 .. r - 1
      /\ c.iphi \in Int /\ c.iphi - 1 = r * k + e /\ c.nr = r /\ c.kshift = 0
      /\ f = k \/ f = k + 8
  BY DEF CapAt
<1> DEFINE n == b.nside
           iphi == c.iphi
           all == 2 * iphi - jpll(f) * r - 0 - 1
           h == r * k
<1>1. jpll(f) = 2 * k + 1 /\ jrll(f) = (IF f = k THEN 2 ELSE 4)
  <2>1. k = 0 \/ k = 1 \/ k = 2 \/ k = 3
    BY <1>0
  <2>2. CASE f = k
    BY <2>1, <2>2, Rows
  <2>3. CASE f = k + 8
    <3>1. f \in 0 .. 11 /\ f \in 8 .. 11 /\ f - 8 = k /\ f # k
      BY <1>0, <2>3
    <3> QED
      BY <3>1, Rows
  <2> QED
    BY <1>0, <2>2, <2>3
<1>2. (2 * k + 1) * r = 2 * h + r /\ h \in Int /\ r \in Int /\ e \in Int /\ n \in Nat
      /\ r < n /\ e < r
  BY <1>0
<1>3. all = 2 * e + 1 - r
  <2>1. all = 2 * iphi - (2 * h + r) - 0 - 1
    BY <1>1, <1>2
  <2>2. iphi \in Int /\ iphi - 1 = h + e
    BY <1>0
  <2> HIDE DEF h, iphi, all
  <2> QED
    BY <1>2, <2>1, <2>2
<1>4. ~ (all >= 2 * n)
  <2> HIDE DEF all, n
  <2> QED
    BY <1>2, <1>3
<1>5. Column(b, f, c) = all
  <2>1. Column(b, f, c) = IF all >= 2 * n THEN all - 8 * n ELSE all
    BY <1>0 DEF Column
  <2> HIDE DEF all
  <2> QED
    BY <1>4, <2>1
<1>6. Depth(b, f, c) = (IF f = k THEN 2 * n ELSE 4 * n) - c.iring - 1
  <2>1. Depth(b, f, c) = (IF f = k THEN 2 ELSE 4) * n - c.iring - 1
    BY <1>1 DEF Depth
  <2> QED
    BY <2>1
<1> QED
  BY <1>3, <1>5, <1>6

\* What ring2xyf computes in the equatorial region: the row and the column of a
\* place in its face.
BeltAt(n, ring, p, s, t, face, x, y) ==
  /\ n \in Int /\ ring \in Int /\ p \in Int /\ s \in Int /\ t \in Int /\ ring - n = 2 * t + s
  /\ face \in 0 .. 11 /\ x \in Int /\ y \in Int
  /\ x + y = jrll(face) * n - ring - 1
  /\ x - y = (LET all == 2 * p - jpll(face) * n - s - 1
              IN  IF all >= 2 * n THEN all - 8 * n ELSE all)

\* They give the edge lines up to whole faces.
LEMMA BeltColumns ==
  ASSUME NEW n, NEW ring, NEW p, NEW s, NEW t, NEW face, NEW x, NEW y,
         BeltAt(n, ring, p, s, t, face, x, y)
  PROVE  \E g, h \in Int : /\ x = (p - 1 - s + n - t) + n * g
                           /\ n - y - 1 = (p - 1 + t) + n * h
<1> DEFINE column == x - y
<1>0. /\ n \in Int /\ ring \in Int /\ p \in Int /\ s \in Int /\ t \in Int /\ ring - n = 2 * t + s
      /\ face \in 0 .. 11 /\ x \in Int /\ y \in Int
      /\ x + y = jrll(face) * n - ring - 1
      /\ column = (LET all == 2 * p - jpll(face) * n - s - 1
                   IN  IF all >= 2 * n THEN all - 8 * n ELSE all)
  BY DEF BeltAt
<1> HIDE DEF column
<1>1. \E u, v \in Int : jpll(face) = u /\ jrll(face) = v /\ (v - u - 1) % 2 = 0
  <2>1. \/ face = 0 \/ face = 1 \/ face = 2 \/ face = 3 \/ face = 4 \/ face = 5
        \/ face = 6 \/ face = 7 \/ face = 8 \/ face = 9 \/ face = 10 \/ face = 11
    BY <1>0
  <2>2. /\ jpll(face) \in Int /\ jrll(face) \in Int
        /\ (jrll(face) - jpll(face) - 1) % 2 = 0
    BY <2>1 DEF jrll, jpll
  <2> QED
    BY <2>2
<1>2. PICK u \in Int, v \in Int : jpll(face) = u /\ jrll(face) = v /\ (v - u - 1) % 2 = 0
  BY <1>1
<1>3. PICK k \in Int : v = u + 2 * k + 1
  <2>1. (v - u - 1) \div 2 \in Int /\ v = u + 2 * ((v - u - 1) \div 2) + 1
    BY <1>2
  <2> QED
    BY <2>1
<1>4. PICK w \in 0 .. 1 : column = 2 * p - u * n - s - 1 - 8 * (n * w)
  <2> DEFINE all == 2 * p - u * n - s - 1
  <2>1. column = IF all >= 2 * n THEN all - 8 * n ELSE all
    BY <1>0, <1>2
  <2>2. all \in Int
    BY <1>0, <1>2
  <2> HIDE DEF all
  <2>3. CASE all >= 2 * n
    <3>1. column = all - 8 * (n * 1) /\ 1 \in 0 .. 1
      BY <1>0, <2>1, <2>2, <2>3
    <3> QED
      BY <3>1 DEF all
  <2>4. CASE ~ (all >= 2 * n)
    <3>1. column = all - 8 * (n * 0) /\ 0 \in 0 .. 1
      BY <1>0, <2>1, <2>2, <2>4
    <3> QED
      BY <3>1 DEF all
  <2> QED
    BY <2>3, <2>4
<1> DEFINE a == n * u
           d == n * k
           e == n * w
<1>5. a \in Int /\ d \in Int /\ e \in Int /\ w \in Int
  BY <1>0, <1>2, <1>3, <1>4
<1>6. x + y = a + 2 * d + n - ring - 1
  <2>1. v * n = a + 2 * d + n
    BY <1>0, <1>2, <1>3
  <2> QED
    BY <1>0, <1>2, <2>1
<1>7. x - y = 2 * p - a - s - 1 - 8 * e
  <2>1. u * n = a
    BY <1>0, <1>2
  <2> QED
    BY <1>4, <2>1 DEF column
<1> HIDE DEF a, d, e
<1>8. x = (p - 1 - s + n - t) + (d - n - 4 * e)
  BY <1>0, <1>5, <1>6, <1>7
<1>9. n - y - 1 = (p - 1 + t) + (n - a - d - 4 * e)
  BY <1>0, <1>5, <1>6, <1>7
<1> DEFINE g == k - 1 - 4 * w
           h == 1 - u - k - 4 * w
<1>10. g \in Int /\ h \in Int /\ n * g = d - n - 4 * e /\ n * h = n - a - d - 4 * e
  BY <1>0, <1>2, <1>3, <1>5 DEF a, d, e
<1> HIDE DEF g, h
<1>11. x = (p - 1 - s + n - t) + n * g /\ n - y - 1 = (p - 1 + t) + n * h
  BY <1>8, <1>9, <1>10
<1> QED
  BY <1>10, <1>11

\* In NEST numbering loc2pix finds the place that ring2xyf finds: the edge lines of
\* the centre are those that the position in the ring has.
LEMMA LocatedNest ==
  ASSUME NEW b, b.nside \in Nat \ {0}, b.scheme = "NEST", NEW num \in Pixels(b)
  PROVE  loc2pix(b, Spot(b, InRing(b, num).iring, InRing(b, num).iphi))
           = xyf2nest(b, ring2xyf(b, num))
<1> DEFINE n == b.nside
           c == InRing(b, num)
           f == c.face
           ring == c.iring
           p == c.iphi
           r == Quarter(b, ring)
           loc == Spot(b, ring, p)
           at == ring2xyf(b, num)
           x == at.ix
           y == at.iy
           here == [ face |-> f, ix |-> x, iy |-> y ]
<1>1. /\ n \in Nat \ {0} /\ ring \in 1 .. 4 * n - 1 /\ p \in 1 .. 4 * r
      /\ c.nr = r /\ c.kshift = Shift(b, ring)
      /\ num < ncap(b) <=> ring < n
      /\ num < npix(b) - ncap(b) <=> ring <= 3 * n
  BY RingNumber
<1>2. at = here /\ f \in 0 .. 11 /\ x \in 0 .. n - 1 /\ y \in 0 .. n - 1
      /\ x + y = Depth(b, f, c) /\ x - y = Column(b, f, c)
  BY RingFace
<1>3. r \in 1 .. n /\ Shift(b, ring) \in 0 .. 1
  BY <1>1, Quarters
<1>4. ncap(b) <= npix(b) - ncap(b) /\ ncap(b) \in Nat /\ npix(b) \in Nat /\ num \in Nat
  BY Borders DEF Pixels
<1>5. CASE ring < n \/ 3 * n < ring
  <2> DEFINE jp == jpPolar(b, loc)
             jm == jmPolar(b, loc)
             u == Smaller(jp, n - 1)
             v == Smaller(jm, n - 1)
             k == (p - 1) \div r
             e == (p - 1) % r
  <2>1. /\ r \in 1 .. n - 1 /\ r = (IF ring < n THEN ring ELSE 4 * n - ring)
        /\ Abs(loc.z) = 3 * npface(b) - r * r /\ loc.phi = 2 * p - 1 /\ loc.den = 2 * r
        /\ loc.z >= 0 <=> ring < n
    BY <1>1, <1>5, CapSpot
  <2>2. /\ ~ (Abs(loc.z) <= 2 * npface(b)) /\ k \in 0 .. 3 /\ e \in 0 .. r - 1
        /\ p - 1 = r * k + e /\ jp = e /\ jm = r - e - 1 /\ loc.phi \div loc.den = k
    <3>1. r \in 1 .. n - 1 /\ p \in 1 .. 4 * r /\ n \in Nat \ {0}
      BY <1>1, <2>1
    <3> HIDE DEF loc, r, p
    <3> QED
      BY <2>1, <3>1, PolarEdges
  <2>9. k = (p - 1) \div r
    OBVIOUS
  <2> HIDE DEF k, e
  <2>3. loc2pix(b, loc)
          = xyf2nest(b, IF loc.z >= 0
                        THEN [ face |-> k, ix |-> n - v - 1, iy |-> n - u - 1 ]
                        ELSE [ face |-> k + 8, ix |-> u, iy |-> v ])
    BY <2>2, Loc2pix
  <2>4. u = e /\ v = r - e - 1
    <3> HIDE DEF jp, jm, r
    <3>1. n \in Nat /\ r \in 1 .. n - 1 /\ e \in 0 .. r - 1 /\ jp = e /\ jm = r - e - 1
      BY <2>1, <2>2
    <3>2. e <= n - 1 /\ r - e - 1 <= n - 1
      BY <3>1
    <3> QED
      BY <3>1, <3>2 DEF Smaller
  <2> HIDE DEF u, v
  <2>10. /\ c.iphi \in Int /\ c.iphi - 1 = r * k + e /\ c.nr = r /\ c.kshift = 0
         /\ n \in Nat \ {0} /\ r \in Int /\ ring \in Int
    <3>1. Shift(b, ring) = 0
      BY <1>1, <1>5, Quarters
    <3>2. p \in Int /\ r \in Int /\ n \in Nat \ {0} /\ ring \in Int
      <4>1. n \in Nat \ {0} /\ p \in 1 .. 4 * r /\ r \in 1 .. n - 1 /\ ring \in 1 .. 4 * n - 1
        BY <1>1, <2>1
      <4> HIDE DEF p, r, ring, n
      <4> QED
        BY <4>1
    <3>3. p - 1 = r * k + e /\ c.nr = r /\ c.kshift = Shift(b, ring)
      BY <1>1, <2>2
    <3> HIDE DEF r, c
    <3> QED
      BY <3>1, <3>2, <3>3
  <2>11. /\ n \in Nat \ {0} /\ n \in Int /\ r \in 1 .. n - 1 /\ r \in Int /\ e \in 0 .. r - 1
         /\ e \in Int /\ k \in 0 .. 3 /\ u = e /\ v = r - e - 1
    <3> HIDE DEF r, n
    <3> QED
      BY <2>1, <2>2, <2>4, <2>10
  <2>5. CASE ring < n
    <3>1. f = k
      <4>1. c = NorthPolarCap(b, num)
        BY <1>1, <2>5 DEF InRing
      <4>2. r = ring
        BY <2>1, <2>5
      <4>3. c.face = (p - 1) \div ring
        BY <4>1 DEF NorthPolarCap
      <4> QED
        BY <2>9, <4>2, <4>3
    <3>2. Column(b, f, c) = 2 * e + 1 - r /\ Depth(b, f, c) = 2 * n - r - 1
      <4>1. r = ring
        BY <2>1, <2>5
      <4>2. Column(b, f, c) = 2 * e + 1 - r
            /\ Depth(b, f, c) = (IF f = k THEN 2 * n ELSE 4 * n) - c.iring - 1
        <5>1. CapAt(b, c, r, k, e, f)
          BY <2>10, <2>11, <3>1 DEF CapAt
        <5> HIDE DEF c, r, f
        <5> QED
          BY <5>1, CapColumns
      <4> QED
        BY <3>1, <4>1, <4>2
    <3>3. x = n - v - 1 /\ y = n - u - 1
      <4> DEFINE column == Column(b, f, c)
                 depth == Depth(b, f, c)
      <4>1. x \in 0 .. n - 1 /\ y \in 0 .. n - 1 /\ x + y = depth /\ x - y = column
        BY <1>2
      <4>2. column = 2 * e + 1 - r /\ depth = 2 * n - r - 1
        BY <3>2
      <4> HIDE DEF x, y, r, n, column, depth
      <4> QED
        BY <2>11, <4>1, <4>2
    <3> HIDE DEF x, y, f, k
    <3> QED
      BY <1>2, <2>1, <2>3, <2>5, <3>1, <3>3
  <2>6. CASE ~ (ring < n)
    <3>1. f = 8 + k
      <4>1. c = SouthPolarCap(b, num)
        BY <1>1, <1>4, <1>5, <2>6 DEF InRing
      <4>2. c.face = 8 + (p - 1) \div c.nr
        BY <4>1 DEF SouthPolarCap
      <4> QED
        BY <2>9, <2>10, <4>2
    <3>4. f = k + 8 /\ f # k
      <4> HIDE DEF f
      <4> QED
        BY <2>2, <3>1
    <3>2. Column(b, f, c) = 2 * e + 1 - r /\ Depth(b, f, c) = r - 1
      <4>1. r = 4 * n - ring
        BY <2>1, <2>6
      <4>2. Column(b, f, c) = 2 * e + 1 - r
            /\ Depth(b, f, c) = (IF f = k THEN 2 * n ELSE 4 * n) - c.iring - 1
        <5>1. CapAt(b, c, r, k, e, f)
          BY <2>10, <2>11, <3>4 DEF CapAt
        <5> HIDE DEF c, r, f
        <5> QED
          BY <5>1, CapColumns
      <4> QED
        BY <3>4, <4>1, <4>2
    <3>3. x = u /\ y = v
      <4> DEFINE column == Column(b, f, c)
                 depth == Depth(b, f, c)
      <4>1. x \in 0 .. n - 1 /\ y \in 0 .. n - 1 /\ x + y = depth /\ x - y = column
        BY <1>2
      <4>2. column = 2 * e + 1 - r /\ depth = r - 1
        BY <3>2
      <4> HIDE DEF x, y, r, n, column, depth
      <4> QED
        BY <2>11, <4>1, <4>2
    <3> HIDE DEF x, y, f, k
    <3> QED
      BY <1>2, <2>1, <2>3, <2>6, <3>3, <3>4
  <2> QED
    BY <2>5, <2>6
<1>6. CASE ~ (ring < n \/ 3 * n < ring)
  <2> DEFINE jp == jpEquatorial(b, loc)
             jm == jmEquatorial(b, loc)
             s == Shift(b, ring)
             t == (ring - n) \div 2
  <2>1. ring \in n .. 3 * n /\ p \in Int /\ ring \in Int /\ n \in Int
    <3>1. p \in 1 .. 4 * r /\ r \in 1 .. n /\ n \in Nat \ {0} /\ ring \in 1 .. 4 * n - 1
      BY <1>1, <1>3
    <3> HIDE DEF p, r, ring, n
    <3> QED
      BY <1>6, <3>1
  <2>2. /\ s \in 0 .. 1 /\ t \in Int /\ ring - n = 2 * t + s
        /\ r = n /\ Abs(loc.z) <= 2 * npface(b)
        /\ jp = p - 1 + t /\ jm = p - 1 - s + n - t
    BY <2>1, BeltSpot
  <2>3. loc2pix(b, loc)
          = xyf2nest(b, [ face |-> equatorialFace(jp \div n, jm \div n),
                          ix |-> jm % n, iy |-> n - (jp % n) - 1 ])
    BY <2>2, Loc2pix
  <2>4. f = equatorialFace(jp \div n, jm \div n)
    <3> DEFINE ire == ring - n + 1
               irm == 2 * n + 2 - ire
    <3>1. c = EquatorialRegion(b, num)
      BY <1>1, <1>4, <1>6 DEF InRing
    <3>2. f = equatorialFace((p - irm \div 2 + n - 1) \div n, (p - ire \div 2 + n - 1) \div n)
      BY <3>1 DEF EquatorialRegion
    <3> HIDE DEF jp, jm, p, ring, n, f, s, t
    <3>3. p - irm \div 2 + n - 1 = jp /\ p - ire \div 2 + n - 1 = jm
      BY <2>1, <2>2
    <3> QED
      BY <3>2, <3>3
  <2>5. PICK g \in Int, h \in Int : x = jm + n * g /\ n - y - 1 = jp + n * h
    <3>1. f \in 0 .. 11 /\ x + y = Depth(b, f, c) /\ x - y = Column(b, f, c)
          /\ x \in 0 .. n - 1 /\ y \in 0 .. n - 1
      BY <1>2
    <3>2. c.nr = n /\ c.kshift = s /\ s \in Int
      BY <1>1, <2>2
    <3>3. x - y = (LET all == 2 * p - jpll(f) * n - s - 1
                   IN  IF all >= 2 * n THEN all - 8 * n ELSE all)
      BY <3>1, <3>2 DEF Column
    <3>4. x + y = jrll(f) * n - ring - 1
      BY <3>1 DEF Depth
    <3> HIDE DEF x, y, f, p, ring, n, s, t, jp, jm
    <3>5. x \in Int /\ y \in Int
      BY <2>1, <3>1
    <3>7. BeltAt(n, ring, p, s, t, f, x, y)
      BY <2>1, <2>2, <3>1, <3>2, <3>3, <3>4, <3>5 DEF BeltAt
    <3>6. \E g, h \in Int : /\ x = (p - 1 - s + n - t) + n * g
                            /\ n - y - 1 = (p - 1 + t) + n * h
      BY <3>7, BeltColumns
    <3> QED
      BY <2>2, <3>6
  <2>6. jm % n = x /\ jp % n = n - y - 1
    <3>1. n \in Nat \ {0} /\ x \in 0 .. n - 1 /\ y \in 0 .. n - 1
      BY <1>1, <1>2
    <3>2. jm \in Int /\ jp \in Int
      <4> HIDE DEF jm, jp, s, t, p, n, ring
      <4> QED
        BY <2>1, <2>2
    <3> HIDE DEF n, x, y, jm, jp
    <3>3. jm = n * (-g) + x /\ jp = n * (-h) + (n - y - 1)
          /\ -g \in Int /\ -h \in Int /\ n - y - 1 \in 0 .. n - 1
      <4>1. n * (-g) = -(n * g) /\ n * (-h) = -(n * h) /\ n * g \in Int /\ n * h \in Int
        BY <3>1
      <4> QED
        BY <2>5, <3>1, <3>2, <4>1
    <3>4. ASSUME NEW i \in Int, NEW q \in Int, NEW z \in 0 .. n - 1, i = n * q + z
          PROVE  i % n = z
      BY <3>1, <3>4, Division
    <3> QED
      BY <3>1, <3>2, <3>3, <3>4
  <2>7. n - (jp % n) - 1 = y
    <3> HIDE DEF n, y, jp, jm
    <3>1. n \in Int /\ y \in Int
      <4>1. y \in 0 .. n - 1
        BY <1>2
      <4> QED
        BY <2>1, <4>1
    <3> QED
      BY <2>6, <3>1
  <2> HIDE DEF jp, jm, x, y, f
  <2> QED
    BY <1>2, <2>3, <2>4, <2>6, <2>7
<1> QED
  BY <1>5, <1>6

\* What a place, its ring and its position there have to do with each other.
PlaceAt(n, f, x, y, ring, r, s, p, w) ==
  /\ n \in Nat \ {0} /\ f \in 0 .. 11 /\ x \in 0 .. n - 1 /\ y \in 0 .. n - 1
  /\ ring \in Int /\ ring = jrll(f) * n - x - y - 1
  /\ r \in Int /\ s \in Int /\ p \in Int /\ w \in 0 .. 1
  /\ 2 * p = jpll(f) * r + x - y + 1 + s + 8 * (n * w)
  /\ w = 1 <=> jpll(f) * r + x - y + 1 + s < 2
  /\ w = 1 => r = n

LEMMA NorthFace ==
  ASSUME NEW n, NEW f, NEW x, NEW y, NEW ring, NEW r, NEW p, NEW w,
         PlaceAt(n, f, x, y, ring, r, 0, p, w), ring < n, r = ring, r >= 1
  PROVE  (p - 1) \div r = f
<1>1. /\ n \in Nat /\ n >= 1 /\ f \in 0 .. 11 /\ x \in Int /\ 0 <= x /\ x <= n - 1
      /\ y \in Int /\ 0 <= y /\ y <= n - 1 /\ ring \in Int /\ r \in Int /\ r >= 1 /\ r = ring /\ r < n
      /\ ring = jrll(f) * n - x - y - 1 /\ w \in 0 .. 1 /\ (w = 1 => r = n) /\ p \in Int
      /\ 2 * p = jpll(f) * r + x - y + 1 + 0 + 8 * (n * w)
  BY DEF PlaceAt
<1>2. f \in 0 .. 3
  <2>1. ASSUME jrll(f) = 3 \/ jrll(f) = 4
        PROVE  FALSE
    BY <1>1, <2>1
  <2> QED
    BY <1>1, <2>1, Rows
<1>3. jrll(f) = 2 /\ jpll(f) = 2 * f + 1 /\ w = 0 /\ f \in Int
  BY <1>1, <1>2, Rows
<1> DEFINE h == r * f
<1>4. h \in Int /\ (2 * f + 1) * r = 2 * h + r /\ 8 * (n * 0) = 0
  BY <1>1, <1>3
<1>5. 2 * p = 2 * h + r + x - y + 1
  <2>1. 2 * p = (2 * f + 1) * r + x - y + 1 + 0 + 8 * (n * 0)
    BY <1>1, <1>3
  <2> HIDE DEF h
  <2> QED
    BY <1>1, <1>4, <2>1
<1> HIDE DEF h
<1>6. p - 1 = h + (n - 1 - y) /\ n - 1 - y \in 0 .. r - 1
  BY <1>1, <1>3, <1>4, <1>5
<1> DEFINE a == p - 1
           e == n - 1 - y
<1>7. a = r * f + e /\ e \in 0 .. r - 1 /\ a \in Int /\ r \in Nat \ {0} /\ f \in Int
  BY <1>1, <1>3, <1>6 DEF h
<1> HIDE DEF a, e
<1>8. a \div r = f
  BY <1>7, Division
<1> QED
  BY <1>8 DEF a

LEMMA SouthFace ==
  ASSUME NEW n, NEW f, NEW x, NEW y, NEW ring, NEW r, NEW p, NEW w,
         PlaceAt(n, f, x, y, ring, r, 0, p, w), 3 * n < ring, r = 4 * n - ring, r >= 1
  PROVE  8 + (p - 1) \div r = f
<1>1. /\ n \in Nat /\ n >= 1 /\ f \in 0 .. 11 /\ x \in Int /\ 0 <= x /\ x <= n - 1
      /\ y \in Int /\ 0 <= y /\ y <= n - 1 /\ ring \in Int /\ r \in Int /\ r >= 1 /\ r = 4 * n - ring
      /\ 3 * n < ring
      /\ ring = jrll(f) * n - x - y - 1 /\ w \in 0 .. 1 /\ (w = 1 => r = n) /\ p \in Int
      /\ 2 * p = jpll(f) * r + x - y + 1 + 0 + 8 * (n * w)
  BY DEF PlaceAt
<1>2. f \in 8 .. 11
  <2>1. ASSUME jrll(f) = 2 \/ jrll(f) = 3
        PROVE  FALSE
    BY <1>1, <2>1
  <2> QED
    BY <1>1, <2>1, Rows
<1> DEFINE k == f - 8
<1>3. jrll(f) = 4 /\ jpll(f) = 2 * k + 1 /\ w = 0 /\ k \in Int
  BY <1>1, <1>2, Rows
<1> DEFINE h == r * k
<1> HIDE DEF k
<1>4. h \in Int /\ (2 * k + 1) * r = 2 * h + r /\ 8 * (n * 0) = 0
  BY <1>1, <1>3
<1>5. 2 * p = 2 * h + r + x - y + 1
  <2>1. 2 * p = (2 * k + 1) * r + x - y + 1 + 0 + 8 * (n * 0)
    BY <1>1, <1>3
  <2> HIDE DEF h
  <2> QED
    BY <1>1, <1>4, <2>1
<1> HIDE DEF h
<1>6. p - 1 = h + x /\ x \in 0 .. r - 1
  BY <1>1, <1>3, <1>4, <1>5
<1> DEFINE a == p - 1
<1>7. a = r * k + x /\ x \in 0 .. r - 1 /\ a \in Int /\ r \in Nat \ {0} /\ k \in Int
  BY <1>1, <1>3, <1>6 DEF h
<1> HIDE DEF a
<1>8. a \div r = k
  BY <1>7, Division
<1> QED
  BY <1>1, <1>2, <1>8 DEF a, k

LEMMA BeltFace ==
  ASSUME NEW n, NEW f, NEW x, NEW y, NEW ring, NEW s, NEW t, NEW p, NEW w,
         PlaceAt(n, f, x, y, ring, n, s, p, w), s \in 0 .. 1, t \in Int, ring - n = 2 * t + s
  PROVE  equatorialFace((p - 1 + t) \div n, (p - 1 - s + n - t) \div n) = f
<1>1. /\ n \in Nat \ {0} /\ n \in Int /\ f \in 0 .. 11 /\ f \in Int
      /\ x \in 0 .. n - 1 /\ x \in Int /\ 0 <= x /\ x <= n - 1
      /\ y \in 0 .. n - 1 /\ y \in Int /\ 0 <= y /\ y <= n - 1
      /\ ring \in Int /\ s \in Int /\ t \in Int /\ ring - n = 2 * t + s
      /\ ring = jrll(f) * n - x - y - 1 /\ w \in 0 .. 1 /\ w \in Int /\ p \in Int
      /\ 2 * p = jpll(f) * n + x - y + 1 + s + 8 * (n * w)
      /\ (w = 1 <=> jpll(f) * n + x - y + 1 + s < 2) /\ s >= 0
  BY DEF PlaceAt
<1>2. \E k \in Int :
        \/ f = k /\ jrll(f) = 2 /\ jpll(f) = 2 * k + 1 /\ k >= 0
        \/ f = k + 4 /\ jrll(f) = 3 /\ jpll(f) = 2 * k /\ k \in 0 .. 3
        \/ f = k + 8 /\ jrll(f) = 4 /\ jpll(f) = 2 * k + 1 /\ k >= 0
  <2>1. CASE f \in 0 .. 3
    BY <1>1, <2>1, Rows
  <2>2. CASE f \in 4 .. 7
    <3>1. f - 4 \in Int /\ f = (f - 4) + 4 /\ f - 4 \in 0 .. 3
      BY <2>2
    <3>2. jrll(f) = 3 /\ jpll(f) = 2 * (f - 4)
      BY <1>1, <2>2, Rows
    <3> QED
      BY <3>1, <3>2
  <2>3. CASE f \in 8 .. 11
    <3>1. f - 8 \in Int /\ f = (f - 8) + 8 /\ f - 8 >= 0
      BY <2>3
    <3>2. jrll(f) = 4 /\ jpll(f) = 2 * (f - 8) + 1
      BY <1>1, <2>3, Rows
    <3> QED
      BY <3>1, <3>2
  <2> QED
    BY <1>1, <2>1, <2>2, <2>3
<1>3. PICK k \in Int :
        \/ f = k /\ jrll(f) = 2 /\ jpll(f) = 2 * k + 1 /\ k >= 0
        \/ f = k + 4 /\ jrll(f) = 3 /\ jpll(f) = 2 * k /\ k \in 0 .. 3
        \/ f = k + 8 /\ jrll(f) = 4 /\ jpll(f) = 2 * k + 1 /\ k >= 0
  BY <1>2
<1> DEFINE h == n * k
           v == n * w
           jp == p - 1 + t
           jm == p - 1 - s + n - t
<1>4. h \in Int /\ v \in Int /\ (2 * k + 1) * n = 2 * h + n /\ (2 * k) * n = 2 * h
      /\ (k >= 0 => h >= 0)
  BY <1>1
\* A face that is not equatorial is not taken around.
<1>5. ASSUME k >= 0, jpll(f) = 2 * k + 1
      PROVE  w = 0
  <2>1. 2 * h + n + x - y + 1 + s >= 2
    <3> HIDE DEF h
    <3> QED
      BY <1>1, <1>4, <1>5
  <2>2. jpll(f) * n = 2 * h + n
    BY <1>4, <1>5
  <2> HIDE DEF h
  <2>3. ~ (jpll(f) * n + x - y + 1 + s < 2)
    BY <1>1, <1>4, <2>1, <2>2
  <2> QED
    BY <1>1, <2>3
<1>6. jp \in Int /\ jm \in Int
  BY <1>1
\* The faces that the edge lines belong to.
<1>7. ASSUME NEW i \in Int, NEW j \in Int, jp = n * i + (n - y - 1), jm = n * j + x
      PROVE  jp \div n = i /\ jm \div n = j
  <2>1. n - y - 1 \in 0 .. n - 1
    BY <1>1
  <2> DEFINE z == n - y - 1
  <2> HIDE DEF jp, jm, z
  <2>2. jp \div n = i
    BY <1>1, <1>6, <1>7, <2>1, Division DEF z
  <2>3. jm \div n = j
    BY <1>1, <1>6, <1>7, <2>1, Division
  <2> QED
    BY <2>2, <2>3
<1> HIDE DEF h, v
<1>8. CASE f = k /\ jrll(f) = 2 /\ jpll(f) = 2 * k + 1 /\ k >= 0
  <2>1. w = 0 /\ v = 0
    BY <1>1, <1>5, <1>8 DEF v
  <2>2. 2 * p = 2 * h + n + x - y + 1 + s /\ 2 * t = n - x - y - 1 - s
    BY <1>1, <1>4, <1>8, <2>1 DEF v
  <2>3. jp = h + (n - y - 1) /\ jm = h + n + x
    BY <1>1, <1>4, <2>2
  <2>4. jp = n * k + (n - y - 1) /\ jm = n * (k + 1) + x /\ k + 1 \in Int
    BY <1>1, <1>4, <2>3 DEF h
  <2>5. jp \div n = k /\ jm \div n = k + 1
    <3> HIDE DEF jp, jm
    <3> QED
      BY <1>7, <2>4
  <2>6. equatorialFace(k, k + 1) = k
    BY DEF equatorialFace
  <2> QED
    BY <1>8, <2>5, <2>6
<1>9. CASE f = k + 4 /\ jrll(f) = 3 /\ jpll(f) = 2 * k /\ k \in 0 .. 3
  <2>1. 2 * p = 2 * h + x - y + 1 + s + 8 * v /\ 2 * t = 2 * n - x - y - 1 - s
    BY <1>1, <1>4, <1>9 DEF v
  <2>2. jp = h + 4 * v + (n - y - 1) /\ jm = h + 4 * v + x
    BY <1>1, <1>4, <2>1
  <2> DEFINE i == k + 4 * w
  <2>3. n * i = h + 4 * v /\ i \in Int
    BY <1>1 DEF h, v
  <2>4. jp \div n = i /\ jm \div n = i
    <3>1. jp = n * i + (n - y - 1) /\ jm = n * i + x
      BY <2>2, <2>3
    <3> HIDE DEF jp, jm, i
    <3> QED
      BY <1>7, <2>3, <3>1
  <2>5. i % 4 = k
    BY <1>1, <1>9
  <2> HIDE DEF jp, jm, i
  <2>6. equatorialFace(i, i) = k + 4
    BY <2>5 DEF equatorialFace
  <2> QED
    BY <1>9, <2>4, <2>6 DEF jp, jm
<1>10. CASE f = k + 8 /\ jrll(f) = 4 /\ jpll(f) = 2 * k + 1 /\ k >= 0
  <2>1. w = 0 /\ v = 0
    BY <1>1, <1>5, <1>10 DEF v
  <2>2. 2 * p = 2 * h + n + x - y + 1 + s /\ 2 * t = 3 * n - x - y - 1 - s
    BY <1>1, <1>4, <1>10, <2>1 DEF v
  <2>3. jp = h + n + (n - y - 1) /\ jm = h + x
    BY <1>1, <1>4, <2>2
  <2>4. jp = n * (k + 1) + (n - y - 1) /\ jm = n * k + x /\ k + 1 \in Int
    BY <1>1, <1>4, <2>3 DEF h
  <2>5. jp \div n = k + 1 /\ jm \div n = k
    <3> HIDE DEF jp, jm
    <3> QED
      BY <1>7, <2>4
  <2>6. equatorialFace(k + 1, k) = k + 8
    BY DEF equatorialFace
  <2> QED
    BY <1>10, <2>5, <2>6
<1> QED
  BY <1>3, <1>8, <1>9, <1>10

\* xyf2ring numbers a place, and ring2xyf takes it back.
LEMMA PlaceAgain ==
  ASSUME NEW b, b.nside \in Nat \ {0}, NEW at \in Places(b)
  PROVE  ring2xyf(b, xyf2ring(b, at)) = at
<1> DEFINE n == b.nside
           num == xyf2ring(b, at)
           c == InRing(b, num)
           f == at.face
           x == at.ix
           y == at.iy
           ring == RowOf(b, at)
           r == Quarter(b, ring)
           s == Shift(b, ring)
           p == c.iphi
           w == IF Twice(b, at) < 2 THEN 1 ELSE 0
           found == ring2xyf(b, num)
<1>1. num \in Pixels(b) /\ c.iring = ring /\ p = num - FirstOf(b, ring) + 1
  BY NumberOfPlace
<1>2. /\ ring \in 1 .. 4 * n - 1 /\ p \in 1 .. 4 * r
      /\ Twice(b, at) \in Int /\ (Twice(b, at) < 2 => r = n)
      /\ 2 * p = Twice(b, at) + (IF Twice(b, at) < 2 THEN 8 * n ELSE 0)
  BY <1>1, PlaceRing
<1>3. /\ c.nr = r /\ c.kshift = s
      /\ num < ncap(b) <=> ring < n
      /\ num < npix(b) - ncap(b) <=> ring <= 3 * n
  BY <1>1, RingNumber
<1>4. /\ r \in 1 .. n /\ s \in 0 .. 1
      /\ ring <= n => r = ring
      /\ n <= ring /\ ring <= 3 * n => r = n /\ s = (ring + n) % 2
      /\ 3 * n <= ring => r = 4 * n - ring
      /\ ring < n \/ 3 * n < ring => s = 0
  BY <1>2, Quarters
<1>5. f \in 0 .. 11 /\ x \in 0 .. n - 1 /\ y \in 0 .. n - 1 /\ at = [ face |-> f, ix |-> x, iy |-> y ]
  BY DEF Places
<1>6. Twice(b, at) = jpll(f) * r + x - y + 1 + s /\ ring = jrll(f) * n - x - y - 1
  BY DEF Twice, RowOf
<1>7. ring \in Int /\ n \in Nat \ {0} /\ r \in Int /\ s \in Int /\ p \in Int
  <2> HIDE DEF ring, r, s, p
  <2>1. n \in Nat \ {0}
    OBVIOUS
  <2> HIDE DEF n
  <2> QED
    BY <1>2, <1>4, <2>1
<1>8. ncap(b) <= npix(b) - ncap(b) /\ ncap(b) \in Nat /\ npix(b) \in Nat /\ num \in Nat
  BY <1>1, Borders DEF Pixels
<1> HIDE DEF f, x, y, ring, r, s, p, n, num, c
<1>9. PlaceAt(n, f, x, y, ring, r, s, p, w)
  <2> DEFINE all == jpll(f) * r + x - y + 1 + s
  <2>1. Twice(b, at) = all
    BY <1>6
  <2>2. 8 * (n * 1) = 8 * n /\ 8 * (n * 0) = 0
    BY <1>7
  <2> HIDE DEF all
  <2>3. CASE all < 2
    <3>1. w = 1 /\ 2 * p = all + 8 * (n * w) /\ r = n
      BY <1>2, <2>1, <2>2, <2>3
    <3> QED
      BY <1>5, <1>6, <1>7, <2>3, <3>1 DEF PlaceAt, all
  <2>4. CASE ~ (all < 2)
    <3>1. w = 0 /\ 2 * p = all + 8 * (n * w)
      BY <1>2, <2>1, <2>2, <2>4
    <3> HIDE DEF w
    <3>2. w \in 0 .. 1 /\ w # 1
      BY <3>1
    <3> QED
      BY <1>5, <1>6, <1>7, <2>4, <3>1, <3>2 DEF PlaceAt, all
  <2> QED
    BY <2>3, <2>4
<1> HIDE DEF w
<1>10. c.face = f
  <2>1. CASE ring < n
    <3>1. r = ring /\ s = 0 /\ r >= 1 /\ num < ncap(b)
      BY <1>3, <1>4, <1>7, <2>1
    <3>2. c = NorthPolarCap(b, num)
      BY <3>1 DEF InRing, c
    <3>3. c.face = (p - 1) \div c.iring
      BY <3>2 DEF NorthPolarCap, p
    <3> QED
      BY <1>1, <1>9, <2>1, <3>1, <3>3, NorthFace DEF c, num, ring
  <2>2. CASE 3 * n < ring
    <3>1. r = 4 * n - ring /\ s = 0 /\ r >= 1
      BY <1>4, <1>7, <2>2
    <3>2. ~ (num < ncap(b)) /\ ~ (num < npix(b) - ncap(b))
      BY <1>3, <1>7, <1>8, <2>2
    <3>3. c = SouthPolarCap(b, num)
      BY <3>2 DEF InRing, c
    <3>4. c.face = 8 + (p - 1) \div c.nr
      BY <3>3 DEF SouthPolarCap, p
    <3> QED
      BY <1>3, <1>9, <2>2, <3>1, <3>4, SouthFace
  <2>3. CASE ~ (ring < n) /\ ~ (3 * n < ring)
    <3> DEFINE t == (ring - n) \div 2
               ire == ring - n + 1
               irm == 2 * n + 2 - ire
    <3>1. r = n /\ s = (ring + n) % 2 /\ ~ (num < ncap(b)) /\ num < npix(b) - ncap(b)
      BY <1>3, <1>4, <1>7, <2>3
    <3>2. c = EquatorialRegion(b, num)
      BY <3>1 DEF InRing, c
    <3>3. f \in 0 .. 11 /\ c.iring = ring
      BY <1>1, <1>5 DEF c, num, ring
    <3>4. c.face = equatorialFace((p - irm \div 2 + n - 1) \div n, (p - ire \div 2 + n - 1) \div n)
      BY <3>2, <3>3 DEF EquatorialRegion, n, p
    <3>5. t \in Int /\ ring - n = 2 * t + s /\ s \in 0 .. 1
      <4>1. (ring + n) % 2 = (ring - n) % 2
        BY <1>7
      <4> QED
        BY <1>4, <1>7, <3>1, <4>1
    <3> HIDE DEF t
    <3>6. p - irm \div 2 + n - 1 = p - 1 + t /\ p - ire \div 2 + n - 1 = p - 1 - s + n - t
      BY <1>7, <3>5
    <3>7. equatorialFace((p - 1 + t) \div n, (p - 1 - s + n - t) \div n) = f
      BY <1>9, <3>1, <3>5, BeltFace
    <3> QED
      BY <3>4, <3>6, <3>7
  <2> QED
    BY <2>1, <2>2, <2>3
<1>11. /\ found = [ face |-> c.face, ix |-> found.ix, iy |-> found.iy ]
       /\ found.ix \in 0 .. n - 1 /\ found.iy \in 0 .. n - 1
       /\ found.ix + found.iy = Depth(b, c.face, c) /\ found.ix - found.iy = Column(b, c.face, c)
  BY <1>1, RingFace DEF c, num, n
<1>12. Depth(b, f, c) = x + y
  <2> DEFINE q == jrll(f) * n
  <2>1. Depth(b, f, c) = q - ring - 1
    BY <1>1 DEF Depth, n, c, num, ring
  <2>2. q \in Int
    BY <1>5, <1>7, Rows
  <2> HIDE DEF q
  <2> QED
    BY <1>5, <1>6, <1>7, <2>1, <2>2 DEF q
<1>13. Column(b, f, c) = x - y
  <2> DEFINE q == jpll(f) * r
             all == 2 * p - q - s - 1
             v == n * w
  <2>1. q \in Int
    BY <1>5, <1>7, Rows
  <2>2. /\ x \in Int /\ y \in Int /\ 0 <= x /\ x <= n - 1 /\ 0 <= y /\ y <= n - 1 /\ w \in 0 .. 1
        /\ 2 * p = q + x - y + 1 + s + 8 * v
    BY <1>9 DEF PlaceAt
  <2>3. v = 0 \/ v = n
    BY <1>7, <2>2
  <2>4. Column(b, f, c) = IF all >= 2 * n THEN all - 8 * n ELSE all
    BY <1>3 DEF Column, p, n
  <2> HIDE DEF q, v, all
  <2>5. all = x - y + 8 * v
    BY <1>7, <2>1, <2>2, <2>3 DEF all
  <2> QED
    BY <1>7, <2>2, <2>3, <2>4, <2>5
<1> HIDE DEF found
<1>14. found.ix = x /\ found.iy = y
  BY <1>5, <1>7, <1>10, <1>11, <1>12, <1>13
<1>15. found = at
  BY <1>5, <1>10, <1>11, <1>14
<1> QED
  BY <1>15 DEF found, num

LEMMA Located ==
  ASSUME NEW b, IsBase(b), NEW num \in Pixels(b)
  PROVE  loc2pix(b, pix2loc(b, num)) = num
<1> DEFINE ring == pix2ring(b, num)
           ringpix == IF b.scheme = "RING" THEN num ELSE nest2ring(b, num)
           p == InRing(b, ringpix).iphi
<1>1. /\ b.nside \in Nat \ {0} /\ b.scheme \in { "RING", "NEST" }
      /\ (b.scheme = "NEST" => Hierarchical(b))
  BY DEF IsBase
<1>2. /\ ringpix \in Pixels(b) /\ ring \in 1 .. 4 * b.nside - 1
      /\ InRing(b, ringpix).iring = ring /\ p \in 1 .. 4 * Quarter(b, ring)
      /\ pix2loc(b, num) = Spot(b, ring, p)
  BY HeldInRing
<1>3. CASE b.scheme = "RING"
  <2>1. ringpix = num
    BY <1>3
  <2> HIDE DEF ring, ringpix
  <2>2. loc2pix(b, Spot(b, ring, p)) = FirstOf(b, ring) + p - 1
    BY <1>1, <1>2, <1>3, LocatedRing
  <2>3. p = num - FirstOf(b, ring) + 1
    BY <1>1, <1>2, <2>1, RingNumber
  <2>4. FirstOf(b, ring) \in Nat /\ num \in Int
    BY <1>1, <1>2, RingsTouch, Borders DEF Pixels
  <2> HIDE DEF p
  <2> QED
    BY <1>2, <2>2, <2>3, <2>4
<1>4. CASE b.scheme = "NEST"
  <2> DEFINE at == nest2xyf(b, num)
  <2>1. ringpix = xyf2ring(b, at)
    BY <1>4 DEF nest2ring
  <2>2. at \in Places(b) /\ xyf2nest(b, at) = num
    BY <1>1, <1>4, NestPlace, NestNumber
  <2> HIDE DEF ring, ringpix, at
  <2>3. loc2pix(b, Spot(b, ring, p)) = xyf2nest(b, ring2xyf(b, ringpix))
    BY <1>1, <1>2, <1>4, LocatedNest
  <2>4. ring2xyf(b, ringpix) = at
    BY <1>1, <2>1, <2>2, PlaceAgain
  <2> QED
    BY <1>2, <2>2, <2>3, <2>4
<1> QED
  BY <1>1, <1>3, <1>4

\* LocatedBack, for every base and every number of calls: loc2pix is the inverse of
\* pix2loc in both numberings, xyf2ring meets its assertion at every place, and
\* npix2nside and nside2order are inverse to the constructors.
THEOREM LocatedBackAlways == Spec => []LocatedBack
<1>1. WalkInv => LocatedBack
  <2>1. SUFFICES ASSUME WalkInv
                 PROVE  LocatedBack
    OBVIOUS
  <2> DEFINE n == base.nside
  <2>2. /\ IsBase(base) /\ pix \in Pixels(base) /\ n \in Nat \ {0}
        /\ (base.scheme = "NEST" => Hierarchical(base)) /\ base.order = nside2order(n)
    BY <2>1 DEF WalkInv, IsBase
  <2>3. \A loc \in { pix2loc(base, pix) } : loc2pix(base, loc) = pix
    BY <2>2, Located
  <2>4. ASSUME NEW at \in Places(base)
        PROVE  /\ xyf2ringAssert(base, at)
               /\ base.scheme = "NEST" =>
                    LET loc == pix2loc(base, xyf2nest(base, at)) IN loc.phi < 4 * loc.den
    <3>1. xyf2ringAssert(base, at)
      BY <2>2, PlaceRing
    <3>2. ASSUME base.scheme = "NEST"
          PROVE  LET loc == pix2loc(base, xyf2nest(base, at)) IN loc.phi < 4 * loc.den
      <4> DEFINE num == xyf2nest(base, at)
                 ring == pix2ring(base, num)
                 p == InRing(base, nest2ring(base, num)).iphi
                 q == Quarter(base, ring)
                 s == Shift(base, ring)
                 loc == pix2loc(base, num)
      <4>1. num \in Pixels(base)
        BY <2>2, <3>2, PlaceNest
      <4> HIDE DEF num
      <4>2. ring \in 1 .. 4 * n - 1 /\ p \in 1 .. 4 * q /\ loc = Spot(base, ring, p)
        BY <2>2, <3>2, <4>1, HeldInRing
      <4> HIDE DEF ring, p, loc
      <4>3. q \in 1 .. n /\ s \in 0 .. 1
        BY <2>2, <4>2, Quarters
      <4>4. loc.phi = 2 * p - 1 - s /\ loc.den = 2 * q
        BY <4>2 DEF Spot
      <4> HIDE DEF q, s, n
      <4>5. loc.phi < 4 * loc.den
        BY <2>2, <4>2, <4>3, <4>4
      <4> QED
        BY <4>5 DEF loc, num
    <3> QED
      BY <3>1, <3>2
  <2>5. npix2nsideAssert(npix(base)) /\ npix2nside(npix(base)) = n
    <3>1. npix(base) = 12 * (n * n) /\ n * n \in Nat
      BY <2>2 DEF npix, npface
    <3>2. npix(base) \div 12 = n * n
      <4> DEFINE N == n * n
      <4> HIDE DEF N
      <4>1. N \in Nat
        BY <3>1 DEF N
      <4>2. (12 * N) \div 12 = N
        BY <4>1
      <4> QED
        BY <3>1, <4>2 DEF N
    <3>3. npix2nside(npix(base)) = n
      BY <2>2, <3>2, RootOfSquare DEF npix2nside
    <3>4. npix(base) = n * n * 12
      BY <2>2, <3>1
    <3> QED
      BY <3>3, <3>4 DEF npix2nsideAssert
  <2> QED
    BY <2>2, <2>3, <2>4, <2>5 DEF LocatedBack
<1> QED
  BY <1>1, WalkTyped, PTL

----------------------------------------------------------------------------
(* Corners of pixels.                                                      *)

\* The face east of one of the same kind, and the faces below a northern or an
\* equatorial one, across its edges in the south-west and the south-east.
East(f)      == IF f \in { 3, 7, 11 } THEN f - 3 ELSE f + 1
SouthWest(f) == IF f <= 3 THEN f + 4 ELSE IF f = 4 THEN 11 ELSE f + 3
SouthEast(f) == IF f <= 2 THEN f + 5 ELSE IF f = 3 THEN 4 ELSE f + 4

\* The way from face f to face g: across an edge between the caps and the equator, or
\* between two faces of a cap ...
Way(f, g) ==
  IF f = g THEN "same"
  ELSE IF f <= 7 /\ g = SouthWest(f) THEN "SW"
  ELSE IF f <= 7 /\ g = SouthEast(f) THEN "SE"
  ELSE IF g <= 7 /\ f = SouthWest(g) THEN "NE"
  ELSE IF g <= 7 /\ f = SouthEast(g) THEN "NW"
  ELSE IF f <= 3 /\ g = East(f) THEN "capE"
  ELSE IF f <= 3 /\ f = East(g) THEN "capW"
  ELSE IF f >= 8 /\ g = East(f) THEN "footE"
  ELSE IF f >= 8 /\ f = East(g) THEN "footW"
  \* ... or through a corner.
  ELSE IF g = East(f) THEN "E"
  ELSE IF f = East(g) THEN "W"
  ELSE IF g = f + 8 THEN "S"
  ELSE IF f = g + 8 THEN "N"
  ELSE IF f <= 3 /\ g <= 3 THEN "pole"
  ELSE IF f >= 8 /\ g >= 8 THEN "foot"
  ELSE "none"

Ways == { "same", "SW", "SE", "NE", "NW", "capE", "capW", "footE",
          "footW", "E", "W", "S", "N", "pole", "foot" }

\* The corner x, y of one face is the corner u, v of the other.
MeetsBy(way, n, x, y, u, v) ==
  \/ way = "same" /\ x = u /\ y = v
  \/ way = "SW" /\ x = 0 /\ u = n /\ v = y
  \/ way = "SE" /\ y = 0 /\ v = n /\ u = x
  \/ way = "NE" /\ x = n /\ u = 0 /\ v = y
  \/ way = "NW" /\ y = n /\ v = 0 /\ u = x
  \/ way = "capE" /\ x = n /\ v = n /\ u = y
  \/ way = "capW" /\ y = n /\ u = n /\ v = x
  \/ way = "footE" /\ y = 0 /\ u = 0 /\ v = x
  \/ way = "footW" /\ x = 0 /\ v = 0 /\ u = y
  \/ way = "E" /\ x = n /\ y = 0 /\ u = 0 /\ v = n
  \/ way = "W" /\ x = 0 /\ y = n /\ u = n /\ v = 0
  \/ way = "S" /\ x = 0 /\ y = 0 /\ u = n /\ v = n
  \/ way = "N" /\ x = n /\ y = n /\ u = 0 /\ v = 0
  \/ way = "pole" /\ x = n /\ y = n /\ u = n /\ v = n
  \/ way = "foot" /\ x = 0 /\ y = 0 /\ u = 0 /\ v = 0

Meets(n, f, x, y, g, u, v) == MeetsBy(Way(f, g), n, x, y, u, v)

CornerRow(n, f, x, y) == jrll(f) * n - x - y
CornerWidth(n, row) == Smaller(n, Smaller(row, 4 * n - row))

\* How wide a quarter of a corner's row is, and where in it the corner may be.
LEMMA CornerRows ==
  ASSUME NEW n \in Nat \ {0}, NEW f \in 0 .. 11, NEW x \in 0 .. n, NEW y \in 0 .. n
  PROVE  LET row == CornerRow(n, f, x, y)
             nr == CornerWidth(n, row)
         IN  /\ f \in 0 .. 3 => row = 2 * n - x - y
             /\ f \in 4 .. 7 => row = 3 * n - x - y
             /\ f \in 8 .. 11 => row = 4 * n - x - y
             /\ row \in 0 .. 4 * n /\ nr \in 0 .. n
             /\ row <= n => nr = row
             /\ n <= row /\ row <= 3 * n => nr = n
             /\ 3 * n <= row => nr = 4 * n - row
             /\ -nr <= x - y /\ x - y <= nr
<1> DEFINE row == CornerRow(n, f, x, y)
           nr == CornerWidth(n, row)
<1>1. /\ f \in 0 .. 3 => row = 2 * n - x - y
      /\ f \in 4 .. 7 => row = 3 * n - x - y
      /\ f \in 8 .. 11 => row = 4 * n - x - y
  BY Rows DEF CornerRow
<1>2. f \in 0 .. 3 \/ f \in 4 .. 7 \/ f \in 8 .. 11
  OBVIOUS
<1> HIDE DEF row
<1>3. row \in 0 .. 4 * n
  BY <1>1, <1>2
<1>4. /\ nr \in 0 .. n
      /\ row <= n => nr = row
      /\ n <= row /\ row <= 3 * n => nr = n
      /\ 3 * n <= row => nr = 4 * n - row
  BY <1>3 DEF CornerWidth, Smaller
<1> HIDE DEF nr
<1>5. -nr <= x - y /\ x - y <= nr
  BY <1>1, <1>2, <1>3, <1>4
<1> QED
  BY <1>1, <1>3, <1>4, <1>5 DEF row, nr

\* Within two turns numbers are the same around the circle if they are equal or a
\* turn apart.
LEMMA AroundTheCircle ==
  ASSUME NEW w \in Nat \ {0}, NEW a \in Int, NEW c \in Int, a - c < 2 * w, c - a < 2 * w
  PROVE  a % w = c % w <=> a = c \/ a = c + w \/ c = a + w
<1>1. /\ a \div w \in Int /\ a % w \in 0 .. w - 1 /\ a = w * (a \div w) + (a % w)
      /\ c \div w \in Int /\ c % w \in 0 .. w - 1 /\ c = w * (c \div w) + (c % w)
  BY Divided
<1>2. ASSUME a % w = c % w
      PROVE  a = c \/ a = c + w \/ c = a + w
  <2> DEFINE k == (a \div w) - (c \div w)
  <2>1. k \in Int /\ a - c = w * k
    BY <1>1, <1>2
  <2> HIDE DEF k
  <2>2. k >= 2 => w * k >= 2 * w
    BY <2>1
  <2>3. k <= -2 => w * k <= -(2 * w)
    BY <2>1
  <2>4. k = -1 \/ k = 0 \/ k = 1
    BY <2>1, <2>2, <2>3
  <2> QED
    BY <2>1, <2>4
<1>3. ASSUME a = c + w
      PROVE  a % w = c % w
  <2>1. a = w * ((c \div w) + 1) + (c % w) /\ (c \div w) + 1 \in Int
    BY <1>1, <1>3
  <2> QED
    BY <1>1, <2>1, Division
<1>4. ASSUME c = a + w
      PROVE  a % w = c % w
  <2>1. c = w * ((a \div w) + 1) + (a % w) /\ (a \div w) + 1 \in Int
    BY <1>1, <1>4
  <2> QED
    BY <1>1, <2>1, Division
<1> QED
  BY <1>2, <1>3, <1>4

LEMMA SameCornerBelow ==
  ASSUME NEW b, b.nside \in Nat \ {0}, NEW f \in 0 .. 11, NEW g \in 0 .. 11, f <= g,
         NEW x \in 0 .. b.nside, NEW y \in 0 .. b.nside,
         NEW u \in 0 .. b.nside, NEW v \in 0 .. b.nside
  PROVE  corner(b, f, x, y) = corner(b, g, u, v) <=> Meets(b.nside, f, x, y, g, u, v)
<1> DEFINE n == b.nside
           row == CornerRow(n, f, x, y)
           to == CornerRow(n, g, u, v)
           nr == CornerWidth(n, row)
           mr == CornerWidth(n, to)
           c == jpll(f) * nr + x - y
           d == jpll(g) * mr + u - v
           k == jpll(f) - jpll(g)
<1>1. /\ corner(b, f, x, y) = [ ring |-> row, phi |-> IF nr = 0 THEN 0 ELSE c % (8 * nr) ]
      /\ corner(b, g, u, v) = [ ring |-> to, phi |-> IF mr = 0 THEN 0 ELSE d % (8 * mr) ]
  BY DEF corner, CornerRow, CornerWidth
<1>2. /\ f \in 0 .. 3 => row = 2 * n - x - y
      /\ f \in 4 .. 7 => row = 3 * n - x - y
      /\ f \in 8 .. 11 => row = 4 * n - x - y
      /\ row \in 0 .. 4 * n /\ nr \in 0 .. n
      /\ row <= n => nr = row
      /\ n <= row /\ row <= 3 * n => nr = n
      /\ 3 * n <= row => nr = 4 * n - row
      /\ -nr <= x - y /\ x - y <= nr
  BY CornerRows
<1>3. /\ g \in 0 .. 3 => to = 2 * n - u - v
      /\ g \in 4 .. 7 => to = 3 * n - u - v
      /\ g \in 8 .. 11 => to = 4 * n - u - v
      /\ to \in 0 .. 4 * n /\ mr \in 0 .. n
      /\ to <= n => mr = to
      /\ n <= to /\ to <= 3 * n => mr = n
      /\ 3 * n <= to => mr = 4 * n - to
      /\ -mr <= u - v /\ u - v <= mr
  BY CornerRows
<1> HIDE DEF row, to
<1>10. to = row => mr = nr
  OBVIOUS
<1>4. /\ jpll(f) \in 0 .. 7 /\ jpll(g) \in 0 .. 7 /\ k \in -7 .. 7
      /\ f \in 0 .. 3 => jpll(f) = 2 * f + 1
      /\ f \in 4 .. 7 => jpll(f) = 2 * f - 8
      /\ f \in 8 .. 11 => jpll(f) = 2 * f - 15
      /\ g \in 0 .. 3 => jpll(g) = 2 * g + 1
      /\ g \in 4 .. 7 => jpll(g) = 2 * g - 8
      /\ g \in 8 .. 11 => jpll(g) = 2 * g - 15
  BY Rows
<1>5. n \in Nat \ {0} /\ x \in 0 .. n /\ y \in 0 .. n /\ u \in 0 .. n /\ v \in 0 .. n
  OBVIOUS
<1> HIDE DEF nr, mr
<1>6. ASSUME row = to, nr # 0
      PROVE  c % (8 * nr) = d % (8 * nr)
               <=> k * nr + x - y - u + v \in { 0, 8 * nr, -(8 * nr) }
  <2>1. mr = nr
    BY <1>10, <1>6
  <2>2. c \in Int /\ d \in Int /\ c - d = k * nr + x - y - u + v
    BY <1>2, <1>4, <2>1
  <2> HIDE DEF c, d, k
  <2>3. -(7 * nr) <= k * nr /\ k * nr <= 7 * nr /\ k * nr \in Int
    <3>1. nr \in Nat /\ k \in Int /\ 7 - k >= 0 /\ 7 + k >= 0
      BY <1>2, <1>4
    <3>2. (7 - k) * nr >= 0 /\ (7 + k) * nr >= 0
      BY <3>1
    <3>3. (7 - k) * nr = 7 * nr - k * nr /\ (7 + k) * nr = 7 * nr + k * nr /\ k * nr \in Int
      BY <3>1
    <3> QED
      BY <3>1, <3>2, <3>3
  <2>6. nr \in Nat /\ nr # 0 /\ 8 * nr \in Nat \ {0}
    BY <1>2, <1>5, <1>6
  <2>7. x - y \in Int /\ u - v \in Int /\ -nr <= x - y /\ x - y <= nr /\ -nr <= u - v /\ u - v <= nr
    BY <1>2, <1>3, <1>5, <2>1
  <2> DEFINE p == k * nr
             s == x - y
             t == u - v
  <2>8. c - d = p + s - t
    BY <1>5, <2>2, <2>3
  <2>4. c - d < 2 * (8 * nr) /\ d - c < 2 * (8 * nr)
    <3> HIDE DEF p, s, t
    <3> QED
      BY <2>2, <2>3, <2>6, <2>7, <2>8 DEF p, s, t
  <2>5. c % (8 * nr) = d % (8 * nr) <=> c = d \/ c = d + 8 * nr \/ d = c + 8 * nr
    BY <2>2, <2>4, <2>6, AroundTheCircle
  <2> QED
    BY <2>2, <2>5, <2>6
<1>7. corner(b, f, x, y) = corner(b, g, u, v) <=>
        /\ row = to
        /\ nr # 0 => k * nr + x - y - u + v \in { 0, 8 * nr, -(8 * nr) }
  <2> HIDE DEF c, d, k
  <2>1. row = to => nr = mr
    BY <1>10
  <2> QED
    BY <1>1, <1>6, <2>1
<1> DEFINE p == k * nr
<1>8. /\ k = 6 => p = 6 * nr
      /\ k = 4 => p = 4 * nr
      /\ k = 2 => p = 2 * nr
      /\ k = 0 => p = 0
      /\ k = -2 => p = -(2 * nr)
      /\ k = -4 => p = -(4 * nr)
      /\ k = -6 => p = -(6 * nr)
  <2> HIDE DEF k
  <2>1. nr \in Int
    BY <1>2
  <2> QED
    BY <2>1
<1>19. /\ k = 7 => p = 7 * nr
       /\ k = 5 => p = 5 * nr
       /\ k = 3 => p = 3 * nr
       /\ k = 1 => p = nr
       /\ k = -1 => p = -nr
       /\ k = -3 => p = -(3 * nr)
       /\ k = -5 => p = -(5 * nr)
       /\ k = -7 => p = -(7 * nr)
  <2> HIDE DEF k
  <2>1. nr \in Int
    BY <1>2
  <2> QED
    BY <2>1
<1>9. p \in Int
  <2> HIDE DEF k
  <2> QED
    BY <1>2, <1>4
<1>11. corner(b, f, x, y) = corner(b, g, u, v) <=>
         row = to /\ (nr # 0 => \/ p + x - y - u + v = 0 \/ p + x - y - u + v = 8 * nr
                             \/ p + x - y - u + v = -(8 * nr))
  BY <1>7
<1> DEFINE same == row = to /\ (nr # 0 => \/ p + x - y - u + v = 0 \/ p + x - y - u + v = 8 * nr
                             \/ p + x - y - u + v = -(8 * nr))
<1>12. ASSUME f \in 0 .. 3, g \in 0 .. 3
       PROVE  same <=> Meets(n, f, x, y, g, u, v)
  <2>1. Meets(n, f, x, y, g, u, v) <=>
          \/ f = g /\ x = u /\ y = v
          \/ g = f + 1 /\ x = n /\ v = n /\ u = y
          \/ g = f + 3 /\ u = n /\ y = n /\ x = v
          \/ g = f + 2 /\ x = n /\ y = n /\ u = n /\ v = n
    BY <1>12 DEF Meets, MeetsBy, Way, East, SouthEast, SouthWest
  <2>2. \/ g = f /\ k = 0
        \/ g = f + 1 /\ k = -2
        \/ g = f + 2 /\ k = -4
        \/ g = f + 3 /\ k = -6
    BY <1>4, <1>12
  <2> HIDE DEF k, p
  <2>3. /\ row = 2 * n - x - y /\ to = 2 * n - u - v
        /\ nr \in Nat /\ nr <= n /\ row \in 0 .. 4 * n /\ p \in Int
        /\ row <= n => nr = row
        /\ n <= row /\ row <= 3 * n => nr = n
        /\ 3 * n <= row => nr = 4 * n - row
        /\ -nr <= x - y /\ x - y <= nr
        /\ to = row => -nr <= u - v /\ u - v <= nr
    BY <1>2, <1>3, <1>9, <1>10, <1>12
  <2>4. \/ g = f /\ p = 0
        \/ g = f + 1 /\ p = -(2 * nr)
        \/ g = f + 2 /\ p = -(4 * nr)
        \/ g = f + 3 /\ p = -(6 * nr)
    BY <1>8, <2>2, <2>3
  <2> HIDE DEF n
  <2> QED
    BY <1>5, <1>12, <2>1, <2>3, <2>4
<1>13. ASSUME f \in 0 .. 3, g \in 4 .. 7
       PROVE  same <=> Meets(n, f, x, y, g, u, v)
  <2>1. Meets(n, f, x, y, g, u, v) <=>
          \/ g = f + 4 /\ x = 0 /\ u = n /\ v = y
          \/ (g = f + 5 \/ g = f + 1) /\ y = 0 /\ v = n /\ u = x
    BY <1>13 DEF Meets, MeetsBy, Way, East, SouthEast, SouthWest
  <2>2. \/ g = f + 1 /\ k = 7
        \/ g = f + 2 /\ k = 5
        \/ g = f + 3 /\ k = 3
        \/ g = f + 4 /\ k = 1
        \/ g = f + 5 /\ k = -1
        \/ g = f + 6 /\ k = -3
        \/ g = f + 7 /\ k = -5
    BY <1>4, <1>13
  <2> HIDE DEF k, p
  <2>3. /\ row = 2 * n - x - y /\ to = 3 * n - u - v
        /\ nr \in Nat /\ nr <= n /\ row \in 0 .. 4 * n /\ p \in Int
        /\ row <= n => nr = row
        /\ n <= row /\ row <= 3 * n => nr = n
        /\ 3 * n <= row => nr = 4 * n - row
        /\ -nr <= x - y /\ x - y <= nr
        /\ to = row => -nr <= u - v /\ u - v <= nr
    BY <1>2, <1>3, <1>9, <1>10, <1>13
  <2>4. \/ g = f + 1 /\ p = 7 * nr
        \/ g = f + 2 /\ p = 5 * nr
        \/ g = f + 3 /\ p = 3 * nr
        \/ g = f + 4 /\ p = nr
        \/ g = f + 5 /\ p = -nr
        \/ g = f + 6 /\ p = -(3 * nr)
        \/ g = f + 7 /\ p = -(5 * nr)
    BY <1>19, <2>2, <2>3
  <2> HIDE DEF n
  <2> QED
    BY <1>5, <1>13, <2>1, <2>3, <2>4
<1>14. ASSUME f \in 0 .. 3, g \in 8 .. 11
       PROVE  same <=> Meets(n, f, x, y, g, u, v)
  <2>1. Meets(n, f, x, y, g, u, v) <=>
          \/ g = f + 8 /\ x = 0 /\ y = 0 /\ u = n /\ v = n
    BY <1>14 DEF Meets, MeetsBy, Way, East, SouthEast, SouthWest
  <2>2. \/ g = f + 5 /\ k = 6
        \/ g = f + 6 /\ k = 4
        \/ g = f + 7 /\ k = 2
        \/ g = f + 8 /\ k = 0
        \/ g = f + 9 /\ k = -2
        \/ g = f + 10 /\ k = -4
        \/ g = f + 11 /\ k = -6
    BY <1>4, <1>14
  <2> HIDE DEF k, p
  <2>3. /\ row = 2 * n - x - y /\ to = 4 * n - u - v
        /\ nr \in Nat /\ nr <= n /\ row \in 0 .. 4 * n /\ p \in Int
        /\ row <= n => nr = row
        /\ n <= row /\ row <= 3 * n => nr = n
        /\ 3 * n <= row => nr = 4 * n - row
        /\ -nr <= x - y /\ x - y <= nr
        /\ to = row => -nr <= u - v /\ u - v <= nr
    BY <1>2, <1>3, <1>9, <1>10, <1>14
  <2>4. \/ g = f + 5 /\ p = 6 * nr
        \/ g = f + 6 /\ p = 4 * nr
        \/ g = f + 7 /\ p = 2 * nr
        \/ g = f + 8 /\ p = 0
        \/ g = f + 9 /\ p = -(2 * nr)
        \/ g = f + 10 /\ p = -(4 * nr)
        \/ g = f + 11 /\ p = -(6 * nr)
    BY <1>8, <2>2, <2>3
  <2> HIDE DEF n
  <2> QED
    BY <1>5, <1>14, <2>1, <2>3, <2>4
<1>15. ASSUME f \in 4 .. 7, g \in 4 .. 7
       PROVE  same <=> Meets(n, f, x, y, g, u, v)
  <2>1. Meets(n, f, x, y, g, u, v) <=>
          \/ f = g /\ x = u /\ y = v
          \/ g = f + 1 /\ x = n /\ y = 0 /\ u = 0 /\ v = n
          \/ g = f + 3 /\ u = n /\ v = 0 /\ x = 0 /\ y = n
    BY <1>15 DEF Meets, MeetsBy, Way, East, SouthEast, SouthWest
  <2>2. \/ g = f /\ k = 0
        \/ g = f + 1 /\ k = -2
        \/ g = f + 2 /\ k = -4
        \/ g = f + 3 /\ k = -6
    BY <1>4, <1>15
  <2> HIDE DEF k, p
  <2>3. /\ row = 3 * n - x - y /\ to = 3 * n - u - v
        /\ nr \in Nat /\ nr <= n /\ row \in 0 .. 4 * n /\ p \in Int
        /\ row <= n => nr = row
        /\ n <= row /\ row <= 3 * n => nr = n
        /\ 3 * n <= row => nr = 4 * n - row
        /\ -nr <= x - y /\ x - y <= nr
        /\ to = row => -nr <= u - v /\ u - v <= nr
    BY <1>2, <1>3, <1>9, <1>10, <1>15
  <2>4. \/ g = f /\ p = 0
        \/ g = f + 1 /\ p = -(2 * nr)
        \/ g = f + 2 /\ p = -(4 * nr)
        \/ g = f + 3 /\ p = -(6 * nr)
    BY <1>8, <2>2, <2>3
  <2> HIDE DEF n
  <2> QED
    BY <1>5, <1>15, <2>1, <2>3, <2>4
<1>16. ASSUME f \in 4 .. 7, g \in 8 .. 11
       PROVE  same <=> Meets(n, f, x, y, g, u, v)
  <2>1. Meets(n, f, x, y, g, u, v) <=>
          \/ (g = f + 3 \/ g = f + 7) /\ x = 0 /\ u = n /\ v = y
          \/ g = f + 4 /\ y = 0 /\ v = n /\ u = x
    BY <1>16 DEF Meets, MeetsBy, Way, East, SouthEast, SouthWest
  <2>2. \/ g = f + 1 /\ k = 5
        \/ g = f + 2 /\ k = 3
        \/ g = f + 3 /\ k = 1
        \/ g = f + 4 /\ k = -1
        \/ g = f + 5 /\ k = -3
        \/ g = f + 6 /\ k = -5
        \/ g = f + 7 /\ k = -7
    BY <1>4, <1>16
  <2> HIDE DEF k, p
  <2>3. /\ row = 3 * n - x - y /\ to = 4 * n - u - v
        /\ nr \in Nat /\ nr <= n /\ row \in 0 .. 4 * n /\ p \in Int
        /\ row <= n => nr = row
        /\ n <= row /\ row <= 3 * n => nr = n
        /\ 3 * n <= row => nr = 4 * n - row
        /\ -nr <= x - y /\ x - y <= nr
        /\ to = row => -nr <= u - v /\ u - v <= nr
    BY <1>2, <1>3, <1>9, <1>10, <1>16
  <2>4. \/ g = f + 1 /\ p = 5 * nr
        \/ g = f + 2 /\ p = 3 * nr
        \/ g = f + 3 /\ p = nr
        \/ g = f + 4 /\ p = -nr
        \/ g = f + 5 /\ p = -(3 * nr)
        \/ g = f + 6 /\ p = -(5 * nr)
        \/ g = f + 7 /\ p = -(7 * nr)
    BY <1>19, <2>2, <2>3
  <2> HIDE DEF n
  <2> QED
    BY <1>5, <1>16, <2>1, <2>3, <2>4
<1>17. ASSUME f \in 8 .. 11, g \in 8 .. 11
       PROVE  same <=> Meets(n, f, x, y, g, u, v)
  <2>1. Meets(n, f, x, y, g, u, v) <=>
          \/ f = g /\ x = u /\ y = v
          \/ g = f + 1 /\ y = 0 /\ u = 0 /\ v = x
          \/ g = f + 3 /\ v = 0 /\ x = 0 /\ y = u
          \/ g = f + 2 /\ x = 0 /\ y = 0 /\ u = 0 /\ v = 0
    BY <1>17 DEF Meets, MeetsBy, Way, East, SouthEast, SouthWest
  <2>2. \/ g = f /\ k = 0
        \/ g = f + 1 /\ k = -2
        \/ g = f + 2 /\ k = -4
        \/ g = f + 3 /\ k = -6
    BY <1>4, <1>17
  <2> HIDE DEF k, p
  <2>3. /\ row = 4 * n - x - y /\ to = 4 * n - u - v
        /\ nr \in Nat /\ nr <= n /\ row \in 0 .. 4 * n /\ p \in Int
        /\ row <= n => nr = row
        /\ n <= row /\ row <= 3 * n => nr = n
        /\ 3 * n <= row => nr = 4 * n - row
        /\ -nr <= x - y /\ x - y <= nr
        /\ to = row => -nr <= u - v /\ u - v <= nr
    BY <1>2, <1>3, <1>9, <1>10, <1>17
  <2>4. \/ g = f /\ p = 0
        \/ g = f + 1 /\ p = -(2 * nr)
        \/ g = f + 2 /\ p = -(4 * nr)
        \/ g = f + 3 /\ p = -(6 * nr)
    BY <1>8, <2>2, <2>3
  <2> HIDE DEF n
  <2> QED
    BY <1>5, <1>17, <2>1, <2>3, <2>4
<1>18. \/ f \in 0 .. 3 /\ (g \in 0 .. 3 \/ g \in 4 .. 7 \/ g \in 8 .. 11)
       \/ f \in 4 .. 7 /\ (g \in 4 .. 7 \/ g \in 8 .. 11)
       \/ f \in 8 .. 11 /\ g \in 8 .. 11
  OBVIOUS
<1> QED
  BY <1>11, <1>12, <1>13, <1>14, <1>15, <1>16, <1>17, <1>18

\* Where corners of two faces are the same one.
LEMMA SameCorner ==
  ASSUME NEW b, b.nside \in Nat \ {0}, NEW f \in 0 .. 11, NEW g \in 0 .. 11,
         NEW x \in 0 .. b.nside, NEW y \in 0 .. b.nside,
         NEW u \in 0 .. b.nside, NEW v \in 0 .. b.nside
  PROVE  corner(b, f, x, y) = corner(b, g, u, v) <=> Meets(b.nside, f, x, y, g, u, v)
<1>1. CASE f <= g
  BY <1>1, SameCornerBelow
<1>2. CASE g <= f
  <2>1. corner(b, g, u, v) = corner(b, f, x, y) <=> Meets(b.nside, g, u, v, f, x, y)
    BY <1>2, SameCornerBelow
  <2>2. Meets(b.nside, g, u, v, f, x, y) <=> Meets(b.nside, f, x, y, g, u, v)
    BY DEF Meets, MeetsBy, Way, East, SouthEast, SouthWest
  <2> QED
    BY <2>1, <2>2
<1> QED
  BY <1>1, <1>2

\* The corner x, y of a face is one of the pixel at u, v of another ...
Touches(way, n, x, y, u, v) ==
  \/ way = "same" /\ x - u \in 0 .. 1 /\ y - v \in 0 .. 1
  \/ way = "SW" /\ x = 0 /\ u = n - 1 /\ y - v \in 0 .. 1
  \/ way = "SE" /\ y = 0 /\ v = n - 1 /\ x - u \in 0 .. 1
  \/ way = "NE" /\ x = n /\ u = 0 /\ y - v \in 0 .. 1
  \/ way = "NW" /\ y = n /\ v = 0 /\ x - u \in 0 .. 1
  \/ way = "capE" /\ x = n /\ v = n - 1 /\ y - u \in 0 .. 1
  \/ way = "capW" /\ y = n /\ u = n - 1 /\ x - v \in 0 .. 1
  \/ way = "footE" /\ y = 0 /\ u = 0 /\ x - v \in 0 .. 1
  \/ way = "footW" /\ x = 0 /\ v = 0 /\ y - u \in 0 .. 1
  \/ way = "E" /\ x = n /\ y = 0 /\ u = 0 /\ v = n - 1
  \/ way = "W" /\ x = 0 /\ y = n /\ u = n - 1 /\ v = 0
  \/ way = "S" /\ x = 0 /\ y = 0 /\ u = n - 1 /\ v = n - 1
  \/ way = "N" /\ x = n /\ y = n /\ u = 0 /\ v = 0
  \/ way = "pole" /\ x = n /\ y = n /\ u = n - 1 /\ v = n - 1
  \/ way = "foot" /\ x = 0 /\ y = 0 /\ u = 0 /\ v = 0

\* ... and the place x, y of a face, which may be one step outside of it, is
\* that at u, v of the other.
Beside(way, n, x, y, u, v) ==
  \/ way = "same" /\ x = u /\ y = v
  \/ way = "SW" /\ x = -1 /\ u = n - 1 /\ y = v
  \/ way = "SE" /\ y = -1 /\ v = n - 1 /\ x = u
  \/ way = "NE" /\ x = n /\ u = 0 /\ y = v
  \/ way = "NW" /\ y = n /\ v = 0 /\ x = u
  \/ way = "capE" /\ x = n /\ v = n - 1 /\ y = u
  \/ way = "capW" /\ y = n /\ u = n - 1 /\ x = v
  \/ way = "footE" /\ y = -1 /\ u = 0 /\ x = v
  \/ way = "footW" /\ x = -1 /\ v = 0 /\ y = u
  \/ way = "E" /\ x = n /\ y = -1 /\ u = 0 /\ v = n - 1
  \/ way = "W" /\ x = -1 /\ y = n /\ u = n - 1 /\ v = 0
  \/ way = "S" /\ x = -1 /\ y = -1 /\ u = n - 1 /\ v = n - 1
  \/ way = "N" /\ x = n /\ y = n /\ u = 0 /\ v = 0
  \/ way = "pole" /\ x = n /\ y = n /\ u = n - 1 /\ v = n - 1
  \/ way = "foot" /\ x = -1 /\ y = -1 /\ u = 0 /\ v = 0

LEMMA TouchesCorner ==
  ASSUME NEW way, NEW n \in Nat \ {0}, NEW x \in 0 .. n, NEW y \in 0 .. n,
         NEW u \in 0 .. n - 1, NEW v \in 0 .. n - 1
  PROVE  Touches(way, n, x, y, u, v) <=>
           \/ MeetsBy(way, n, x, y, u, v) \/ MeetsBy(way, n, x, y, u + 1, v)
           \/ MeetsBy(way, n, x, y, u, v + 1) \/ MeetsBy(way, n, x, y, u + 1, v + 1)
<1>1. CASE way = "same"
  BY <1>1 DEF Touches, MeetsBy
<1>2. CASE way = "SW"
  BY <1>2 DEF Touches, MeetsBy
<1>3. CASE way = "SE"
  BY <1>3 DEF Touches, MeetsBy
<1>4. CASE way = "NE"
  BY <1>4 DEF Touches, MeetsBy
<1>5. CASE way = "NW"
  BY <1>5 DEF Touches, MeetsBy
<1>6. CASE way = "capE"
  BY <1>6 DEF Touches, MeetsBy
<1>7. CASE way = "capW"
  BY <1>7 DEF Touches, MeetsBy
<1>8. CASE way = "footE"
  BY <1>8 DEF Touches, MeetsBy
<1>9. CASE way = "footW"
  BY <1>9 DEF Touches, MeetsBy
<1>10. CASE way = "E"
  BY <1>10 DEF Touches, MeetsBy
<1>11. CASE way = "W"
  BY <1>11 DEF Touches, MeetsBy
<1>12. CASE way = "S"
  BY <1>12 DEF Touches, MeetsBy
<1>13. CASE way = "N"
  BY <1>13 DEF Touches, MeetsBy
<1>14. CASE way = "pole"
  BY <1>14 DEF Touches, MeetsBy
<1>15. CASE way = "foot"
  BY <1>15 DEF Touches, MeetsBy
<1>16. CASE way \notin Ways
  BY <1>16 DEF Ways, Touches, MeetsBy
<1> QED
  BY <1>1, <1>2, <1>3, <1>4, <1>5, <1>6, <1>7, <1>8, <1>9, <1>10, <1>11, <1>12, <1>13, <1>14, <1>15, <1>16 DEF Ways

\* A corner of a pixel is on its side in a direction.
OnSide(ox, oy, dx, dy) ==
  /\ ox = 1 => dx = 1
  /\ ox = -1 => dx = 0
  /\ oy = 1 => dy = 1
  /\ oy = -1 => dy = 0

\* The pixel one step from another in a direction is the one that touches just its
\* corners on that side.
LEMMA SideTouched ==
  ASSUME NEW way, NEW n \in Nat \ {0}, NEW x \in 0 .. n - 1, NEW y \in 0 .. n - 1,
         NEW u \in 0 .. n - 1, NEW v \in 0 .. n - 1,
         NEW ox \in -1 .. 1, NEW oy \in -1 .. 1, ox # 0 \/ oy # 0
  PROVE  Beside(way, n, x + ox, y + oy, u, v) <=>
           /\ Touches(way, n, x, y, u, v) <=> OnSide(ox, oy, 0, 0)
           /\ Touches(way, n, x + 1, y, u, v) <=> OnSide(ox, oy, 1, 0)
           /\ Touches(way, n, x, y + 1, u, v) <=> OnSide(ox, oy, 0, 1)
           /\ Touches(way, n, x + 1, y + 1, u, v) <=> OnSide(ox, oy, 1, 1)
<1>1. CASE way = "same"
  BY <1>1 DEF Touches, Beside, OnSide
<1>2. CASE way = "SW"
  BY <1>2 DEF Touches, Beside, OnSide
<1>3. CASE way = "SE"
  BY <1>3 DEF Touches, Beside, OnSide
<1>4. CASE way = "NE"
  BY <1>4 DEF Touches, Beside, OnSide
<1>5. CASE way = "NW"
  BY <1>5 DEF Touches, Beside, OnSide
<1>6. CASE way = "capE"
  BY <1>6 DEF Touches, Beside, OnSide
<1>7. CASE way = "capW"
  BY <1>7 DEF Touches, Beside, OnSide
<1>8. CASE way = "footE"
  BY <1>8 DEF Touches, Beside, OnSide
<1>9. CASE way = "footW"
  BY <1>9 DEF Touches, Beside, OnSide
<1>10. CASE way = "E"
  BY <1>10 DEF Touches, Beside, OnSide
<1>11. CASE way = "W"
  BY <1>11 DEF Touches, Beside, OnSide
<1>12. CASE way = "S"
  BY <1>12 DEF Touches, Beside, OnSide
<1>13. CASE way = "N"
  BY <1>13 DEF Touches, Beside, OnSide
<1>14. CASE way = "pole"
  BY <1>14 DEF Touches, Beside, OnSide
<1>15. CASE way = "foot"
  BY <1>15 DEF Touches, Beside, OnSide
<1>16. CASE way \notin Ways
  BY <1>16 DEF Ways, Touches, Beside, OnSide
<1> QED
  BY <1>1, <1>2, <1>3, <1>4, <1>5, <1>6, <1>7, <1>8, <1>9, <1>10, <1>11, <1>12, <1>13, <1>14, <1>15, <1>16 DEF Ways

\* The tables of the code name the face that lies a certain way, and say how to turn.
LEMMA Beyond0 ==
  ASSUME NEW f \in 0 .. 11, NEW g \in 0 .. 11
  PROVE  /\ g = nb_facearray(0, f) <=> Way(f, g) \in { "S", "foot" }
         /\ Way(f, g) = "S" => nb_swaparray(0, f) = 0
         /\ Way(f, g) = "foot" => nb_swaparray(0, f) = 3
<1>1. g = nb_facearray(0, f) <=>
           \/ f \in 0 .. 3 /\ g = f + 8
           \/ f \in 8 .. 9 /\ g = f + 2
           \/ f \in 10 .. 11 /\ g = f - 2
  BY DEF nb_facearray
<1>2. Way(f, g) \in { "S", "foot" } <=>
           \/ f \in 0 .. 3 /\ g = f + 8
           \/ f \in 8 .. 9 /\ g = f + 2
           \/ f \in 10 .. 11 /\ g = f - 2
  BY DEF Way, East, SouthWest, SouthEast
<1>3. ASSUME f >= 8, g = f + 8
      PROVE  FALSE
  BY <1>3
<1>5. Way(f, g) = "S" => g = f + 8
  BY DEF Way
<1>6. Way(f, g) = "foot" => f >= 8
  BY DEF Way
<1>4. /\ f <= 7 => nb_swaparray(0, f) = 0
      /\ f >= 8 => nb_swaparray(0, f) = 3
  BY DEF nb_swaparray
<1> QED
  BY <1>1, <1>2, <1>3, <1>4, <1>5, <1>6

LEMMA Beyond1 ==
  ASSUME NEW f \in 0 .. 11, NEW g \in 0 .. 11
  PROVE  /\ g = nb_facearray(1, f) <=> Way(f, g) \in { "SE", "footE" }
         /\ Way(f, g) = "SE" => nb_swaparray(1, f) = 0
         /\ Way(f, g) = "footE" => nb_swaparray(1, f) = 6
<1>1. g = nb_facearray(1, f) <=>
           \/ f \in 0 .. 2 /\ g = f + 5
           \/ f = 3 /\ g = 4
           \/ f \in 4 .. 7 /\ g = f + 4
           \/ f \in 8 .. 10 /\ g = f + 1
           \/ f = 11 /\ g = 8
  BY DEF nb_facearray
<1>2. Way(f, g) \in { "SE", "footE" } <=>
           \/ f \in 0 .. 2 /\ g = f + 5
           \/ f = 3 /\ g = 4
           \/ f \in 4 .. 7 /\ g = f + 4
           \/ f \in 8 .. 10 /\ g = f + 1
           \/ f = 11 /\ g = 8
  BY DEF Way, East, SouthWest, SouthEast
<1>3. /\ Way(f, g) = "SE" => f <= 7
      /\ Way(f, g) = "footE" => f >= 8
  BY DEF Way, East, SouthWest, SouthEast
<1>4. /\ f <= 7 => nb_swaparray(1, f) = 0
      /\ f >= 8 => nb_swaparray(1, f) = 6
  BY DEF nb_swaparray
<1> QED
  BY <1>1, <1>2, <1>3, <1>4

LEMMA Beyond2 ==
  ASSUME NEW f \in 0 .. 11, NEW g \in 0 .. 11
  PROVE  /\ g = nb_facearray(2, f) <=> Way(f, g) = "E"
         /\ Way(f, g) = "E" => nb_swaparray(2, f) = 0
<1>1. g = nb_facearray(2, f) <=>
           \/ f \in 4 .. 6 /\ g = f + 1
           \/ f = 7 /\ g = 4
  BY DEF nb_facearray
<1>2. Way(f, g) = "E" <=>
           \/ f \in 4 .. 6 /\ g = f + 1
           \/ f = 7 /\ g = 4
  BY DEF Way, East, SouthWest, SouthEast
<1>4. nb_swaparray(2, f) = 0
  BY DEF nb_swaparray
<1> QED
  BY <1>1, <1>2, <1>4

LEMMA Beyond3 ==
  ASSUME NEW f \in 0 .. 11, NEW g \in 0 .. 11
  PROVE  /\ g = nb_facearray(3, f) <=> Way(f, g) \in { "SW", "footW" }
         /\ Way(f, g) = "SW" => nb_swaparray(3, f) = 0
         /\ Way(f, g) = "footW" => nb_swaparray(3, f) = 5
<1>1. g = nb_facearray(3, f) <=>
           \/ f \in 0 .. 3 /\ g = f + 4
           \/ f = 4 /\ g = 11
           \/ f \in 5 .. 8 /\ g = f + 3
           \/ f \in 9 .. 11 /\ g = f - 1
  BY DEF nb_facearray
<1>2. Way(f, g) \in { "SW", "footW" } <=>
           \/ f \in 0 .. 3 /\ g = f + 4
           \/ f = 4 /\ g = 11
           \/ f \in 5 .. 8 /\ g = f + 3
           \/ f \in 9 .. 11 /\ g = f - 1
  BY DEF Way, East, SouthWest, SouthEast
<1>3. /\ Way(f, g) = "SW" => f <= 7
      /\ Way(f, g) = "footW" => f >= 8
  BY DEF Way, East, SouthWest, SouthEast
<1>4. /\ f <= 7 => nb_swaparray(3, f) = 0
      /\ f >= 8 => nb_swaparray(3, f) = 5
  BY DEF nb_swaparray
<1> QED
  BY <1>1, <1>2, <1>3, <1>4

LEMMA Beyond4 ==
  ASSUME NEW f \in 0 .. 11, NEW g \in 0 .. 11
  PROVE  /\ g = nb_facearray(4, f) <=> Way(f, g) = "same"
         /\ Way(f, g) = "same" => nb_swaparray(4, f) = 0
BY DEF nb_facearray, nb_swaparray, Way, East, SouthWest, SouthEast

LEMMA Beyond5 ==
  ASSUME NEW f \in 0 .. 11, NEW g \in 0 .. 11
  PROVE  /\ g = nb_facearray(5, f) <=> Way(f, g) \in { "NE", "capE" }
         /\ Way(f, g) = "NE" => nb_swaparray(5, f) = 0
         /\ Way(f, g) = "capE" => nb_swaparray(5, f) = 5
<1>1. g = nb_facearray(5, f) <=>
           \/ f \in 0 .. 2 /\ g = f + 1
           \/ f = 3 /\ g = 0
           \/ f \in 4 .. 7 /\ g = f - 4
           \/ f \in 8 .. 10 /\ g = f - 3
           \/ f = 11 /\ g = 4
  BY DEF nb_facearray
<1>2. Way(f, g) \in { "NE", "capE" } <=>
           \/ f \in 0 .. 2 /\ g = f + 1
           \/ f = 3 /\ g = 0
           \/ f \in 4 .. 7 /\ g = f - 4
           \/ f \in 8 .. 10 /\ g = f - 3
           \/ f = 11 /\ g = 4
  BY DEF Way, East, SouthWest, SouthEast
<1>3. /\ Way(f, g) = "NE" => f >= 4
      /\ Way(f, g) = "capE" => f <= 3
  BY DEF Way, East, SouthWest, SouthEast
<1>4. /\ f >= 4 => nb_swaparray(5, f) = 0
      /\ f <= 3 => nb_swaparray(5, f) = 5
  BY DEF nb_swaparray
<1> QED
  BY <1>1, <1>2, <1>3, <1>4

LEMMA Beyond6 ==
  ASSUME NEW f \in 0 .. 11, NEW g \in 0 .. 11
  PROVE  /\ g = nb_facearray(6, f) <=> Way(f, g) = "W"
         /\ Way(f, g) = "W" => nb_swaparray(6, f) = 0
<1>1. g = nb_facearray(6, f) <=>
           \/ f = 4 /\ g = 7
           \/ f \in 5 .. 7 /\ g = f - 1
  BY DEF nb_facearray
<1>2. Way(f, g) = "W" <=>
           \/ f = 4 /\ g = 7
           \/ f \in 5 .. 7 /\ g = f - 1
  BY DEF Way, East, SouthWest, SouthEast
<1>4. nb_swaparray(6, f) = 0
  BY DEF nb_swaparray
<1> QED
  BY <1>1, <1>2, <1>4

LEMMA Beyond7 ==
  ASSUME NEW f \in 0 .. 11, NEW g \in 0 .. 11
  PROVE  /\ g = nb_facearray(7, f) <=> Way(f, g) \in { "NW", "capW" }
         /\ Way(f, g) = "NW" => nb_swaparray(7, f) = 0
         /\ Way(f, g) = "capW" => nb_swaparray(7, f) = 6
<1>1. g = nb_facearray(7, f) <=>
           \/ f = 0 /\ g = 3
           \/ f \in 1 .. 4 /\ g = f - 1
           \/ f \in 5 .. 7 /\ g = f - 5
           \/ f \in 8 .. 11 /\ g = f - 4
  BY DEF nb_facearray
<1>2. Way(f, g) \in { "NW", "capW" } <=>
           \/ f = 0 /\ g = 3
           \/ f \in 1 .. 4 /\ g = f - 1
           \/ f \in 5 .. 7 /\ g = f - 5
           \/ f \in 8 .. 11 /\ g = f - 4
  BY DEF Way, East, SouthWest, SouthEast
<1>3. /\ Way(f, g) = "NW" => f >= 4
      /\ Way(f, g) = "capW" => f <= 3
  BY DEF Way, East, SouthWest, SouthEast
<1>4. /\ f >= 4 => nb_swaparray(7, f) = 0
      /\ f <= 3 => nb_swaparray(7, f) = 6
  BY DEF nb_swaparray
<1> QED
  BY <1>1, <1>2, <1>3, <1>4

LEMMA Beyond8 ==
  ASSUME NEW f \in 0 .. 11, NEW g \in 0 .. 11
  PROVE  /\ g = nb_facearray(8, f) <=> Way(f, g) \in { "N", "pole" }
         /\ Way(f, g) = "N" => nb_swaparray(8, f) = 0
         /\ Way(f, g) = "pole" => nb_swaparray(8, f) = 3
<1>1. g = nb_facearray(8, f) <=>
           \/ f \in 0 .. 1 /\ g = f + 2
           \/ f \in 2 .. 3 /\ g = f - 2
           \/ f \in 8 .. 11 /\ g = f - 8
  BY DEF nb_facearray
<1>2. Way(f, g) \in { "N", "pole" } <=>
           \/ f \in 0 .. 1 /\ g = f + 2
           \/ f \in 2 .. 3 /\ g = f - 2
           \/ f \in 8 .. 11 /\ g = f - 8
  BY DEF Way, East, SouthWest, SouthEast
<1>3. ASSUME f <= 3, f = g + 8
      PROVE  FALSE
  BY <1>3
<1>5. Way(f, g) = "N" => f = g + 8
  BY DEF Way
<1>6. Way(f, g) = "pole" => f <= 3
  BY DEF Way
<1>4. /\ f >= 4 => nb_swaparray(8, f) = 0
      /\ f <= 3 => nb_swaparray(8, f) = 3
  BY DEF nb_swaparray
<1> QED
  BY <1>1, <1>2, <1>3, <1>4, <1>5, <1>6

\* The place that AcrossBorder finds: the face is -1 if there is none.
BorderNumber(n, x, y) ==
  4 + (IF x < 0 THEN -1 ELSE IF x >= n THEN 1 ELSE 0)
    + (IF y < 0 THEN -3 ELSE IF y >= n THEN 3 ELSE 0)
Mirrored(n, bit, x) == IF bit = 1 THEN n - (x % n) - 1 ELSE x % n
Turned(n, face, bits, x, y) ==
  LET x1 == Mirrored(n, bits % 2, x)
      y1 == Mirrored(n, (bits \div 2) % 2, y)
      exchange == bits \div 4 = 1
  IN  [ face |-> face, ix |-> IF exchange THEN y1 ELSE x1, iy |-> IF exchange THEN x1 ELSE y1 ]
PlaceAcross(n, f, x, y) ==
  LET k == BorderNumber(n, x, y)
  IN  Turned(n, nb_facearray(k, f), nb_swaparray(k, f), x, y)

\* The place found is the one beside.
Finds(n, f, x, y, g, u, v) ==
  Beside(Way(f, g), n, x, y, u, v) <=>
    PlaceAcross(n, f, x, y) = [ face |-> g, ix |-> u, iy |-> v ]

LEMMA FourTurns ==
  ASSUME NEW n \in Nat \ {0}, NEW face, NEW x \in Int, NEW y \in Int
  PROVE  /\ Turned(n, face, 0, x, y) = [ face |-> face, ix |-> x % n, iy |-> y % n ]
         /\ Turned(n, face, 3, x, y) =
               [ face |-> face, ix |-> n - (x % n) - 1, iy |-> n - (y % n) - 1 ]
         /\ Turned(n, face, 5, x, y) = [ face |-> face, ix |-> y % n, iy |-> n - (x % n) - 1 ]
         /\ Turned(n, face, 6, x, y) = [ face |-> face, ix |-> n - (y % n) - 1, iy |-> x % n ]
<1>1. /\ 0 % 2 = 0 /\ (0 \div 2) % 2 = 0 /\ 0 \div 4 # 1
      /\ 3 % 2 = 1 /\ (3 \div 2) % 2 = 1 /\ 3 \div 4 # 1
      /\ 5 % 2 = 1 /\ (5 \div 2) % 2 = 0 /\ 5 \div 4 = 1
      /\ 6 % 2 = 0 /\ (6 \div 2) % 2 = 1 /\ 6 \div 4 = 1
  OBVIOUS
<1> QED
  BY <1>1 DEF Turned, Mirrored

LEMMA OneStepOutside ==
  ASSUME NEW n \in Nat \ {0}, NEW x \in -1 .. n
  PROVE  /\ x = -1 => x % n = n - 1
         /\ x = n => x % n = 0
         /\ x \in 0 .. n - 1 => x % n = x
<1>1. ASSUME x = -1
      PROVE  x % n = n - 1
  <2>1. x = n * (-1) + (n - 1) /\ n - 1 \in 0 .. n - 1
    BY <1>1
  <2> QED
    BY <2>1, Division
<1>2. ASSUME x = n
      PROVE  x % n = 0
  <2>1. x = n * 1 + 0 /\ 0 \in 0 .. n - 1
    BY <1>2
  <2> QED
    BY <2>1, Division
<1>3. ASSUME x \in 0 .. n - 1
      PROVE  x % n = x
  <2>1. x = n * 0 + x
    BY <1>3
  <2> QED
    BY <1>3, <2>1, Division
<1> QED
  BY <1>1, <1>2, <1>3

LEMMA Across0 ==
  ASSUME NEW n \in Nat \ {0}, NEW f \in 0 .. 11, NEW x \in -1 .. n, NEW y \in -1 .. n,
         x = -1, y = -1,
         NEW g \in 0 .. 11, NEW u \in 0 .. n - 1, NEW v \in 0 .. n - 1
  PROVE  Finds(n, f, x, y, g, u, v)
<1> DEFINE way == Way(f, g)
           bits == nb_swaparray(0, f)
           to == nb_facearray(0, f)
<1>1. PlaceAcross(n, f, x, y) = Turned(n, to, bits, x, y)
  <2>1. BorderNumber(n, x, y) = 0
    BY DEF BorderNumber
  <2> QED
    BY <2>1 DEF PlaceAcross
<1> DEFINE mx == x % n
           my == y % n
<1>2. /\ x = -1 => mx = n - 1
      /\ x = n => mx = 0
      /\ x \in 0 .. n - 1 => mx = x
      /\ y = -1 => my = n - 1
      /\ y = n => my = 0
      /\ y \in 0 .. n - 1 => my = y
  BY OneStepOutside
<1>3. /\ g = to <=> way \in { "S", "foot" }
      /\ way = "S" => bits = 0
      /\ way = "foot" => bits = 3
  BY Beyond0
<1>4. /\ Turned(n, to, 0, x, y) = [ face |-> to, ix |-> mx, iy |-> my ]
      /\ Turned(n, to, 3, x, y) = [ face |-> to, ix |-> n - mx - 1, iy |-> n - my - 1 ]
      /\ Turned(n, to, 5, x, y) = [ face |-> to, ix |-> my, iy |-> n - mx - 1 ]
      /\ Turned(n, to, 6, x, y) = [ face |-> to, ix |-> n - my - 1, iy |-> mx ]
  BY FourTurns
<1>5. Turned(n, to, bits, x, y).face = to
  BY DEF Turned
<1> HIDE DEF way, bits, to, mx, my
<1>6. CASE way = "S"
  <2>1. Beside(way, n, x, y, u, v) <=> mx = u /\ my = v
    BY <1>2, <1>6 DEF Beside
  <2>2. Turned(n, to, bits, x, y) = [ face |-> g, ix |-> mx, iy |-> my ]
    BY <1>3, <1>4, <1>6
  <2> QED
    BY <1>1, <2>1, <2>2 DEF way, Finds
<1>7. CASE way = "foot"
  <2>1. Beside(way, n, x, y, u, v) <=> n - mx - 1 = u /\ n - my - 1 = v
    BY <1>2, <1>7 DEF Beside
  <2>2. Turned(n, to, bits, x, y) = [ face |-> g, ix |-> n - mx - 1, iy |-> n - my - 1 ]
    BY <1>3, <1>4, <1>7
  <2> QED
    BY <1>1, <2>1, <2>2 DEF way, Finds
<1>8. CASE ~ (way \in { "S", "foot" })
  <2>1. ~ Beside(way, n, x, y, u, v)
    BY <1>8 DEF Beside
  <2> QED
    BY <1>1, <1>3, <1>5, <1>8, <2>1 DEF way, Finds
<1> QED
  BY <1>6, <1>7, <1>8

LEMMA Across1 ==
  ASSUME NEW n \in Nat \ {0}, NEW f \in 0 .. 11, NEW x \in -1 .. n, NEW y \in -1 .. n,
         x \in 0 .. n - 1, y = -1,
         NEW g \in 0 .. 11, NEW u \in 0 .. n - 1, NEW v \in 0 .. n - 1
  PROVE  Finds(n, f, x, y, g, u, v)
<1> DEFINE way == Way(f, g)
           bits == nb_swaparray(1, f)
           to == nb_facearray(1, f)
<1>1. PlaceAcross(n, f, x, y) = Turned(n, to, bits, x, y)
  <2>1. BorderNumber(n, x, y) = 1
    BY DEF BorderNumber
  <2> QED
    BY <2>1 DEF PlaceAcross
<1> DEFINE mx == x % n
           my == y % n
<1>2. /\ x = -1 => mx = n - 1
      /\ x = n => mx = 0
      /\ x \in 0 .. n - 1 => mx = x
      /\ y = -1 => my = n - 1
      /\ y = n => my = 0
      /\ y \in 0 .. n - 1 => my = y
  BY OneStepOutside
<1>3. /\ g = to <=> way \in { "SE", "footE" }
      /\ way = "SE" => bits = 0
      /\ way = "footE" => bits = 6
  BY Beyond1
<1>4. /\ Turned(n, to, 0, x, y) = [ face |-> to, ix |-> mx, iy |-> my ]
      /\ Turned(n, to, 3, x, y) = [ face |-> to, ix |-> n - mx - 1, iy |-> n - my - 1 ]
      /\ Turned(n, to, 5, x, y) = [ face |-> to, ix |-> my, iy |-> n - mx - 1 ]
      /\ Turned(n, to, 6, x, y) = [ face |-> to, ix |-> n - my - 1, iy |-> mx ]
  BY FourTurns
<1>5. Turned(n, to, bits, x, y).face = to
  BY DEF Turned
<1> HIDE DEF way, bits, to, mx, my
<1>6. CASE way = "SE"
  <2>1. Beside(way, n, x, y, u, v) <=> mx = u /\ my = v
    BY <1>2, <1>6 DEF Beside
  <2>2. Turned(n, to, bits, x, y) = [ face |-> g, ix |-> mx, iy |-> my ]
    BY <1>3, <1>4, <1>6
  <2> QED
    BY <1>1, <2>1, <2>2 DEF way, Finds
<1>7. CASE way = "footE"
  <2>1. Beside(way, n, x, y, u, v) <=> n - my - 1 = u /\ mx = v
    BY <1>2, <1>7 DEF Beside
  <2>2. Turned(n, to, bits, x, y) = [ face |-> g, ix |-> n - my - 1, iy |-> mx ]
    BY <1>3, <1>4, <1>7
  <2> QED
    BY <1>1, <2>1, <2>2 DEF way, Finds
<1>8. CASE ~ (way \in { "SE", "footE" })
  <2>1. ~ Beside(way, n, x, y, u, v)
    BY <1>8 DEF Beside
  <2> QED
    BY <1>1, <1>3, <1>5, <1>8, <2>1 DEF way, Finds
<1> QED
  BY <1>6, <1>7, <1>8

LEMMA Across2 ==
  ASSUME NEW n \in Nat \ {0}, NEW f \in 0 .. 11, NEW x \in -1 .. n, NEW y \in -1 .. n,
         x = n, y = -1,
         NEW g \in 0 .. 11, NEW u \in 0 .. n - 1, NEW v \in 0 .. n - 1
  PROVE  Finds(n, f, x, y, g, u, v)
<1> DEFINE way == Way(f, g)
           bits == nb_swaparray(2, f)
           to == nb_facearray(2, f)
<1>1. PlaceAcross(n, f, x, y) = Turned(n, to, bits, x, y)
  <2>1. BorderNumber(n, x, y) = 2
    BY DEF BorderNumber
  <2> QED
    BY <2>1 DEF PlaceAcross
<1> DEFINE mx == x % n
           my == y % n
<1>2. /\ x = -1 => mx = n - 1
      /\ x = n => mx = 0
      /\ x \in 0 .. n - 1 => mx = x
      /\ y = -1 => my = n - 1
      /\ y = n => my = 0
      /\ y \in 0 .. n - 1 => my = y
  BY OneStepOutside
<1>3. /\ g = to <=> way = "E"
      /\ way = "E" => bits = 0
  BY Beyond2
<1>4. /\ Turned(n, to, 0, x, y) = [ face |-> to, ix |-> mx, iy |-> my ]
      /\ Turned(n, to, 3, x, y) = [ face |-> to, ix |-> n - mx - 1, iy |-> n - my - 1 ]
      /\ Turned(n, to, 5, x, y) = [ face |-> to, ix |-> my, iy |-> n - mx - 1 ]
      /\ Turned(n, to, 6, x, y) = [ face |-> to, ix |-> n - my - 1, iy |-> mx ]
  BY FourTurns
<1>5. Turned(n, to, bits, x, y).face = to
  BY DEF Turned
<1> HIDE DEF way, bits, to, mx, my
<1>6. CASE way = "E"
  <2>1. Beside(way, n, x, y, u, v) <=> mx = u /\ my = v
    BY <1>2, <1>6 DEF Beside
  <2>2. Turned(n, to, bits, x, y) = [ face |-> g, ix |-> mx, iy |-> my ]
    BY <1>3, <1>4, <1>6
  <2> QED
    BY <1>1, <2>1, <2>2 DEF way, Finds
<1>8. CASE way # "E"
  <2>1. ~ Beside(way, n, x, y, u, v)
    BY <1>8 DEF Beside
  <2> QED
    BY <1>1, <1>3, <1>5, <1>8, <2>1 DEF way, Finds
<1> QED
  BY <1>6, <1>8

LEMMA Across3 ==
  ASSUME NEW n \in Nat \ {0}, NEW f \in 0 .. 11, NEW x \in -1 .. n, NEW y \in -1 .. n,
         x = -1, y \in 0 .. n - 1,
         NEW g \in 0 .. 11, NEW u \in 0 .. n - 1, NEW v \in 0 .. n - 1
  PROVE  Finds(n, f, x, y, g, u, v)
<1> DEFINE way == Way(f, g)
           bits == nb_swaparray(3, f)
           to == nb_facearray(3, f)
<1>1. PlaceAcross(n, f, x, y) = Turned(n, to, bits, x, y)
  <2>1. BorderNumber(n, x, y) = 3
    BY DEF BorderNumber
  <2> QED
    BY <2>1 DEF PlaceAcross
<1> DEFINE mx == x % n
           my == y % n
<1>2. /\ x = -1 => mx = n - 1
      /\ x = n => mx = 0
      /\ x \in 0 .. n - 1 => mx = x
      /\ y = -1 => my = n - 1
      /\ y = n => my = 0
      /\ y \in 0 .. n - 1 => my = y
  BY OneStepOutside
<1>3. /\ g = to <=> way \in { "SW", "footW" }
      /\ way = "SW" => bits = 0
      /\ way = "footW" => bits = 5
  BY Beyond3
<1>4. /\ Turned(n, to, 0, x, y) = [ face |-> to, ix |-> mx, iy |-> my ]
      /\ Turned(n, to, 3, x, y) = [ face |-> to, ix |-> n - mx - 1, iy |-> n - my - 1 ]
      /\ Turned(n, to, 5, x, y) = [ face |-> to, ix |-> my, iy |-> n - mx - 1 ]
      /\ Turned(n, to, 6, x, y) = [ face |-> to, ix |-> n - my - 1, iy |-> mx ]
  BY FourTurns
<1>5. Turned(n, to, bits, x, y).face = to
  BY DEF Turned
<1> HIDE DEF way, bits, to, mx, my
<1>6. CASE way = "SW"
  <2>1. Beside(way, n, x, y, u, v) <=> mx = u /\ my = v
    BY <1>2, <1>6 DEF Beside
  <2>2. Turned(n, to, bits, x, y) = [ face |-> g, ix |-> mx, iy |-> my ]
    BY <1>3, <1>4, <1>6
  <2> QED
    BY <1>1, <2>1, <2>2 DEF way, Finds
<1>7. CASE way = "footW"
  <2>1. Beside(way, n, x, y, u, v) <=> my = u /\ n - mx - 1 = v
    BY <1>2, <1>7 DEF Beside
  <2>2. Turned(n, to, bits, x, y) = [ face |-> g, ix |-> my, iy |-> n - mx - 1 ]
    BY <1>3, <1>4, <1>7
  <2> QED
    BY <1>1, <2>1, <2>2 DEF way, Finds
<1>8. CASE ~ (way \in { "SW", "footW" })
  <2>1. ~ Beside(way, n, x, y, u, v)
    BY <1>8 DEF Beside
  <2> QED
    BY <1>1, <1>3, <1>5, <1>8, <2>1 DEF way, Finds
<1> QED
  BY <1>6, <1>7, <1>8

LEMMA Across4 ==
  ASSUME NEW n \in Nat \ {0}, NEW f \in 0 .. 11, NEW x \in -1 .. n, NEW y \in -1 .. n,
         x \in 0 .. n - 1, y \in 0 .. n - 1,
         NEW g \in 0 .. 11, NEW u \in 0 .. n - 1, NEW v \in 0 .. n - 1
  PROVE  Finds(n, f, x, y, g, u, v)
<1> DEFINE way == Way(f, g)
           bits == nb_swaparray(4, f)
           to == nb_facearray(4, f)
<1>1. PlaceAcross(n, f, x, y) = Turned(n, to, bits, x, y)
  <2>1. BorderNumber(n, x, y) = 4
    BY DEF BorderNumber
  <2> QED
    BY <2>1 DEF PlaceAcross
<1> DEFINE mx == x % n
           my == y % n
<1>2. /\ x = -1 => mx = n - 1
      /\ x = n => mx = 0
      /\ x \in 0 .. n - 1 => mx = x
      /\ y = -1 => my = n - 1
      /\ y = n => my = 0
      /\ y \in 0 .. n - 1 => my = y
  BY OneStepOutside
<1>3. /\ g = to <=> way = "same"
      /\ way = "same" => bits = 0
  BY Beyond4
<1>4. /\ Turned(n, to, 0, x, y) = [ face |-> to, ix |-> mx, iy |-> my ]
      /\ Turned(n, to, 3, x, y) = [ face |-> to, ix |-> n - mx - 1, iy |-> n - my - 1 ]
      /\ Turned(n, to, 5, x, y) = [ face |-> to, ix |-> my, iy |-> n - mx - 1 ]
      /\ Turned(n, to, 6, x, y) = [ face |-> to, ix |-> n - my - 1, iy |-> mx ]
  BY FourTurns
<1>5. Turned(n, to, bits, x, y).face = to
  BY DEF Turned
<1> HIDE DEF way, bits, to, mx, my
<1>6. CASE way = "same"
  <2>1. Beside(way, n, x, y, u, v) <=> mx = u /\ my = v
    BY <1>2, <1>6 DEF Beside
  <2>2. Turned(n, to, bits, x, y) = [ face |-> g, ix |-> mx, iy |-> my ]
    BY <1>3, <1>4, <1>6
  <2> QED
    BY <1>1, <2>1, <2>2 DEF way, Finds
<1>8. CASE way # "same"
  <2>1. ~ Beside(way, n, x, y, u, v)
    BY <1>8 DEF Beside
  <2> QED
    BY <1>1, <1>3, <1>5, <1>8, <2>1 DEF way, Finds
<1> QED
  BY <1>6, <1>8

LEMMA Across5 ==
  ASSUME NEW n \in Nat \ {0}, NEW f \in 0 .. 11, NEW x \in -1 .. n, NEW y \in -1 .. n,
         x = n, y \in 0 .. n - 1,
         NEW g \in 0 .. 11, NEW u \in 0 .. n - 1, NEW v \in 0 .. n - 1
  PROVE  Finds(n, f, x, y, g, u, v)
<1> DEFINE way == Way(f, g)
           bits == nb_swaparray(5, f)
           to == nb_facearray(5, f)
<1>1. PlaceAcross(n, f, x, y) = Turned(n, to, bits, x, y)
  <2>1. BorderNumber(n, x, y) = 5
    BY DEF BorderNumber
  <2> QED
    BY <2>1 DEF PlaceAcross
<1> DEFINE mx == x % n
           my == y % n
<1>2. /\ x = -1 => mx = n - 1
      /\ x = n => mx = 0
      /\ x \in 0 .. n - 1 => mx = x
      /\ y = -1 => my = n - 1
      /\ y = n => my = 0
      /\ y \in 0 .. n - 1 => my = y
  BY OneStepOutside
<1>3. /\ g = to <=> way \in { "NE", "capE" }
      /\ way = "NE" => bits = 0
      /\ way = "capE" => bits = 5
  BY Beyond5
<1>4. /\ Turned(n, to, 0, x, y) = [ face |-> to, ix |-> mx, iy |-> my ]
      /\ Turned(n, to, 3, x, y) = [ face |-> to, ix |-> n - mx - 1, iy |-> n - my - 1 ]
      /\ Turned(n, to, 5, x, y) = [ face |-> to, ix |-> my, iy |-> n - mx - 1 ]
      /\ Turned(n, to, 6, x, y) = [ face |-> to, ix |-> n - my - 1, iy |-> mx ]
  BY FourTurns
<1>5. Turned(n, to, bits, x, y).face = to
  BY DEF Turned
<1> HIDE DEF way, bits, to, mx, my
<1>6. CASE way = "NE"
  <2>1. Beside(way, n, x, y, u, v) <=> mx = u /\ my = v
    BY <1>2, <1>6 DEF Beside
  <2>2. Turned(n, to, bits, x, y) = [ face |-> g, ix |-> mx, iy |-> my ]
    BY <1>3, <1>4, <1>6
  <2> QED
    BY <1>1, <2>1, <2>2 DEF way, Finds
<1>7. CASE way = "capE"
  <2>1. Beside(way, n, x, y, u, v) <=> my = u /\ n - mx - 1 = v
    BY <1>2, <1>7 DEF Beside
  <2>2. Turned(n, to, bits, x, y) = [ face |-> g, ix |-> my, iy |-> n - mx - 1 ]
    BY <1>3, <1>4, <1>7
  <2> QED
    BY <1>1, <2>1, <2>2 DEF way, Finds
<1>8. CASE ~ (way \in { "NE", "capE" })
  <2>1. ~ Beside(way, n, x, y, u, v)
    BY <1>8 DEF Beside
  <2> QED
    BY <1>1, <1>3, <1>5, <1>8, <2>1 DEF way, Finds
<1> QED
  BY <1>6, <1>7, <1>8

LEMMA Across6 ==
  ASSUME NEW n \in Nat \ {0}, NEW f \in 0 .. 11, NEW x \in -1 .. n, NEW y \in -1 .. n,
         x = -1, y = n,
         NEW g \in 0 .. 11, NEW u \in 0 .. n - 1, NEW v \in 0 .. n - 1
  PROVE  Finds(n, f, x, y, g, u, v)
<1> DEFINE way == Way(f, g)
           bits == nb_swaparray(6, f)
           to == nb_facearray(6, f)
<1>1. PlaceAcross(n, f, x, y) = Turned(n, to, bits, x, y)
  <2>1. BorderNumber(n, x, y) = 6
    BY DEF BorderNumber
  <2> QED
    BY <2>1 DEF PlaceAcross
<1> DEFINE mx == x % n
           my == y % n
<1>2. /\ x = -1 => mx = n - 1
      /\ x = n => mx = 0
      /\ x \in 0 .. n - 1 => mx = x
      /\ y = -1 => my = n - 1
      /\ y = n => my = 0
      /\ y \in 0 .. n - 1 => my = y
  BY OneStepOutside
<1>3. /\ g = to <=> way = "W"
      /\ way = "W" => bits = 0
  BY Beyond6
<1>4. /\ Turned(n, to, 0, x, y) = [ face |-> to, ix |-> mx, iy |-> my ]
      /\ Turned(n, to, 3, x, y) = [ face |-> to, ix |-> n - mx - 1, iy |-> n - my - 1 ]
      /\ Turned(n, to, 5, x, y) = [ face |-> to, ix |-> my, iy |-> n - mx - 1 ]
      /\ Turned(n, to, 6, x, y) = [ face |-> to, ix |-> n - my - 1, iy |-> mx ]
  BY FourTurns
<1>5. Turned(n, to, bits, x, y).face = to
  BY DEF Turned
<1> HIDE DEF way, bits, to, mx, my
<1>6. CASE way = "W"
  <2>1. Beside(way, n, x, y, u, v) <=> mx = u /\ my = v
    BY <1>2, <1>6 DEF Beside
  <2>2. Turned(n, to, bits, x, y) = [ face |-> g, ix |-> mx, iy |-> my ]
    BY <1>3, <1>4, <1>6
  <2> QED
    BY <1>1, <2>1, <2>2 DEF way, Finds
<1>8. CASE way # "W"
  <2>1. ~ Beside(way, n, x, y, u, v)
    BY <1>8 DEF Beside
  <2> QED
    BY <1>1, <1>3, <1>5, <1>8, <2>1 DEF way, Finds
<1> QED
  BY <1>6, <1>8

LEMMA Across7 ==
  ASSUME NEW n \in Nat \ {0}, NEW f \in 0 .. 11, NEW x \in -1 .. n, NEW y \in -1 .. n,
         x \in 0 .. n - 1, y = n,
         NEW g \in 0 .. 11, NEW u \in 0 .. n - 1, NEW v \in 0 .. n - 1
  PROVE  Finds(n, f, x, y, g, u, v)
<1> DEFINE way == Way(f, g)
           bits == nb_swaparray(7, f)
           to == nb_facearray(7, f)
<1>1. PlaceAcross(n, f, x, y) = Turned(n, to, bits, x, y)
  <2>1. BorderNumber(n, x, y) = 7
    BY DEF BorderNumber
  <2> QED
    BY <2>1 DEF PlaceAcross
<1> DEFINE mx == x % n
           my == y % n
<1>2. /\ x = -1 => mx = n - 1
      /\ x = n => mx = 0
      /\ x \in 0 .. n - 1 => mx = x
      /\ y = -1 => my = n - 1
      /\ y = n => my = 0
      /\ y \in 0 .. n - 1 => my = y
  BY OneStepOutside
<1>3. /\ g = to <=> way \in { "NW", "capW" }
      /\ way = "NW" => bits = 0
      /\ way = "capW" => bits = 6
  BY Beyond7
<1>4. /\ Turned(n, to, 0, x, y) = [ face |-> to, ix |-> mx, iy |-> my ]
      /\ Turned(n, to, 3, x, y) = [ face |-> to, ix |-> n - mx - 1, iy |-> n - my - 1 ]
      /\ Turned(n, to, 5, x, y) = [ face |-> to, ix |-> my, iy |-> n - mx - 1 ]
      /\ Turned(n, to, 6, x, y) = [ face |-> to, ix |-> n - my - 1, iy |-> mx ]
  BY FourTurns
<1>5. Turned(n, to, bits, x, y).face = to
  BY DEF Turned
<1> HIDE DEF way, bits, to, mx, my
<1>6. CASE way = "NW"
  <2>1. Beside(way, n, x, y, u, v) <=> mx = u /\ my = v
    BY <1>2, <1>6 DEF Beside
  <2>2. Turned(n, to, bits, x, y) = [ face |-> g, ix |-> mx, iy |-> my ]
    BY <1>3, <1>4, <1>6
  <2> QED
    BY <1>1, <2>1, <2>2 DEF way, Finds
<1>7. CASE way = "capW"
  <2>1. Beside(way, n, x, y, u, v) <=> n - my - 1 = u /\ mx = v
    BY <1>2, <1>7 DEF Beside
  <2>2. Turned(n, to, bits, x, y) = [ face |-> g, ix |-> n - my - 1, iy |-> mx ]
    BY <1>3, <1>4, <1>7
  <2> QED
    BY <1>1, <2>1, <2>2 DEF way, Finds
<1>8. CASE ~ (way \in { "NW", "capW" })
  <2>1. ~ Beside(way, n, x, y, u, v)
    BY <1>8 DEF Beside
  <2> QED
    BY <1>1, <1>3, <1>5, <1>8, <2>1 DEF way, Finds
<1> QED
  BY <1>6, <1>7, <1>8

LEMMA Across8 ==
  ASSUME NEW n \in Nat \ {0}, NEW f \in 0 .. 11, NEW x \in -1 .. n, NEW y \in -1 .. n,
         x = n, y = n,
         NEW g \in 0 .. 11, NEW u \in 0 .. n - 1, NEW v \in 0 .. n - 1
  PROVE  Finds(n, f, x, y, g, u, v)
<1> DEFINE way == Way(f, g)
           bits == nb_swaparray(8, f)
           to == nb_facearray(8, f)
<1>1. PlaceAcross(n, f, x, y) = Turned(n, to, bits, x, y)
  <2>1. BorderNumber(n, x, y) = 8
    BY DEF BorderNumber
  <2> QED
    BY <2>1 DEF PlaceAcross
<1> DEFINE mx == x % n
           my == y % n
<1>2. /\ x = -1 => mx = n - 1
      /\ x = n => mx = 0
      /\ x \in 0 .. n - 1 => mx = x
      /\ y = -1 => my = n - 1
      /\ y = n => my = 0
      /\ y \in 0 .. n - 1 => my = y
  BY OneStepOutside
<1>3. /\ g = to <=> way \in { "N", "pole" }
      /\ way = "N" => bits = 0
      /\ way = "pole" => bits = 3
  BY Beyond8
<1>4. /\ Turned(n, to, 0, x, y) = [ face |-> to, ix |-> mx, iy |-> my ]
      /\ Turned(n, to, 3, x, y) = [ face |-> to, ix |-> n - mx - 1, iy |-> n - my - 1 ]
      /\ Turned(n, to, 5, x, y) = [ face |-> to, ix |-> my, iy |-> n - mx - 1 ]
      /\ Turned(n, to, 6, x, y) = [ face |-> to, ix |-> n - my - 1, iy |-> mx ]
  BY FourTurns
<1>5. Turned(n, to, bits, x, y).face = to
  BY DEF Turned
<1> HIDE DEF way, bits, to, mx, my
<1>6. CASE way = "N"
  <2>1. Beside(way, n, x, y, u, v) <=> mx = u /\ my = v
    BY <1>2, <1>6 DEF Beside
  <2>2. Turned(n, to, bits, x, y) = [ face |-> g, ix |-> mx, iy |-> my ]
    BY <1>3, <1>4, <1>6
  <2> QED
    BY <1>1, <2>1, <2>2 DEF way, Finds
<1>7. CASE way = "pole"
  <2>1. Beside(way, n, x, y, u, v) <=> n - mx - 1 = u /\ n - my - 1 = v
    BY <1>2, <1>7 DEF Beside
  <2>2. Turned(n, to, bits, x, y) = [ face |-> g, ix |-> n - mx - 1, iy |-> n - my - 1 ]
    BY <1>3, <1>4, <1>7
  <2> QED
    BY <1>1, <2>1, <2>2 DEF way, Finds
<1>8. CASE ~ (way \in { "N", "pole" })
  <2>1. ~ Beside(way, n, x, y, u, v)
    BY <1>8 DEF Beside
  <2> QED
    BY <1>1, <1>3, <1>5, <1>8, <2>1 DEF way, Finds
<1> QED
  BY <1>6, <1>7, <1>8

\* The pixel beside one, in its own face or across a border of it, is the one
\* AcrossBorder finds.
LEMMA AcrossBeside ==
  ASSUME NEW n \in Nat \ {0}, NEW f \in 0 .. 11, NEW x \in -1 .. n, NEW y \in -1 .. n,
         NEW g \in 0 .. 11, NEW u \in 0 .. n - 1, NEW v \in 0 .. n - 1
  PROVE  Finds(n, f, x, y, g, u, v)
<1>1. /\ x = -1 \/ x \in 0 .. n - 1 \/ x = n
      /\ y = -1 \/ y \in 0 .. n - 1 \/ y = n
  OBVIOUS
<1>2. CASE x = -1 /\ y = -1
  BY <1>2, Across0
<1>3. CASE x \in 0 .. n - 1 /\ y = -1
  BY <1>3, Across1
<1>4. CASE x = n /\ y = -1
  BY <1>4, Across2
<1>5. CASE x = -1 /\ y \in 0 .. n - 1
  BY <1>5, Across3
<1>6. CASE x \in 0 .. n - 1 /\ y \in 0 .. n - 1
  BY <1>6, Across4
<1>7. CASE x = n /\ y \in 0 .. n - 1
  BY <1>7, Across5
<1>8. CASE x = -1 /\ y = n
  BY <1>8, Across6
<1>9. CASE x \in 0 .. n - 1 /\ y = n
  BY <1>9, Across7
<1>10. CASE x = n /\ y = n
  BY <1>10, Across8
<1> QED
  BY <1>1, <1>2, <1>3, <1>4, <1>5, <1>6, <1>7, <1>8, <1>9, <1>10

LEMMA PlaceAcrossTyped ==
  ASSUME NEW b, b.nside \in Nat \ {0}, NEW f \in 0 .. 11, NEW x \in Int, NEW y \in Int
  PROVE  PlaceAcross(b.nside, f, x, y).face < 0 \/ PlaceAcross(b.nside, f, x, y) \in Places(b)
<1> DEFINE n == b.nside
           k == BorderNumber(n, x, y)
           to == nb_facearray(k, f)
           bits == nb_swaparray(k, f)
           x1 == Mirrored(n, bits % 2, x)
           y1 == Mirrored(n, (bits \div 2) % 2, y)
           turned == bits \div 4 = 1
           at == [ face |-> to, ix |-> IF turned THEN y1 ELSE x1, iy |-> IF turned THEN x1 ELSE y1 ]
<1>1. PlaceAcross(n, f, x, y) = at
  BY DEF PlaceAcross, Turned
<1>2. to \in 0 .. 11 \/ to = -1
  <2>1. k \in 0 .. 8
    BY DEF BorderNumber
  <2> HIDE DEF k
  <2> QED
    BY <2>1, FacesAround
<1>3. ASSUME NEW bit, NEW z \in Int
      PROVE  Mirrored(n, bit, z) \in 0 .. n - 1
  <2> DEFINE w == z % n
  <2>1. w \in 0 .. n - 1
    OBVIOUS
  <2>2. Mirrored(n, bit, z) = IF bit = 1 THEN n - w - 1 ELSE w
    BY DEF Mirrored
  <2> HIDE DEF w
  <2> QED
    BY <2>1, <2>2
<1>4. x1 \in 0 .. n - 1 /\ y1 \in 0 .. n - 1
  BY <1>3
<1> HIDE DEF to, x1, y1, turned
<1>5. to = -1 => at.face < 0
  OBVIOUS
<1>6. to \in 0 .. 11 => at \in Places(b)
  BY <1>4 DEF Places
<1> QED
  BY <1>1, <1>2, <1>5, <1>6

\* Inside of a face neighbors does what AcrossBorder would.
LEMMA NeighborPlace ==
  ASSUME NEW b, IsBase(b), NEW at \in Places(b), NEW i \in 0 .. 7
  PROVE  LET x == at.ix + nb_xoffset(i)
             y == at.iy + nb_yoffset(i)
             o == PlaceAcross(b.nside, at.face, x, y)
         IN  /\ x \in -1 .. b.nside /\ y \in -1 .. b.nside
             /\ neighbors(b, at)[i] = IF o.face < 0 THEN -1 ELSE xyf2pix(b, o)
<1> DEFINE n == b.nside
           f == at.face
           inside == { at.ix, at.iy } \subseteq 1 .. n - 2
           x == at.ix + nb_xoffset(i)
           y == at.iy + nb_yoffset(i)
           o == PlaceAcross(n, f, x, y)
           here == [ face |-> f, ix |-> x, iy |-> y ]
<1>1. /\ n \in Nat \ {0} /\ f \in 0 .. 11
      /\ at.ix \in 0 .. n - 1 /\ at.iy \in 0 .. n - 1
  BY DEF IsBase, Places
<1>2. nb_xoffset(i) \in -1 .. 1 /\ nb_yoffset(i) \in -1 .. 1
  BY DEF nb_xoffset, nb_yoffset
<1>3. x \in -1 .. n /\ y \in -1 .. n
  BY <1>1, <1>2
<1>4. neighbors(b, at)[i] = IF inside THEN xyf2pix(b, here) ELSE AcrossBorder(b, f, x, y)
  BY DEF neighbors
<1>5. AcrossBorder(b, f, x, y) = IF o.face < 0 THEN -1 ELSE xyf2pix(b, o)
  BY DEF AcrossBorder, PlaceAcross, Turned, Mirrored, BorderNumber
<1>6. ASSUME inside
      PROVE  o = here /\ ~ (o.face < 0)
  <2>1. x \in 0 .. n - 1 /\ y \in 0 .. n - 1
    BY <1>1, <1>2, <1>6
  <2> HIDE DEF x, y, inside
  <2>2. BorderNumber(n, x, y) = 4
    BY <1>1, <2>1 DEF BorderNumber
  <2>3. nb_facearray(4, f) = f /\ nb_swaparray(4, f) = 0
    <3>1. Way(f, f) = "same"
      BY DEF Way
    <3> QED
      BY <1>1, <3>1, Beyond4
  <2>4. o = Turned(n, f, 0, x, y)
    BY <2>2, <2>3 DEF PlaceAcross
  <2>5. x % n = x /\ y % n = y
    BY <1>1, <1>3, <2>1, OneStepOutside
  <2>6. x \in Int /\ y \in Int
    BY <1>1, <1>3
  <2>7. Turned(n, f, 0, x, y) = [ face |-> f, ix |-> x % n, iy |-> y % n ]
    BY <1>1, <2>6, FourTurns
  <2>8. o = here
    BY <2>4, <2>5, <2>7
  <2> QED
    BY <1>1, <2>8
<1> HIDE DEF inside, o, here
<1>7. neighbors(b, at)[i] = IF o.face < 0 THEN -1 ELSE xyf2pix(b, o)
  BY <1>4, <1>5, <1>6
<1> QED
  BY <1>3, <1>7 DEF o

LEMMA NeighborBeside ==
  ASSUME NEW b, IsBase(b), NEW at \in Places(b), NEW i \in 0 .. 7
  PROVE  { xyf2pix(b, o) : o \in { o \in Places(b) :
             Beside(Way(at.face, o.face), b.nside, at.ix + nb_xoffset(i),
                    at.iy + nb_yoffset(i), o.ix, o.iy) } }
         = { neighbors(b, at)[i] } \ { -1 }
<1> DEFINE n == b.nside
           x == at.ix + nb_xoffset(i)
           y == at.iy + nb_yoffset(i)
           to == PlaceAcross(n, at.face, x, y)
           there == { o \in Places(b) : Beside(Way(at.face, o.face), n, x, y, o.ix, o.iy) }
           nb == neighbors(b, at)[i]
<1>1. n \in Nat \ {0} /\ at.face \in 0 .. 11
  BY DEF IsBase, Places
<1>2. x \in -1 .. n /\ y \in -1 .. n /\ nb = IF to.face < 0 THEN -1 ELSE xyf2pix(b, to)
  BY NeighborPlace
<1>3. to.face < 0 \/ to \in Places(b)
  <2> HIDE DEF x, y
  <2>1. x \in Int /\ y \in Int
    BY <1>1, <1>2
  <2> QED
    BY <1>1, <2>1, PlaceAcrossTyped
<1> HIDE DEF x, y, nb
<1>4. ASSUME NEW o \in Places(b)
      PROVE  Beside(Way(at.face, o.face), n, x, y, o.ix, o.iy) <=> to = o
  <2>1. /\ o.face \in 0 .. 11 /\ o.ix \in 0 .. n - 1 /\ o.iy \in 0 .. n - 1
        /\ o = [ face |-> o.face, ix |-> o.ix, iy |-> o.iy ]
    BY DEF Places
  <2>2. Finds(n, at.face, x, y, o.face, o.ix, o.iy)
    BY <1>1, <1>2, <2>1, AcrossBeside
  <2> QED
    BY <2>1, <2>2 DEF Finds
<1> HIDE DEF to
<1>5. \A o : o \in there <=> o \in Places(b) /\ to = o
  BY <1>4
<1> HIDE DEF there
<1>6. CASE to.face < 0
  <2>1. to \notin Places(b)
    BY <1>6 DEF Places
  <2>2. there = {}
    BY <1>5, <2>1
  <2>3. { xyf2pix(b, o) : o \in there } = {}
    BY <2>2
  <2>4. { nb } \ { -1 } = {}
    BY <1>2, <1>6
  <2> QED
    BY <2>3, <2>4 DEF there, nb, x, y
<1>7. CASE ~ (to.face < 0)
  <2>1. to \in Places(b)
    BY <1>3, <1>7
  <2>2. there = { to }
    BY <1>5, <2>1
  <2>3. { xyf2pix(b, o) : o \in there } = { xyf2pix(b, to) }
    BY <2>2
  <2>4. xyf2pix(b, to) \in Pixels(b)
    BY <2>1, PixelOfPlace
  <2>5. xyf2pix(b, to) # -1
    BY <2>4 DEF Pixels
  <2>6. { nb } \ { -1 } = { xyf2pix(b, to) }
    BY <1>2, <1>7, <2>5
  <2> QED
    BY <2>3, <2>6 DEF there, nb, x, y
<1> QED
  BY <1>6, <1>7

\* The corners two pixels share are the ones where they touch.
LEMMA SharedCorner ==
  ASSUME IsBase(base), NEW at \in Places(base), NEW o \in Places(base),
         NEW dx \in 0 .. 1, NEW dy \in 0 .. 1
  PROVE  Corner(at, dx, dy) \in Corners(o) <=>
           Touches(Way(at.face, o.face), base.nside, at.ix + dx, at.iy + dy, o.ix, o.iy)
<1> DEFINE n == base.nside
           x == at.ix + dx
           y == at.iy + dy
           way == Way(at.face, o.face)
<1>1. /\ n \in Nat \ {0} /\ at.face \in 0 .. 11 /\ o.face \in 0 .. 11
      /\ at.ix \in 0 .. n - 1 /\ at.iy \in 0 .. n - 1
      /\ o.ix \in 0 .. n - 1 /\ o.iy \in 0 .. n - 1
  BY DEF IsBase, Places
<1>2. x \in 0 .. n /\ y \in 0 .. n
  BY <1>1
<1>3. ASSUME NEW ex \in 0 .. 1, NEW ey \in 0 .. 1
      PROVE  Corner(at, dx, dy) = Corner(o, ex, ey) <=>
               MeetsBy(way, n, x, y, o.ix + ex, o.iy + ey)
  <2>1. o.ix + ex \in 0 .. n /\ o.iy + ey \in 0 .. n
    BY <1>1
  <2>2. Corner(at, dx, dy) = corner(base, at.face, x, y)
        /\ Corner(o, ex, ey) = corner(base, o.face, o.ix + ex, o.iy + ey)
    BY DEF Corner
  <2> DEFINE u == o.ix + ex
             v == o.iy + ey
  <2> HIDE DEF x, y, u, v, n
  <2>3. corner(base, at.face, x, y) = corner(base, o.face, u, v)
          <=> Meets(n, at.face, x, y, o.face, u, v)
    BY <1>1, <1>2, <2>1, SameCorner DEF u, v, n
  <2> QED
    BY <2>2, <2>3 DEF Meets, u, v
<1>4. Corner(at, dx, dy) \in Corners(o) <=>
        \/ Corner(at, dx, dy) = Corner(o, 0, 0) \/ Corner(at, dx, dy) = Corner(o, 1, 0)
        \/ Corner(at, dx, dy) = Corner(o, 0, 1) \/ Corner(at, dx, dy) = Corner(o, 1, 1)
  BY DEF Corners
<1>5. /\ o.ix + 0 = o.ix
      /\ o.iy + 0 = o.iy
  BY <1>1
<1>6. Corner(at, dx, dy) = Corner(o, 0, 0) <=> MeetsBy(way, n, x, y, o.ix, o.iy)
  BY <1>3, <1>5
<1>7. Corner(at, dx, dy) = Corner(o, 1, 0) <=> MeetsBy(way, n, x, y, o.ix + 1, o.iy)
  BY <1>3, <1>5
<1>8. Corner(at, dx, dy) = Corner(o, 0, 1) <=> MeetsBy(way, n, x, y, o.ix, o.iy + 1)
  BY <1>3, <1>5
<1>9. Corner(at, dx, dy) = Corner(o, 1, 1) <=> MeetsBy(way, n, x, y, o.ix + 1, o.iy + 1)
  BY <1>3
<1> HIDE DEF way, x, y
<1>10. Touches(way, n, x, y, o.ix, o.iy) <=>
         \/ MeetsBy(way, n, x, y, o.ix, o.iy) \/ MeetsBy(way, n, x, y, o.ix + 1, o.iy)
         \/ MeetsBy(way, n, x, y, o.ix, o.iy + 1) \/ MeetsBy(way, n, x, y, o.ix + 1, o.iy + 1)
  BY <1>1, <1>2, TouchesCorner
<1> QED
  BY <1>4, <1>6, <1>7, <1>8, <1>9, <1>10 DEF way, x, y

LEMMA OwnCorners ==
  ASSUME IsBase(base), NEW at \in Places(base), NEW dx \in 0 .. 1, NEW dy \in 0 .. 1,
         NEW ex \in 0 .. 1, NEW ey \in 0 .. 1
  PROVE  Corner(at, dx, dy) = Corner(at, ex, ey) <=> dx = ex /\ dy = ey
<1> DEFINE n == base.nside
           x == at.ix + dx
           y == at.iy + dy
           u == at.ix + ex
           v == at.iy + ey
<1>1. /\ n \in Nat \ {0} /\ at.face \in 0 .. 11
      /\ at.ix \in 0 .. n - 1 /\ at.iy \in 0 .. n - 1
  BY DEF IsBase, Places
<1>2. x \in 0 .. n /\ y \in 0 .. n /\ u \in 0 .. n /\ v \in 0 .. n
  BY <1>1
<1>3. x = u /\ y = v <=> dx = ex /\ dy = ey
  BY <1>1
<1> HIDE DEF x, y, u, v
<1>4. corner(base, at.face, x, y) = corner(base, at.face, u, v)
        <=> Meets(n, at.face, x, y, at.face, u, v)
  BY <1>1, <1>2, SameCorner
<1>5. Meets(n, at.face, x, y, at.face, u, v) <=> x = u /\ y = v
  BY DEF Meets, MeetsBy, Way
<1> QED
  BY <1>3, <1>4, <1>5 DEF Corner, x, y, u, v

LEMMA SideCorners ==
  ASSUME NEW at, NEW i \in 0 .. 7
  PROVE  \A c : c \in Side(at, i) <=>
                  \E dx, dy \in 0 .. 1 : /\ OnSide(nb_xoffset(i), nb_yoffset(i), dx, dy)
                                         /\ c = Corner(at, dx, dy)
<1> DEFINE ox == nb_xoffset(i)
           oy == nb_yoffset(i)
<1>1. ASSUME NEW c \in Side(at, i)
      PROVE  \E dx, dy \in 0 .. 1 : OnSide(ox, oy, dx, dy) /\ c = Corner(at, dx, dy)
  BY <1>1 DEF Side, OnSide
<1>2. ASSUME NEW dx \in 0 .. 1, NEW dy \in 0 .. 1, OnSide(ox, oy, dx, dy)
      PROVE  Corner(at, dx, dy) \in Side(at, i)
  <2> DEFINE d == << dx, dy >>
  <2>1. d \in (0 .. 1) \X (0 .. 1) /\ d[1] = dx /\ d[2] = dy
    OBVIOUS
  <2> HIDE DEF d
  <2> QED
    BY <1>2, <2>1 DEF Side, OnSide
<1> QED
  BY <1>1, <1>2

LEMMA SideShared ==
  ASSUME IsBase(base), NEW at \in Places(base), NEW o \in Places(base), NEW i \in 0 .. 7
  PROVE  /\ Side(at, i) # {}
         /\ Corners(o) \cap Corners(at) = Side(at, i) <=>
              \A dx, dy \in 0 .. 1 : Corner(at, dx, dy) \in Corners(o) <=>
                                       OnSide(nb_xoffset(i), nb_yoffset(i), dx, dy)
<1> DEFINE ox == nb_xoffset(i)
           oy == nb_yoffset(i)
<1>1. ox \in -1 .. 1 /\ oy \in -1 .. 1
  BY DEF nb_xoffset, nb_yoffset
<1>2. \A c : c \in Side(at, i) <=>
               \E dx, dy \in 0 .. 1 : OnSide(ox, oy, dx, dy) /\ c = Corner(at, dx, dy)
  BY SideCorners
<1>3. \A c : c \in Corners(at) <=> \E dx, dy \in 0 .. 1 : c = Corner(at, dx, dy)
  BY DEF Corners
<1>4. ASSUME NEW dx \in 0 .. 1, NEW dy \in 0 .. 1
      PROVE  Corner(at, dx, dy) \in Side(at, i) <=> OnSide(ox, oy, dx, dy)
  <2>1. ASSUME NEW ex \in 0 .. 1, NEW ey \in 0 .. 1, Corner(at, dx, dy) = Corner(at, ex, ey)
        PROVE  dx = ex /\ dy = ey
    BY <2>1, OwnCorners
  <2> QED
    BY <1>2, <2>1
<1>5. Side(at, i) # {}
  <2> DEFINE dx == IF ox = 1 THEN 1 ELSE 0
             dy == IF oy = 1 THEN 1 ELSE 0
  <2>1. dx \in 0 .. 1 /\ dy \in 0 .. 1 /\ OnSide(ox, oy, dx, dy)
    BY <1>1 DEF OnSide
  <2> HIDE DEF dx, dy
  <2> QED
    BY <1>4, <2>1
<1> DEFINE shared == Corners(o) \cap Corners(at)
           side == Side(at, i)
<1> HIDE DEF ox, oy
<1>6. ASSUME shared = side, NEW dx \in 0 .. 1, NEW dy \in 0 .. 1
      PROVE  Corner(at, dx, dy) \in Corners(o) <=> OnSide(ox, oy, dx, dy)
  <2>1. Corner(at, dx, dy) \in Corners(at)
    BY <1>3
  <2> QED
    BY <1>4, <1>6, <2>1
<1>7. ASSUME \A dx, dy \in 0 .. 1 : Corner(at, dx, dy) \in Corners(o) <=> OnSide(ox, oy, dx, dy)
      PROVE  shared = side
  <2>1. ASSUME NEW c \in shared
        PROVE  c \in side
    BY <1>3, <1>4, <1>7, <2>1
  <2>2. ASSUME NEW c \in side
        PROVE  c \in shared
    BY <1>2, <1>3, <1>7, <2>2
  <2> QED
    BY <2>1, <2>2
<1> QED
  BY <1>5, <1>6, <1>7 DEF ox, oy

\* The pixel that shares just the corners on a side is the one beside.
LEMMA SideBeside ==
  ASSUME IsBase(base), NEW at \in Places(base), NEW o \in Places(base), NEW i \in 0 .. 7
  PROVE  Corners(o) \cap Corners(at) = Side(at, i) <=>
           Beside(Way(at.face, o.face), base.nside, at.ix + nb_xoffset(i),
                  at.iy + nb_yoffset(i), o.ix, o.iy)
<1> DEFINE n == base.nside
           x == at.ix
           y == at.iy
           ox == nb_xoffset(i)
           oy == nb_yoffset(i)
           way == Way(at.face, o.face)
           T(dx, dy) == Touches(way, n, x + dx, y + dy, o.ix, o.iy)
<1>1. /\ n \in Nat \ {0} /\ x \in 0 .. n - 1 /\ y \in 0 .. n - 1
      /\ o.ix \in 0 .. n - 1 /\ o.iy \in 0 .. n - 1
  BY DEF IsBase, Places
<1>2. /\ ox \in -1 .. 1 /\ oy \in -1 .. 1
      /\ ox # 0 \/ oy # 0
  BY DEF nb_xoffset, nb_yoffset
<1>3. \A dx, dy \in 0 .. 1 : Corner(at, dx, dy) \in Corners(o) <=> T(dx, dy)
  BY SharedCorner
<1>4. Corners(o) \cap Corners(at) = Side(at, i) <=>
        \A dx, dy \in 0 .. 1 : Corner(at, dx, dy) \in Corners(o) <=> OnSide(ox, oy, dx, dy)
  BY SideShared
<1> HIDE DEF ox, oy, way
<1>5. Beside(way, n, x + ox, y + oy, o.ix, o.iy) <=>
        /\ Touches(way, n, x, y, o.ix, o.iy) <=> OnSide(ox, oy, 0, 0)
        /\ Touches(way, n, x + 1, y, o.ix, o.iy) <=> OnSide(ox, oy, 1, 0)
        /\ Touches(way, n, x, y + 1, o.ix, o.iy) <=> OnSide(ox, oy, 0, 1)
        /\ Touches(way, n, x + 1, y + 1, o.ix, o.iy) <=> OnSide(ox, oy, 1, 1)
  BY <1>1, <1>2, SideTouched
<1>6. /\ x + 0 = x
      /\ y + 0 = y
  BY <1>1
<1>7. Beside(way, n, x + ox, y + oy, o.ix, o.iy) <=>
        /\ T(0, 0) <=> OnSide(ox, oy, 0, 0)
        /\ T(1, 0) <=> OnSide(ox, oy, 1, 0)
        /\ T(0, 1) <=> OnSide(ox, oy, 0, 1)
        /\ T(1, 1) <=> OnSide(ox, oy, 1, 1)
  BY <1>5, <1>6
<1> HIDE DEF T
<1>8. Beside(way, n, x + ox, y + oy, o.ix, o.iy) <=>
        \A dx, dy \in 0 .. 1 : T(dx, dy) <=> OnSide(ox, oy, dx, dy)
  BY <1>7
<1> QED
  BY <1>3, <1>4, <1>8 DEF ox, oy, way

\* In each of the eight directions neighbors returns the one pixel that shares just the
\* corners on that side with the pixel held, or -1 if there is no such pixel:
\* at every side, at the borders and corners of the faces and at the poles.
THEOREM NeighborsExactAlways == Spec => []NeighborsExact
<1>1. WalkInv => NeighborsExact
  <2> SUFFICES ASSUME IsBase(base), pix \in Pixels(base)
               PROVE  NeighborsExact
    BY DEF WalkInv
  <2>1. ASSUME NEW at \in Places(base), NEW i \in 0 .. 7,
               NEW near, near = { o \in Places(base) : Corners(o) \cap Corners(at) # {} }
        PROVE  { xyf2pix(base, other) :
                   other \in { o \in near : Corners(o) \cap Corners(at) = Side(at, i) } }
               = { neighbors(base, at)[i] } \ { -1 }
    <3> DEFINE there == { o \in Places(base) :
                  Beside(Way(at.face, o.face), base.nside, at.ix + nb_xoffset(i),
                         at.iy + nb_yoffset(i), o.ix, o.iy) }
               sharing == { o \in near : Corners(o) \cap Corners(at) = Side(at, i) }
    <3>1. sharing = there
      <4>1. \A o \in Places(base) : /\ Side(at, i) # {}
                                    /\ Corners(o) \cap Corners(at) = Side(at, i) <=> o \in there
        BY SideBeside, SideShared
      <4>2. there \subseteq Places(base)
        OBVIOUS
      <4> HIDE DEF there
      <4> QED
        BY ZenonT(30), <2>1, <4>1, <4>2
    <3>2. { xyf2pix(base, o) : o \in there } = { neighbors(base, at)[i] } \ { -1 }
      BY NeighborBeside
    <3> HIDE DEF there, sharing
    <3> QED
      BY <3>1, <3>2 DEF sharing
  <2>2. pix2xyf(base, pix) \in Places(base)
    BY PlaceOfPixel
  <2> QED
    BY <2>1, <2>2 DEF NeighborsExact
<1> QED
  BY <1>1, WalkTyped, PTL

----------------------------------------------------------------------------
(* The Peano curve.                                                        *)

\* The bits of a quadrant.
LowBit(q) == q % 2
HighBit(q) == q \div 2

\* A path enters and leaves the quadrants of a square, and those of the first and last of
\* them, at the same corners, ...
PathEntry(path) == peano_subpix(1, path, 0)
PathExit(path) == peano_subpix(1, path, 3)

LEMMA PeanoEnds ==
  ASSUME NEW path \in 0 .. 7
  PROVE  /\ PathEntry(path) \in 0 .. 3 /\ PathExit(path) \in 0 .. 3
         /\ PathEntry(peano_subpath(1, path, 0)) = PathEntry(path)
         /\ PathExit(peano_subpath(1, path, 3)) = PathExit(path)
<1>1. PathEntry(path) \in 0 .. 3 /\ PathExit(path) \in 0 .. 3
  BY DEF PathEntry, PathExit, peano_subpix
<1>2. PathEntry(peano_subpath(1, path, 0)) = PathEntry(path)
  BY DEF PathEntry, peano_subpix, peano_subpath
<1>3. PathExit(peano_subpath(1, path, 3)) = PathExit(path)
  BY DEF PathExit, peano_subpix, peano_subpath
<1> QED
  BY <1>1, <1>2, <1>3

\* ... which two squares next to each other on the curve have in common: they are beside each
\* other across an edge, and so are the quadrants where the curve leaves one and
\* enters the other.
Edges == { 0, 2, 4, 6 }
Linked(way, n, x, y, u, v, path, next) ==
  \E i \in Edges :
    /\ Beside(way, n, x + nb_xoffset(i), y + nb_yoffset(i), u, v)
    /\ Beside(way, 2 * n, 2 * x + LowBit(PathExit(path)) + nb_xoffset(i),
              2 * y + HighBit(PathExit(path)) + nb_yoffset(i),
              2 * u + LowBit(PathEntry(next)), 2 * v + HighBit(PathEntry(next)))

LEMMA BesideDeeper ==
  ASSUME NEW way, NEW n \in Nat \ {0}, NEW x \in Int, NEW y \in Int, NEW u \in Int, NEW v \in Int,
         NEW ox \in Int, NEW oy \in Int, NEW ex \in Int, NEW ey \in Int, NEW nx \in Int, NEW ny \in Int,
         Beside(way, n, x + ox, y + oy, u, v),
         Beside(way, 2 * n, 2 * x + ex + ox, 2 * y + ey + oy, 2 * u + nx, 2 * v + ny)
  PROVE  Beside(way, 2 * (2 * n), 2 * (2 * x + ex) + ex + ox, 2 * (2 * y + ey) + ey + oy,
                2 * (2 * u + nx) + nx, 2 * (2 * v + ny) + ny)
<1>1. CASE way = "same"
  BY <1>1 DEF Beside
<1>2. CASE way = "SW"
  BY <1>2 DEF Beside
<1>3. CASE way = "SE"
  BY <1>3 DEF Beside
<1>4. CASE way = "NE"
  BY <1>4 DEF Beside
<1>5. CASE way = "NW"
  BY <1>5 DEF Beside
<1>6. CASE way = "capE"
  BY <1>6 DEF Beside
<1>7. CASE way = "capW"
  BY <1>7 DEF Beside
<1>8. CASE way = "footE"
  BY <1>8 DEF Beside
<1>9. CASE way = "footW"
  BY <1>9 DEF Beside
<1>10. CASE way = "E"
  BY <1>10 DEF Beside
<1>11. CASE way = "W"
  BY <1>11 DEF Beside
<1>12. CASE way = "S"
  BY <1>12 DEF Beside
<1>13. CASE way = "N"
  BY <1>13 DEF Beside
<1>14. CASE way = "pole"
  BY <1>14 DEF Beside
<1>15. CASE way = "foot"
  BY <1>15 DEF Beside
<1>16. CASE way \notin Ways
  BY <1>16 DEF Ways, Beside
<1> QED
  BY <1>1, <1>2, <1>3, <1>4, <1>5, <1>6, <1>7, <1>8, <1>9, <1>10, <1>11, <1>12, <1>13, <1>14, <1>15, <1>16 DEF Ways

LEMMA LinkedDeeper ==
  ASSUME NEW way, NEW n \in Nat \ {0}, NEW x \in Int, NEW y \in Int, NEW u \in Int, NEW v \in Int,
         NEW path \in 0 .. 7, NEW next \in 0 .. 7, Linked(way, n, x, y, u, v, path, next)
  PROVE  Linked(way, 2 * n, 2 * x + LowBit(PathExit(path)), 2 * y + HighBit(PathExit(path)),
                2 * u + LowBit(PathEntry(next)), 2 * v + HighBit(PathEntry(next)),
                peano_subpath(1, path, 3), peano_subpath(1, next, 0))
<1> DEFINE ex == LowBit(PathExit(path))
           ey == HighBit(PathExit(path))
           nx == LowBit(PathEntry(next))
           ny == HighBit(PathEntry(next))
<1>1. /\ PathExit(path) \in 0 .. 3 /\ PathEntry(next) \in 0 .. 3
      /\ PathExit(peano_subpath(1, path, 3)) = PathExit(path)
      /\ PathEntry(peano_subpath(1, next, 0)) = PathEntry(next)
  BY PeanoEnds
<1>2. ex \in Int /\ ey \in Int /\ nx \in Int /\ ny \in Int
  BY <1>1 DEF LowBit, HighBit
<1>3. PICK i \in Edges :
        /\ Beside(way, n, x + nb_xoffset(i), y + nb_yoffset(i), u, v)
        /\ Beside(way, 2 * n, 2 * x + ex + nb_xoffset(i), 2 * y + ey + nb_yoffset(i),
                  2 * u + nx, 2 * v + ny)
  BY DEF Linked
<1> DEFINE ox == nb_xoffset(i)
           oy == nb_yoffset(i)
<1>4. ox \in Int /\ oy \in Int
  BY DEF Edges, nb_xoffset, nb_yoffset
<1> HIDE DEF ox, oy, ex, ey, nx, ny
<1>5. /\ Beside(way, n, x + ox, y + oy, u, v)
      /\ Beside(way, 2 * n, 2 * x + ex + ox, 2 * y + ey + oy, 2 * u + nx, 2 * v + ny)
  BY <1>3 DEF ox, oy
<1>6. Beside(way, 2 * (2 * n), 2 * (2 * x + ex) + ex + ox, 2 * (2 * y + ey) + ey + oy,
             2 * (2 * u + nx) + nx, 2 * (2 * v + ny) + ny)
  BY <1>2, <1>4, <1>5, BesideDeeper
<1>7. Linked(way, 2 * n, 2 * x + ex, 2 * y + ey, 2 * u + nx, 2 * v + ny,
             peano_subpath(1, path, 3), peano_subpath(1, next, 0))
  BY <1>1, <1>5, <1>6 DEF Linked, ox, oy, ex, ey, nx, ny
<1> QED
  BY <1>7 DEF ex, ey, nx, ny

\* Within a square the path joins each quadrant to the next, ...
JoinedBy(i, q, r, exit, entry) ==
  /\ LowBit(q) + nb_xoffset(i) = LowBit(r)
  /\ HighBit(q) + nb_yoffset(i) = HighBit(r)
  /\ LowBit(exit) - nb_xoffset(i) = LowBit(entry)
  /\ HighBit(exit) - nb_yoffset(i) = HighBit(entry)
Joined(i, path, sub) ==
  JoinedBy(i, peano_subpix(1, path, sub), peano_subpix(1, path, sub + 1),
           PathExit(peano_subpath(1, path, sub)), PathEntry(peano_subpath(1, path, sub + 1)))

LEMMA PeanoJoins ==
  ASSUME NEW path \in 0 .. 7, NEW sub \in 0 .. 2
  PROVE  \E i \in Edges : Joined(i, path, sub)
<1> DEFINE quadrants(p, q, r, s, t) ==
             /\ peano_subpix(1, p, 0) = q /\ peano_subpix(1, p, 1) = r
             /\ peano_subpix(1, p, 2) = s /\ peano_subpix(1, p, 3) = t
           paths(p, q, r, s, t) ==
             /\ peano_subpath(1, p, 0) = q /\ peano_subpath(1, p, 1) = r
             /\ peano_subpath(1, p, 2) = s /\ peano_subpath(1, p, 3) = t
<1>1. quadrants(0, 0, 1, 3, 2) /\ paths(0, 4, 0, 0, 6)
  BY DEF peano_subpix, peano_subpath
<1>2. quadrants(1, 1, 3, 2, 0) /\ paths(1, 5, 1, 1, 7)
  BY DEF peano_subpix, peano_subpath
<1>3. quadrants(2, 3, 2, 0, 1) /\ paths(2, 6, 2, 2, 4)
  BY DEF peano_subpix, peano_subpath
<1>4. quadrants(3, 2, 0, 1, 3) /\ paths(3, 7, 3, 3, 5)
  BY DEF peano_subpix, peano_subpath
<1>5. quadrants(4, 0, 2, 3, 1) /\ paths(4, 0, 4, 4, 2)
  BY DEF peano_subpix, peano_subpath
<1>6. quadrants(5, 1, 0, 2, 3) /\ paths(5, 1, 5, 5, 3)
  BY DEF peano_subpix, peano_subpath
<1>7. quadrants(6, 3, 1, 0, 2) /\ paths(6, 2, 6, 6, 0)
  BY DEF peano_subpix, peano_subpath
<1>8. quadrants(7, 2, 3, 1, 0) /\ paths(7, 3, 7, 7, 1)
  BY DEF peano_subpix, peano_subpath
<1>9. /\ LowBit(0) = 0 /\ LowBit(1) = 1 /\ LowBit(2) = 0 /\ LowBit(3) = 1
      /\ HighBit(0) = 0 /\ HighBit(1) = 0 /\ HighBit(2) = 1 /\ HighBit(3) = 1
  BY DEF LowBit, HighBit
<1>10. /\ nb_xoffset(0) = -1 /\ nb_xoffset(2) = 0 /\ nb_xoffset(4) = 1 /\ nb_xoffset(6) = 0
       /\ nb_yoffset(0) = 0 /\ nb_yoffset(2) = 1 /\ nb_yoffset(4) = 0 /\ nb_yoffset(6) = -1
  BY DEF nb_xoffset, nb_yoffset
<1>11. sub = 0 \/ sub = 1 \/ sub = 2
  OBVIOUS
<1>12. 0 + 1 = 1 /\ 1 + 1 = 2 /\ 2 + 1 = 3
  OBVIOUS
<1>13. CASE path = 0
  <2>1. Joined(4, 0, 0) /\ Joined(2, 0, 1) /\ Joined(0, 0, 2)
    BY <1>1, <1>5, <1>7, <1>9, <1>10, <1>12 DEF Joined, JoinedBy, PathExit, PathEntry
  <2> QED
    BY <1>11, <1>13, <2>1 DEF Edges
<1>14. CASE path = 1
  <2>1. Joined(2, 1, 0) /\ Joined(0, 1, 1) /\ Joined(6, 1, 2)
    BY <1>2, <1>6, <1>8, <1>9, <1>10, <1>12 DEF Joined, JoinedBy, PathExit, PathEntry
  <2> QED
    BY <1>11, <1>14, <2>1 DEF Edges
<1>15. CASE path = 2
  <2>1. Joined(0, 2, 0) /\ Joined(6, 2, 1) /\ Joined(4, 2, 2)
    BY <1>3, <1>5, <1>7, <1>9, <1>10, <1>12 DEF Joined, JoinedBy, PathExit, PathEntry
  <2> QED
    BY <1>11, <1>15, <2>1 DEF Edges
<1>16. CASE path = 3
  <2>1. Joined(6, 3, 0) /\ Joined(4, 3, 1) /\ Joined(2, 3, 2)
    BY <1>4, <1>6, <1>8, <1>9, <1>10, <1>12 DEF Joined, JoinedBy, PathExit, PathEntry
  <2> QED
    BY <1>11, <1>16, <2>1 DEF Edges
<1>17. CASE path = 4
  <2>1. Joined(2, 4, 0) /\ Joined(4, 4, 1) /\ Joined(6, 4, 2)
    BY <1>1, <1>3, <1>5, <1>9, <1>10, <1>12 DEF Joined, JoinedBy, PathExit, PathEntry
  <2> QED
    BY <1>11, <1>17, <2>1 DEF Edges
<1>18. CASE path = 5
  <2>1. Joined(0, 5, 0) /\ Joined(2, 5, 1) /\ Joined(4, 5, 2)
    BY <1>2, <1>4, <1>6, <1>9, <1>10, <1>12 DEF Joined, JoinedBy, PathExit, PathEntry
  <2> QED
    BY <1>11, <1>18, <2>1 DEF Edges
<1>19. CASE path = 6
  <2>1. Joined(6, 6, 0) /\ Joined(0, 6, 1) /\ Joined(2, 6, 2)
    BY <1>1, <1>3, <1>7, <1>9, <1>10, <1>12 DEF Joined, JoinedBy, PathExit, PathEntry
  <2> QED
    BY <1>11, <1>19, <2>1 DEF Edges
<1>20. CASE path = 7
  <2>1. Joined(4, 7, 0) /\ Joined(6, 7, 1) /\ Joined(0, 7, 2)
    BY <1>2, <1>4, <1>8, <1>9, <1>10, <1>12 DEF Joined, JoinedBy, PathExit, PathEntry
  <2> QED
    BY <1>11, <1>20, <2>1 DEF Edges
<1> QED
  BY <1>13, <1>14, <1>15, <1>16, <1>17, <1>18, <1>19, <1>20

\* ... and the last quadrant of a face to the first of the next.
LEMMA PeanoFaceJoins ==
  ASSUME NEW index \in 0 .. 10
  PROVE  Linked(Way(peano_face2face(1, index), peano_face2face(1, index + 1)), 1, 0, 0, 0, 0,
                peano_face2path(1, index), peano_face2path(1, index + 1))
<1> DEFINE face(k) == peano_face2face(1, k)
           path(k) == peano_face2path(1, k)
<1>1. /\ face(0) = 0 /\ face(1) = 5 /\ face(2) = 8 /\ face(3) = 9 /\ face(4) = 6 /\ face(5) = 1
      /\ face(6) = 2 /\ face(7) = 7 /\ face(8) = 10 /\ face(9) = 11 /\ face(10) = 4 /\ face(11) = 3
  BY DEF peano_face2face
<1>2. /\ path(0) = 2 /\ path(1) = 6 /\ path(2) = 2 /\ path(3) = 3 /\ path(4) = 3 /\ path(5) = 5
      /\ path(6) = 2 /\ path(7) = 6 /\ path(8) = 2 /\ path(9) = 3 /\ path(10) = 3 /\ path(11) = 5
  BY DEF peano_face2path
<1>3. /\ PathEntry(2) = 3 /\ PathEntry(3) = 2 /\ PathEntry(5) = 1 /\ PathEntry(6) = 3
      /\ PathExit(2) = 1 /\ PathExit(3) = 3 /\ PathExit(5) = 3 /\ PathExit(6) = 2
  BY DEF PathEntry, PathExit, peano_subpix
<1>4. /\ LowBit(0) = 0 /\ LowBit(1) = 1 /\ LowBit(2) = 0 /\ LowBit(3) = 1
      /\ HighBit(0) = 0 /\ HighBit(1) = 0 /\ HighBit(2) = 1 /\ HighBit(3) = 1
  BY DEF LowBit, HighBit
<1>5. /\ nb_xoffset(0) = -1 /\ nb_xoffset(2) = 0 /\ nb_xoffset(4) = 1 /\ nb_xoffset(6) = 0
      /\ nb_yoffset(0) = 0 /\ nb_yoffset(2) = 1 /\ nb_yoffset(4) = 0 /\ nb_yoffset(6) = -1
  BY DEF nb_xoffset, nb_yoffset
<1>6. \/ index = 0 \/ index = 1 \/ index = 2 \/ index = 3 \/ index = 4 \/ index = 5
        \/ index = 6 \/ index = 7 \/ index = 8 \/ index = 9 \/ index = 10
  OBVIOUS
<1>7. Linked("SE", 1, 0, 0, 0, 0, 2, 6)
  <2>1. /\ Beside("SE", 1, 0, -1, 0, 0)
        /\ Beside("SE", 2, 1, -1, 1, 1)
    BY DEF Beside
  <2> QED
    BY <1>3, <1>4, <1>5, <2>1 DEF Linked, Edges
<1>8. Linked("SW", 1, 0, 0, 0, 0, 6, 2)
  <2>1. /\ Beside("SW", 1, -1, 0, 0, 0)
        /\ Beside("SW", 2, -1, 1, 1, 1)
    BY DEF Beside
  <2> QED
    BY <1>3, <1>4, <1>5, <2>1 DEF Linked, Edges
<1>9. Linked("footE", 1, 0, 0, 0, 0, 2, 3)
  <2>1. /\ Beside("footE", 1, 0, -1, 0, 0)
        /\ Beside("footE", 2, 1, -1, 0, 1)
    BY DEF Beside
  <2> QED
    BY <1>3, <1>4, <1>5, <2>1 DEF Linked, Edges
<1>10. Linked("NE", 1, 0, 0, 0, 0, 3, 3)
  <2>1. /\ Beside("NE", 1, 1, 0, 0, 0)
        /\ Beside("NE", 2, 2, 1, 0, 1)
    BY DEF Beside
  <2> QED
    BY <1>3, <1>4, <1>5, <2>1 DEF Linked, Edges
<1>11. Linked("NW", 1, 0, 0, 0, 0, 3, 5)
  <2>1. /\ Beside("NW", 1, 0, 1, 0, 0)
        /\ Beside("NW", 2, 1, 2, 1, 0)
    BY DEF Beside
  <2> QED
    BY <1>3, <1>4, <1>5, <2>1 DEF Linked, Edges
<1>12. Linked("capE", 1, 0, 0, 0, 0, 5, 2)
  <2>1. /\ Beside("capE", 1, 1, 0, 0, 0)
        /\ Beside("capE", 2, 2, 1, 1, 1)
    BY DEF Beside
  <2> QED
    BY <1>3, <1>4, <1>5, <2>1 DEF Linked, Edges
<1>13. CASE index = 0
  <2>1. Way(0, 5) = "SE"
    BY DEF Way, East, SouthWest, SouthEast
  <2> QED
    BY <1>1, <1>2, <1>7, <1>13, <2>1
<1>14. CASE index = 1
  <2>1. Way(5, 8) = "SW"
    BY DEF Way, East, SouthWest, SouthEast
  <2> QED
    BY <1>1, <1>2, <1>8, <1>14, <2>1
<1>15. CASE index = 2
  <2>1. Way(8, 9) = "footE"
    BY DEF Way, East, SouthWest, SouthEast
  <2> QED
    BY <1>1, <1>2, <1>9, <1>15, <2>1
<1>16. CASE index = 3
  <2>1. Way(9, 6) = "NE"
    BY DEF Way, East, SouthWest, SouthEast
  <2> QED
    BY <1>1, <1>2, <1>10, <1>16, <2>1
<1>17. CASE index = 4
  <2>1. Way(6, 1) = "NW"
    BY DEF Way, East, SouthWest, SouthEast
  <2> QED
    BY <1>1, <1>2, <1>11, <1>17, <2>1
<1>18. CASE index = 5
  <2>1. Way(1, 2) = "capE"
    BY DEF Way, East, SouthWest, SouthEast
  <2> QED
    BY <1>1, <1>2, <1>12, <1>18, <2>1
<1>19. CASE index = 6
  <2>1. Way(2, 7) = "SE"
    BY DEF Way, East, SouthWest, SouthEast
  <2> QED
    BY <1>1, <1>2, <1>7, <1>19, <2>1
<1>20. CASE index = 7
  <2>1. Way(7, 10) = "SW"
    BY DEF Way, East, SouthWest, SouthEast
  <2> QED
    BY <1>1, <1>2, <1>8, <1>20, <2>1
<1>21. CASE index = 8
  <2>1. Way(10, 11) = "footE"
    BY DEF Way, East, SouthWest, SouthEast
  <2> QED
    BY <1>1, <1>2, <1>9, <1>21, <2>1
<1>22. CASE index = 9
  <2>1. Way(11, 4) = "NE"
    BY DEF Way, East, SouthWest, SouthEast
  <2> QED
    BY <1>1, <1>2, <1>10, <1>22, <2>1
<1>23. CASE index = 10
  <2>1. Way(4, 3) = "NW"
    BY DEF Way, East, SouthWest, SouthEast
  <2> QED
    BY <1>1, <1>2, <1>11, <1>23, <2>1
<1> QED
  BY <1>6, <1>13, <1>14, <1>15, <1>16, <1>17, <1>18, <1>19, <1>20, <1>21, <1>22, <1>23

LEMMA SquareJoins ==
  ASSUME NEW n \in Nat \ {0}, NEW x \in Int, NEW y \in Int, NEW path \in 0 .. 7, NEW sub \in 0 .. 2
  PROVE  Linked("same", n, 2 * x + LowBit(peano_subpix(1, path, sub)),
                2 * y + HighBit(peano_subpix(1, path, sub)),
                2 * x + LowBit(peano_subpix(1, path, sub + 1)),
                2 * y + HighBit(peano_subpix(1, path, sub + 1)),
                peano_subpath(1, path, sub), peano_subpath(1, path, sub + 1))
<1> DEFINE q == peano_subpix(1, path, sub)
           r == peano_subpix(1, path, sub + 1)
           p == peano_subpath(1, path, sub)
           s == peano_subpath(1, path, sub + 1)
           e == PathExit(p)
           f == PathEntry(s)
<1>1. PICK i \in Edges : JoinedBy(i, q, r, e, f)
  BY PeanoJoins DEF Joined
<1>2. q \in 0 .. 3 /\ r \in 0 .. 3 /\ p \in 0 .. 7 /\ s \in 0 .. 7
  <2>1. sub \in 0 .. 3 /\ sub + 1 \in 0 .. 3
    OBVIOUS
  <2> QED
    BY <2>1, PeanoTables
<1> HIDE DEF q, r, p, s
<1>3. e \in 0 .. 3 /\ f \in 0 .. 3
  BY <1>2, PeanoEnds
<1> HIDE DEF e, f
<1>4. \A d \in 0 .. 3 : LowBit(d) \in Int /\ HighBit(d) \in Int
  BY DEF LowBit, HighBit
<1> DEFINE ox == nb_xoffset(i)
           oy == nb_yoffset(i)
<1>5. ox \in Int /\ oy \in Int
  BY DEF Edges, nb_xoffset, nb_yoffset
<1>6. /\ LowBit(q) + ox = LowBit(r)
      /\ HighBit(q) + oy = HighBit(r)
      /\ LowBit(e) - ox = LowBit(f)
      /\ HighBit(e) - oy = HighBit(f)
  BY <1>1 DEF JoinedBy
<1> HIDE DEF ox, oy
<1> DEFINE x1 == 2 * x + LowBit(q)
           y1 == 2 * y + HighBit(q)
           x2 == 2 * x + LowBit(r)
           y2 == 2 * y + HighBit(r)
<1>7. /\ x1 + ox = x2
      /\ y1 + oy = y2
      /\ 2 * x1 + LowBit(e) + ox = 2 * x2 + LowBit(f)
      /\ 2 * y1 + HighBit(e) + oy = 2 * y2 + HighBit(f)
  BY <1>2, <1>3, <1>4, <1>5, <1>6
<1> HIDE DEF x1, y1, x2, y2
<1>8. /\ Beside("same", n, x1 + ox, y1 + oy, x2, y2)
      /\ Beside("same", 2 * n, 2 * x1 + LowBit(e) + ox, 2 * y1 + HighBit(e) + oy,
                2 * x2 + LowBit(f), 2 * y2 + HighBit(f))
  BY <1>7 DEF Beside
<1>9. Linked("same", n, x1, y1, x2, y2, p, s)
  BY <1>8 DEF Linked, ox, oy, e, f
<1> QED
  BY <1>9 DEF x1, y1, x2, y2, p, q, r, s

\* The place in its face of the pixel with a number there, and that of the quadrants of its
\* square.
ColumnOf(num) == compress_bits[num]
LineOf(num) == compress_bits[num \div 2]

LEMMA Deeper ==
  ASSUME NEW num \in Nat, NEW q \in 0 .. 3
  PROVE  /\ ColumnOf(num) \in Int /\ LineOf(num) \in Int
         /\ ColumnOf(4 * num + q) = 2 * ColumnOf(num) + LowBit(q)
         /\ LineOf(4 * num + q) = 2 * LineOf(num) + HighBit(q)
<1> DEFINE m == 4 * num + q
<1>1. /\ m \in Nat /\ m \div 4 = num /\ m % 2 = q % 2
      /\ m \div 2 \in Nat /\ (m \div 2) \div 4 = num \div 2 /\ (m \div 2) % 2 = q \div 2
      /\ num \div 2 \in Nat
  <2>1. m \in Nat /\ m \div 4 = num
    OBVIOUS
  <2>2. /\ q = 0 \/ q = 1 \/ q = 2 \/ q = 3
        /\ num \div 2 \in Nat
    OBVIOUS
  <2>3. m % 2 = q % 2
    BY <2>2
  <2>4. m \div 2 = 2 * num + q \div 2 /\ q \div 2 \in 0 .. 1
    BY <2>2
  <2>5. (2 * num + q \div 2) \div 4 = num \div 2 /\ (2 * num + q \div 2) % 2 = q \div 2
    BY <2>4
  <2>6. m \div 2 \in Nat
    BY <2>4
  <2> QED
    BY <2>1, <2>2, <2>3, <2>4, <2>5, <2>6
<1> HIDE DEF m
<1>2. /\ compress_bits[m] = 2 * compress_bits[m \div 4] + (m % 2)
      /\ compress_bits[m \div 2] = 2 * compress_bits[(m \div 2) \div 4] + ((m \div 2) % 2)
  BY <1>1, Bits
<1>3. compress_bits[num] \in Nat /\ compress_bits[num \div 2] \in Nat
  BY <1>1, Bits
<1>4. ColumnOf(m) = 2 * ColumnOf(num) + LowBit(q) /\ LineOf(m) = 2 * LineOf(num) + HighBit(q)
  BY <1>1, <1>2 DEF ColumnOf, LineOf, LowBit, HighBit
<1> QED
  BY <1>3, <1>4 DEF ColumnOf, LineOf, m

\* The walk from a Peano index down to the pixel.
Walked(b, num, h) ==
  /\ h[0] = PeanoStart(num \div npface(b), 1)
  /\ \A i \in 1 .. b.order : h[i] = PeanoStep(h[i-1], 1, (num \div 4^(b.order - i)) % 4)

LEMMA PeanoDescent ==
  ASSUME NEW b, Hierarchical(b), NEW num \in Pixels(b), NEW h, Walked(b, num, h),
         NEW k \in 0 .. b.order - 1
  PROVE  LET s == (num \div 4^(b.order - (k + 1))) % 4
             path == h[k].path
             q == peano_subpix(1, path, s)
             x == ColumnOf(h[k].result)
             y == LineOf(h[k].result)
         IN  /\ s \in 0 .. 3 /\ path \in 0 .. 7 /\ x \in Int /\ y \in Int
             /\ h[k+1].path = peano_subpath(1, path, s)
             /\ ColumnOf(h[k+1].result) = 2 * x + LowBit(q)
             /\ LineOf(h[k+1].result) = 2 * y + HighBit(q)
<1> DEFINE n == b.order
           s == (num \div 4^(n - (k + 1))) % 4
           path == h[k].path
           r == h[k].result
           q == peano_subpix(1, path, s)
           face == num \div npface(b)
<1>1. /\ n \in Nat
      /\ \A i \in 0 .. n : 4^i \in Nat \ {0}
  BY FourPowers
<1>2. num \in Nat /\ face \in 0 .. 11
  BY FaceOf
<1>3. /\ h[0] = PeanoStart(face, 1)
      /\ \A i \in 1 .. n : h[i] = PeanoStep(h[i-1], 1, (num \div 4^(n - i)) % 4)
  BY DEF Walked
<1>4. k \in 0 .. n /\ k + 1 \in 1 .. n /\ (k + 1) - 1 = k
  BY <1>1
<1>5. /\ \A i \in 1 .. n : (num \div 4^(n - i)) % 4 \in 0 .. 3
      /\ \A i \in 0 .. n : h[i].result \in 0 .. 4^i - 1 /\ h[i].path \in 0 .. 7
  <2> HIDE DEF face
  <2> QED
    BY <1>2, <1>3, PeanoWalked
<1>6. s \in 0 .. 3
  BY <1>4, <1>5
<1>7. path \in 0 .. 7 /\ r \in Nat
  <2>1. 4^k \in Nat /\ r \in 0 .. 4^k - 1
    BY <1>1, <1>4, <1>5
  <2> QED
    BY <1>4, <1>5, <2>1
<1>8. h[k+1] = PeanoStep(h[k], 1, s)
  BY <1>3, <1>4
<1> HIDE DEF s
<1>9. h[k+1].result = 4 * r + q /\ h[k+1].path = peano_subpath(1, path, s)
  BY <1>8 DEF PeanoStep
<1>10. q \in 0 .. 3
  BY <1>6, <1>7, PeanoTables
<1> HIDE DEF r, q, path
<1>11. /\ ColumnOf(r) \in Int /\ LineOf(r) \in Int
       /\ ColumnOf(4 * r + q) = 2 * ColumnOf(r) + LowBit(q)
       /\ LineOf(4 * r + q) = 2 * LineOf(r) + HighBit(q)
  BY <1>7, <1>10, Deeper
<1> QED
  BY <1>6, <1>7, <1>9, <1>11 DEF s, r, q, path

LEMMA PeanoArrival ==
  ASSUME NEW b, Hierarchical(b), NEW num \in Pixels(b)
  PROVE  \E h : /\ Walked(b, num, h)
                /\ nest2xyf(b, peano2nest(b, num))
                     = [ face |-> peano_face2face(1, num \div npface(b)),
                         ix |-> ColumnOf(h[b.order].result), iy |-> LineOf(h[b.order].result) ]
<1> DEFINE n == b.order
           N == npface(b)
           face == num \div N
           to == peano_face2face(1, face)
<1>1. PICK h : /\ h[0] = PeanoStart(face, 1)
               /\ \A i \in 1 .. n : h[i] = PeanoStep(h[i-1], 1, (num \div 4^(n - i)) % 4)
               /\ nest_peano_helper(b, num, 1) = h[n].result + to * N
  <2>1. n \in Nat
    BY FourPowers
  <2> QED
    BY <2>1, PeanoTurns
<1>2. num \in Nat /\ face \in 0 .. 11 /\ n \in Nat
  BY FaceOf, FourPowers
<1>3. h[n].result \in 0 .. 4^n - 1
  <2>1. n \in 0 .. n
    BY <1>2
  <2> HIDE DEF face
  <2> QED
    BY SMTT(30), <1>1, <1>2, <2>1, PeanoWalked
<1>4. to \in 0 .. 11
  BY <1>2, PeanoFaces
<1>5. N \in Nat \ {0} /\ N = 4^n
  BY Hierarchy
<1> DEFINE r == h[n].result
           nest == peano2nest(b, num)
<1>6. r \in 0 .. N - 1
  BY <1>3, <1>5
<1>7. nest = r + to * N
  BY <1>1 DEF peano2nest
<1>8. Walked(b, num, h)
  BY <1>1 DEF Walked
<1> HIDE DEF N, to, r, face, nest
<1>9. nest \div N = to /\ nest % N = r
  <2>0. to * N = N * to /\ N * to \in Int
    BY <1>4, <1>5
  <2>1. nest = N * to + r /\ nest \in Int
    BY <1>5, <1>6, <1>7, <2>0
  <2>2. to \in Int
    BY <1>4
  <2> QED
    BY <1>5, <1>6, <2>1, <2>2, Division
<1>10. nest2xyf(b, nest) = [ face |-> to, ix |-> ColumnOf(r), iy |-> LineOf(r) ]
  BY <1>9 DEF nest2xyf, ColumnOf, LineOf, N
<1> QED
  BY <1>8, <1>10 DEF to, r, face, nest, N

LEMMA NextQuotient ==
  ASSUME NEW m \in Nat, NEW w \in Nat \ {0}
  PROVE  (m + 1) \div w = m \div w \/ (m + 1) \div w = (m \div w) + 1
<1> DEFINE q == m \div w
           r == m % w
<1>1. q \in Int /\ r \in 0 .. w - 1 /\ m = w * q + r
  BY Divided
<1> HIDE DEF q, r
<1>2. CASE r # w - 1
  <2>1. m + 1 = w * q + (r + 1) /\ r + 1 \in 0 .. w - 1 /\ m + 1 \in Int
    BY <1>1, <1>2
  <2> QED
    BY <1>1, <2>1, Division DEF q
<1>3. CASE r = w - 1
  <2>1. w * (q + 1) = w * q + w
    BY <1>1
  <2>2. m + 1 = w * (q + 1) + 0 /\ 0 \in 0 .. w - 1 /\ m + 1 \in Int /\ q + 1 \in Int
    BY <1>1, <1>3, <2>1
  <2> QED
    BY <2>2, Division DEF q
<1> QED
  BY <1>2, <1>3

\* The walks down from an index and from the next one: together at first, then in squares that
\* are linked.
LEMMA PeanoNext ==
  ASSUME NEW b, Hierarchical(b), NEW num \in Pixels(b), num + 1 \in Pixels(b),
         NEW h, Walked(b, num, h), NEW g, Walked(b, num + 1, g)
  PROVE  LET n == b.order
             from == peano_face2face(1, num \div npface(b))
             to == peano_face2face(1, (num + 1) \div npface(b))
         IN  Linked(Way(from, to), b.nside, ColumnOf(h[n].result), LineOf(h[n].result),
                    ColumnOf(g[n].result), LineOf(g[n].result), h[n].path, g[n].path)
<1> DEFINE n == b.order
           N == npface(b)
           next == num + 1
           from == peano_face2face(1, num \div N)
           to == peano_face2face(1, next \div N)
           here(k) == num \div 4^(n - k)
           there(k) == next \div 4^(n - k)
           link(k) == Linked(Way(from, to), 2^k, ColumnOf(h[k].result), LineOf(h[k].result),
                             ColumnOf(g[k].result), LineOf(g[k].result), h[k].path, g[k].path)
           S == { k \in Nat : k <= n =>
                    \/ here(k) = there(k) /\ from = to /\ h[k] = g[k]
                    \/ here(k) + 1 = there(k) /\ link(k) }
<1>1. /\ n \in Nat /\ 4^0 = 1 /\ 2^0 = 1 /\ b.nside = 2^n /\ N = 4^n
      /\ \A k \in 0 .. n : 4^k \in Nat \ {0} /\ 2^k \in Nat \ {0}
      /\ \A k \in 0 .. n - 1 : 4^(k+1) = 4 * 4^k /\ 2^(k+1) = 2 * 2^k
  <2>1. /\ n \in Nat /\ 4^0 = 1
        /\ \A k \in 0 .. n : 4^k \in Nat \ {0}
        /\ \A k \in 0 .. n - 1 : 4^(k+1) = 4 * 4^k
    BY FourPowers
  <2>2. /\ 2^0 = 1 /\ b.nside = 2^n
        /\ \A k \in 0 .. n : 2^k \in Nat \ {0} /\ 2^(k+1) = 2 * 2^k
    BY DEF Hierarchical, PowersUpTo
  <2>3. N = 4^n
    BY Hierarchy
  <2>4. \A k \in 0 .. n - 1 : k \in 0 .. n
    BY <2>1
  <2> QED
    BY <2>1, <2>2, <2>3, <2>4
<1>2. /\ num \in Nat /\ next \in Nat
      /\ num \div N \in 0 .. 11 /\ next \div N \in 0 .. 11
  BY FaceOf
<1>3. ASSUME NEW k \in 0 .. n
      PROVE  here(k) \in Nat /\ there(k) \in Nat /\ (there(k) = here(k) \/ there(k) = here(k) + 1)
  <2> DEFINE w == 4^(n - k)
  <2>1. w \in Nat \ {0}
    <3>1. n - k \in 0 .. n
      BY <1>1
    <3> QED
      BY <1>1, <3>1
  <2> HIDE DEF w
  <2>2. num \div w \in Nat /\ next \div w \in Nat
    BY <1>2, <2>1, Quartered
  <2>3. next \div w = num \div w \/ next \div w = (num \div w) + 1
    BY <1>2, <2>1, NextQuotient
  <2> QED
    BY <2>2, <2>3 DEF w
<1>4. 0 \in S
  <2>1. here(0) = num \div N /\ there(0) = next \div N
    BY <1>1
  <2>2. h[0] = PeanoStart(here(0), 1) /\ g[0] = PeanoStart(there(0), 1)
    BY <2>1 DEF Walked
  <2>3. 0 \in 0 .. n
    BY <1>1
  <2>4. here(0) \in 0 .. 11 /\ there(0) \in 0 .. 11
    BY <1>2, <2>1
  <2>5. from = peano_face2face(1, here(0)) /\ to = peano_face2face(1, there(0))
    BY <2>1
  <2> DEFINE i == here(0)
             j == there(0)
  <2>6. j = i \/ j = i + 1
    BY <1>3, <2>3
  <2> HIDE DEF i, j, from, to
  <2>7. CASE j = i
    BY <2>2, <2>5, <2>7 DEF i, j
  <2>8. CASE j = i + 1
    <3>1. i \in 0 .. 10
      BY <2>4, <2>8 DEF i, j
    <3>2. Linked(Way(from, to), 1, 0, 0, 0, 0, peano_face2path(1, i), peano_face2path(1, j))
      BY <2>5, <2>8, <3>1, PeanoFaceJoins DEF i, j
    <3>3. /\ h[0].result = 0 /\ h[0].path = peano_face2path(1, i)
          /\ g[0].result = 0 /\ g[0].path = peano_face2path(1, j)
      BY <2>2 DEF PeanoStart, i, j
    <3>4. ColumnOf(0) = 0 /\ LineOf(0) = 0
      <4>1. 0 \div 2 = 0
        OBVIOUS
      <4> QED
        BY <4>1, Bits DEF ColumnOf, LineOf
    <3>5. link(0)
      BY <1>1, <3>2, <3>3, <3>4
    <3> HIDE DEF link
    <3> QED
      BY <2>8, <3>5 DEF i, j
  <2> QED
    BY <2>6, <2>7, <2>8
<1>5. ASSUME NEW k \in Nat, k \in S
      PROVE  k + 1 \in S
  <2>1. SUFFICES ASSUME k + 1 <= n
                 PROVE  \/ here(k+1) = there(k+1) /\ from = to /\ h[k+1] = g[k+1]
                        \/ here(k+1) + 1 = there(k+1) /\ link(k+1)
    OBVIOUS
  <2>2. k \in 0 .. n - 1 /\ k \in 0 .. n /\ k + 1 \in 0 .. n /\ k + 1 \in 1 .. n /\ k <= n
        /\ (k + 1) - 1 = k
    BY <1>1, <2>1
  <2>3. \/ here(k) = there(k) /\ from = to /\ h[k] = g[k]
        \/ here(k) + 1 = there(k) /\ link(k)
    BY <1>5, <2>2
  <2> DEFINE s == here(k+1) % 4
             t == there(k+1) % 4
             u == here(k+1)
             v == there(k+1)
  <2>4. here(k) = u \div 4 /\ there(k) = v \div 4
    <3> DEFINE m == n - (k + 1)
    <3>1. m \in 0 .. n - 1 /\ m \in 0 .. n /\ m + 1 = n - k
      BY <1>1, <2>2
    <3>2. 4^m \in Nat \ {0} /\ 4^(n - k) = 4 * 4^m
      BY <1>1, <3>1
    <3> HIDE DEF m
    <3>3. /\ (num \div 4^m) \div 4 = num \div (4 * 4^m)
          /\ (next \div 4^m) \div 4 = next \div (4 * 4^m)
      BY <1>2, <3>2, Quartered
    <3> QED
      BY <3>2, <3>3 DEF m
  <2>5. u \in Nat /\ v \in Nat /\ (v = u \/ v = u + 1)
    BY <1>3, <2>2
  <2> DEFINE p == h[k].path
             r == g[k].path
             x1 == ColumnOf(h[k].result)
             y1 == LineOf(h[k].result)
             x2 == ColumnOf(g[k].result)
             y2 == LineOf(g[k].result)
             q1 == peano_subpix(1, p, s)
             q2 == peano_subpix(1, r, t)
  <2>6. /\ s \in 0 .. 3 /\ p \in 0 .. 7 /\ x1 \in Int /\ y1 \in Int
        /\ h[k+1].path = peano_subpath(1, p, s)
        /\ ColumnOf(h[k+1].result) = 2 * x1 + LowBit(q1)
        /\ LineOf(h[k+1].result) = 2 * y1 + HighBit(q1)
    BY <2>2, PeanoDescent
  <2>7. /\ t \in 0 .. 3 /\ r \in 0 .. 7 /\ x2 \in Int /\ y2 \in Int
        /\ g[k+1].path = peano_subpath(1, r, t)
        /\ ColumnOf(g[k+1].result) = 2 * x2 + LowBit(q2)
        /\ LineOf(g[k+1].result) = 2 * y2 + HighBit(q2)
    <3> HIDE DEF next
    <3> QED
      BY <2>2, PeanoDescent DEF next
  <2>8. h[k+1] = PeanoStep(h[k], 1, s) /\ g[k+1] = PeanoStep(g[k], 1, t)
    BY <2>2 DEF Walked
  <2>9. 2^k \in Nat \ {0} /\ 2^(k+1) = 2 * 2^k /\ 2^(k+1) \in Nat \ {0}
    BY <1>1, <2>2
  <2> DEFINE P == 2^(k+1)
             way == Way(from, to)
  <2>10. link(k+1) <=> Linked(way, P, 2 * x1 + LowBit(q1), 2 * y1 + HighBit(q1),
                              2 * x2 + LowBit(q2), 2 * y2 + HighBit(q2),
                              peano_subpath(1, p, s), peano_subpath(1, r, t))
    BY <2>6, <2>7
  <2>11. link(k) <=> Linked(way, 2^k, x1, y1, x2, y2, p, r)
    OBVIOUS
  <2>12. s = u % 4 /\ t = v % 4
    OBVIOUS
  <2> HIDE DEF P, way, from, to, here, there, link, s, t, u, v, p, r, x1, y1, x2, y2, q1, q2
  <2>13. CASE here(k) = there(k) /\ from = to /\ h[k] = g[k]
    <3>1. CASE v = u
      <4>1. s = t
        BY <2>12, <3>1
      <4>2. h[k+1] = g[k+1]
        BY <2>8, <2>13, <4>1
      <4> QED
        BY <2>13, <3>1, <4>2 DEF u, v
    <3>2. CASE v = u + 1
      <4>1. s \in 0 .. 2 /\ t = s + 1
        BY <2>4, <2>5, <2>12, <2>13, <3>2
      <4>2. p = r /\ x1 = x2 /\ y1 = y2
        BY <2>13 DEF p, r, x1, y1, x2, y2
      <4>3. way = "same"
        BY <2>13 DEF way, Way
      <4>4. q1 = peano_subpix(1, p, s) /\ q2 = peano_subpix(1, p, s + 1)
        BY <4>1, <4>2 DEF q1, q2
      <4>5. P \in Nat \ {0}
        BY <2>9 DEF P
      <4>6. Linked("same", P, 2 * x1 + LowBit(peano_subpix(1, p, s)),
                   2 * y1 + HighBit(peano_subpix(1, p, s)),
                   2 * x1 + LowBit(peano_subpix(1, p, s + 1)),
                   2 * y1 + HighBit(peano_subpix(1, p, s + 1)),
                   peano_subpath(1, p, s), peano_subpath(1, p, s + 1))
        BY <2>6, <4>1, <4>5, SquareJoins
      <4>7. link(k+1)
        BY <2>10, <4>1, <4>2, <4>3, <4>4, <4>6
      <4> QED
        BY <3>2, <4>7 DEF u, v
    <3> QED
      BY <2>5, <3>1, <3>2
  <2>14. CASE here(k) + 1 = there(k) /\ link(k)
    <3>1. v = u + 1 /\ s = 3 /\ t = 0
      BY <2>4, <2>5, <2>12, <2>14
    <3>2. q1 = PathExit(p) /\ q2 = PathEntry(r)
      BY <3>1 DEF q1, q2, PathExit, PathEntry
    <3> DEFINE R == 2^k
    <3>3. R \in Nat \ {0} /\ P = 2 * R
      BY <2>9 DEF P
    <3>4. Linked(way, R, x1, y1, x2, y2, p, r)
      BY <2>11, <2>14
    <3> HIDE DEF R
    <3>5. Linked(way, 2 * R, 2 * x1 + LowBit(PathExit(p)), 2 * y1 + HighBit(PathExit(p)),
                 2 * x2 + LowBit(PathEntry(r)), 2 * y2 + HighBit(PathEntry(r)),
                 peano_subpath(1, p, 3), peano_subpath(1, r, 0))
      BY <2>6, <2>7, <3>3, <3>4, LinkedDeeper
    <3>6. link(k+1)
      BY <2>10, <3>1, <3>2, <3>3, <3>5
    <3> QED
      BY <3>1, <3>6 DEF u, v
  <2> QED
    BY <2>3, <2>13, <2>14
<1>6. n \in S
  <2> HIDE DEF S
  <2> QED
    BY <1>1, <1>4, <1>5, NatSetInduction
<1>7. here(n) = num /\ there(n) = next
  <2>1. n - n = 0
    BY <1>1
  <2>2. num \div 1 = num /\ next \div 1 = next
    BY <1>2
  <2> QED
    BY <1>1, <2>1, <2>2
<1>8. link(n)
  <2> HIDE DEF here, there, link, from, to
  <2>1. \/ here(n) = there(n)
        \/ link(n)
    BY <1>1, <1>6
  <2>2. num # next
    BY <1>2
  <2> QED
    BY <1>7, <2>1, <2>2
<1> QED
  BY <1>1, <1>8

\* There are two corners on an edge.
LEMMA EdgeOfTwo ==
  ASSUME IsBase(base), NEW at \in Places(base), NEW i \in Edges
  PROVE  Cardinality(Side(at, i)) = 2
<1> DEFINE C(dx, dy) == Corner(at, dx, dy)
           ox == nb_xoffset(i)
           oy == nb_yoffset(i)
<1>1. \A c : c \in Side(at, i) <=>
               \E dx, dy \in 0 .. 1 : OnSide(ox, oy, dx, dy) /\ c = C(dx, dy)
  BY SideCorners DEF Edges
<1>2. \/ ox = -1 /\ oy = 0
      \/ ox = 0 /\ oy = 1
      \/ ox = 1 /\ oy = 0
      \/ ox = 0 /\ oy = -1
  BY DEF Edges, nb_xoffset, nb_yoffset
<1>3. /\ C(0, 0) # C(0, 1) /\ C(0, 1) # C(1, 1)
      /\ C(1, 0) # C(1, 1) /\ C(0, 0) # C(1, 0)
  BY OwnCorners
<1> HIDE DEF ox, oy, C
<1>4. \/ Side(at, i) = { C(0, 0), C(0, 1) }
      \/ Side(at, i) = { C(0, 1), C(1, 1) }
      \/ Side(at, i) = { C(1, 0), C(1, 1) }
      \/ Side(at, i) = { C(0, 0), C(1, 0) }
  <2>1. ASSUME NEW c
        PROVE  c \in Side(at, i) <=>
                 \E dx, dy \in 0 .. 1 : /\ ox = 1 => dx = 1
                                        /\ ox = -1 => dx = 0
                                        /\ oy = 1 => dy = 1
                                        /\ oy = -1 => dy = 0
                                        /\ c = C(dx, dy)
    BY <1>1 DEF OnSide
  <2>2. CASE ox = -1 /\ oy = 0
    <3>1. ASSUME NEW c
          PROVE  c \in Side(at, i) <=> c = C(0, 0) \/ c = C(0, 1)
      BY <2>1, <2>2
    <3> QED
      BY <3>1
  <2>3. CASE ox = 0 /\ oy = 1
    <3>1. ASSUME NEW c
          PROVE  c \in Side(at, i) <=> c = C(0, 1) \/ c = C(1, 1)
      BY <2>1, <2>3
    <3> QED
      BY <3>1
  <2>4. CASE ox = 1 /\ oy = 0
    <3>1. ASSUME NEW c
          PROVE  c \in Side(at, i) <=> c = C(1, 0) \/ c = C(1, 1)
      BY <2>1, <2>4
    <3> QED
      BY <3>1
  <2>5. CASE ox = 0 /\ oy = -1
    <3>1. ASSUME NEW c
          PROVE  c \in Side(at, i) <=> c = C(0, 0) \/ c = C(1, 0)
      BY <2>1, <2>5
    <3> QED
      BY <3>1
  <2> QED
    BY <1>2, <2>2, <2>3, <2>4, <2>5
<1>5. ASSUME NEW c, NEW d, c # d
      PROVE  Cardinality({ c, d }) = 2
  <2>1. IsFiniteSet({ c }) /\ Cardinality({ c }) = 1
    BY FS_Singleton
  <2>2. { c, d } = { c } \cup { d } /\ d \notin { c }
    BY <1>5
  <2> QED
    BY <2>1, <2>2, FS_AddElement
<1> QED
  BY <1>3, <1>4, <1>5

\* The pixels of a Peano index and of the next one share just two corners: the curve goes on
\* across an edge, within a face and from each face to the next.
THEOREM PeanoContinuousAlways == Spec => []PeanoContinuous
<1>1. WalkInv => PeanoContinuous
  <2> SUFFICES ASSUME IsBase(base), base.scheme = "NEST", pix \in Pixels(base),
                      pix + 1 \in Pixels(base)
               PROVE  \A here \in { nest2xyf(base, peano2nest(base, pix)) },
                         next \in { nest2xyf(base, peano2nest(base, pix + 1)) } :
                        Cardinality(Corners(here) \cap Corners(next)) = 2
    BY DEF WalkInv, PeanoContinuous
  <2>1. Hierarchical(base)
    BY DEF IsBase
  <2> DEFINE n == base.order
             at == nest2xyf(base, peano2nest(base, pix))
             o == nest2xyf(base, peano2nest(base, pix + 1))
  <2>2. at \in Places(base) /\ o \in Places(base)
    <3>1. \A num \in Pixels(base) : nest2xyf(base, peano2nest(base, num)) \in Places(base)
      BY <2>1, PeanoPixel, NestPlace DEF peano2nest
    <3> QED
      BY <3>1
  <2>3. PICK i \in Edges : Beside(Way(at.face, o.face), base.nside, at.ix + nb_xoffset(i),
                                  at.iy + nb_yoffset(i), o.ix, o.iy)
    <3>1. PICK h : /\ Walked(base, pix, h)
                   /\ at = [ face |-> peano_face2face(1, pix \div npface(base)),
                             ix |-> ColumnOf(h[n].result), iy |-> LineOf(h[n].result) ]
      BY <2>1, PeanoArrival
    <3>2. PICK g : /\ Walked(base, pix + 1, g)
                   /\ o = [ face |-> peano_face2face(1, (pix + 1) \div npface(base)),
                            ix |-> ColumnOf(g[n].result), iy |-> LineOf(g[n].result) ]
      BY <2>1, PeanoArrival
    <3>3. Linked(Way(at.face, o.face), base.nside, at.ix, at.iy, o.ix, o.iy, h[n].path, g[n].path)
      <4> HIDE DEF at, o
      <4> QED
        BY <2>1, <3>1, <3>2, PeanoNext
    <3> HIDE DEF at, o
    <3> QED
      BY <3>3 DEF Linked
  <2> HIDE DEF at, o
  <2>4. i \in 0 .. 7
    BY DEF Edges
  <2>5. Corners(o) \cap Corners(at) = Side(at, i)
    BY <2>2, <2>3, <2>4, SideBeside
  <2>6. Cardinality(Side(at, i)) = 2
    BY <2>2, EdgeOfTwo
  <2>7. Corners(at) \cap Corners(o) = Corners(o) \cap Corners(at)
    OBVIOUS
  <2> QED
    BY <2>5, <2>6, <2>7 DEF at, o
<1> QED
  BY <1>1, WalkTyped, PTL

----------------------------------------------------------------------------
(* Maps.                                                                   *)

\* In each scheme the numbers and the places of the pixels belong to each other.
LEMMA Numbering ==
  ASSUME NEW b, IsBase(b)
  PROVE  /\ \A p \in Pixels(b) : pix2xyf(b, p) \in Places(b) /\ xyf2pix(b, pix2xyf(b, p)) = p
         /\ \A at \in Places(b) : xyf2pix(b, at) \in Pixels(b) /\ pix2xyf(b, xyf2pix(b, at)) = at
<1>1. b.nside \in Nat \ {0} /\ (b.scheme # "RING" => Hierarchical(b))
  BY DEF IsBase
<1>2. ASSUME NEW p \in Pixels(b)
      PROVE  pix2xyf(b, p) \in Places(b) /\ xyf2pix(b, pix2xyf(b, p)) = p
  <2>1. CASE b.scheme = "RING"
    BY <1>1, <2>1, RingPlace DEF pix2xyf, xyf2pix
  <2>2. CASE b.scheme # "RING"
    BY <1>1, <2>2, NestPlace, NestNumber DEF pix2xyf, xyf2pix
  <2> QED
    BY <2>1, <2>2
<1>3. ASSUME NEW at \in Places(b)
      PROVE  xyf2pix(b, at) \in Pixels(b) /\ pix2xyf(b, xyf2pix(b, at)) = at
  <2>1. CASE b.scheme = "RING"
    BY <1>1, <2>1, NumberOfPlace, PlaceAgain DEF pix2xyf, xyf2pix
  <2>2. CASE b.scheme # "RING"
    BY <1>1, <2>2, PlaceNest DEF pix2xyf, xyf2pix
  <2> QED
    BY <2>1, <2>2
<1> QED
  BY <1>2, <1>3

\* The same pixels in the other scheme.
Swapped(b, c) ==
  /\ IsBase(b) /\ IsBase(c) /\ b.order >= 0 /\ c.order = b.order /\ c.nside = b.nside
  /\ c.scheme = IF b.scheme = "RING" THEN "NEST" ELSE "RING"

\* A conversion uses no more of a base than its side.
LEMMA SameNumbers ==
  ASSUME NEW b, NEW c, c.nside = b.nside, NEW p
  PROVE  /\ ring2xyf(c, p) = ring2xyf(b, p) /\ nest2xyf(c, p) = nest2xyf(b, p)
         /\ ring2nest(c, p) = ring2nest(b, p) /\ nest2ring(c, p) = nest2ring(b, p)
<1>1. /\ npface(c) = npface(b) /\ InRing(c, p) = InRing(b, p) /\ nest2xyf(c, p) = nest2xyf(b, p)
      /\ \A at : xyf2ring(c, at) = xyf2ring(b, at)
  BY SameSide
<1>2. ring2xyf(c, p) = ring2xyf(b, p)
  BY <1>1 DEF ring2xyf
<1>3. \A at : xyf2nest(c, at) = xyf2nest(b, at)
  BY <1>1 DEF xyf2nest
<1> QED
  BY <1>1, <1>2, <1>3 DEF ring2nest, nest2ring

\* swapper says of a number of the other scheme which number the pixel has in this one.
LEMMA Renumbered ==
  ASSUME NEW b, NEW c, Swapped(b, c), NEW p \in Pixels(b)
  PROVE  /\ swapper(b, p) \in Pixels(b) /\ pix2xyf(c, p) = pix2xyf(b, swapper(b, p))
         /\ swapper(c, swapper(b, p)) = p
<1>1. /\ b.nside \in Nat \ {0} /\ c.nside = b.nside /\ Hierarchical(b)
      /\ b.scheme \in { "RING", "NEST" }
      /\ c.scheme = IF b.scheme = "RING" THEN "NEST" ELSE "RING"
  BY DEF Swapped, IsBase
<1>2. CASE b.scheme = "NEST"
  <2> DEFINE at == ring2xyf(b, p)
             q == xyf2nest(b, at)
  <2>1. at \in Places(b) /\ xyf2ring(b, at) = p
    BY <1>1, RingPlace
  <2> HIDE DEF at
  <2>2. q \in Pixels(b) /\ nest2xyf(b, q) = at
    BY <1>1, <2>1, PlaceNest
  <2>3. swapper(b, p) = q
    BY <1>2 DEF swapper, ring2nest, at
  <2> HIDE DEF q
  <2>4. pix2xyf(b, q) = at /\ pix2xyf(c, p) = at
    BY <1>1, <1>2, <2>2, SameNumbers DEF pix2xyf, at
  <2>5. swapper(c, q) = p
    <3>1. swapper(c, q) = nest2ring(c, q)
      BY <1>1, <1>2 DEF swapper
    <3>2. nest2ring(c, q) = nest2ring(b, q)
      BY <1>1, SameNumbers
    <3> QED
      BY <2>1, <2>2, <3>1, <3>2 DEF nest2ring
  <2> QED
    BY <2>2, <2>3, <2>4, <2>5
<1>3. CASE b.scheme = "RING"
  <2> DEFINE at == nest2xyf(b, p)
             q == xyf2ring(b, at)
  <2>1. at \in Places(b) /\ xyf2nest(b, at) = p
    BY <1>1, NestPlace, NestNumber
  <2> HIDE DEF at
  <2>2. q \in Pixels(b) /\ ring2xyf(b, q) = at
    BY <1>1, <2>1, NumberOfPlace, PlaceAgain
  <2>3. swapper(b, p) = q
    BY <1>3 DEF swapper, nest2ring, at
  <2> HIDE DEF q
  <2>4. pix2xyf(b, q) = at /\ pix2xyf(c, p) = at
    BY <1>1, <1>3, <2>2, SameNumbers DEF pix2xyf, at
  <2>5. swapper(c, q) = p
    <3>1. swapper(c, q) = ring2nest(c, q)
      BY <1>1, <1>3 DEF swapper
    <3>2. ring2nest(c, q) = ring2nest(b, q)
      BY <1>1, SameNumbers
    <3> QED
      BY <2>1, <2>2, <3>1, <3>2 DEF ring2nest
  <2> QED
    BY <2>2, <2>3, <2>4, <2>5
<1> QED
  BY <1>1, <1>2, <1>3

\* Measured, of any base.
ValueAt(at) == IF at = [ face |-> 4, ix |-> 0, iy |-> 0 ] THEN Undef ELSE at
Values(b) == [ p \in Pixels(b) |-> ValueAt(pix2xyf(b, p)) ]

LEMMA MeasuredValues == Measured = Values(mapbase)
BY DEF Measured, Values, ValueAt

\* In the other scheme the value of number p is the one of the number that swapper says.
LEMMA ValuesSwapped ==
  ASSUME NEW b, NEW c, Swapped(b, c)
  PROVE  /\ Pixels(c) = Pixels(b)
         /\ Values(c) = [ p \in Pixels(b) |-> Values(b)[swapper(b, p)] ]
<1>1. Pixels(c) = Pixels(b)
  BY SameSide DEF Swapped
<1>2. ASSUME NEW p \in Pixels(b)
      PROVE  ValueAt(pix2xyf(c, p)) = Values(b)[swapper(b, p)]
  BY Renumbered DEF Values
<1> QED
  BY <1>1, <1>2 DEF Values

LEMMA SchemeSwapped ==
  ASSUME NEW b, IsBase(b), b.order >= 0
  PROVE  Swapped(b, [ b EXCEPT !.scheme = IF @ = "RING" THEN "NEST" ELSE "RING" ])
<1> DEFINE s == IF b.scheme = "RING" THEN "NEST" ELSE "RING"
           c == [ b EXCEPT !.scheme = s ]
<1>1. s \in { "RING", "NEST" }
  OBVIOUS
<1>2. IsBase(c) /\ c.nside = b.nside /\ c.order = b.order /\ c.scheme = s
  <2> HIDE DEF s
  <2> QED
    BY <1>1, SchemeSet
<1>3. c = [ b EXCEPT !.scheme = IF @ = "RING" THEN "NEST" ELSE "RING" ]
  OBVIOUS
<1> QED
  BY <1>2, <1>3 DEF Swapped

\* Import_nograde gives every number of the other scheme the value of its pixel.
LEMMA Copied ==
  ASSUME NEW b, NEW c, Swapped(b, c)
  PROVE  LET to(m) == IF b.scheme = "RING" THEN ring2nest(b, m) ELSE nest2ring(b, m)
         IN  [ p \in Pixels(b) |-> Values(b)[CHOOSE m \in Pixels(b) : to(m) = p] ] = Values(c)
<1> DEFINE to(m) == IF b.scheme = "RING" THEN ring2nest(b, m) ELSE nest2ring(b, m)
<1>1. Swapped(c, b) /\ Pixels(c) = Pixels(b)
  BY SameSide DEF Swapped, IsBase
<1>2. \A m : to(m) = swapper(c, m)
  BY <1>1, SameNumbers DEF Swapped, swapper
<1> HIDE DEF to
<1>3. ASSUME NEW p \in Pixels(b)
      PROVE  Values(b)[CHOOSE m \in Pixels(b) : to(m) = p] = ValueAt(pix2xyf(c, p))
  <2>1. swapper(b, p) \in Pixels(b) /\ to(swapper(b, p)) = p
    BY <1>2, Renumbered
  <2> DEFINE m == CHOOSE m \in Pixels(b) : to(m) = p
  <2>2. m \in Pixels(b) /\ to(m) = p
    BY <2>1
  <2> HIDE DEF m
  <2>3. pix2xyf(b, m) = pix2xyf(c, p)
    BY <1>1, <1>2, <2>2, Renumbered
  <2>4. Values(b)[m] = ValueAt(pix2xyf(c, p))
    BY <2>2, <2>3 DEF Values
  <2> QED
    BY <2>4 DEF m
<1>4. [ p \in Pixels(b) |-> Values(b)[CHOOSE m \in Pixels(b) : to(m) = p] ] = Values(c)
  BY <1>1, <1>3 DEF Values
<1> QED
  BY <1>4 DEF to

\* The place that a part belongs to, as in Import_upgrade.
Whole(fact, q) == [ q EXCEPT !.ix = @ \div fact, !.iy = @ \div fact ]

LEMMA WholeOf ==
  ASSUME NEW fact, NEW face, NEW i, NEW j
  PROVE  Whole(fact, [ face |-> face, ix |-> i, iy |-> j ])
           = [ face |-> face, ix |-> i \div fact, iy |-> j \div fact ]
<1> DEFINE q == [ face |-> face, ix |-> i, iy |-> j ]
           x == i \div fact
           y == j \div fact
<1>1. q.ix = i /\ q.iy = j
  OBVIOUS
<1>2. Whole(fact, q) = [ [ q EXCEPT !.ix = x ] EXCEPT !.iy = y ]
  BY <1>1 DEF Whole
<1> HIDE DEF x, y
<1>3. [ q EXCEPT !.ix = x ] = [ face |-> face, ix |-> x, iy |-> j ]
  OBVIOUS
<1>4. [ [ face |-> face, ix |-> x, iy |-> j ] EXCEPT !.iy = y ]
        = [ face |-> face, ix |-> x, iy |-> y ]
  OBVIOUS
<1> QED
  BY <1>2, <1>3, <1>4 DEF x, y

LEMMA FactTimes ==
  ASSUME NEW fact \in 2 .. 3, NEW u \in Int
  PROVE  /\ fact * u \in Int /\ fact * (u + 1) - 1 \in Int
         /\ fact * u <= fact * (u + 1) - 1 /\ (fact * (u + 1) - 1) - fact * u + 1 = fact
         /\ fact * fact \in Nat /\ fact * fact >= 1
<1>1. fact = 2 \/ fact = 3
  OBVIOUS
<1>2. CASE fact = 2
  BY <1>2
<1>3. CASE fact = 3
  BY <1>3
<1> QED
  BY <1>1, <1>2, <1>3

\* The parts of a place in a base that is finer.
LEMMA PartsOfPlace ==
  ASSUME NEW b, NEW finer, b.nside \in Nat \ {0}, NEW fact \in 2 .. 3,
         finer.nside = fact * b.nside, NEW at \in Places(b)
  PROVE  /\ IsFiniteSet(Parts(fact, at)) /\ Cardinality(Parts(fact, at)) = fact * fact
         /\ \A q \in Parts(fact, at) :
              q \in Places(finer) /\ Whole(fact, q) = at
<1> DEFINE I == fact * at.ix .. fact * (at.ix + 1) - 1
           J == fact * at.iy .. fact * (at.iy + 1) - 1
           part(x) == [ face |-> at.face, ix |-> x[1], iy |-> x[2] ]
           f == [ x \in I \X J |-> part(x) ]
<1>1. /\ at.face \in 0 .. 11 /\ at.ix \in 0 .. b.nside - 1 /\ at.iy \in 0 .. b.nside - 1
      /\ at = [ face |-> at.face, ix |-> at.ix, iy |-> at.iy ]
  BY DEF Places
<1>2. fact \in Nat /\ (fact = 2 \/ fact = 3)
  OBVIOUS
<1>3. \A i \in Int, u \in 0 .. b.nside - 1 :
        i \in fact * u .. fact * (u + 1) - 1 =>
          i \in 0 .. fact * b.nside - 1 /\ i \div fact = u
  <2>1. CASE fact = 2
    BY <2>1
  <2>2. CASE fact = 3
    BY <2>2
  <2> QED
    BY <1>2, <2>1, <2>2
<1>4. /\ IsFiniteSet(I) /\ Cardinality(I) = fact
      /\ IsFiniteSet(J) /\ Cardinality(J) = fact
  <2>1. \A u \in Int : IsFiniteSet(fact * u .. fact * (u + 1) - 1)
                       /\ Cardinality(fact * u .. fact * (u + 1) - 1) = fact
    <3>1. SUFFICES ASSUME NEW u \in Int
                   PROVE  IsFiniteSet(fact * u .. fact * (u + 1) - 1)
                          /\ Cardinality(fact * u .. fact * (u + 1) - 1) = fact
      OBVIOUS
    <3>2. /\ fact * u \in Int /\ fact * (u + 1) - 1 \in Int
          /\ fact * u <= fact * (u + 1) - 1 /\ (fact * (u + 1) - 1) - fact * u + 1 = fact
      BY FactTimes
    <3> DEFINE first == fact * u
               last == fact * (u + 1) - 1
    <3> HIDE DEF first, last
    <3>3. first \in Int /\ last \in Int /\ ~ (first > last) /\ last - first + 1 = fact
      BY <3>2 DEF first, last
    <3>4. IsFiniteSet(first .. last) /\ Cardinality(first .. last) = fact
      BY <3>3, FS_Interval
    <3> QED
      BY <3>4 DEF first, last
  <2> QED
    BY <1>1, <2>1
<1>5. IsFiniteSet(I \X J) /\ Cardinality(I \X J) = fact * fact
  <2> HIDE DEF I, J
  <2> QED
    BY <1>4, FS_Product
<1>6. Parts(fact, at) = { part(x) : x \in I \X J }
  <2> HIDE DEF I, J
  <2>1. Parts(fact, at) = { [ face |-> at.face, ix |-> i, iy |-> j ] : i \in I, j \in J }
    BY DEF Parts, I, J
  <2>2. \A i \in I, j \in J : << i, j >> \in I \X J
                            /\ part(<< i, j >>) = [ face |-> at.face, ix |-> i, iy |-> j ]
    OBVIOUS
  <2>3. \A x \in I \X J : x[1] \in I /\ x[2] \in J
    OBVIOUS
  <2>4. ASSUME NEW q
        PROVE  q \in Parts(fact, at) <=> q \in { part(x) : x \in I \X J }
    <3>1. ASSUME q \in Parts(fact, at)
          PROVE  q \in { part(x) : x \in I \X J }
      <4>1. PICK i \in I, j \in J : q = [ face |-> at.face, ix |-> i, iy |-> j ]
        BY <2>1, <3>1
      <4>2. << i, j >> \in I \X J /\ q = part(<< i, j >>)
        BY <2>2, <4>1
      <4> HIDE DEF part
      <4> QED
        BY <4>2
    <3>2. ASSUME q \in { part(x) : x \in I \X J }
          PROVE  q \in Parts(fact, at)
      <4>1. PICK x \in I \X J : q = part(x)
        BY <3>2
      <4>2. x[1] \in I /\ x[2] \in J
        BY <2>3, <4>1
      <4> QED
        BY <2>1, <4>1, <4>2
    <3> QED
      BY <3>1, <3>2
  <2> HIDE DEF part
  <2> QED
    BY <2>4
<1>7. f \in Bijection(I \X J, Parts(fact, at))
  <2> HIDE DEF I, J
  <2>1. f \in [ I \X J -> Parts(fact, at) ]
    BY <1>6
  <2>2. \A x, y \in I \X J : f[x] = f[y] => x = y
    OBVIOUS
  <2>3. \A q \in Parts(fact, at) : \E x \in I \X J : f[x] = q
    BY <1>6
  <2> HIDE DEF f
  <2> QED
    BY <2>1, <2>2, <2>3 DEF Bijection, Injection, Surjection, IsInjective
<1>8. IsFiniteSet(Parts(fact, at)) /\ Cardinality(Parts(fact, at)) = fact * fact
  <2> HIDE DEF I, J, f
  <2> QED
    BY <1>5, <1>7, FS_Bijection DEF ExistsBijection
<1>9. ASSUME NEW q \in Parts(fact, at)
      PROVE  q \in Places(finer) /\ Whole(fact, q) = at
  <2>1. PICK i \in I, j \in J : q = [ face |-> at.face, ix |-> i, iy |-> j ]
    BY <1>9 DEF Parts
  <2>2. /\ i \in 0 .. finer.nside - 1 /\ i \div fact = at.ix
        /\ j \in 0 .. finer.nside - 1 /\ j \div fact = at.iy
    BY <1>1, <1>2, <1>3
  <2> HIDE DEF I, J
  <2>3. q \in Places(finer)
    BY <1>1, <2>1, <2>2 DEF Places
  <2>4. Whole(fact, q) = [ face |-> at.face, ix |-> i \div fact, iy |-> j \div fact ]
    BY <2>1, WholeOf
  <2> QED
    BY <1>1, <2>2, <2>3, <2>4
<1> QED
  BY <1>8, <1>9

\* A map made finer and coarse again is the same map: the parts of a pixel all carry
\* its value, so that the mean is that value and they are enough even for the pessimist.
LEMMA ThereAndBack ==
  ASSUME IsBase(mapbase), map = Values(mapbase), NEW finer, IsBase(finer), NEW fact \in 2 .. 3,
         finer.nside = fact * mapbase.nside, NEW pessimistic \in BOOLEAN
  PROVE  Import_degrade(Import_upgrade(PlaceOf(finer), fact), finer, PlaceOf(mapbase), fact,
                        pessimistic) = map
<1> DEFINE orig == Import_upgrade(PlaceOf(finer), fact)
           at == PlaceOf(mapbase)
           minhits == IF pessimistic THEN fact * fact ELSE 1
           hits(m) == { p \in Parts(fact, at[m]) : orig[xyf2pix(finer, p)] # Undef }
           mean(m) == IF Cardinality(hits(m)) < minhits THEN Undef
                      ELSE Mean({ orig[xyf2pix(finer, p)] : p \in hits(m) })
<1>1. Import_degrade(orig, finer, at, fact, pessimistic) = [ m \in Pixels(mapbase) |-> mean(m) ]
  BY DEF Import_degrade, PlaceOf
<1>2. mapbase.nside \in Nat \ {0}
  BY DEF IsBase
<1>3. ASSUME NEW m \in Pixels(mapbase)
      PROVE  mean(m) = map[m]
  <2> DEFINE all == Parts(fact, at[m])
  <2>1. at[m] \in Places(mapbase) /\ xyf2pix(mapbase, at[m]) = m
    BY Numbering DEF PlaceOf
  <2>2. /\ IsFiniteSet(all) /\ Cardinality(all) = fact * fact
        /\ \A q \in all : q \in Places(finer) /\ Whole(fact, q) = at[m]
    BY <1>2, <2>1, PartsOfPlace
  <2>3. \A q \in all : orig[xyf2pix(finer, q)] = map[m]
    <3>1. SUFFICES ASSUME NEW q \in all
                   PROVE  orig[xyf2pix(finer, q)] = map[m]
      OBVIOUS
    <3> DEFINE p == xyf2pix(finer, q)
    <3>2. p \in Pixels(finer) /\ pix2xyf(finer, p) = q
      BY <2>2, Numbering
    <3> HIDE DEF p, at
    <3>3. orig[p] = map[xyf2pix(mapbase, Whole(fact, q))]
      BY <3>2 DEF Import_upgrade, PlaceOf, Whole
    <3> HIDE DEF orig
    <3>4. orig[p] = map[m]
      BY <2>1, <2>2, <3>3
    <3> QED
      BY <3>4 DEF p
  <2>4. fact * fact \in Nat /\ fact * fact >= 1
    BY FactTimes
  <2> HIDE DEF all, orig, at
  <2>5. CASE map[m] = Undef
    <3>1. hits(m) = {}
      BY <2>3, <2>5 DEF all
    <3>2. Cardinality(hits(m)) = 0
      BY <3>1, FS_EmptySet
    <3> QED
      BY <2>4, <2>5, <3>2
  <2>6. CASE map[m] # Undef
    <3>1. hits(m) = all
      BY <2>3, <2>6 DEF all
    <3>2. all # {}
      BY <2>2, <2>4, FS_EmptySet
    <3>3. { orig[xyf2pix(finer, p)] : p \in all } = { map[m] }
      BY <2>3, <3>2
    <3>4. Mean({ map[m] }) = map[m]
      BY FS_Singleton DEF Mean
    <3>5. ~ (Cardinality(all) < minhits)
      BY <2>2, <2>4
    <3> QED
      BY <3>1, <3>3, <3>4, <3>5
  <2> QED
    BY <2>5, <2>6
<1>4. map = [ m \in Pixels(mapbase) |-> map[m] ]
  BY DEF Values
<1> QED
  BY <1>1, <1>3, <1>4

\* The pixels that have their new value when the swap is at the j-th pixel of the
\* m-th trail: those of the trails before it, and on this one those before the j-th.
HasMoved(trails, m, j, p) ==
  \E k \in 1 .. m : \E i \in 1 .. Len(trails[k]) : p = trails[k][i] /\ (k = m => i < j)

\* The array then.
Halfway(b, trails, m, j) ==
  [ p \in Pixels(b) |->
      IF HasMoved(trails, m, j, p) THEN Values(b)[swapper(b, p)] ELSE Values(b)[p] ]

\* The array at the end.
AllMoved(b) == [ p \in Pixels(b) |-> Values(b)[swapper(b, p)] ]

\* The values in an array.
Held(b, array) == { array[p] : p \in Pixels(b) }

SwapTable(b) == [ p \in Pixels(b) |-> swapper(b, p) ]

\* What LeadAround says, for the j-th pixel of the m-th trail.
LEMMA OnTrail ==
  ASSUME NEW b, NEW trails, LeadAround(b, SwapTable(b), trails),
         NEW m \in 1 .. Len(swap_cycles(b.order)), NEW j \in 1 .. Len(trails[m])
  PROVE  LET starts == swap_cycles(b.order)
             last == Len(trails[m])
             here == trails[m][j]
         IN  /\ here \in Pixels(b) /\ 1 \in 1 .. last /\ last \in Nat
             /\ starts[m] \in Pixels(b) /\ trails[m][1] = starts[m]
             /\ swapper(b, here) = IF j = last THEN starts[m] ELSE trails[m][j+1]
             /\ j < last => j + 1 \in 1 .. last
             /\ Len(starts) \in Nat /\ m \in Nat
             /\ (here = starts[m] => j = 1)
<1> DEFINE starts == swap_cycles(b.order)
           last == Len(trails[m])
           here == trails[m][j]
<1>1. /\ starts \in Seq(Pixels(b)) /\ trails \in Seq(Seq(Pixels(b))) /\ Len(trails) = Len(starts)
      /\ trails[m] # << >> /\ trails[m][1] = starts[m]
      /\ SwapTable(b)[here] = IF j = last THEN starts[m] ELSE trails[m][j+1]
      /\ \A i \in 1 .. last : trails[m][i] = here => i = j
  BY DEF LeadAround
<1> HIDE DEF starts
<1>2. m \in 1 .. Len(starts)
  BY DEF starts
<1>3. starts[m] \in Pixels(b) /\ Len(starts) \in Nat /\ m \in Nat /\ trails[m] \in Seq(Pixels(b))
  BY <1>1, <1>2
<1>4. last \in Nat /\ here \in Pixels(b)
  BY <1>3
<1>5. SwapTable(b)[here] = swapper(b, here)
  BY <1>4 DEF SwapTable
<1>6. 1 \in 1 .. last /\ (j < last => j + 1 \in 1 .. last)
  BY <1>4
<1>7. here = starts[m] => j = 1
  BY <1>1, <1>6
<1> QED
  BY <1>1, <1>3, <1>4, <1>5, <1>6, <1>7 DEF starts

\* The next pixel has not moved; after its move the one before has.
LEMMA MovedOn ==
  ASSUME NEW b, NEW trails, LeadAround(b, SwapTable(b), trails),
         NEW m \in 1 .. Len(swap_cycles(b.order)), NEW j \in 1 .. Len(trails[m])
  PROVE  /\ \A i \in j .. Len(trails[m]) : ~ HasMoved(trails, m, j, trails[m][i])
         /\ j < Len(trails[m]) =>
              \A p : HasMoved(trails, m, j + 1, p) <=> HasMoved(trails, m, j, p) \/ p = trails[m][j]
<1> DEFINE starts == swap_cycles(b.order)
           last == Len(trails[m])
<1>1. /\ \A k \in 1 .. Len(starts) : \A i \in 1 .. Len(trails[k]), o \in 1 .. last :
           trails[k][i] = trails[m][o] => k = m /\ i = o
      /\ last \in Nat /\ Len(starts) \in Nat /\ m \in Nat
  BY OnTrail DEF LeadAround
<1> HIDE DEF starts
<1>2. m \in 1 .. Len(starts)
  BY DEF starts
<1>3. ASSUME NEW i \in j .. last, HasMoved(trails, m, j, trails[m][i])
      PROVE  FALSE
  <2>0. PICK k \in 1 .. m :
           \E o \in 1 .. Len(trails[k]) : trails[m][i] = trails[k][o] /\ (k = m => o < j)
    BY <1>3 DEF HasMoved
  <2>1. PICK o \in 1 .. Len(trails[k]) : trails[m][i] = trails[k][o] /\ (k = m => o < j)
    BY <2>0
  <2>2. k \in 1 .. Len(starts) /\ i \in 1 .. last /\ i \in Int /\ j \in Int /\ j <= i
    BY <1>1, <1>2
  <2>3. k = m /\ o = i
    BY <1>1, <2>1, <2>2
  <2> QED
    BY <2>1, <2>2, <2>3
<1>4. ASSUME j < last, NEW p
      PROVE  HasMoved(trails, m, j + 1, p) <=> HasMoved(trails, m, j, p) \/ p = trails[m][j]
  <2>1. ASSUME HasMoved(trails, m, j + 1, p)
        PROVE  HasMoved(trails, m, j, p) \/ p = trails[m][j]
    <3>0. PICK k \in 1 .. m :
             \E o \in 1 .. Len(trails[k]) : p = trails[k][o] /\ (k = m => o < j + 1)
      BY <2>1 DEF HasMoved
    <3>1. PICK o \in 1 .. Len(trails[k]) : p = trails[k][o] /\ (k = m => o < j + 1)
      BY <3>0
    <3>2. CASE k = m /\ o = j
      BY <3>1, <3>2
    <3>3. CASE ~ (k = m /\ o = j)
      <4>1. k = m => o < j
        <5>1. k = m => o \in Int /\ o # j /\ j \in Int /\ o < j + 1
          BY <1>1, <3>1, <3>3
        <5> QED
          BY <5>1
      <4> QED
        BY <3>1, <4>1 DEF HasMoved
    <3> QED
      BY <3>2, <3>3
  <2>2. ASSUME HasMoved(trails, m, j, p)
        PROVE  HasMoved(trails, m, j + 1, p)
    <3>0. PICK k \in 1 .. m :
             \E o \in 1 .. Len(trails[k]) : p = trails[k][o] /\ (k = m => o < j)
      BY <2>2 DEF HasMoved
    <3>1. PICK o \in 1 .. Len(trails[k]) : p = trails[k][o] /\ (k = m => o < j)
      BY <3>0
    <3>2. k = m => o < j + 1
      <4>1. k = m => o \in Int /\ j \in Int /\ o < j
        BY <1>1, <3>1
      <4> QED
        BY <4>1
    <3> QED
      BY <3>1, <3>2 DEF HasMoved
  <2>3. ASSUME p = trails[m][j]
        PROVE  HasMoved(trails, m, j + 1, p)
    <3>1. m \in 1 .. m /\ j < j + 1
      BY <1>1, <1>2
    <3> QED
      BY <2>3, <3>1 DEF HasMoved
  <2> QED
    BY <2>1, <2>2, <2>3
<1> QED
  BY <1>3, <1>4

\* The last pixel of a trail: the next trail starts with all of this one moved, and after
\* the last trail all pixels have moved that are not to stay.
LEMMA MovedAround ==
  ASSUME NEW b, NEW trails, LeadAround(b, SwapTable(b), trails),
         NEW m \in 1 .. Len(swap_cycles(b.order)), NEW j, j = Len(trails[m])
  PROVE  LET starts == swap_cycles(b.order)
         IN  /\ m < Len(starts) =>
                  /\ m + 1 \in 1 .. Len(starts)
                  /\ \A p : HasMoved(trails, m + 1, 1, p) <=>
                              HasMoved(trails, m, j, p) \/ p = trails[m][j]
             /\ ~ (m < Len(starts)) =>
                  \A p \in Pixels(b) :
                    HasMoved(trails, m, j, p) \/ p = trails[m][j] \/ swapper(b, p) = p
<1> DEFINE starts == swap_cycles(b.order)
<1>1. trails[m] # << >> /\ starts \in Seq(Pixels(b)) /\ trails \in Seq(Seq(Pixels(b)))
      /\ Len(trails) = Len(starts)
      /\ \A p \in Pixels(b) : SwapTable(b)[p] = p
           \/ \E k \in 1 .. Len(starts) : \E i \in 1 .. Len(trails[k]) : p = trails[k][i]
  BY DEF LeadAround
<1> HIDE DEF starts
<1>2. m \in 1 .. Len(starts)
  BY DEF starts
<1>3. Len(starts) \in Nat /\ m \in Nat /\ m >= 1 /\ trails[m] \in Seq(Pixels(b))
  BY <1>1, <1>2
<1>4. j \in Nat /\ j >= 1 /\ \A k \in 1 .. m : trails[k] \in Seq(Pixels(b))
  BY <1>1, <1>2, <1>3
<1>5. ASSUME m < Len(starts), NEW p
      PROVE  HasMoved(trails, m + 1, 1, p) <=> HasMoved(trails, m, j, p) \/ p = trails[m][j]
  <2>1. ASSUME HasMoved(trails, m + 1, 1, p)
        PROVE  HasMoved(trails, m, j, p) \/ p = trails[m][j]
    <3>0. PICK k \in 1 .. m + 1 :
             \E o \in 1 .. Len(trails[k]) : p = trails[k][o] /\ (k = m + 1 => o < 1)
      BY <2>1 DEF HasMoved
    <3>1. PICK o \in 1 .. Len(trails[k]) : p = trails[k][o] /\ (k = m + 1 => o < 1)
      BY <3>0
    <3>2. k \in 1 .. m
      BY <1>3, <3>1
    <3>3. CASE k = m /\ o = j
      BY <3>1, <3>3
    <3>4. CASE ~ (k = m /\ o = j)
      <4>1. k = m => o < j
        <5>1. k = m => o \in 1 .. j /\ o # j
          BY <3>4
        <5> QED
          BY <1>4, <5>1
      <4> QED
        BY <3>1, <3>2, <4>1 DEF HasMoved
    <3> QED
      BY <3>3, <3>4
  <2>2. ASSUME NEW k \in 1 .. m, NEW o \in 1 .. Len(trails[k]), p = trails[k][o]
        PROVE  HasMoved(trails, m + 1, 1, p)
    <3>1. k \in 1 .. m + 1 /\ k # m + 1
      BY <1>3
    <3> QED
      BY <2>2, <3>1 DEF HasMoved
  <2>3. HasMoved(trails, m, j, p) => HasMoved(trails, m + 1, 1, p)
    BY <2>2 DEF HasMoved
  <2>4. p = trails[m][j] => HasMoved(trails, m + 1, 1, p)
    <3>1. m \in 1 .. m /\ j \in 1 .. Len(trails[m])
      BY <1>3, <1>4
    <3> QED
      BY <2>2, <3>1
  <2> QED
    BY <2>1, <2>3, <2>4
<1>6. ASSUME ~ (m < Len(starts)), NEW p \in Pixels(b)
      PROVE  HasMoved(trails, m, j, p) \/ p = trails[m][j] \/ swapper(b, p) = p
  <2>1. m = Len(starts)
    BY <1>2, <1>3, <1>6
  <2>2. CASE SwapTable(b)[p] = p
    BY <2>2 DEF SwapTable
  <2>3. ASSUME NEW k \in 1 .. m, NEW o \in 1 .. Len(trails[k]), p = trails[k][o]
        PROVE  HasMoved(trails, m, j, p) \/ p = trails[m][j]
    <3>1. CASE k = m /\ o = j
      BY <2>3, <3>1
    <3>2. CASE ~ (k = m /\ o = j)
      <4>1. k = m => o < j
        <5>1. k = m => o \in 1 .. j /\ o # j
          BY <3>2
        <5> QED
          BY <1>4, <5>1
      <4> QED
        BY <2>3, <4>1 DEF HasMoved
    <3> QED
      BY <3>1, <3>2
  <2> QED
    BY <1>1, <2>1, <2>2, <2>3
<1>7. m < Len(starts) => m + 1 \in 1 .. Len(starts)
  BY <1>3
<1> QED
  BY <1>5, <1>6, <1>7 DEF starts

\* A move along the trail brings the array to the next pixel of it.
LEMMA HalfwayMoves ==
  ASSUME NEW b, NEW trails, LeadAround(b, SwapTable(b), trails),
         NEW m \in 1 .. Len(swap_cycles(b.order)), NEW j \in 1 .. Len(trails[m]),
         j < Len(trails[m])
  PROVE  LET here == trails[m][j]
             next == trails[m][j+1]
             half == Halfway(b, trails, m, j)
         IN  [ half EXCEPT ![here] = half[next] ] = Halfway(b, trails, m, j + 1)
<1> DEFINE here == trails[m][j]
           next == trails[m][j+1]
           half == Halfway(b, trails, m, j)
           changed == [ half EXCEPT ![here] = half[next] ]
<1>1. /\ here \in Pixels(b) /\ j + 1 \in 1 .. Len(trails[m]) /\ Len(trails[m]) \in Nat
      /\ swapper(b, here) = next
  BY OnTrail
<1>2. next \in Pixels(b)
  BY <1>1, OnTrail
<1>3. j + 1 \in j .. Len(trails[m])
  BY <1>1
<1>4. ~ HasMoved(trails, m, j, next)
  BY <1>3, MovedOn
<1>5. half[next] = Values(b)[next]
  BY <1>2, <1>4 DEF Halfway
<1>6. \A p : HasMoved(trails, m, j + 1, p) <=> HasMoved(trails, m, j, p) \/ p = here
  BY MovedOn
<1>7. ASSUME NEW p \in Pixels(b)
      PROVE  changed[p] = IF HasMoved(trails, m, j + 1, p) THEN Values(b)[swapper(b, p)]
                          ELSE Values(b)[p]
  <2>1. CASE p = here
    BY <1>1, <1>5, <1>6, <2>1 DEF Halfway
  <2>2. CASE p # here
    BY <1>6, <2>2 DEF Halfway
  <2> QED
    BY <2>1, <2>2
<1>8. changed = [ p \in Pixels(b) |-> changed[p] ]
  BY DEF Halfway
<1> HIDE DEF changed
<1>9. changed = Halfway(b, trails, m, j + 1)
  BY <1>7, <1>8 DEF Halfway
<1> QED
  BY <1>9 DEF changed

\* The value kept closes the trail.
LEMMA HalfwayCloses ==
  ASSUME NEW b, NEW trails, LeadAround(b, SwapTable(b), trails),
         NEW m \in 1 .. Len(swap_cycles(b.order)), NEW j, j = Len(trails[m])
  PROVE  LET starts == swap_cycles(b.order)
             here == trails[m][j]
             half == Halfway(b, trails, m, j)
             closed == [ half EXCEPT ![here] = Values(b)[starts[m]] ]
         IN  IF m < Len(starts)
             THEN closed = Halfway(b, trails, m + 1, 1)
             ELSE closed = AllMoved(b)
<1> DEFINE starts == swap_cycles(b.order)
           here == trails[m][j]
           half == Halfway(b, trails, m, j)
           closed == [ half EXCEPT ![here] = Values(b)[starts[m]] ]
<1>1. j \in 1 .. Len(trails[m])
  <2>1. trails[m] # << >> /\ trails \in Seq(Seq(Pixels(b))) /\ Len(trails) = Len(starts)
    BY DEF LeadAround
  <2>2. m \in 1 .. Len(trails)
    BY <2>1
  <2>3. trails[m] \in Seq(Pixels(b))
    BY <2>1, <2>2
  <2> QED
    BY <2>1, <2>3
<1>2. here \in Pixels(b) /\ swapper(b, here) = starts[m]
  BY <1>1, OnTrail
<1>3. ASSUME NEW p \in Pixels(b)
      PROVE  closed[p] = IF HasMoved(trails, m, j, p) \/ p = here THEN Values(b)[swapper(b, p)]
                         ELSE Values(b)[p]
  <2>1. CASE p = here
    BY <1>2, <2>1 DEF Halfway
  <2>2. CASE p # here
    BY <2>2 DEF Halfway
  <2> QED
    BY <2>1, <2>2
<1>4. closed = [ p \in Pixels(b) |-> closed[p] ]
  BY DEF Halfway
<1>5. /\ m < Len(starts) =>
           \A p : HasMoved(trails, m + 1, 1, p) <=> HasMoved(trails, m, j, p) \/ p = here
      /\ ~ (m < Len(starts)) =>
           \A p \in Pixels(b) : HasMoved(trails, m, j, p) \/ p = here \/ swapper(b, p) = p
  <2>1. ASSUME m < Len(starts), NEW p
        PROVE  HasMoved(trails, m + 1, 1, p) <=> HasMoved(trails, m, j, p) \/ p = here
    BY <2>1, MovedAround
  <2>2. ASSUME ~ (m < Len(starts)), NEW p \in Pixels(b)
        PROVE  HasMoved(trails, m, j, p) \/ p = here \/ swapper(b, p) = p
    BY <2>2, MovedAround
  <2> HIDE DEF here, starts
  <2> QED
    BY <2>1, <2>2
<1> HIDE DEF closed, here, starts
<1>6. CASE m < Len(starts)
  <2>1. closed = Halfway(b, trails, m + 1, 1)
    BY <1>3, <1>4, <1>5, <1>6 DEF Halfway
  <2> QED
    BY <1>6, <2>1 DEF closed, here, starts
<1>7. CASE ~ (m < Len(starts))
  <2>1. closed = AllMoved(b)
    BY <1>3, <1>4, <1>5, <1>7 DEF AllMoved
  <2> QED
    BY <1>7, <2>1 DEF closed, here, starts
<1> QED
  BY <1>6, <1>7

\* No value is lost halfway: the one that the first pixel of the trail had is kept.
LEMMA HalfwayKeeps ==
  ASSUME NEW b, NEW trails, LeadAround(b, SwapTable(b), trails),
         NEW m \in 1 .. Len(swap_cycles(b.order)), NEW j \in 1 .. Len(trails[m]),
         \A p \in Pixels(b) : swapper(b, p) \in Pixels(b)
  PROVE  LET half == Halfway(b, trails, m, j)
         IN  Held(b, half) \cup { Values(b)[swap_cycles(b.order)[m]] } = Held(b, Values(b))
<1> DEFINE starts == swap_cycles(b.order)
           half == Halfway(b, trails, m, j)
           kept == Values(b)[starts[m]]
           all == { Values(b)[p] : p \in Pixels(b) }
           there == { half[p] : p \in Pixels(b) } \cup { kept }
<1>1. there \subseteq all
  <2>1. kept \in all
    BY OnTrail
  <2>2. \A p \in Pixels(b) : half[p] \in all
    BY DEF Halfway
  <2> QED
    BY <2>1, <2>2
<1>2. ASSUME NEW k \in 1 .. Len(starts), NEW i \in 1 .. Len(trails[k]),
             HasMoved(trails, m, j, trails[k][i])
      PROVE  half[trails[k][i]] = Values(b)[IF i = Len(trails[k]) THEN starts[k] ELSE trails[k][i+1]]
  <2>1. /\ trails[k][i] \in Pixels(b)
        /\ swapper(b, trails[k][i]) = IF i = Len(trails[k]) THEN starts[k] ELSE trails[k][i+1]
    BY OnTrail
  <2> QED
    BY <1>2, <2>1 DEF Halfway
<1>3. ASSUME NEW q \in Pixels(b)
      PROVE  Values(b)[q] \in there
  <2>1. CASE ~ HasMoved(trails, m, j, q)
    <3>1. half[q] = Values(b)[q]
      BY <2>1 DEF Halfway
    <3> HIDE DEF half
    <3> QED
      BY <3>1
  <2>2. CASE HasMoved(trails, m, j, q)
    <3>0. PICK k \in 1 .. m : \E i \in 1 .. Len(trails[k]) : q = trails[k][i] /\ (k = m => i < j)
      BY <2>2 DEF HasMoved
    <3>1. PICK i \in 1 .. Len(trails[k]) : q = trails[k][i] /\ (k = m => i < j)
      BY <3>0
    <3>2. Len(starts) \in Nat /\ m \in Nat /\ Len(trails[m]) \in Nat
      BY OnTrail
    <3> HIDE DEF starts
    <3>3. k \in 1 .. Len(starts) /\ k \in Int
      BY <3>2 DEF starts
    <3>4. /\ Len(trails[k]) \in Nat /\ 1 \in 1 .. Len(trails[k]) /\ trails[k][1] = starts[k]
          /\ \A o \in 1 .. Len(trails[k]) : trails[k][o] \in Pixels(b)
      BY <3>1, <3>3, OnTrail DEF starts
    <3>5. CASE i = 1 /\ k = m
      BY <3>1, <3>4, <3>5
    <3>6. CASE i = 1 /\ k # m
      <4> DEFINE o == Len(trails[k])
      <4>1. o \in 1 .. Len(trails[k])
        BY <3>4
      <4>2. HasMoved(trails, m, j, trails[k][o])
        BY <3>6, <4>1 DEF HasMoved
      <4>3. half[trails[k][o]] = Values(b)[starts[k]] /\ trails[k][o] \in Pixels(b)
        BY <1>2, <3>3, <3>4, <4>1, <4>2
      <4> HIDE DEF half
      <4> QED
        BY <3>1, <3>4, <3>6, <4>3
    <3>7. CASE i # 1
      <4> DEFINE o == i - 1
      <4>1. o \in 1 .. Len(trails[k]) /\ o # Len(trails[k]) /\ o + 1 = i /\ (k = m => o < j)
        <5>1. i \in Int /\ 1 <= i /\ i <= Len(trails[k]) /\ j \in Int
          BY <3>2, <3>4
        <5> QED
          BY <3>1, <3>4, <3>7, <5>1
      <4> HIDE DEF o
      <4>2. HasMoved(trails, m, j, trails[k][o])
        BY <4>1 DEF HasMoved
      <4>3. half[trails[k][o]] = Values(b)[trails[k][o+1]] /\ trails[k][o] \in Pixels(b)
        BY <1>2, <3>3, <3>4, <4>1, <4>2
      <4> HIDE DEF half
      <4> QED
        BY <3>1, <4>1, <4>3
    <3> QED
      BY <3>5, <3>6, <3>7
  <2> QED
    BY <2>1, <2>2
<1> HIDE DEF there
<1>4. there = all
  BY <1>1, <1>3
<1> QED
  BY <1>4 DEF there, Held

\* swap_scheme between two moves, on the trails of its cycles.
Underway(trails) ==
  /\ LeadAround(mapbase, SwapTable(mapbase), trails)
  /\ \E m \in 1 .. Len(Starts) : \E j \in 1 .. Len(trails[m]) :
       /\ swap = [ m |-> m, pixbuf |-> Values(mapbase)[Starts[m]], istart |-> Starts[m],
                   iold |-> trails[m][j] ]
       /\ map = Halfway(mapbase, trails, m, j)

MapInv ==
  /\ IsBase(mapbase) /\ PowersUpTo(3 * mapbase.nside)
  /\ \/ swap = << >> /\ map = Values(mapbase)
     \/ swap # << >> /\ mapbase.order >= 0 /\ \E trails : Underway(trails)

LEMMA MapBegins == MapInit => MapInv
<1>1. SUFFICES ASSUME MapInit
               PROVE  MapInv
  OBVIOUS
<1>2. IsBase(mapbase) /\ swap = << >> /\ map = Values(mapbase)
  BY <1>1, WalkBegins, MeasuredValues DEF MapInit, WalkInv
<1>3. PowersUpTo(3 * mapbase.nside)
  <2>1. mapbase = base /\ Init
    BY <1>1 DEF MapInit
  <2>2. ASSUME NEW order \in Orders, NEW scheme \in { "RING", "NEST" }, base = Set(order, scheme)
        PROVE  PowersUpTo(3 * base.nside)
    BY <2>2, Powers DEF Set
  <2>3. ASSUME NEW nside \in Nsides, base = SetNside(nside, "RING")
        PROVE  PowersUpTo(3 * base.nside)
    BY <2>3, Powers DEF SetNside
  <2> QED
    BY <2>1, <2>2, <2>3 DEF Init
<1> QED
  BY <1>2, <1>3 DEF MapInv

\* The table has the trails of a base.
LEMMA TrailsOf ==
  ASSUME NEW b, IsBase(b), b.order \in 0 .. 3
  PROVE  \E trails : LeadAround(b, SwapTable(b), trails)
<1> DEFINE c == Set(b.order, b.scheme)
<1>1. b \in [ order : Int, nside : Nat \ {0}, scheme : { "RING", "NEST" } ] /\ b.nside = 2^b.order
  BY DEF IsBase, Hierarchical
<1>2. c = b
  BY <1>1 DEF Set
<1>3. \E trails : LeadAround(c, [ p \in Pixels(c) |-> swapper(c, p) ], trails)
  <2>1. \E d \in { c } :
          \E sw \in { [ p \in Pixels(d) |-> swapper(d, p) ] } :
            \E trails \in { [ m \in 1 .. Len(swap_cycles(b.order)) |->
                                Trail(sw, swap_cycles(b.order)[m]) ] } :
              LeadAround(d, sw, trails)
    BY <1>1, SwapCycles
  <2> HIDE DEF c
  <2> QED
    BY <2>1
<1> HIDE DEF c
<1> QED
  BY <1>2, <1>3 DEF SwapTable

\* The first pixel of a trail.
LEMMA Started ==
  ASSUME NEW trails, LeadAround(mapbase, SwapTable(mapbase), trails), NEW m \in 1 .. Len(Starts),
         NEW array, array[Starts[m]] = Values(mapbase)[Starts[m]]
  PROVE  [ m |-> m, pixbuf |-> array[Starts[m]], istart |-> Starts[m], iold |-> Starts[m] ]
           = [ m |-> m, pixbuf |-> Values(mapbase)[Starts[m]], istart |-> Starts[m],
               iold |-> trails[m][1] ]
         /\ 1 \in 1 .. Len(trails[m])
<1>1. trails[m] # << >> /\ trails \in Seq(Seq(Pixels(mapbase))) /\ trails[m][1] = Starts[m]
      /\ Len(trails) = Len(Starts)
  BY DEF LeadAround, Starts
<1>2. trails[m] \in Seq(Pixels(mapbase))
  BY <1>1
<1> QED
  BY <1>1, <1>2

\* A record is no empty sequence.
LEMMA NotResting ==
  ASSUME NEW m, NEW pixbuf, NEW istart, NEW iold
  PROVE  [ m |-> m, pixbuf |-> pixbuf, istart |-> istart, iold |-> iold ] # << >>
<1> DEFINE r == [ m |-> m, pixbuf |-> pixbuf, istart |-> istart, iold |-> iold ]
<1>1. DOMAIN r = { "m", "pixbuf", "istart", "iold" }
  OBVIOUS
<1>2. DOMAIN << >> = {}
  OBVIOUS
<1> QED
  BY <1>1, <1>2

\* swap_scheme starts: without a cycle it only changes the scheme.
LEMMA BeginKeeps ==
  ASSUME MapInv, SwapBegin
  PROVE  MapInv'
<1> DEFINE b == mapbase
<1>1. /\ swap = << >> /\ map' = map /\ b.order \in 0 .. 3
      /\ IF Starts = << >> THEN OtherScheme /\ UNCHANGED swap
         ELSE swap' = AtStart(1) /\ UNCHANGED mapbase
  BY DEF SwapBegin, Resting
<1>2. IsBase(b) /\ PowersUpTo(3 * b.nside) /\ map = Values(b) /\ b.order >= 0
  BY <1>1 DEF MapInv
<1>3. PICK trails : LeadAround(b, SwapTable(b), trails)
  BY <1>1, <1>2, TrailsOf
<1>4. /\ Starts \in Seq(Pixels(b)) /\ Len(trails) = Len(Starts)
      /\ \A p \in Pixels(b) : SwapTable(b)[p] = p
           \/ \E m \in 1 .. Len(Starts) : \E i \in 1 .. Len(trails[m]) : p = trails[m][i]
  BY <1>3 DEF LeadAround, Starts
<1>5. CASE Starts = << >>
  <2>1. ~ \E m \in 1 .. Len(Starts) : TRUE
    BY <1>5
  <2>2. \A p \in Pixels(b) : swapper(b, p) = p
    BY <1>4, <2>1 DEF SwapTable
  <2>3. Swapped(b, mapbase')
    BY <1>1, <1>2, <1>5, SchemeSwapped DEF OtherScheme
  <2>4. Values(mapbase') = [ p \in Pixels(b) |-> Values(b)[swapper(b, p)] ]
    BY <2>3, ValuesSwapped
  <2>5. Values(b) = [ p \in Pixels(b) |-> Values(b)[p] ]
    BY DEF Values
  <2>6. Values(mapbase') = Values(b)
    BY <2>2, <2>4, <2>5
  <2>7. IsBase(mapbase') /\ mapbase'.nside = mapbase.nside
    BY <2>3 DEF Swapped
  <2> QED
    BY <1>1, <1>2, <1>5, <2>6, <2>7 DEF MapInv
<1>6. CASE Starts # << >>
  <2>1. 1 \in 1 .. Len(Starts)
    BY <1>4, <1>6
  <2>2. /\ swap' = [ m |-> 1, pixbuf |-> Values(b)[Starts[1]], istart |-> Starts[1],
                     iold |-> trails[1][1] ]
        /\ 1 \in 1 .. Len(trails[1])
    BY <1>1, <1>2, <1>3, <1>6, <2>1, Started DEF AtStart
  <2>3. \A p : ~ HasMoved(trails, 1, 1, p)
    BY DEF HasMoved
  <2>4. Halfway(b, trails, 1, 1) = [ p \in Pixels(b) |-> Values(b)[p] ]
    BY <2>3 DEF Halfway
  <2>5. map' = Halfway(b, trails, 1, 1)
    BY <1>1, <1>2, <2>4 DEF Values
  <2>6. mapbase' = mapbase /\ Starts' = Starts
    BY <1>1, <1>6 DEF Starts
  <2>7. Underway(trails)'
    BY <1>3, <2>1, <2>2, <2>5, <2>6 DEF Underway
  <2>8. swap' # << >>
    BY <2>2, NotResting
  <2> QED
    BY <1>2, <2>6, <2>7, <2>8 DEF MapInv
<1> QED
  BY <1>5, <1>6

\* What is known of a swap under way.
LEMMA Halted ==
  ASSUME MapInv, swap # << >>
  PROVE  /\ IsBase(mapbase) /\ PowersUpTo(3 * mapbase.nside) /\ mapbase.order >= 0
         /\ \E trails : Underway(trails)
BY DEF MapInv

LEMMA MoveKeeps ==
  ASSUME MapInv, SwapMove
  PROVE  MapInv'
<1> DEFINE b == mapbase
<1>1. /\ swap # << >> /\ mapbase' = mapbase /\ swapper(b, swap.iold) # swap.istart
      /\ map' = [ map EXCEPT ![swap.iold] = map[swapper(b, swap.iold)] ]
      /\ swap' = [ swap EXCEPT !.iold = swapper(b, swap.iold) ]
  BY DEF SwapMove
<1>2. PICK trails : Underway(trails)
  BY <1>1, Halted
<1>3. PICK m \in 1 .. Len(Starts) : \E j \in 1 .. Len(trails[m]) :
         /\ swap = [ m |-> m, pixbuf |-> Values(b)[Starts[m]], istart |-> Starts[m],
                     iold |-> trails[m][j] ]
         /\ map = Halfway(b, trails, m, j)
  BY <1>2 DEF Underway
<1>4. PICK j \in 1 .. Len(trails[m]) :
         /\ swap = [ m |-> m, pixbuf |-> Values(b)[Starts[m]], istart |-> Starts[m],
                     iold |-> trails[m][j] ]
         /\ map = Halfway(b, trails, m, j)
  BY <1>3
<1>5. LeadAround(b, SwapTable(b), trails) /\ m \in 1 .. Len(swap_cycles(b.order))
  BY <1>2 DEF Underway, Starts
<1>6. swap.iold = trails[m][j] /\ swap.istart = Starts[m]
  BY <1>4
<1>7. /\ swapper(b, trails[m][j]) = IF j = Len(trails[m]) THEN Starts[m] ELSE trails[m][j+1]
      /\ j < Len(trails[m]) => j + 1 \in 1 .. Len(trails[m])
      /\ Len(trails[m]) \in Nat
  BY <1>5, OnTrail DEF Starts
<1>8. j # Len(trails[m])
  BY <1>1, <1>6, <1>7
<1>9. j < Len(trails[m]) /\ j + 1 \in 1 .. Len(trails[m])
  BY <1>7, <1>8
<1>10. swapper(b, swap.iold) = trails[m][j+1]
  BY <1>6, <1>7, <1>8
<1>11. map' = Halfway(b, trails, m, j + 1)
  <2> DEFINE half == Halfway(b, trails, m, j)
  <2>1. [ half EXCEPT ![trails[m][j]] = half[trails[m][j+1]] ] = Halfway(b, trails, m, j + 1)
    BY <1>5, <1>9, HalfwayMoves
  <2> HIDE DEF half
  <2>2. map = half
    BY <1>4 DEF half
  <2> QED
    BY <1>1, <1>6, <1>10, <2>1, <2>2
<1>12. swap' = [ m |-> m, pixbuf |-> Values(b)[Starts[m]], istart |-> Starts[m],
                 iold |-> trails[m][j+1] ]
  BY <1>1, <1>4, <1>10
<1>13. Starts' = Starts
  BY <1>1 DEF Starts
<1>14. Underway(trails)'
  BY <1>1, <1>2, <1>3, <1>9, <1>11, <1>12, <1>13 DEF Underway
<1>15. swap' # << >>
  BY <1>12, NotResting
<1> QED
  BY <1>1, <1>14, <1>15, Halted DEF MapInv

LEMMA CloseKeeps ==
  ASSUME MapInv, SwapClose
  PROVE  MapInv'
<1> DEFINE b == mapbase
<1>1. /\ swap # << >> /\ swapper(b, swap.iold) = swap.istart
      /\ map' = [ map EXCEPT ![swap.iold] = swap.pixbuf ]
      /\ IF swap.m < Len(Starts) THEN swap' = AtStart(swap.m + 1) /\ UNCHANGED mapbase
         ELSE swap' = << >> /\ OtherScheme
  BY DEF SwapClose
<1>0. IsBase(b) /\ PowersUpTo(3 * b.nside) /\ b.order >= 0
  BY <1>1, Halted
<1>2. PICK trails : Underway(trails)
  BY <1>1, Halted
<1>3. PICK m \in 1 .. Len(Starts) : \E j \in 1 .. Len(trails[m]) :
         /\ swap = [ m |-> m, pixbuf |-> Values(b)[Starts[m]], istart |-> Starts[m],
                     iold |-> trails[m][j] ]
         /\ map = Halfway(b, trails, m, j)
  BY <1>2 DEF Underway
<1>4. PICK j \in 1 .. Len(trails[m]) :
         /\ swap = [ m |-> m, pixbuf |-> Values(b)[Starts[m]], istart |-> Starts[m],
                     iold |-> trails[m][j] ]
         /\ map = Halfway(b, trails, m, j)
  BY <1>3
<1>5. LeadAround(b, SwapTable(b), trails) /\ m \in 1 .. Len(swap_cycles(b.order))
  BY <1>2 DEF Underway, Starts
<1>6. /\ swap.iold = trails[m][j] /\ swap.istart = Starts[m] /\ swap.m = m
      /\ swap.pixbuf = Values(b)[Starts[m]]
  BY <1>4
<1>7. j = Len(trails[m])
  <2>1. /\ swapper(b, trails[m][j]) = IF j = Len(trails[m]) THEN Starts[m] ELSE trails[m][j+1]
        /\ j < Len(trails[m]) => j + 1 \in 1 .. Len(trails[m])
        /\ Len(trails[m]) \in Nat
    BY <1>5, OnTrail DEF Starts
  <2>2. CASE j # Len(trails[m])
    <3>1. j + 1 \in 1 .. Len(trails[m]) /\ trails[m][j+1] = Starts[m]
      BY <1>1, <1>6, <2>1, <2>2
    <3>2. j + 1 = 1
      BY <1>5, <3>1, OnTrail DEF Starts
    <3> QED
      BY <2>1, <3>2
  <2> QED
    BY <2>2
<1>8. IF m < Len(Starts)
      THEN map' = Halfway(b, trails, m + 1, 1)
      ELSE map' = AllMoved(b)
  <2> DEFINE half == Halfway(b, trails, m, j)
             closed == [ half EXCEPT ![trails[m][j]] = Values(b)[Starts[m]] ]
  <2>1. IF m < Len(Starts)
        THEN closed = Halfway(b, trails, m + 1, 1)
        ELSE closed = AllMoved(b)
    <3>1. m < Len(Starts) => closed = Halfway(b, trails, m + 1, 1)
      BY <1>5, <1>7, HalfwayCloses DEF Starts
    <3>2. ~ (m < Len(Starts)) => closed = AllMoved(b)
      BY <1>5, <1>7, HalfwayCloses DEF Starts
    <3> HIDE DEF closed
    <3> QED
      BY <3>1, <3>2
  <2>2. map' = closed
    BY <1>1, <1>4, <1>6
  <2> HIDE DEF closed
  <2> QED
    BY <2>1, <2>2
<1>9. CASE m < Len(Starts)
  <2>1. m + 1 \in 1 .. Len(Starts)
    BY <1>5, <1>7, <1>9, MovedAround DEF Starts
  <2>2. ASSUME NEW p
        PROVE  HasMoved(trails, m + 1, 1, p) <=> HasMoved(trails, m, j, p) \/ p = trails[m][j]
    BY <1>5, <1>7, <1>9, MovedAround DEF Starts
  <2>3. /\ trails[m+1] # << >> /\ trails \in Seq(Seq(Pixels(b))) /\ trails[m+1][1] = Starts[m+1]
        /\ Len(trails) = Len(Starts)
    BY <1>5, <2>1 DEF LeadAround, Starts
  <2>4. trails[m+1] \in Seq(Pixels(b)) /\ 1 \in 1 .. Len(trails[m+1])
    BY <2>1, <2>3
  <2>5. 1 \in 1 .. Len(trails[m+1]) /\ Starts[m+1] \in Pixels(b)
    BY <2>3, <2>4
  <2>6. ~ HasMoved(trails, m + 1, 1, Starts[m+1])
    <3>1. m + 1 \in 1 .. Len(swap_cycles(b.order)) /\ 1 \in 1 .. Len(trails[m+1])
      BY <2>1, <2>5 DEF Starts
    <3>2. ~ HasMoved(trails, m + 1, 1, trails[m+1][1])
      BY <1>5, <3>1, MovedOn
    <3> QED
      BY <2>3, <3>2
  <2>7. map[Starts[m+1]] = Values(b)[Starts[m+1]]
    <3>1. ~ HasMoved(trails, m, j, Starts[m+1])
      BY <2>2, <2>6
    <3> QED
      BY <1>4, <2>5, <3>1 DEF Halfway
  <2>8. swap' = [ m |-> m + 1, pixbuf |-> Values(b)[Starts[m+1]], istart |-> Starts[m+1],
                  iold |-> trails[m+1][1] ]
    <3>1. swap' = AtStart(m + 1)
      BY <1>1, <1>6, <1>9
    <3> QED
      BY <1>5, <2>1, <2>7, <3>1, Started DEF AtStart
  <2>9. mapbase' = mapbase /\ Starts' = Starts
    BY <1>1, <1>6, <1>9 DEF Starts
  <2>10. map' = Halfway(b, trails, m + 1, 1)
    BY <1>8, <1>9
  <2>11. Underway(trails)'
    BY <1>5, <2>1, <2>5, <2>8, <2>9, <2>10 DEF Underway
  <2>12. swap' # << >>
    BY <2>8, NotResting
  <2> QED
    BY <1>0, <2>9, <2>11, <2>12 DEF MapInv
<1>10. CASE ~ (m < Len(Starts))
  <2>1. swap' = << >> /\ OtherScheme
    BY <1>1, <1>6, <1>10
  <2>2. Swapped(b, mapbase')
    BY <1>0, <2>1, SchemeSwapped DEF OtherScheme
  <2>3. map' = Values(mapbase')
    BY <1>8, <1>10, <2>2, ValuesSwapped DEF AllMoved
  <2>4. IsBase(mapbase') /\ mapbase'.nside = mapbase.nside
    BY <2>2 DEF Swapped
  <2> QED
    BY <1>0, <2>1, <2>3, <2>4 DEF MapInv
<1> QED
  BY <1>9, <1>10

LEMMA CopyKeeps ==
  ASSUME MapInv, Import_nograde
  PROVE  MapInv'
<1> DEFINE b == mapbase
           to(m) == IF b.scheme = "RING" THEN ring2nest(b, m) ELSE nest2ring(b, m)
<1>1. /\ swap = << >> /\ swap' = << >> /\ b.order >= 0 /\ OtherScheme
      /\ map' = [ p \in Pixels(b) |-> map[CHOOSE m \in Pixels(b) : to(m) = p] ]
  BY DEF Import_nograde, Resting
<1>2. IsBase(b) /\ PowersUpTo(3 * b.nside) /\ map = Values(b)
  BY <1>1 DEF MapInv
<1>3. Swapped(b, mapbase')
  BY <1>1, <1>2, SchemeSwapped DEF OtherScheme
<1>4. map' = Values(mapbase')
  <2>1. [ p \in Pixels(b) |-> Values(b)[CHOOSE m \in Pixels(b) : to(m) = p] ] = Values(mapbase')
    BY <1>3, Copied
  <2> HIDE DEF to
  <2> QED
    BY <1>1, <1>2, <2>1
<1>5. IsBase(mapbase') /\ mapbase'.nside = mapbase.nside
  BY <1>3 DEF Swapped
<1> QED
  BY <1>1, <1>2, <1>4, <1>5 DEF MapInv

LEMMA GradesKeep ==
  ASSUME MapInv, NEW fact \in 2 .. 3, NEW s \in { "RING", "NEST" }, NEW pessimistic \in BOOLEAN,
         ImportThereAndBack(fact, s, pessimistic)
  PROVE  MapInv'
<1> DEFINE b == mapbase
           finer == SetNside(fact * b.nside, s)
<1>1. /\ swap = << >> /\ swap' = swap /\ mapbase' = mapbase
      /\ s = "NEST" => nside2order(fact * b.nside) >= 0
      /\ map' = Import_degrade(Import_upgrade(PlaceOf(finer), fact), finer, PlaceOf(b), fact,
                               pessimistic)
  BY DEF ImportThereAndBack, Resting
<1>2. IsBase(b) /\ PowersUpTo(3 * b.nside) /\ map = Values(b) /\ b.nside \in Nat \ {0}
  BY <1>1 DEF MapInv, IsBase
<1>3. fact * b.nside \in Nat \ {0} /\ fact * b.nside <= 3 * b.nside
  <2>1. fact = 2 \/ fact = 3
    OBVIOUS
  <2>2. CASE fact = 2
    BY <1>2, <2>2
  <2>3. CASE fact = 3
    BY <1>2, <2>3
  <2> QED
    BY <2>1, <2>2, <2>3
<1>4. PowersUpTo(fact * b.nside)
  <2>1. \A k \in 0 .. fact * b.nside : k \in 0 .. 3 * b.nside
    BY <1>2, <1>3
  <2> QED
    BY <1>2, <2>1 DEF PowersUpTo
<1>5. IsBase(finer) /\ finer.nside = fact * b.nside
  <2> DEFINE n == fact * b.nside
  <2>1. n \in Nat \ {0} /\ PowersUpTo(n) /\ (s = "NEST" => nside2order(n) >= 0)
    BY <1>1, <1>3, <1>4
  <2> HIDE DEF n
  <2>2. IsBase(SetNside(n, s)) /\ SetNside(n, s).nside = n
    BY <2>1, SetNsideIsBase DEF SetNside
  <2> QED
    BY <2>2 DEF n
<1> HIDE DEF finer
<1>6. map' = map
  BY <1>1, <1>2, <1>5, ThereAndBack
<1> QED
  BY <1>1, <1>2, <1>6 DEF MapInv

LEMMA MapGoesOn == MapInv /\ [MapNext]_<< vars, mapvars >> => MapInv'
<1>1. SUFFICES ASSUME MapInv, [MapNext]_<< vars, mapvars >>
               PROVE  MapInv'
  OBVIOUS
<1>2. CASE SwapBegin
  BY <1>1, <1>2, BeginKeeps
<1>3. CASE SwapMove
  BY <1>1, <1>3, MoveKeeps
<1>4. CASE SwapClose
  BY <1>1, <1>4, CloseKeeps
<1>5. CASE Import_nograde
  BY <1>1, <1>5, CopyKeeps
<1>6. ASSUME NEW fact \in 2 .. 3, NEW s \in { "RING", "NEST" }, NEW pessimistic \in BOOLEAN,
             ImportThereAndBack(fact, s, pessimistic)
      PROVE  MapInv'
  BY <1>1, <1>6, GradesKeep
<1>7. CASE UNCHANGED mapvars
  BY <1>1, <1>7 DEF mapvars, MapInv, Underway, Starts
<1> QED
  BY <1>1, <1>2, <1>3, <1>4, <1>5, <1>6, <1>7 DEF MapNext

\* A map keeps every value at its place through swaps of its scheme, copies to the other
\* scheme and to finer maps and back, and loses none while a swap is under way.
THEOREM MapKeptAlways == MapSpec => []MapKept
<1>1. MapInv => MapKept
  <2>1. SUFFICES ASSUME MapInv
                 PROVE  MapKept
    OBVIOUS
  <2>2. CASE swap = << >>
    BY <2>1, <2>2, MeasuredValues DEF MapInv, MapKept
  <2>3. CASE swap # << >>
    <3>1. PICK trails : Underway(trails)
      BY <2>1, <2>3, Halted
    <3>2. PICK m \in 1 .. Len(Starts) : \E j \in 1 .. Len(trails[m]) :
             /\ swap = [ m |-> m, pixbuf |-> Values(mapbase)[Starts[m]], istart |-> Starts[m],
                         iold |-> trails[m][j] ]
             /\ map = Halfway(mapbase, trails, m, j)
      BY <3>1 DEF Underway
    <3>3. PICK j \in 1 .. Len(trails[m]) :
             /\ swap = [ m |-> m, pixbuf |-> Values(mapbase)[Starts[m]], istart |-> Starts[m],
                         iold |-> trails[m][j] ]
             /\ map = Halfway(mapbase, trails, m, j)
      BY <3>2
    <3>4. /\ LeadAround(mapbase, SwapTable(mapbase), trails)
          /\ m \in 1 .. Len(swap_cycles(mapbase.order))
      BY <3>1 DEF Underway, Starts
    <3>5. \A p \in Pixels(mapbase) : swapper(mapbase, p) \in Pixels(mapbase)
      BY <2>1, <2>3, Halted, SchemeSwapped, Renumbered
    <3>6. Held(mapbase, map) \cup { Values(mapbase)[swap_cycles(mapbase.order)[m]] }
            = Held(mapbase, Values(mapbase))
      BY <3>3, <3>4, <3>5, HalfwayKeeps
    <3>7. swap.pixbuf = Values(mapbase)[swap_cycles(mapbase.order)[m]]
      BY <3>3 DEF Starts
    <3> QED
      BY <2>3, <3>6, <3>7, MeasuredValues DEF MapKept, Held
  <2> QED
    BY <2>2, <2>3
<1> QED
  BY <1>1, MapBegins, MapGoesOn, PTL DEF MapSpec

=============================================================================
