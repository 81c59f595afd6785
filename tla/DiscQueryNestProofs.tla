------------------------- MODULE DiscQueryNestProofs ------------------------
(***************************************************************************)
(* For every number of base pixels, every order, every factor and every    *)
(* disc: the walk of DiscQueryNest keeps its stack within the space        *)
(* reserved for it, outputs pixels in ascending order, and unwinds only    *)
(* what lies below the pixel it has just output.  Blind pixels aside, a    *)
(* strict query returns the pixels whose centres are in the disc, and an   *)
(* inclusive query at least every pixel that overlaps it: the walk never   *)
(* throws away an entry whose pixel it has not output.  Queries of several *)
(* discs take no other walks.                                              *)
(***************************************************************************)
EXTENDS MultidiscNest, QueryLemmas

----------------------------------------------------------------------------
(* Arithmetic.                                                             *)

LEMMA PowerType ==
  ASSUME NEW k \in 0 .. OrderMax
  PROVE  4^k \in Nat /\ 4^k > 0
BY PowersOf4, ConstantsAssumption

LEMMA PowerStep ==
  ASSUME NEW k \in 1 .. OrderMax
  PROVE  4^k = 4 * 4^(k-1)
<1>1. k - 1 \in 0 .. OrderMax /\ (k - 1) + 1 = k
  BY ConstantsAssumption
<1>2. 4^((k-1)+1) = 4 * 4^(k-1)
  BY <1>1, PowersOf4
<1> QED
  BY <1>1, <1>2

\* Dividing by a positive number.
LEMMA DivBounds ==
  ASSUME NEW p \in Nat, NEW K \in Nat \ {0}
  PROVE  p \div K \in Nat /\ K * (p \div K) <= p /\ p < K * ((p \div K) + 1)
OBVIOUS

\* The pixel above a child is the pixel above its parent.
LEMMA DivChild ==
  ASSUME NEW p \in Nat, NEW c \in 0 .. 3, NEW K \in Nat \ {0}
  PROVE  (4 * p + c) \div (4 * K) = p \div K
<1>1. p \div K \in Nat /\ K * (p \div K) <= p /\ p < K * ((p \div K) + 1)
  BY DivBounds
<1>2. (4 * K) * (p \div K) <= 4 * p + c /\ 4 * p + c < (4 * K) * ((p \div K) + 1)
  <2> DEFINE q == p \div K
  <2>1. p + 1 <= K * (q + 1)
    BY <1>1
  <2>2. (4 * K) * q = 4 * (K * q) /\ (4 * K) * (q + 1) = 4 * (K * (q + 1))
    BY <1>1
  <2> QED
    BY <1>1, <2>1, <2>2
<1> QED
  BY <1>1, <1>2

\* The ranges of the children lie in the range of the parent, in ascending order.
LEMMA ChildRanges ==
  ASSUME NEW p \in Nat, NEW c \in 0 .. 3, NEW K \in Nat
  PROVE  /\ p * (4 * K) <= (4 * p + c) * K
         /\ (4 * p + c + 1) * K <= (p + 1) * (4 * K)
OBVIOUS

----------------------------------------------------------------------------
(* Entries of the stack and the pixels they lead to.                       *)

LEMMA FirstBeyond ==
  ASSUME NEW e \in Entries
  PROVE  First(e) \in Nat /\ Beyond(e) \in Nat /\ First(e) < Beyond(e)
<1>0. e.pix \in Nat /\ e.o \in 0 .. OrderMax
  BY DEF Entries
<1>1. CASE e.o <= Order
  <2>1. Order - e.o \in 0 .. OrderMax
    BY <1>0, <1>1, ConstantsAssumption
  <2>2. 4^(Order - e.o) \in Nat /\ 4^(Order - e.o) > 0
    BY <2>1, PowerType
  <2> QED
    BY <1>0, <1>1, <2>2 DEF First, Beyond
<1>2. CASE e.o > Order
  <2>1. e.o - Order \in 0 .. OrderMax
    BY <1>0, <1>2, ConstantsAssumption
  <2>2. 4^(e.o - Order) \in Nat \ {0}
    BY <2>1, PowerType
  <2>3. e.pix \div 4^(e.o - Order) \in Nat
    BY <1>0, <2>2, DivBounds
  <2> QED
    BY <1>0, <1>2, <2>3, ConstantsAssumption DEF First, Beyond, Ancestor
<1> QED
  BY <1>0, <1>1, <1>2, ConstantsAssumption

Child(e, c) == [ pix |-> 4 * e.pix + c, o |-> e.o + 1 ]

\* Above Order, the children of an entry divide its pixels among them.
LEMMA ChildAbove ==
  ASSUME NEW e \in Entries, e.o < Order, NEW c \in 0 .. 3
  PROVE  /\ Child(e, c) \in Entries
         /\ First(e) <= First(Child(e, c))
         /\ Beyond(Child(e, c)) <= Beyond(e)
         /\ \A d \in 0 .. 3 : c < d => Beyond(Child(e, c)) <= First(Child(e, d))
<1>0. e.pix \in Nat /\ e.o \in 0 .. OrderMax /\ e.o + 1 <= Order
  BY ConstantsAssumption DEF Entries
<1> DEFINE K == 4^(Order - (e.o + 1))
<1>1. /\ Order - (e.o + 1) \in 0 .. OrderMax
      /\ Order - e.o \in 1 .. OrderMax
      /\ (Order - e.o) - 1 = Order - (e.o + 1)
  BY <1>0, ConstantsAssumption
<1>2. K \in Nat /\ 4^(Order - e.o) = 4 * K
  BY <1>1, PowerType, PowerStep
<1>3. First(e) = e.pix * (4 * K) /\ Beyond(e) = (e.pix + 1) * (4 * K)
  BY <1>0, <1>2, ConstantsAssumption DEF First, Beyond
<1>4. \A d \in 0 .. 3 : /\ First(Child(e, d)) = (4 * e.pix + d) * K
                       /\ Beyond(Child(e, d)) = (4 * e.pix + d + 1) * K
  BY <1>0, ConstantsAssumption DEF First, Beyond, Child
<1>5. Child(e, c) \in Entries
  BY <1>0, ConstantsAssumption DEF Child, Entries
<1>6. \A d \in 0 .. 3 : c < d => (4 * e.pix + c + 1) * K <= (4 * e.pix + d) * K
  BY <1>0, <1>2
<1> HIDE DEF K
<1> QED
  BY <1>0, <1>2, <1>3, <1>4, <1>5, <1>6, ChildRanges

\* From Order down, the children of an entry lead to the pixel it leads to.
LEMMA ChildBelow ==
  ASSUME NEW e \in Entries, e.o >= Order, e.o < OrderMax, NEW c \in 0 .. 3
  PROVE  /\ Child(e, c) \in Entries
         /\ Child(e, c).o > Order
         /\ First(Child(e, c)) = First(e)
         /\ Beyond(Child(e, c)) = Beyond(e)
<1>0. e.pix \in Nat /\ e.o \in 0 .. OrderMax
  BY DEF Entries
<1>1. Child(e, c) \in Entries /\ Child(e, c).o > Order
  BY <1>0, ConstantsAssumption DEF Child, Entries
<1> DEFINE K == 4^(e.o - Order)
<1>2. /\ e.o - Order \in 0 .. OrderMax
      /\ (e.o + 1) - Order \in 1 .. OrderMax
      /\ ((e.o + 1) - Order) - 1 = e.o - Order
  BY <1>0, ConstantsAssumption
<1>3. K \in Nat \ {0} /\ 4^((e.o + 1) - Order) = 4 * K
  BY <1>2, PowerType, PowerStep
<1>4. Ancestor(4 * e.pix + c, e.o + 1) = e.pix \div K
  BY <1>0, <1>3, DivChild DEF Ancestor
<1>5. First(Child(e, c)) = e.pix \div K /\ Beyond(Child(e, c)) = (e.pix \div K) + 1
  BY <1>0, <1>4, ConstantsAssumption DEF First, Beyond, Child
<1>6. CASE e.o = Order
  <2>1. 4^0 = 1
    BY SMT
  <2>2. e.o - Order = 0 /\ Order - e.o = 0
    BY <1>0, <1>6, ConstantsAssumption
  <2>3. e.pix \div K = e.pix
    <3>1. K = 1
      BY <2>1, <2>2
    <3>2. e.pix \div 1 = e.pix
      BY <1>0
    <3> HIDE DEF K
    <3> QED
      BY <3>1, <3>2
  <2>4. First(e) = e.pix /\ Beyond(e) = e.pix + 1
    BY <1>0, <1>6, <2>1, <2>2, ConstantsAssumption DEF First, Beyond
  <2> QED
    BY <1>1, <1>5, <2>3, <2>4
<1>7. CASE e.o > Order
  BY <1>0, <1>1, <1>5, <1>7, ConstantsAssumption DEF First, Beyond, Ancestor
<1> QED
  BY <1>0, <1>6, <1>7, ConstantsAssumption

----------------------------------------------------------------------------
(* The operations on the stack.                                            *)

LEMMA RestProperties ==
  ASSUME stk \in Seq(Entries), stk # << >>
  PROVE  /\ Len(stk) \in Nat \ {0}
         /\ top \in Entries
         /\ rest \in Seq(Entries)
         /\ Len(rest) = Len(stk) - 1
         /\ \A i \in 1 .. Len(rest) : rest[i] = stk[i]
<1>1. Len(stk) \in Nat \ {0}
  BY EmptySeq
<1>2. top \in Entries
  BY <1>1, ElementOfSeq DEF top
<1>3. \A i \in 1 .. Len(stk) - 1 : stk[i] \in Entries
  BY <1>1, ElementOfSeq
<1>4. /\ rest \in Seq(Entries)
      /\ Len(rest) = IF 1 <= Len(stk) - 1 THEN (Len(stk) - 1) - 1 + 1 ELSE 0
      /\ \A i \in 1 .. (Len(stk) - 1) - 1 + 1 : rest[i] = stk[1 + i - 1]
  BY <1>1, <1>3, SubSeqProperties DEF rest
<1>5. Len(rest) = Len(stk) - 1
  <2>1. \A n \in Nat \ {0} : (IF 1 <= n - 1 THEN (n - 1) - 1 + 1 ELSE 0) = n - 1
    OBVIOUS
  <2> QED
    BY <1>1, <1>4, <2>1
<1>6. \A i \in 1 .. Len(stk) - 1 : rest[i] = stk[i]
  BY <1>1, <1>4
<1> QED
  BY <1>1, <1>2, <1>4, <1>5, <1>6

LEMMA PushProperties ==
  ASSUME NEW s \in Seq(Entries), NEW e \in Entries, e.o < OrderMax
  PROVE  LET t == push(s, e.pix, e.o) IN
         /\ t \in Seq(Entries)
         /\ Len(t) = Len(s) + 4
         /\ \A i \in 1 .. Len(s) : t[i] = s[i]
         /\ \A i \in 1 .. 4 : t[Len(s) + i] = Child(e, 4 - i)
<1> DEFINE new == [ i \in 1 .. 4 |-> [ pix |-> 4 * e.pix + 4 - i, o |-> e.o + 1 ] ]
           t   == push(s, e.pix, e.o)
<1>1. e.pix \in Nat /\ e.o \in 0 .. OrderMax /\ OrderMax \in Nat
  BY ConstantsAssumption DEF Entries
<1>2. \A i \in 1 .. 4 : new[i] = Child(e, 4 - i) /\ new[i] \in Entries
  <2> TAKE i \in 1 .. 4
  <2>1. 4 * e.pix + 4 - i = 4 * e.pix + (4 - i) /\ 4 * e.pix + (4 - i) \in Nat
    BY <1>1
  <2>2. new[i] = [ pix |-> 4 * e.pix + 4 - i, o |-> e.o + 1 ]
    OBVIOUS
  <2>3. e.o + 1 \in 0 .. OrderMax
    BY <1>1
  <2> HIDE DEF new
  <2> QED
    BY <2>1, <2>2, <2>3 DEF Child, Entries
<1>3. new \in Seq(Entries) /\ Len(new) = 4
  BY <1>2
<1>4. t = s \o new
  BY DEF push
<1>5. /\ t \in Seq(Entries)
      /\ Len(t) = Len(s) + 4
      /\ \A i \in 1 .. Len(s) + 4 : t[i] = IF i <= Len(s) THEN s[i] ELSE new[i - Len(s)]
  BY <1>3, <1>4, ConcatProperties
<1>6. Len(s) \in Nat
  BY LenProperties
<1> HIDE DEF new, t
<1>7. \A i \in 1 .. 4 : t[Len(s) + i] = new[i]
  <2> TAKE i \in 1 .. 4
  <2>1. Len(s) + i \in 1 .. Len(s) + 4 /\ ~(Len(s) + i <= Len(s)) /\ (Len(s) + i) - Len(s) = i
    BY <1>6
  <2> QED
    BY <1>5, <2>1
<1>8. \A i \in 1 .. 4 : t[Len(s) + i] = Child(e, 4 - i)
  BY <1>2, <1>7
<1>9. \A i \in 1 .. Len(s) : t[i] = s[i]
  BY <1>5, <1>6
<1> QED
  BY <1>5, <1>8, <1>9 DEF t

LEMMA ResizeProperties ==
  ASSUME NEW s \in Seq(Entries), NEW n \in 0 .. Len(s)
  PROVE  /\ resize(s, n) \in Seq(Entries)
         /\ Len(resize(s, n)) = n
         /\ \A i \in 1 .. n : resize(s, n)[i] = s[i]
<1>1. Len(s) \in Nat /\ \A i \in 1 .. n : s[i] \in Entries
  BY LenProperties, ElementOfSeq
<1>2. resize(s, n) = SubSeq(s, 1, n)
  BY <1>1 DEF resize
<1>3. /\ SubSeq(s, 1, n) \in Seq(Entries)
      /\ Len(SubSeq(s, 1, n)) = IF 1 <= n THEN n - 1 + 1 ELSE 0
      /\ \A i \in 1 .. n - 1 + 1 : SubSeq(s, 1, n)[i] = s[1 + i - 1]
  BY <1>1, SubSeqProperties
<1> QED
  BY <1>1, <1>2, <1>3

\* What the walk needs to know of children, above and below Order.
LEMMA ChildFacts ==
  ASSUME NEW e \in Entries, e.o < OrderMax, NEW c \in 0 .. 3
  PROVE  /\ Child(e, c) \in Entries
         /\ Child(e, c).o = e.o + 1
         /\ First(e) <= First(Child(e, c))
         /\ Beyond(Child(e, c)) <= Beyond(e)
         /\ e.o >= Order => Child(e, c).o > Order /\ First(Child(e, c)) = First(e)
         /\ \A d \in 0 .. 3 : c < d =>
              \/ Beyond(Child(e, c)) <= First(Child(e, d))
              \/ Child(e, d).o > Order /\ First(Child(e, d)) = First(Child(e, c))
<1>0. e.o \in Int /\ Order \in Int /\ Child(e, c).o = e.o + 1
  BY ConstantsAssumption DEF Entries, Child
<1>1. CASE e.o < Order
  BY <1>0, <1>1, ChildAbove
<1>2. CASE e.o >= Order
  <2>1. First(e) \in Nat /\ Beyond(e) \in Nat
    BY FirstBeyond
  <2>2. \A d \in 0 .. 3 : /\ Child(e, d) \in Entries
                         /\ Child(e, d).o > Order
                         /\ First(Child(e, d)) = First(e)
                         /\ Beyond(Child(e, d)) = Beyond(e)
    BY <1>2, ChildBelow
  <2> QED
    BY <1>0, <2>1, <2>2
<1> QED
  BY <1>0, <1>1, <1>2

\* append, given that it starts at or after the last boundary, does not
\* throw and leaves v2 as the last boundary.
LEMMA OutputAppends ==
  ASSUME pixset \in Seq(Nat), Canonical(pixset),
         NEW v1 \in Nat, NEW v2 \in Nat, v1 < v2,
         pixset # << >> => Last(pixset) <= v1,
         Output(v1, v2)
  PROVE  /\ status' = status
         /\ appendAssert(pixset, v1, v2)
         /\ pixset' = append(pixset, v1, v2)
         /\ pixset' \in Seq(Nat)
         /\ Canonical(pixset')
         /\ Last(pixset') = v2
<1>1. pixset \in Seq(Int)
  BY SeqMonotonic, Nat \subseteq Int
<1>2. appendAssert(pixset, v1, v2)
  <2> SUFFICES ASSUME pixset # << >>, v1 <= Last(pixset)
               PROVE  v1 >= pixset[Len(pixset) - 1]
    BY DEF appendAssert
  <2>1. Len(pixset) \in Nat /\ Len(pixset) # 0 /\ Len(pixset) % 2 = 0
    BY EmptySeq DEF Canonical
  <2>2. Len(pixset) - 1 \in 1 .. Len(pixset) - 1 /\ (Len(pixset) - 1) + 1 = Len(pixset)
    BY <2>1
  <2>3. pixset[Len(pixset) - 1] < Last(pixset)
    BY <2>2 DEF Canonical, Last
  <2>4. pixset[Len(pixset) - 1] \in Int /\ Last(pixset) \in Int
    BY <1>1, <2>1, <2>2, ElementOfSeq DEF Last
  <2> QED
    BY <2>3, <2>4
<1>3. status' = status /\ pixset' = append(pixset, v1, v2)
  BY <1>2 DEF Output
<1>4. pixset' \in Seq(Nat)
  BY <1>3, AppendType, Nat \subseteq Int
<1>5. Canonical(pixset')
  BY <1>1, <1>2, <1>3, AppendCanonical
<1>6. Last(pixset') = v2
  <2>1. pixset # << >> => Last(pixset) \in Nat
    BY EmptySeq, ElementOfSeq DEF Last
  <2>2. pixset' \in Seq(Int) /\ Len(pixset) \in Nat
    BY <1>4, SeqMonotonic, Nat \subseteq Int, LenProperties
  <2> QED
    BY <1>1, <1>3, <2>1, <2>2, AppendCases DEF Last
<1> QED
  BY <1>2, <1>3, <1>4, <1>5, <1>6

----------------------------------------------------------------------------
(* How a step of the walk changes the stack: it drops entries from the     *)
(* top, or replaces the top by its four children.                          *)

LEMMA DroppingKeeps ==
  ASSUME StackInv, SavedInv, Len(stk) \in Nat, stacktop \in Nat,
         UNCHANGED << omax, stacktop >>,
         NEW n \in 0 .. Len(stk), Len(stk') = n, \A i \in 1 .. n : stk'[i] = stk[i]
  PROVE  StackInv' /\ SavedInv'
<1>1. \A i \in 1 .. n : i \in 1 .. Len(stk)
  OBVIOUS
<1>2. StackInv'
  <2>1. ASSUME NEW i \in 1 .. n
        PROVE  stk'[i].o <= omax' /\ i <= NBase + 3 * stk'[i].o
    BY <1>1 DEF StackInv
  <2>2. ASSUME NEW i \in 1 .. n, NEW j \in 1 .. n, i < j
        PROVE  /\ stk'[i].o <= stk'[j].o
               /\ \/ Beyond(stk'[j]) <= First(stk'[i])
                  \/ stk'[i].o > Order /\ First(stk'[i]) = First(stk'[j])
    BY <1>1, <2>2 DEF StackInv
  <2> QED
    BY <2>1, <2>2 DEF StackInv, First, Beyond
<1>3. SavedInv'
  <2>1. ASSUME NEW j \in 1 .. n, stk'[j].o > Order
        PROVE  /\ stacktop < j
               /\ \A i \in stacktop + 1 .. n :
                    stk'[i].o > Order /\ First(stk'[i]) = First(stk'[j])
    <3>1. stk[j].o > Order /\ j \in 1 .. Len(stk)
      BY <1>1, <2>1
    <3>2. \A i \in stacktop + 1 .. n : i \in stacktop + 1 .. Len(stk) /\ i \in 1 .. n
      OBVIOUS
    <3> QED
      BY <3>1, <3>2 DEF SavedInv
  <2> QED
    BY <2>1 DEF SavedInv, First
<1> QED
  BY <1>2, <1>3

\* The stack after the top was replaced by its children, entry by entry.
LEMMA ExpandedStack ==
  ASSUME stk \in Seq(Entries), stk # << >>, top.o < OrderMax,
         stk' = push(rest, top.pix, top.o)
  PROVE  /\ stk' \in Seq(Entries)
         /\ Len(stk') = Len(stk) + 3
         /\ \A i \in 1 .. Len(stk') :
              /\ i < Len(stk) => stk'[i] = stk[i]
              /\ i >= Len(stk) =>
                   \E k \in 1 .. 4 : i = Len(stk) - 1 + k /\ stk'[i] = Child(top, 4 - k)
<1>1. /\ Len(stk) \in Nat \ {0} /\ top \in Entries /\ rest \in Seq(Entries)
      /\ Len(rest) = Len(stk) - 1
      /\ \A i \in 1 .. Len(rest) : rest[i] = stk[i]
  BY RestProperties
<1>2. /\ stk' \in Seq(Entries)
      /\ Len(stk') = Len(rest) + 4
      /\ \A i \in 1 .. Len(rest) : stk'[i] = rest[i]
      /\ \A k \in 1 .. 4 : stk'[Len(rest) + k] = Child(top, 4 - k)
  BY <1>1, PushProperties
<1>3. ASSUME NEW i \in 1 .. Len(stk'), i >= Len(stk)
      PROVE  \E k \in 1 .. 4 : i = Len(stk) - 1 + k /\ stk'[i] = Child(top, 4 - k)
  <2>1. i - (Len(stk) - 1) \in 1 .. 4 /\ i = Len(stk) - 1 + (i - (Len(stk) - 1))
    BY <1>1, <1>2, <1>3
  <2> QED
    BY <1>1, <1>2, <2>1
<1>4. ASSUME NEW i \in 1 .. Len(stk'), i < Len(stk)
      PROVE  stk'[i] = stk[i]
  <2>1. i \in 1 .. Len(rest)
    BY <1>1, <1>2, <1>4
  <2> QED
    BY <1>1, <1>2, <2>1
<1> QED
  BY <1>1, <1>2, <1>3, <1>4

LEMMA ExpandingKeepsStackInv ==
  ASSUME TypeOK, StackInv, stk # << >>, top.o < omax,
         UNCHANGED omax, stk' = push(rest, top.pix, top.o)
  PROVE  StackInv'
<1> DEFINE n == Len(stk)
<1>1. n \in Nat \ {0} /\ top \in Entries /\ top = stk[n]
  BY RestProperties DEF TypeOK, top
<1>2. /\ omax \in Int /\ omax <= OrderMax /\ OrderMax \in Int /\ Order \in Nat
      /\ top.o \in Int /\ top.o < OrderMax /\ top.o < omax
  BY <1>1, ConstantsAssumption DEF TypeOK, Entries
<1>3. /\ stk' \in Seq(Entries)
      /\ Len(stk') = n + 3
      /\ \A i \in 1 .. Len(stk') :
           /\ i < n => stk'[i] = stk[i]
           /\ i >= n => \E k \in 1 .. 4 : i = n - 1 + k /\ stk'[i] = Child(top, 4 - k)
  BY <1>2, ExpandedStack DEF TypeOK
<1>4. \A k \in 1 .. 4 :
        /\ Child(top, 4 - k) \in Entries
        /\ Child(top, 4 - k).o = top.o + 1
        /\ First(top) <= First(Child(top, 4 - k))
        /\ Beyond(Child(top, 4 - k)) <= Beyond(top)
        /\ top.o >= Order => /\ Child(top, 4 - k).o > Order
                            /\ First(Child(top, 4 - k)) = First(top)
  BY <1>1, <1>2, ChildFacts
<1>5. \A k, l \in 1 .. 4 : k < l =>
        \/ Beyond(Child(top, 4 - l)) <= First(Child(top, 4 - k))
        \/ /\ Child(top, 4 - k).o > Order
           /\ First(Child(top, 4 - k)) = First(Child(top, 4 - l))
  <2> SUFFICES ASSUME NEW k \in 1 .. 4, NEW l \in 1 .. 4, k < l
               PROVE  \/ Beyond(Child(top, 4 - l)) <= First(Child(top, 4 - k))
                      \/ /\ Child(top, 4 - k).o > Order
                         /\ First(Child(top, 4 - k)) = First(Child(top, 4 - l))
    OBVIOUS
  <2>1. 4 - l \in 0 .. 3 /\ 4 - k \in 0 .. 3 /\ 4 - l < 4 - k
    OBVIOUS
  <2> QED
    BY <1>1, <1>2, <2>1, ChildFacts
<1>6. n <= NBase + 3 * top.o /\ NBase \in Int
  <2>1. n \in 1 .. Len(stk)
    BY <1>1
  <2> QED
    BY <1>1, <2>1, ConstantsAssumption DEF StackInv
<1>9. \A i \in 1 .. n : stk[i] \in Entries /\ stk[i].o \in Int
  <2>1. \A i \in 1 .. n : stk[i] \in Entries
    BY ElementOfSeq DEF TypeOK
  <2> QED
    BY <2>1 DEF Entries
<1> HIDE DEF n
<1>7. ASSUME NEW i \in 1 .. Len(stk')
      PROVE  stk'[i].o <= omax' /\ i <= NBase + 3 * stk'[i].o
  <2>1. CASE i < n
    <3>1. i \in 1 .. n /\ stk'[i] = stk[i]
      BY <1>1, <1>3, <2>1
    <3> QED
      BY <3>1 DEF StackInv, n
  <2>2. CASE i >= n
    <3>1. stk'[i].o = top.o + 1
      BY <1>3, <1>4, <2>2
    <3>2. i \in Int /\ i <= n + 3
      BY <1>1, <1>3
    <3>3. top.o + 1 <= omax /\ i <= NBase + 3 * (top.o + 1)
      BY <1>1, <1>2, <1>6, <3>2
    <3> QED
      BY <3>1, <3>3
  <2> QED
    BY <1>1, <2>1, <2>2
<1>8. ASSUME NEW i \in 1 .. Len(stk'), NEW j \in 1 .. Len(stk'), i < j
      PROVE  /\ stk'[i].o <= stk'[j].o
             /\ \/ Beyond(stk'[j]) <= First(stk'[i])
                \/ stk'[i].o > Order /\ First(stk'[i]) = First(stk'[j])
  <2>1. CASE j < n
    <3>1. /\ i \in 1 .. n /\ stk'[i] = stk[i]
          /\ j \in 1 .. n /\ stk'[j] = stk[j]
      BY <1>1, <1>3, <1>8, <2>1
    <3> QED
      BY <1>8, <3>1 DEF StackInv, n
  <2>2. CASE i < n /\ j >= n
    <3>1. PICK l \in 1 .. 4 : stk'[j] = Child(top, 4 - l)
      BY <1>3, <2>2
    <3>2. i \in 1 .. n /\ n \in 1 .. n /\ stk'[i] = stk[i]
      BY <1>1, <1>3, <2>2
    <3>3. /\ stk[i].o <= top.o
          /\ \/ Beyond(top) <= First(stk[i])
             \/ stk[i].o > Order /\ First(stk[i]) = First(top)
      BY <1>1, <2>2, <3>2 DEF StackInv, n
    <3>4. /\ First(stk[i]) \in Nat /\ Beyond(top) \in Nat /\ stk[i].o \in Int
          /\ Beyond(Child(top, 4 - l)) \in Nat
      BY <1>1, <1>4, <1>9, <3>2, FirstBeyond
    <3>5. /\ Child(top, 4 - l).o = top.o + 1
          /\ Beyond(Child(top, 4 - l)) <= Beyond(top)
          /\ top.o >= Order => First(Child(top, 4 - l)) = First(top)
      BY <1>4
    <3>6. stk[i].o <= Child(top, 4 - l).o
      BY <1>2, <3>3, <3>4, <3>5
    <3>7. \/ Beyond(Child(top, 4 - l)) <= First(stk[i])
          \/ stk[i].o > Order /\ First(stk[i]) = First(Child(top, 4 - l))
      <4>1. CASE Beyond(top) <= First(stk[i])
        BY <3>4, <3>5, <4>1
      <4>2. CASE stk[i].o > Order /\ First(stk[i]) = First(top)
        <5>1. top.o >= Order
          BY <1>2, <3>3, <3>4, <4>2
        <5> QED
          BY <3>5, <4>2, <5>1
      <4> QED
        BY <3>3, <4>1, <4>2
    <3> QED
      BY <3>1, <3>2, <3>6, <3>7
  <2>3. CASE i >= n /\ j >= n
    <3>1. PICK k \in 1 .. 4 : i = n - 1 + k /\ stk'[i] = Child(top, 4 - k)
      BY <1>3, <2>3
    <3>2. PICK l \in 1 .. 4 : j = n - 1 + l /\ stk'[j] = Child(top, 4 - l)
      BY <1>3, <2>3
    <3>3. k < l
      BY <1>1, <1>8, <3>1, <3>2
    <3>4. Child(top, 4 - k).o = Child(top, 4 - l).o /\ Child(top, 4 - k).o \in Int
      <4>1. \A c : Child(top, c).o = top.o + 1
        BY DEF Child
      <4>2. top.o + 1 \in Int
        BY <1>2
      <4> QED
        BY <4>1, <4>2
    <3> QED
      BY <1>5, <3>1, <3>2, <3>3, <3>4
  <2> QED
    BY <1>1, <1>8, <2>1, <2>2, <2>3
<1> QED
  BY <1>7, <1>8 DEF StackInv, First, Beyond

\* Facts about the top of the stack used in every step.
LEMMA TopFacts ==
  ASSUME TypeOK, StackInv, stk # << >>
  PROVE  /\ Len(stk) \in Nat \ {0}
         /\ top = stk[Len(stk)] /\ top \in Entries
         /\ top.pix \in Nat /\ top.o \in Nat /\ top.o <= omax
         /\ omax \in Nat /\ omax <= OrderMax
         /\ Order \in Nat /\ Order <= omax /\ OrderMax \in Nat
         /\ \A i \in 1 .. Len(stk) :
              stk[i] \in Entries /\ stk[i].o \in Int /\ First(stk[i]) \in Nat
         /\ \A i \in 1 .. Len(stk) - 1 :
              /\ stk[i].o <= top.o
              /\ stk[i].o <= Order => Beyond(top) <= First(stk[i])
<1>1. Len(stk) \in Nat \ {0} /\ top = stk[Len(stk)] /\ top \in Entries
  BY RestProperties DEF TypeOK, top
<1>2. \A i \in 1 .. Len(stk) : stk[i] \in Entries
  BY ElementOfSeq DEF TypeOK
<1>3. \A i \in 1 .. Len(stk) : stk[i].o \in Int /\ First(stk[i]) \in Nat
  BY <1>2, FirstBeyond DEF Entries
<1>4. top.pix \in Nat /\ top.o \in Nat /\ OrderMax \in Nat /\ Order \in Nat
  BY <1>1, ConstantsAssumption DEF Entries
<1>5. omax \in Nat /\ omax <= OrderMax /\ Order <= omax
  BY <1>4 DEF TypeOK
<1>6. top.o <= omax
  <2>1. Len(stk) \in 1 .. Len(stk)
    BY <1>1
  <2> QED
    BY <1>1, <2>1 DEF StackInv
<1>7. ASSUME NEW i \in 1 .. Len(stk) - 1
      PROVE  stk[i].o <= top.o /\ (stk[i].o <= Order => Beyond(top) <= First(stk[i]))
  <2>1. i \in 1 .. Len(stk) /\ Len(stk) \in 1 .. Len(stk) /\ i < Len(stk)
    BY <1>1
  <2>2. /\ stk[i].o <= top.o
        /\ \/ Beyond(top) <= First(stk[i])
           \/ stk[i].o > Order /\ First(stk[i]) = First(top)
    BY <1>1, <2>1 DEF StackInv
  <2> QED
    BY <1>3, <1>4, <2>1, <2>2
<1> QED
  BY <1>1, <1>2, <1>3, <1>4, <1>5, <1>6, <1>7

\* The top replaced by its children: above Order nothing on the stack is
\* below Order; at Order the position is saved; below Order the children
\* join the entries above the saved position.
LEMMA ExpandingKeepsSavedInv ==
  ASSUME TypeOK, StackInv, SavedInv, stk # << >>, top.o < omax,
         UNCHANGED omax, stk' = push(rest, top.pix, top.o),
         stacktop' = IF top.o = Order THEN Len(stk) - 1 ELSE stacktop
  PROVE  SavedInv'
<1> DEFINE n == Len(stk)
<1>1. /\ n \in Nat \ {0} /\ top = stk[n] /\ top \in Entries
      /\ top.o \in Nat /\ top.o < OrderMax /\ Order \in Nat /\ OrderMax \in Nat
      /\ \A i \in 1 .. n : stk[i].o \in Int
      /\ \A i \in 1 .. n - 1 : stk[i].o <= top.o
  BY TopFacts
<1>2. /\ Len(stk') = n + 3
      /\ \A i \in 1 .. Len(stk') :
           /\ i < n => stk'[i] = stk[i]
           /\ i >= n => \E k \in 1 .. 4 : i = n - 1 + k /\ stk'[i] = Child(top, 4 - k)
  BY <1>1, ExpandedStack DEF TypeOK
<1>3. \A k \in 1 .. 4 :
        /\ Child(top, 4 - k).o = top.o + 1
        /\ top.o >= Order => /\ Child(top, 4 - k).o > Order
                            /\ First(Child(top, 4 - k)) = First(top)
  BY <1>1, ChildFacts
<1> HIDE DEF n
<1>4. SUFFICES ASSUME NEW j \in 1 .. Len(stk'), stk'[j].o > Order
               PROVE  /\ stacktop' < j
                      /\ \A i \in stacktop' + 1 .. Len(stk') :
                           stk'[i].o > Order /\ First(stk'[i]) = First(stk'[j])
  BY DEF SavedInv, First
<1>5. CASE top.o < Order
  <2>1. CASE j < n
    BY <1>1, <1>2, <1>4, <1>5, <2>1
  <2>2. CASE j >= n
    <3>1. stk'[j].o = top.o + 1
      BY <1>2, <1>3, <2>2
    <3> QED
      BY <1>1, <1>4, <1>5, <3>1
  <2> QED
    BY <1>1, <2>1, <2>2
<1>6. CASE top.o = Order
  <2>1. stacktop' = n - 1
    BY <1>6 DEF n
  <2>2. j >= n
    <3>1. CASE j < n
      BY <1>1, <1>2, <1>4, <1>6, <3>1
    <3> QED
      BY <1>1, <3>1
  <2>3. ASSUME NEW i \in 1 .. Len(stk'), i >= n
        PROVE  stk'[i].o > Order /\ First(stk'[i]) = First(top)
    <3>1. PICK k \in 1 .. 4 : stk'[i] = Child(top, 4 - k)
      BY <1>2, <2>3
    <3>2. top.o >= Order
      BY <1>1, <1>6
    <3> QED
      BY <1>3, <3>1, <3>2
  <2>4. \A i \in stacktop' + 1 .. Len(stk') : i \in 1 .. Len(stk') /\ i >= n
    BY <1>1, <1>2, <2>1
  <2> QED
    BY <1>1, <2>1, <2>2, <2>3, <2>4
<1>7. CASE top.o > Order
  <2>1. stacktop' = stacktop /\ stacktop \in Nat
    BY <1>1, <1>7 DEF TypeOK
  <2>2. /\ stacktop < n
        /\ \A i \in stacktop + 1 .. n : stk[i].o > Order /\ First(stk[i]) = First(top)
    <3>1. n \in 1 .. Len(stk) /\ stk[n].o > Order
      BY <1>1, <1>7 DEF n
    <3> QED
      BY <1>1, <3>1 DEF SavedInv, n
  <2>3. ASSUME NEW i \in stacktop + 1 .. Len(stk')
        PROVE  stk'[i].o > Order /\ First(stk'[i]) = First(top)
    <3>0. i \in 1 .. Len(stk')
      BY <1>1, <1>2, <2>1
    <3>1. CASE i < n
      <4>1. i \in stacktop + 1 .. n /\ stk'[i] = stk[i]
        BY <1>1, <1>2, <2>1, <3>0, <3>1
      <4> QED
        BY <2>2, <4>1
    <3>2. CASE i >= n
      <4>1. PICK k \in 1 .. 4 : stk'[i] = Child(top, 4 - k)
        BY <1>2, <3>0, <3>2
      <4>2. top.o >= Order
        BY <1>1, <1>7
      <4> QED
        BY <1>3, <4>1, <4>2
    <3> QED
      BY <1>1, <2>1, <3>1, <3>2
  <2>4. stacktop < j
    <3>1. CASE j < n
      <4>1. j \in 1 .. Len(stk) /\ stk[j].o > Order
        BY <1>1, <1>2, <1>4, <3>1 DEF n
      <4> QED
        BY <4>1 DEF SavedInv
    <3>2. CASE j >= n
      BY <1>1, <2>1, <2>2, <3>2
    <3> QED
      BY <1>1, <3>1, <3>2
  <2>5. j \in stacktop + 1 .. Len(stk')
    BY <1>1, <1>2, <2>1, <2>4
  <2> QED
    BY <2>1, <2>3, <2>4, <2>5
<1> QED
  BY <1>1, <1>5, <1>6, <1>7

\* ... and what was output still lies before everything on the stack.
LEMMA ExpandingKeepsOutputInv ==
  ASSUME TypeOK, StackInv, OutputInv, stk # << >>, top.o < omax,
         UNCHANGED pixset, stk' = push(rest, top.pix, top.o)
  PROVE  OutputInv'
<1> DEFINE n == Len(stk)
<1>1. n \in Nat \ {0} /\ top = stk[n] /\ top \in Entries /\ top.o < OrderMax
  BY TopFacts
<1>2. \A i \in 1 .. Len(stk') :
        /\ i < n => stk'[i] = stk[i]
        /\ i >= n => \E k \in 1 .. 4 : i = n - 1 + k /\ stk'[i] = Child(top, 4 - k)
  BY <1>1, ExpandedStack DEF TypeOK
<1>3. \A k \in 1 .. 4 : Child(top, 4 - k) \in Entries /\ First(top) <= First(Child(top, 4 - k))
  BY <1>1, ChildFacts
<1>4. ASSUME NEW i \in 1 .. Len(stk'), pixset # << >>
      PROVE  Last(pixset) <= First(stk'[i])
  <2>0. Last(pixset) \in Int /\ First(top) \in Int
    BY <1>1, <1>4, FirstBeyond, EmptySeq, ElementOfSeq DEF TypeOK, Last
  <2>1. CASE i < n
    <3>1. i \in 1 .. Len(stk) /\ stk'[i] = stk[i]
      BY <1>1, <1>2, <2>1
    <3> QED
      BY <1>4, <3>1 DEF OutputInv
  <2>2. CASE i >= n
    <3>1. PICK k \in 1 .. 4 : stk'[i] = Child(top, 4 - k)
      BY <1>2, <2>2
    <3>2. First(top) <= First(stk'[i]) /\ First(stk'[i]) \in Int
      BY <1>3, <3>1, FirstBeyond
    <3>3. Last(pixset) <= First(top)
      <4>1. n \in 1 .. Len(stk)
        BY <1>1
      <4> QED
        BY <1>1, <1>4, <4>1 DEF OutputInv
    <3> QED
      BY <2>0, <3>2, <3>3
  <2> QED
    BY <1>1, <2>1, <2>2
<1> QED
  BY <1>4 DEF OutputInv, First, Last

\* Outputting what the top leads to, and dropping it with everything below
\* Order, keeps the output before the rest of the stack.
LEMMA OutputtingKeepsOutputInv ==
  ASSUME TypeOK, StackInv, OutputInv, stk # << >>,
         Output(First(top), Beyond(top)),
         NEW n \in 0 .. Len(stk) - 1, Len(stk') = n,
         \A i \in 1 .. n : stk'[i] = stk[i] /\ stk[i].o <= Order
  PROVE  status' = status /\ pixset' \in Seq(Nat) /\ OutputInv'
<1>1. /\ Len(stk) \in Nat \ {0} /\ top = stk[Len(stk)] /\ top \in Entries
      /\ \A i \in 1 .. Len(stk) - 1 : stk[i].o <= Order => Beyond(top) <= First(stk[i])
  BY TopFacts
<1>2. First(top) \in Nat /\ Beyond(top) \in Nat /\ First(top) < Beyond(top)
  BY <1>1, FirstBeyond
<1>3. pixset # << >> => Last(pixset) <= First(top)
  <2>1. Len(stk) \in 1 .. Len(stk)
    BY <1>1
  <2> QED
    BY <1>1, <2>1 DEF OutputInv
<1>4. /\ status' = status /\ pixset' \in Seq(Nat)
      /\ Canonical(pixset') /\ Last(pixset') = Beyond(top)
  BY <1>2, <1>3, OutputAppends DEF TypeOK, OutputInv
<1>5. ASSUME NEW i \in 1 .. Len(stk')
      PROVE  Last(pixset') <= First(stk'[i])
  <2>1. i \in 1 .. Len(stk) - 1 /\ stk'[i] = stk[i] /\ stk[i].o <= Order
    BY <1>1
  <2> QED
    BY <1>1, <1>4, <2>1
<1> QED
  BY <1>4, <1>5 DEF OutputInv, First, Last, Canonical

----------------------------------------------------------------------------
(* The invariant is inductive.                                             *)

LEMMA InitInv == Init => Inv
<1> SUFFICES ASSUME Init
             PROVE  Inv
  OBVIOUS
<1> USE ConstantsAssumption
<1>1. stk \in Seq(Entries) /\ Len(stk) = 0 /\ stk = << >>
  BY DEF Init
<1>2. pixset \in Seq(Nat) /\ Len(pixset) = 0 /\ pixset = << >>
  BY DEF Init
<1>3. TypeOK
  BY <1>1, <1>2 DEF Init, TypeOK
<1>4. StackInv /\ SavedInv
  BY <1>1 DEF StackInv, SavedInv
<1>5. OutputInv
  BY <1>1, <1>2 DEF OutputInv, Canonical
<1>6. StatusInv
  BY <1>1, <1>2 DEF Init, StatusInv
<1> QED
  BY <1>3, <1>4, <1>5, <1>6 DEF Inv

\* The base pixels, pushed in reverse order.
LEMMA BasePixelsStack ==
  ASSUME PushBasePixels
  PROVE  /\ stk' \in Seq(Entries)
         /\ Len(stk') = NBase
         /\ \A i \in 1 .. NBase : stk'[i] = [ pix |-> NBase - i, o |-> 0 ]
<1> USE ConstantsAssumption
<1>1. \A i \in 1 .. NBase : [ pix |-> NBase - i, o |-> 0 ] \in Entries
  BY DEF Entries
<1>2. stk' = [ i \in 1 .. NBase |-> [ pix |-> NBase - i, o |-> 0 ] ]
  BY DEF PushBasePixels
<1>3. stk' \in [ 1 .. NBase -> Entries ]
  BY <1>1, <1>2
<1>4. stk' \in Seq(Entries)
  BY <1>3, SeqDef
<1>5. Len(stk') \in Nat /\ 1 .. Len(stk') = 1 .. NBase
  BY <1>3, <1>4, LenProperties
<1>6. Len(stk') = NBase
  BY <1>5
<1> QED
  BY <1>2, <1>4, <1>6

LEMMA BasePixelsInv ==
  ASSUME Inv, PushBasePixels
  PROVE  Inv'
<1> USE ConstantsAssumption
<1> DEFINE P == 4^Order
<1>0. TypeOK /\ OutputInv /\ StatusInv /\ pixset = << >>
  BY DEF Inv, PushBasePixels, StatusInv
<1>1. P \in Nat
  <2>1. Order \in 0 .. OrderMax
    OBVIOUS
  <2> QED
    BY <2>1, PowerType
<1>2. /\ stk' \in Seq(Entries)
      /\ Len(stk') = NBase
      /\ \A i \in 1 .. NBase : stk'[i] = [ pix |-> NBase - i, o |-> 0 ]
  BY BasePixelsStack
<1>3. \A i \in 1 .. NBase : /\ stk'[i].o = 0
                           /\ First(stk'[i]) = (NBase - i) * P
                           /\ Beyond(stk'[i]) = (NBase - i + 1) * P
  BY <1>2 DEF First, Beyond
<1>4. omax' \in Order .. OrderMax
  <2>1. CASE inclusive
    <3>1. PICK k \in 0 .. OrderMax - Order :
               k = CHOOSE l \in 0 .. OrderMax - Order : fact = 2^l
      BY <2>1 DEF PushBasePixels, FactAllowed
    <3> QED
      BY <2>1, <3>1 DEF PushBasePixels
  <2>2. CASE ~inclusive
    BY <2>2 DEF PushBasePixels
  <2> QED
    BY <2>1, <2>2
<1>5. TypeOK'
  BY <1>0, <1>2, <1>4 DEF PushBasePixels, TypeOK, IsDisc
<1> HIDE DEF P
<1>6. StackInv'
  <2>1. \A i \in 1 .. NBase : stk'[i].o <= omax' /\ i <= NBase + 3 * stk'[i].o
    BY <1>3, <1>4
  <2>2. \A i, j \in 1 .. NBase : i < j => (NBase - j + 1) * P <= (NBase - i) * P
    BY <1>1
  <2>3. \A i, j \in 1 .. NBase : i < j =>
          /\ stk'[i].o <= stk'[j].o
          /\ Beyond(stk'[j]) <= First(stk'[i])
    BY <1>3, <2>2
  <2> QED
    BY <1>2, <2>1, <2>3 DEF StackInv, First, Beyond
<1>7. SavedInv'
  BY <1>2, <1>3 DEF SavedInv
<1>8. OutputInv'
  BY <1>0 DEF PushBasePixels, OutputInv, Canonical
<1>9. StatusInv'
  BY DEF PushBasePixels, StatusInv, FactAllowed, inclusive
<1> QED
  BY <1>5, <1>6, <1>7, <1>8, <1>9 DEF Inv

\* Starting and ending a query leaves the stack and the output alone.
LEMMA OnlyStatusChanges ==
  ASSUME TypeOK, StackInv, SavedInv, OutputInv,
         UNCHANGED << disc, fact, omax, stk, stacktop, pixset >>,
         status' \in { "called", "walking", "returned", "threw" }
  PROVE  TypeOK' /\ StackInv' /\ SavedInv' /\ OutputInv'
<1>1. TypeOK'
  BY DEF TypeOK, IsDisc
<1>2. StackInv'
  BY DEF StackInv, First, Beyond
<1>3. SavedInv'
  BY DEF SavedInv, First
<1>4. OutputInv'
  BY DEF OutputInv, First, Last, Canonical
<1> QED
  BY <1>1, <1>2, <1>3, <1>4

\* Every step keeps the invariant.
LEMMA InvStep == Inv /\ [Next]_vars => Inv'
<1> SUFFICES ASSUME Inv, [Next]_vars
             PROVE  Inv'
  OBVIOUS
<1> USE ConstantsAssumption
<1>0. TypeOK /\ StackInv /\ SavedInv /\ OutputInv /\ StatusInv
  BY DEF Inv
<1>1. CASE CoverSphere
  <2>1. stk = << >> /\ pixset = << >>
    BY <1>0, <1>1 DEF CoverSphere, StatusInv
  <2>2. Order \in 0 .. OrderMax /\ 4^Order \in Nat
    BY PowerType
  <2>3. NBase * 4^Order \in Nat /\ 0 \in Nat
    BY <2>2
  <2>4. pixset' = append(<< >>, 0, NBase * 4^Order)
    BY <1>1, <2>1 DEF CoverSphere
  <2>5. << >> \in Seq(Nat) /\ << >> \in Seq(Int) /\ Canonical(<< >>)
    BY EmptySeq DEF Canonical
  <2>6. appendAssert(<< >>, 0, NBase * 4^Order)
    BY DEF appendAssert
  <2>7. pixset' \in Seq(Nat)
    BY <2>3, <2>4, <2>5, AppendType, Nat \subseteq Int
  <2>8. Canonical(pixset')
    BY <2>3, <2>4, <2>5, <2>6, AppendCanonical, Nat \subseteq Int
  <2>9. stk' = << >> /\ Len(stk') = 0
    BY <1>1, <2>1 DEF CoverSphere
  <2>10. TypeOK'
    BY <1>0, <1>1, <2>7 DEF CoverSphere, TypeOK, IsDisc
  <2>11. StackInv' /\ SavedInv' /\ OutputInv'
    BY <2>8, <2>9 DEF StackInv, SavedInv, OutputInv, Canonical
  <2>12. StatusInv'
    BY <1>1 DEF CoverSphere, StatusInv
  <2> QED
    BY <2>10, <2>11, <2>12 DEF Inv
<1>2. CASE RejectFact
  <2>1. UNCHANGED << disc, fact, omax, stk, stacktop, pixset >> /\ status' = "threw"
    BY <1>2 DEF RejectFact
  <2>2. TypeOK' /\ StackInv' /\ SavedInv' /\ OutputInv'
    BY <1>0, <2>1, OnlyStatusChanges
  <2>3. StatusInv'
    BY <1>2, <2>1 DEF RejectFact, StatusInv, FactAllowed, inclusive
  <2> QED
    BY <2>2, <2>3 DEF Inv
<1>3. CASE PushBasePixels
  BY <1>3, BasePixelsInv
<1>4. CASE Return
  <2>1. UNCHANGED << disc, fact, omax, stk, stacktop, pixset >> /\ status' = "returned"
    BY <1>4 DEF Return
  <2>2. TypeOK' /\ StackInv' /\ SavedInv' /\ OutputInv'
    BY <1>0, <2>1, OnlyStatusChanges
  <2> QED
    BY <2>1, <2>2 DEF Inv, StatusInv
<1>5. CASE UNCHANGED vars
  <2>1. UNCHANGED << disc, fact, omax, stk, stacktop, pixset >> /\ status' = status
    BY <1>5 DEF vars
  <2>2. TypeOK' /\ StackInv' /\ SavedInv' /\ OutputInv'
    BY <1>0, <2>1, OnlyStatusChanges DEF TypeOK
  <2>3. StatusInv'
    BY <1>0, <2>1 DEF StatusInv, FactAllowed, inclusive
  <2> QED
    BY <2>2, <2>3 DEF Inv
<1>6. CASE Walk
  <2>0. /\ stk # << >> /\ status = "walking" /\ FactAllowed
        /\ UNCHANGED << disc, fact, omax >> /\ FactAllowed'
    BY <1>0, <1>6 DEF Walk, Looking, SkipOutside, OutputSubpixels, AddChildren,
                      OutputPixel, SkipPixel, EnterSublevels, AddSubchildren,
                      OutputAncestor, StatusInv, FactAllowed, inclusive
  <2>1. /\ Len(stk) \in Nat \ {0} /\ rest \in Seq(Entries)
        /\ Len(rest) = Len(stk) - 1
        /\ \A i \in 1 .. Len(rest) : rest[i] = stk[i]
    BY <1>0, <2>0, RestProperties DEF TypeOK
  <2>2. /\ top = stk[Len(stk)] /\ top \in Entries
        /\ top.pix \in Nat /\ top.o \in Nat /\ top.o <= omax
        /\ omax \in Nat /\ omax <= OrderMax
        /\ Order \in Nat /\ Order <= omax
        /\ \A i \in 1 .. Len(stk) : stk[i] \in Entries /\ stk[i].o \in Int
        /\ \A i \in 1 .. Len(stk) - 1 : stk[i].o <= top.o
    BY <1>0, <2>0, TopFacts
  <2>3. Len(stk) - 1 \in 0 .. Len(stk) /\ Len(stk) - 1 \in 0 .. Len(stk) - 1
    BY <2>1
  <2>4. ASSUME stk' = rest, stacktop' = stacktop
        PROVE  StackInv' /\ SavedInv'
    BY <1>0, <2>0, <2>1, <2>3, <2>4, DroppingKeeps DEF TypeOK
  <2>5. ASSUME SkipOutside \/ SkipPixel
        PROVE  Inv'
    <3>1. stk' = rest /\ UNCHANGED << stacktop, pixset, status >>
      BY <2>5 DEF SkipOutside, SkipPixel
    <3>2. TypeOK'
      BY <1>0, <2>0, <2>1, <3>1 DEF TypeOK, IsDisc
    <3>3. OutputInv'
      <4>1. \A i \in 1 .. Len(stk') : i \in 1 .. Len(stk) /\ stk'[i] = stk[i]
        BY <2>1, <3>1
      <4> QED
        BY <1>0, <3>1, <4>1 DEF OutputInv, First, Last, Canonical
    <3> QED
      BY <2>0, <2>4, <3>1, <3>2, <3>3 DEF Inv, StatusInv
  <2>6. ASSUME OutputSubpixels \/ OutputPixel
        PROVE  Inv'
    <3>1. stk' = rest /\ stacktop' = stacktop /\ top.o <= Order
      BY <2>2, <2>6 DEF OutputSubpixels, OutputPixel
    <3>2. Output(First(top), Beyond(top))
      <4>1. CASE OutputSubpixels
        BY <2>2, <4>1 DEF OutputSubpixels, First, Beyond
      <4>2. CASE OutputPixel
        <5>1. Order - top.o = 0 /\ Output(top.pix, top.pix + 1)
          BY <2>2, <4>2 DEF OutputPixel
        <5>2. 4^0 = 1
          BY SMT
        <5>3. First(top) = top.pix /\ Beyond(top) = top.pix + 1
          <6>1. 4^(Order - top.o) = 1
            BY <5>1, <5>2
          <6>2. top.pix * 1 = top.pix /\ (top.pix + 1) * 1 = top.pix + 1
            BY <2>2
          <6> QED
            BY <3>1, <6>1, <6>2 DEF First, Beyond
        <5> QED
          BY <5>1, <5>3
      <4> QED
        BY <2>6, <4>1, <4>2
    <3>3. \A i \in 1 .. Len(stk) - 1 : stk'[i] = stk[i] /\ stk[i].o <= Order
      <4> TAKE i \in 1 .. Len(stk) - 1
      <4>1. i \in 1 .. Len(rest) /\ i \in 1 .. Len(stk)
        BY <2>1
      <4> QED
        BY <2>1, <2>2, <3>1, <4>1
    <3>4. status' = status /\ pixset' \in Seq(Nat) /\ OutputInv'
      BY <1>0, <2>0, <2>1, <2>3, <3>1, <3>2, <3>3, OutputtingKeepsOutputInv
    <3>5. TypeOK'
      BY <1>0, <2>0, <2>1, <3>1, <3>4 DEF TypeOK, IsDisc
    <3> QED
      BY <2>0, <2>4, <3>1, <3>4, <3>5 DEF Inv, StatusInv
  <2>7. ASSUME AddChildren \/ EnterSublevels \/ AddSubchildren
        PROVE  Inv'
    <3>1. /\ stk' = push(rest, top.pix, top.o) /\ UNCHANGED << pixset, status >>
          /\ stacktop' = IF top.o = Order THEN Len(stk) - 1 ELSE stacktop
          /\ top.o < omax
      BY <2>1, <2>2, <2>7 DEF AddChildren, EnterSublevels, AddSubchildren
    <3>2. top.o < OrderMax
      BY <2>2, <3>1
    <3>3. stk' \in Seq(Entries)
      BY <1>0, <2>0, <3>1, <3>2, ExpandedStack DEF TypeOK
    <3>4. TypeOK'
      BY <1>0, <2>0, <2>3, <3>1, <3>3 DEF TypeOK, IsDisc
    <3>5. StackInv'
      BY <1>0, <2>0, <3>1, ExpandingKeepsStackInv
    <3>6. SavedInv'
      BY <1>0, <2>0, <3>1, ExpandingKeepsSavedInv
    <3>7. OutputInv'
      BY <1>0, <2>0, <3>1, ExpandingKeepsOutputInv
    <3> QED
      BY <2>0, <3>1, <3>4, <3>5, <3>6, <3>7 DEF Inv, StatusInv
  <2>8. ASSUME OutputAncestor
        PROVE  Inv'
    <3>1. /\ stk' = resize(rest, stacktop) /\ stacktop' = stacktop
          /\ top.o > Order
          /\ Output(First(top), Beyond(top))
      BY <2>2, <2>8 DEF OutputAncestor, First, Beyond
    <3>2. stacktop \in 0 .. Len(stk) - 1
      <4>1. Len(stk) \in 1 .. Len(stk) /\ stk[Len(stk)].o > Order
        BY <2>1, <2>2, <3>1
      <4>2. stacktop < Len(stk)
        BY <1>0, <4>1 DEF SavedInv
      <4> QED
        BY <1>0, <2>1, <4>2 DEF TypeOK
    <3>3. /\ stk' \in Seq(Entries) /\ Len(stk') = stacktop
          /\ \A i \in 1 .. stacktop : stk'[i] = stk[i]
      <4>1. stacktop \in 0 .. Len(rest)
        BY <2>1, <3>2
      <4>2. /\ stk' \in Seq(Entries) /\ Len(stk') = stacktop
            /\ \A i \in 1 .. stacktop : stk'[i] = rest[i]
        BY <2>1, <3>1, <4>1, ResizeProperties
      <4> QED
        BY <2>1, <4>1, <4>2
    <3>4. \A i \in 1 .. stacktop : stk[i].o <= Order
      <4> SUFFICES ASSUME NEW i \in 1 .. stacktop, ~(stk[i].o <= Order)
                   PROVE  FALSE
        OBVIOUS
      <4>1. i \in 1 .. Len(stk) /\ stk[i].o > Order
        BY <2>1, <2>2, <3>2
      <4>2. stacktop < i
        BY <1>0, <4>1 DEF SavedInv
      <4> QED
        BY <3>2, <4>2
    <3>5. status' = status /\ pixset' \in Seq(Nat) /\ OutputInv'
      BY <1>0, <2>0, <3>1, <3>2, <3>3, <3>4, OutputtingKeepsOutputInv
    <3>6. TypeOK'
      BY <1>0, <2>0, <3>1, <3>3, <3>5 DEF TypeOK, IsDisc
    <3>7. StackInv' /\ SavedInv'
      <4>1. stacktop \in 0 .. Len(stk) /\ stacktop \in Nat /\ Len(stk) \in Nat
        BY <2>1, <3>2
      <4> QED
        BY <1>0, <2>0, <3>1, <3>3, <4>1, DroppingKeeps
    <3> QED
      BY <2>0, <3>5, <3>6, <3>7 DEF Inv, StatusInv
  <2> QED
    BY <1>6, <2>5, <2>6, <2>7, <2>8 DEF Walk
<1> QED
  BY <1>1, <1>2, <1>3, <1>4, <1>5, <1>6 DEF Next, Query, Finished

----------------------------------------------------------------------------
(* The theorems.                                                           *)

\* The invariant of the walk, which contains its type invariant: positions
\* on the stack, the saved position and what was output fit together in
\* every state of query_disc_internal.
THEOREM Invariance == Spec => []Inv
<1>1. Init => Inv
  BY InitInv
<1>2. Inv /\ [Next]_vars => Inv'
  BY InvStep
<1> QED
  BY <1>1, <1>2, PTL DEF Spec

\* The stack never outgrows the 12+3*omax entries reserved for it.
THEOREM StackFits == Spec => []StackBounded
<1>1. Inv => StackBounded
  <2> SUFFICES ASSUME Inv
               PROVE  StackBounded
    OBVIOUS
  <2> USE ConstantsAssumption
  <2>0. TypeOK /\ StackInv /\ omax \in Nat /\ NBase \in Nat
    BY DEF Inv, TypeOK
  <2>1. CASE stk = << >>
    <3>1. Len(stk) = 0
      BY <2>1
    <3> QED
      BY <2>0, <3>1 DEF StackBounded
  <2>2. CASE stk # << >>
    <3>1. Len(stk) \in Nat \ {0} /\ stk[Len(stk)].o \in Int
      BY <2>0, <2>2, TopFacts
    <3>2. Len(stk) \in 1 .. Len(stk)
      BY <3>1
    <3>3. stk[Len(stk)].o <= omax /\ Len(stk) <= NBase + 3 * stk[Len(stk)].o
      BY <2>0, <3>2 DEF StackInv
    <3> QED
      BY <2>0, <3>1, <3>3 DEF StackBounded
  <2> QED
    BY <2>1, <2>2
<1> QED
  BY <1>1, Invariance, PTL

\* "bad append operation" is never hit: only a factor that is not a power of
\* two, or is too large, makes a query throw.
THEOREM OutputAscends == Spec => []OnlyBadFactThrows
<1>1. Inv => OnlyBadFactThrows
  BY DEF Inv, StatusInv, OnlyBadFactThrows
<1> QED
  BY <1>1, Invariance, PTL

\* The answer has no empty, overlapping or touching ranges.
THEOREM CanonicalAnswer == Spec => []AnswerCanonical
<1>1. Inv => AnswerCanonical
  BY DEF Inv, OutputInv, AnswerCanonical
<1> QED
  BY <1>1, Invariance, PTL


----------------------------------------------------------------------------
(* Arithmetic of the tree of pixels.                                       *)

\* Powers of 4 multiply as their exponents add.
LEMMA PowerSum ==
  ASSUME NEW j \in Nat, NEW k \in Nat, j + k <= OrderMax
  PROVE  4^(j + k) = 4^j * 4^k
<1> USE ConstantsAssumption
<1> DEFINE S == { n \in Nat : j + n <= OrderMax => 4^(j + n) = 4^j * 4^n }
<1>0. 4^j \in Nat
  <2>1. j \in 0 .. OrderMax
    OBVIOUS
  <2> QED
    BY <2>1, PowerType
<1>1. 0 \in S
  <2>1. 4^0 = 1
    BY SMT
  <2>2. j + 0 = j /\ 4^j * 1 = 4^j
    BY <1>0
  <2> QED
    BY <2>1, <2>2
<1>2. \A n \in Nat : n \in S => n + 1 \in S
  <2> SUFFICES ASSUME NEW n \in Nat, n \in S, j + (n + 1) <= OrderMax
               PROVE  4^(j + (n + 1)) = 4^j * 4^(n + 1)
    OBVIOUS
  <2>1. 4^(j + n) = 4^j * 4^n
    OBVIOUS
  <2>2. /\ j + (n + 1) \in 1 .. OrderMax /\ (j + (n + 1)) - 1 = j + n
        /\ n + 1 \in 1 .. OrderMax /\ (n + 1) - 1 = n /\ n \in 0 .. OrderMax
    OBVIOUS
  <2>3. 4^(j + (n + 1)) = 4 * 4^(j + n) /\ 4^(n + 1) = 4 * 4^n /\ 4^n \in Nat
    BY <2>2, PowerStep, PowerType
  <2>4. \A p, q \in Nat : 4 * (p * q) = p * (4 * q)
    OBVIOUS
  <2> QED
    BY <1>0, <2>1, <2>3, <2>4
<1> HIDE DEF S
<1>3. k \in S
  BY <1>1, <1>2, NatSetInduction
<1> QED
  BY <1>3 DEF S

\* q is the number p divides into with divisor K.
LEMMA DivUnique ==
  ASSUME NEW p \in Nat, NEW K \in Nat \ {0}, NEW q \in Nat,
         K * q <= p, p < K * (q + 1)
  PROVE  p \div K = q
OBVIOUS

\* Dividing twice is dividing by the product.
LEMMA DivTwice ==
  ASSUME NEW p \in Nat, NEW K \in Nat \ {0}, NEW L \in Nat \ {0}
  PROVE  (p \div K) \div L = p \div (K * L)
<1> DEFINE q == p \div K
           s == q \div L
<1>1. q \in Nat /\ K * q <= p /\ p < K * (q + 1)
  BY DivBounds
<1>2. s \in Nat /\ L * s <= q /\ q < L * (s + 1)
  BY <1>1, DivBounds
<1> HIDE DEF q, s
<1>3. (K * L) * s <= p
  <2>1. K * (L * s) <= K * q
    BY <1>1, <1>2
  <2>2. (K * L) * s = K * (L * s)
    BY <1>2
  <2> QED
    BY <1>1, <1>2, <2>1, <2>2
<1>4. p < (K * L) * (s + 1)
  <2>1. K * (q + 1) <= K * (L * (s + 1))
    BY <1>1, <1>2
  <2>2. (K * L) * (s + 1) = K * (L * (s + 1))
    BY <1>2
  <2> QED
    BY <1>1, <1>2, <2>1, <2>2
<1>5. K * L \in Nat \ {0}
  OBVIOUS
<1> QED
  BY <1>2, <1>3, <1>4, <1>5, DivUnique DEF q, s

\* The pixel of order o that pixel f of order OrderMax lies in.
At(f, o) == f \div 4^(OrderMax - o)

LEMMA InDescendants ==
  ASSUME NEW pix \in Nat, NEW o \in 0 .. OrderMax, NEW to \in o .. OrderMax, NEW x \in Int
  PROVE  x \in Descendants(pix, o, to) <=> x \in Nat /\ x \div 4^(to - o) = pix
<1> DEFINE K == 4^(to - o)
<1>1. K \in Nat \ {0}
  <2>1. to - o \in 0 .. OrderMax
    BY ConstantsAssumption
  <2> QED
    BY <2>1, PowerType
<1>2. x \in Descendants(pix, o, to) <=> pix * K <= x /\ x <= (pix + 1) * K - 1
  <2>1. pix * K \in Int /\ (pix + 1) * K - 1 \in Int
    BY <1>1
  <2> QED
    BY <2>1 DEF Descendants
<1> HIDE DEF K
<1>3. pix * K \in Nat /\ (pix + 1) * K \in Nat
  BY <1>1
<1>4. ASSUME pix * K <= x, x <= (pix + 1) * K - 1
      PROVE  x \in Nat /\ x \div K = pix
  <2>1. x \in Nat /\ K * pix <= x /\ x < K * (pix + 1)
    BY <1>1, <1>3, <1>4
  <2> QED
    BY <1>1, <2>1, DivUnique
<1>5. ASSUME x \in Nat, x \div K = pix
      PROVE  pix * K <= x /\ x <= (pix + 1) * K - 1
  <2>1. K * pix <= x /\ x < K * (pix + 1)
    BY <1>1, <1>5, DivBounds
  <2> QED
    BY <1>1, <1>3, <2>1
<1> QED
  BY <1>2, <1>4, <1>5 DEF K

\* From a finer pixel to a coarser one in one step or in two.
LEMMA AtAbove ==
  ASSUME NEW f \in Nat, NEW o \in 0 .. OrderMax, NEW m \in o .. OrderMax
  PROVE  At(f, m) \in Nat /\ At(f, o) = At(f, m) \div 4^(m - o)
<1> USE ConstantsAssumption
<1>1. /\ OrderMax - m \in 0 .. OrderMax /\ m - o \in 0 .. OrderMax
      /\ (OrderMax - m) + (m - o) = OrderMax - o
      /\ OrderMax - m \in Nat /\ m - o \in Nat /\ (OrderMax - m) + (m - o) <= OrderMax
  OBVIOUS
<1>2. 4^(OrderMax - m) \in Nat \ {0} /\ 4^(m - o) \in Nat \ {0}
  BY <1>1, PowerType
<1>3. 4^(OrderMax - o) = 4^(OrderMax - m) * 4^(m - o)
  <2>1. 4^((OrderMax - m) + (m - o)) = 4^(OrderMax - m) * 4^(m - o)
    BY <1>1, PowerSum
  <2> QED
    BY <1>1, <2>1
<1>4. At(f, m) \in Nat
  BY <1>2, DivBounds DEF At
<1> QED
  BY <1>2, <1>3, <1>4, DivTwice DEF At

\* Pixel f of order OrderMax is part of entry e.
LEMMA PartOf ==
  ASSUME NEW e \in Entries, NEW f \in Int
  PROVE  f \in Descendants(e.pix, e.o, OrderMax) <=> f \in Nat /\ At(f, e.o) = e.pix
<1>1. e.pix \in Nat /\ e.o \in 0 .. OrderMax /\ OrderMax \in e.o .. OrderMax
  BY ConstantsAssumption DEF Entries
<1> QED
  BY <1>1, InDescendants DEF At

\* A part of an entry lies in a pixel that the entry leads to.
LEMMA PartCovered ==
  ASSUME NEW e \in Entries, NEW f \in Nat, At(f, e.o) = e.pix
  PROVE  At(f, Order) \in Nat /\ Covers(e, At(f, Order))
<1> USE ConstantsAssumption
<1>0. e.pix \in Nat /\ e.o \in 0 .. OrderMax /\ Order \in 0 .. OrderMax
  BY DEF Entries
<1>1. CASE e.o <= Order
  <2>1. Order \in e.o .. OrderMax
    BY <1>0, <1>1
  <2>2. At(f, Order) \in Nat /\ At(f, Order) \div 4^(Order - e.o) = e.pix
    BY <1>0, <2>1, AtAbove
  <2>3. At(f, Order) \in Descendants(e.pix, e.o, Order)
    BY <1>0, <2>1, <2>2, InDescendants
  <2>4. First(e) \in Int /\ Beyond(e) \in Int
    BY FirstBeyond
  <2>5. At(f, Order) \in First(e) .. Beyond(e) - 1
    BY <1>1, <2>3 DEF Descendants, First, Beyond
  <2> QED
    BY <2>2, <2>4, <2>5 DEF Covers
<1>2. CASE e.o > Order
  <2>1. e.o \in Order .. OrderMax
    BY <1>0, <1>2
  <2>2. At(f, Order) = At(f, e.o) \div 4^(e.o - Order)
    BY <1>0, <2>1, AtAbove
  <2>3. At(f, Order) = Ancestor(e.pix, e.o)
    BY <2>2 DEF Ancestor
  <2>4. First(e) = At(f, Order) /\ Beyond(e) = At(f, Order) + 1 /\ First(e) \in Nat
    BY <1>0, <1>2, <2>3, FirstBeyond DEF First, Beyond
  <2> QED
    BY <2>4 DEF Covers
<1> QED
  BY <1>0, <1>1, <1>2

\* An entry at or above Order leads to its descendants of order Order.
LEMMA CoversIff ==
  ASSUME NEW e \in Entries, e.o <= Order, NEW p \in Int
  PROVE  /\ Covers(e, p) <=> p \in Descendants(e.pix, e.o, Order)
         /\ Covers(e, p) <=> p \in Nat /\ p \div 4^(Order - e.o) = e.pix
<1>1. e.pix \in Nat /\ e.o \in 0 .. OrderMax /\ Order \in e.o .. OrderMax
  BY ConstantsAssumption DEF Entries
<1>2. First(e) \in Int /\ Beyond(e) \in Int
  BY FirstBeyond
<1>3. Covers(e, p) <=> p \in First(e) .. Beyond(e) - 1
  BY <1>2 DEF Covers
<1>4. First(e) .. Beyond(e) - 1 = Descendants(e.pix, e.o, Order)
  BY DEF First, Beyond, Descendants
<1> QED
  BY <1>1, <1>3, <1>4, InDescendants

\* Splitting an entry into its children loses none of its parts, ...
LEMMA PartOfChild ==
  ASSUME NEW e \in Entries, e.o < OrderMax, NEW f \in Nat, At(f, e.o) = e.pix
  PROVE  \E c \in 0 .. 3 : At(f, e.o + 1) = 4 * e.pix + c
<1>0. e.pix \in Nat /\ e.o \in 0 .. OrderMax /\ e.o + 1 \in e.o .. OrderMax
  BY ConstantsAssumption DEF Entries
<1>1. At(f, e.o + 1) \in Nat /\ At(f, e.o) = At(f, e.o + 1) \div 4^((e.o + 1) - e.o)
  BY <1>0, AtAbove
<1>2. 4^((e.o + 1) - e.o) = 4
  <2>1. (e.o + 1) - e.o = 1 /\ 4^1 = 4
    BY <1>0, SMT
  <2> QED
    BY <2>1
<1>3. At(f, e.o + 1) \div 4 = e.pix
  BY <1>1, <1>2
<1>4. \A x, q \in Nat : x \div 4 = q => x - 4 * q \in 0 .. 3 /\ x = 4 * q + (x - 4 * q)
  OBVIOUS
<1>5. At(f, e.o + 1) - 4 * e.pix \in 0 .. 3
      /\ At(f, e.o + 1) = 4 * e.pix + (At(f, e.o + 1) - 4 * e.pix)
  BY <1>0, <1>1, <1>3, <1>4
<1> QED
  BY <1>5

\* ... and none of the pixels it leads to.
LEMMA CoveredByChild ==
  ASSUME NEW e \in Entries, e.o < Order, NEW p \in Int, Covers(e, p)
  PROVE  \E c \in 0 .. 3 : Covers(Child(e, c), p)
<1>0. /\ e.pix \in Nat /\ e.o \in 0 .. OrderMax /\ e.o <= Order
      /\ Order \in Nat /\ Order <= OrderMax
  BY ConstantsAssumption DEF Entries
<1>1. p \in Nat /\ p \div 4^(Order - e.o) = e.pix
  BY <1>0, CoversIff
<1> DEFINE K == 4^(Order - (e.o + 1))
<1>2. K \in Nat \ {0} /\ 4^(Order - e.o) = K * 4
  <2>1. /\ Order - (e.o + 1) \in 0 .. OrderMax
        /\ Order - e.o \in 1 .. OrderMax
        /\ (Order - e.o) - 1 = Order - (e.o + 1)
    BY <1>0, ConstantsAssumption
  <2> QED
    BY <2>1, PowerType, PowerStep
<1>3. (p \div K) \div 4 = e.pix /\ p \div K \in Nat
  <2> HIDE DEF K
  <2>1. (p \div K) \div 4 = p \div (K * 4) /\ p \div K \in Nat
    BY <1>1, <1>2, DivTwice, DivBounds
  <2> QED
    BY <1>1, <1>2, <2>1
<1>4. \A x, q \in Nat : x \div 4 = q => x - 4 * q \in 0 .. 3 /\ x = 4 * q + (x - 4 * q)
  OBVIOUS
<1>5. PICK c \in 0 .. 3 : p \div K = 4 * e.pix + c
  <2> HIDE DEF K
  <2>1. p \div K - 4 * e.pix \in 0 .. 3 /\ p \div K = 4 * e.pix + (p \div K - 4 * e.pix)
    BY <1>0, <1>3, <1>4
  <2> QED
    BY <2>1
<1>6. Child(e, c) \in Entries
  BY ChildAbove
<1>7. Child(e, c).o = e.o + 1 /\ Child(e, c).pix = 4 * e.pix + c /\ Child(e, c).o <= Order
  BY <1>0 DEF Child
<1>8. p \div 4^(Order - Child(e, c).o) = Child(e, c).pix
  BY <1>5, <1>7
<1> QED
  BY <1>1, <1>6, <1>7, <1>8, CoversIff

----------------------------------------------------------------------------
(* Zones and output.                                                       *)

\* What a zone given to the top of the stack says about the disc.
LEMMA ZoneFacts ==
  ASSUME TypeOK, top \in Entries
  PROVE  /\ InZone({0}) => \/ top \in disc.blind
                            \/ Descendants(top.pix, top.o, OrderMax) \cap disc.touched = {}
         /\ InZone({3}) /\ top.o < Order =>
              Descendants(top.pix, top.o, Order) \subseteq Wanted
         /\ InZone({2, 3}) /\ top.o = Order => top.pix \in disc.centres
         /\ InZone({1}) /\ top.o = Order => top.pix \notin disc.centres
<1> DEFINE Allowed(z) ==
      /\ z = 0 => ~(Descendants(top.pix, top.o, OrderMax) \cap disc.touched # {})
      /\ z = 3 => \/ (IF top.o <= Order THEN Descendants(top.pix, top.o, Order) ELSE {})
                       \subseteq disc.centres
                  \/ top \in disc.pinned
      /\ top.o = Order => (z >= 2 <=> top.pix \in disc.centres)
<1>1. \A z \in Zones(top.pix, top.o) :
        z \in 0 .. 3 /\ (Allowed(z) \/ (z = 0 /\ top \in disc.blind))
  <2>1. top = [ pix |-> top.pix, o |-> top.o ]
    BY DEF Entries
  <2> QED
    BY <2>1 DEF Zones
<1>2. \A zones : InZone(zones) => \E z \in zones : z \in Zones(top.pix, top.o)
  BY DEF InZone
<1>3. InZone({0}) => Allowed(0) \/ top \in disc.blind
  BY <1>1, <1>2
<1>4. InZone({3}) => Allowed(3)
  BY <1>1, <1>2
<1>5. InZone({1}) => Allowed(1)
  BY <1>1, <1>2
<1>6. InZone({2, 3}) => Allowed(2) \/ Allowed(3)
  BY <1>1, <1>2
<1>7. ASSUME top \in disc.pinned, top.o < Order
      PROVE  Descendants(top.pix, top.o, Order) \subseteq Wanted
  BY <1>7 DEF Wanted
<1>8. disc.centres \subseteq Wanted
  BY DEF Wanted
<1>9. top.o < Order => top.o <= Order
  BY ConstantsAssumption DEF Entries
<1> QED
  BY <1>3, <1>4, <1>5, <1>6, <1>7, <1>8, <1>9

\* Outputting what the top leads to adds exactly that to the answer.
LEMMA OutputtingElements ==
  ASSUME TypeOK, StackInv, OutputInv, stk # << >>, Output(First(top), Beyond(top))
  PROVE  /\ status' = status
         /\ \A p \in Int : p \in Elements(pixset') <=> p \in Elements(pixset) \/ Covers(top, p)
         /\ Elements(pixset') = Elements(pixset) \cup (First(top) .. Beyond(top) - 1)
<1>1. /\ Len(stk) \in Nat \ {0} /\ top = stk[Len(stk)] /\ top \in Entries
  BY TopFacts
<1>2. First(top) \in Nat /\ Beyond(top) \in Nat /\ First(top) < Beyond(top)
  BY <1>1, FirstBeyond
<1>3. pixset # << >> => Last(pixset) <= First(top)
  <2>1. Len(stk) \in 1 .. Len(stk)
    BY <1>1
  <2> QED
    BY <1>1, <2>1 DEF OutputInv
<1>4. /\ status' = status
      /\ appendAssert(pixset, First(top), Beyond(top))
      /\ pixset' = append(pixset, First(top), Beyond(top))
  BY <1>2, <1>3, OutputAppends DEF TypeOK, OutputInv
<1>5. pixset \in Seq(Int) /\ Canonical(pixset)
  BY SeqMonotonic, Nat \subseteq Int DEF TypeOK, OutputInv
<1>6. Elements(pixset') = Elements(pixset) \cup (First(top) .. Beyond(top) - 1)
  BY <1>2, <1>4, <1>5, AppendElements, CanonicalOrdered
<1> QED
  BY <1>2, <1>4, <1>6 DEF Covers

\* The answer of a wide disc.
LEMMA WholeSphere ==
  ASSUME NEW n \in Nat
  PROVE  Elements(append(<< >>, 0, n)) = 0 .. n - 1
<1>1. << >> \in Seq(Int) /\ Len(<< >>) = 0
  BY EmptySeq
<1>2. Canonical(<< >>) /\ appendAssert(<< >>, 0, n)
  BY <1>1 DEF Canonical, appendAssert
<1>3. Elements(<< >>) = {}
  BY DEF Elements
<1> DEFINE none == << >>
           zero == 0
<1>4. none \in Seq(Int) /\ zero \in Int /\ n \in Int
  BY <1>1
<1>5. Canonical(none) /\ appendAssert(none, zero, n)
  BY <1>2
<1> HIDE DEF none, zero
<1>6. Elements(append(none, zero, n)) = Elements(none) \cup (zero .. n - 1)
  BY <1>4, <1>5, AppendElements, CanonicalOrdered
<1> QED
  BY <1>3, <1>6 DEF none, zero

----------------------------------------------------------------------------
(* Unwinding.                                                              *)

Unwinding ==
  \A i \in Len(stk') + 1 .. Len(stk) - 1 :
    /\ stk[i].o > Order
    /\ Ancestor(stk[i].pix, stk[i].o) \in Elements(pixset')

\* Unwinding the stack from the top to the saved position drops only entries
\* below the pixel that was output.
LEMMA UnwindingStep ==
  ASSUME Inv, OutputAncestor
  PROVE  /\ Len(stk') = stacktop /\ stacktop \in 0 .. Len(stk) - 1
         /\ \A i \in 1 .. stacktop : stk'[i] = stk[i]
         /\ \A i \in stacktop + 1 .. Len(stk) :
              /\ stk[i].o > Order
              /\ First(stk[i]) = First(top)
              /\ First(stk[i]) = Ancestor(stk[i].pix, stk[i].o)
              /\ First(stk[i]) \in Elements(pixset')
<1> USE ConstantsAssumption
<1>0. TypeOK /\ StackInv /\ SavedInv /\ OutputInv /\ stk # << >>
  BY DEF Inv, OutputAncestor, Looking
<1>1. /\ Len(stk) \in Nat \ {0} /\ top = stk[Len(stk)] /\ top \in Entries
      /\ \A i \in 1 .. Len(stk) : stk[i] \in Entries /\ stk[i].o \in Int
  BY <1>0, TopFacts
<1>2. /\ stk' = resize(rest, stacktop)
      /\ top.o > Order /\ top.o \in Int
      /\ Output(First(top), Beyond(top))
  BY <1>1 DEF OutputAncestor, First, Beyond, Entries
<1>3. /\ stacktop < Len(stk)
      /\ \A i \in stacktop + 1 .. Len(stk) : stk[i].o > Order /\ First(stk[i]) = First(top)
  <2>1. Len(stk) \in 1 .. Len(stk)
    BY <1>1
  <2> QED
    BY <1>0, <1>1, <1>2, <2>1 DEF SavedInv
<1>4. stacktop \in 0 .. Len(stk) - 1
  BY <1>0, <1>1, <1>3 DEF TypeOK
<1>5. Len(stk') = stacktop /\ \A i \in 1 .. stacktop : stk'[i] = stk[i]
  <2>1. /\ rest \in Seq(Entries) /\ Len(rest) = Len(stk) - 1
        /\ \A i \in 1 .. Len(rest) : rest[i] = stk[i]
    BY <1>0, RestProperties DEF TypeOK
  <2>2. stacktop \in 0 .. Len(rest)
    BY <1>4, <2>1
  <2>3. Len(stk') = stacktop /\ \A i \in 1 .. stacktop : stk'[i] = rest[i]
    BY <1>2, <2>1, <2>2, ResizeProperties
  <2> QED
    BY <2>1, <2>2, <2>3
<1>6. First(top) \in Elements(pixset')
  <2>1. First(top) \in Nat /\ Beyond(top) \in Nat /\ First(top) < Beyond(top)
    BY <1>1, FirstBeyond
  <2> QED
    BY <1>0, <1>2, <2>1, OutputtingElements
<1>7. \A i \in stacktop + 1 .. Len(stk) : First(stk[i]) = Ancestor(stk[i].pix, stk[i].o)
  <2> TAKE i \in stacktop + 1 .. Len(stk)
  <2>1. i \in 1 .. Len(stk) /\ stk[i].o > Order /\ stk[i].o \in Int
    BY <1>1, <1>3, <1>4
  <2> QED
    BY <2>1 DEF First
<1> QED
  BY <1>3, <1>4, <1>5, <1>6, <1>7

\* An entry leaves the stack unseen only when the pixel of the map it is
\* part of has been output: unwinding skips duplicates and nothing else.
THEOREM Unwinds == Spec => UnwindsOwnSubtree
<1>1. ASSUME Inv, [Next]_vars
      PROVE  [Unwinding]_vars
  <2> USE ConstantsAssumption
  <2>0. TypeOK /\ StatusInv
    BY <1>1 DEF Inv
  <2>1. Len(stk) \in Nat
    BY <2>0, LenProperties DEF TypeOK
  <2>2. CASE Query \/ UNCHANGED vars
    <3>1. CASE stk = << >>
      <4>1. Len(stk') \in Nat
        <5>1. CASE PushBasePixels
          BY <1>1, <5>1, BasePixelsInv, LenProperties DEF Inv, TypeOK
        <5>2. CASE ~PushBasePixels
          BY <2>1, <2>2, <5>2 DEF Query, CoverSphere, RejectFact, Return, vars
        <5> QED
          BY <5>1, <5>2
      <4>2. Len(stk) = 0
        BY <3>1
      <4> QED
        BY <4>1, <4>2 DEF Unwinding
    <3>2. CASE stk # << >>
      <4>1. Len(stk') = Len(stk)
        BY <2>0, <2>2, <3>2 DEF Query, CoverSphere, RejectFact, PushBasePixels, Return,
                                StatusInv, vars
      <4> QED
        BY <2>1, <4>1 DEF Unwinding
    <3> QED
      BY <3>1, <3>2
  <2>3. CASE OutputAncestor
    BY <1>1, <2>1, <2>3, UnwindingStep DEF Unwinding
  <2>4. CASE Walk /\ ~OutputAncestor
    <3>1. Len(stk') >= Len(stk) - 1 /\ Len(stk') \in Int
      <4>1. stk # << >> /\ TypeOK /\ StackInv
        BY <1>1, <2>4 DEF Inv, Walk, Looking, SkipOutside, OutputSubpixels, AddChildren,
                          OutputPixel, SkipPixel, EnterSublevels, AddSubchildren
      <4>2. Len(rest) = Len(stk) - 1 /\ top \in Entries /\ top.o <= omax /\ omax <= OrderMax
            /\ omax \in Int /\ top.o \in Int
        BY <2>0, <4>1, RestProperties, TopFacts DEF TypeOK
      <4>3. CASE stk' = rest
        BY <2>1, <4>2, <4>3
      <4>4. CASE stk' = push(rest, top.pix, top.o) /\ top.o < omax
        <5>1. top.o < OrderMax
          BY <4>2, <4>4
        <5>2. Len(stk') = Len(stk) + 3
          BY <2>0, <4>1, <4>4, <5>1, ExpandedStack DEF TypeOK
        <5> QED
          BY <2>1, <5>2
      <4>5. top.o < Order => top.o < omax
        BY <2>0, <4>2 DEF TypeOK
      <4> QED
        BY <2>4, <4>3, <4>4, <4>5 DEF Walk, SkipOutside, OutputSubpixels, AddChildren,
                                OutputPixel, SkipPixel, EnterSublevels, AddSubchildren
    <3> QED
      BY <2>1, <3>1 DEF Unwinding
  <2> QED
    BY <1>1, <2>2, <2>3, <2>4 DEF Next, Finished
<1> QED
  BY <1>1, Invariance, PTL DEF Spec, UnwindsOwnSubtree, Unwinding

----------------------------------------------------------------------------
(* Nothing is lost.  Strict queries.                                       *)

\* A step that changes only the top of the stack keeps what every other
\* entry leads to.
LEMMA LowerEntriesStay ==
  ASSUME Inv, stk # << >>,
         \/ stk' = rest
         \/ stk' = push(rest, top.pix, top.o) /\ top.o < OrderMax
  PROVE  \A i \in 1 .. Len(stk) - 1 : i \in 1 .. Len(stk') /\ stk'[i] = stk[i]
<1>1. TypeOK
  BY DEF Inv
<1>2. /\ Len(stk) \in Nat \ {0} /\ Len(rest) = Len(stk) - 1
      /\ \A i \in 1 .. Len(rest) : rest[i] = stk[i]
  BY <1>1, RestProperties DEF TypeOK
<1>3. CASE stk' = rest
  BY <1>2, <1>3
<1>4. CASE stk' = push(rest, top.pix, top.o) /\ top.o < OrderMax
  <2>1. /\ Len(stk') = Len(stk) + 3
        /\ \A i \in 1 .. Len(stk') : i < Len(stk) => stk'[i] = stk[i]
    BY <1>1, <1>4, ExpandedStack DEF TypeOK
  <2> QED
    BY <1>2, <2>1
<1> QED
  BY <1>3, <1>4

\* After the children were pushed, each of them is on the stack.
LEMMA ChildrenPushed ==
  ASSUME Inv, stk # << >>, stk' = push(rest, top.pix, top.o), top.o < OrderMax,
         NEW c \in 0 .. 3
  PROVE  \E i \in 1 .. Len(stk') : stk'[i] = Child(top, c)
<1>1. TypeOK
  BY DEF Inv
<1>2. /\ Len(stk) \in Nat \ {0} /\ top \in Entries
      /\ rest \in Seq(Entries) /\ Len(rest) = Len(stk) - 1
  BY <1>1, RestProperties DEF TypeOK
<1>3. /\ Len(stk') = Len(rest) + 4
      /\ \A k \in 1 .. 4 : stk'[Len(rest) + k] = Child(top, 4 - k)
  BY <1>2, PushProperties
<1>4. 4 - c \in 1 .. 4 /\ 4 - (4 - c) = c
  OBVIOUS
<1>5. Len(rest) + (4 - c) \in 1 .. Len(stk')
  BY <1>2, <1>3, <1>4
<1> QED
  BY <1>3, <1>4, <1>5

\* A centre in the disc makes the disc touch every entry that leads to its
\* pixel.
LEMMA CentreTouches ==
  ASSUME TypeOK, NEW e \in Entries, e.o <= Order, NEW p \in disc.centres, Covers(e, p)
  PROVE  Descendants(e.pix, e.o, OrderMax) \cap disc.touched # {}
<1> USE ConstantsAssumption
<1>0. /\ e.pix \in Nat /\ e.o \in 0 .. OrderMax /\ Order \in 0 .. OrderMax
      /\ Order \in e.o .. OrderMax /\ OrderMax \in Order .. OrderMax
  BY DEF Entries
<1>1. p \in Int /\ Descendants(p, Order, OrderMax) \cap disc.touched # {}
  BY <1>0 DEF TypeOK, IsDisc, PixelsAt
<1>2. p \in Nat /\ p \div 4^(Order - e.o) = e.pix
  BY <1>1, CoversIff
<1>3. PICK f \in disc.touched : f \in Descendants(p, Order, OrderMax)
  BY <1>1
<1>4. f \in Int
  BY <1>3 DEF TypeOK, IsDisc, PixelsAt
<1>5. f \in Nat /\ At(f, Order) = p
  BY <1>0, <1>2, <1>3, <1>4, InDescendants DEF At
<1>6. At(f, e.o) = e.pix
  BY <1>0, <1>2, <1>5, AtAbove
<1> QED
  BY <1>3, <1>5, <1>6, PartOf

\* What is seen of a disc, and may be returned.
LEMMA SeenParts ==
  /\ Seen \subseteq disc.touched /\ SeenCentres \subseteq disc.centres
  /\ disc.centres \subseteq Wanted
BY DEF Seen, SeenCentres, Wanted

LEMMA SeenStays ==
  ASSUME disc' = disc
  PROVE  Seen' = Seen /\ SeenCentres' = SeenCentres /\ Wanted' = Wanted
BY DEF Seen, SeenCentres, Wanted, Descendants

LEMMA StrictStep == Inv /\ StrictInv /\ [Next]_vars => StrictInv'
<1> SUFFICES ASSUME Inv, StrictInv, [Next]_vars, Strict'
             PROVE  StrictInv'
  BY DEF StrictInv
<1> USE ConstantsAssumption
<1>0. TypeOK /\ StackInv /\ SavedInv /\ OutputInv /\ StatusInv
  BY DEF Inv
<1>1. CASE Query
  <2>1. PushBasePixels
    BY <1>1 DEF Query, CoverSphere, RejectFact, Return, Strict
  <2>2. pixset' = << >> /\ Elements(pixset') = {}
    BY <1>0, <2>1 DEF PushBasePixels, StatusInv, Elements
  <2>3. omax' = Order /\ disc' = disc
    BY <2>1 DEF PushBasePixels, Strict, inclusive
  <2>4. ASSUME NEW p \in SeenCentres
        PROVE  \E i \in 1 .. Len(stk') : Covers(stk'[i], p)
    <3> DEFINE P == 4^Order
               q == p \div P
    <3>1. P \in Nat \ {0} /\ p \in Nat /\ p < NBase * P
      <4>1. Order \in 0 .. OrderMax
        OBVIOUS
      <4>2. P \in Nat \ {0} /\ NBase * P \in Nat
        BY <4>1, PowerType
      <4>3. p \in 0 .. NBase * P - 1
        BY <1>0, SeenParts DEF TypeOK, IsDisc, PixelsAt
      <4> HIDE DEF P
      <4> QED
        BY <4>2, <4>3
    <3>2. q \in Nat /\ P * q <= p /\ p < P * (q + 1)
      BY <3>1, DivBounds
    <3>3. /\ Len(stk') = NBase
          /\ \A i \in 1 .. NBase : stk'[i] = [ pix |-> NBase - i, o |-> 0 ]
      BY <2>1, BasePixelsStack
    <3> HIDE DEF P, q
    <3>4. q < NBase
      <4>1. P * q < P * NBase
        BY <3>1, <3>2
      <4> QED
        BY <3>1, <3>2, <4>1
    <3>5. NBase - q \in 1 .. NBase /\ NBase - (NBase - q) = q
      BY <3>2, <3>4
    <3> DEFINE e == [ pix |-> q, o |-> 0 ]
    <3>6. stk'[NBase - q] = e
      BY <3>3, <3>5
    <3>7. e \in Entries /\ e.o <= Order
      BY <3>2 DEF Entries
    <3>8. p \div 4^(Order - e.o) = e.pix
      BY DEF P, q
    <3>9. Covers(e, p)
      BY <3>1, <3>7, <3>8, CoversIff
    <3> QED
      BY <3>3, <3>5, <3>6, <3>9
  <2> QED
    BY <2>2, <2>3, <2>4, SeenStays DEF StrictInv, Covers, First, Beyond
<1>2. CASE Finished \/ UNCHANGED vars
  BY <1>2, SeenStays DEF Finished, vars, StrictInv, Strict, inclusive, Covers, First, Beyond, Elements
<1>3. CASE Walk
  <2>0. /\ stk # << >> /\ Strict /\ UNCHANGED << disc, fact, omax >>
    BY <1>3 DEF Walk, Looking, SkipOutside, OutputSubpixels, AddChildren,
                OutputPixel, SkipPixel, EnterSublevels, AddSubchildren,
                OutputAncestor, Strict, inclusive
  <2>1. /\ omax = Order /\ Elements(pixset) \subseteq Wanted
        /\ \A p \in SeenCentres :
             p \in Elements(pixset) \/ \E i \in 1 .. Len(stk) : Covers(stk[i], p)
    BY <2>0 DEF StrictInv
  <2>2. /\ Len(stk) \in Nat \ {0} /\ top = stk[Len(stk)] /\ top \in Entries
        /\ top.o \in Nat /\ top.o <= Order /\ top.pix \in Nat
        /\ Order \in Nat /\ Order <= OrderMax
    BY <1>0, <2>0, <2>1, TopFacts
  <2>3. \A i \in 1 .. Len(stk) : i \in 1 .. Len(stk) - 1 \/ i = Len(stk)
    BY <2>2
  <2>4. \A p \in SeenCentres : p \in Int /\ p \in disc.centres
    BY <1>0, SeenParts DEF TypeOK, IsDisc, PixelsAt
  <2>5. ASSUME UNCHANGED pixset, stk' = rest,
               \A p \in SeenCentres : ~Covers(top, p)
        PROVE  StrictInv'
    <3>1. \A i \in 1 .. Len(stk) - 1 : i \in 1 .. Len(stk') /\ stk'[i] = stk[i]
      BY <2>0, <2>5, LowerEntriesStay
    <3>2. ASSUME NEW p \in SeenCentres
          PROVE  p \in Elements(pixset) \/ \E i \in 1 .. Len(stk') : Covers(stk'[i], p)
      BY <2>1, <2>2, <2>3, <2>5, <3>1
    <3> QED
      BY <2>0, <2>1, <2>5, <3>2, SeenStays DEF StrictInv, Covers, First, Beyond, Elements
  <2>6. CASE SkipOutside
    <3>1. \A p \in SeenCentres : ~Covers(top, p)
      <4> SUFFICES ASSUME NEW p \in SeenCentres, Covers(top, p)
                   PROVE  FALSE
        OBVIOUS
      <4>1. p \in Descendants(top.pix, top.o, Order)
        BY <2>2, <2>4, CoversIff
      <4>2. top \notin disc.blind
        BY <2>2, <4>1 DEF SeenCentres
      <4> QED
        BY <1>0, <2>2, <2>4, <2>6, <4>2, ZoneFacts, CentreTouches DEF SkipOutside
    <3> QED
      BY <2>5, <2>6, <3>1 DEF SkipOutside
  <2>7. CASE SkipPixel
    <3>1. top.o = Order /\ top.pix \notin disc.centres
      BY <1>0, <2>2, <2>7, ZoneFacts DEF SkipPixel
    <3>2. ASSUME NEW p \in SeenCentres, Covers(top, p)
          PROVE  FALSE
      <4>1. p \div 4^(Order - top.o) = top.pix /\ p \in Nat
        BY <2>2, <2>4, <3>2, CoversIff
      <4>2. Order - top.o = 0 /\ 4^0 = 1
        BY <2>2, <3>1, SMT
      <4>3. \A x \in Nat : x \div 1 = x
        OBVIOUS
      <4>4. 4^(Order - top.o) = 1
        BY <4>2
      <4>5. p \div 4^(Order - top.o) = p
        BY <4>1, <4>3, <4>4
      <4> QED
        BY <2>4, <3>1, <3>2, <4>1, <4>5
    <3> QED
      BY <2>5, <2>7, <3>2 DEF SkipPixel
  <2>8. CASE OutputSubpixels \/ OutputPixel
    <3>1. stk' = rest
      BY <2>8 DEF OutputSubpixels, OutputPixel
    <3>2. Output(First(top), Beyond(top))
      <4>1. CASE OutputSubpixels
        BY <2>2, <4>1 DEF OutputSubpixels, First, Beyond
      <4>2. CASE OutputPixel
        <5>1. Order - top.o = 0 /\ Output(top.pix, top.pix + 1) /\ 4^0 = 1
          BY <2>2, <4>2, SMT DEF OutputPixel
        <5>2. 4^(Order - top.o) = 1
          BY <5>1
        <5>3. top.pix * 1 = top.pix /\ (top.pix + 1) * 1 = top.pix + 1
          BY <2>2
        <5> QED
          BY <2>2, <5>1, <5>2, <5>3 DEF First, Beyond
      <4> QED
        BY <2>8, <4>1, <4>2
    <3>3. \A p \in Int : p \in Elements(pixset') <=> p \in Elements(pixset) \/ Covers(top, p)
      BY <1>0, <2>0, <3>2, OutputtingElements
    <3>4. Elements(pixset') = Elements(pixset) \cup (First(top) .. Beyond(top) - 1)
      BY <1>0, <2>0, <3>2, OutputtingElements
    <3>5. First(top) .. Beyond(top) - 1 \subseteq Wanted
      <4>1. CASE OutputSubpixels
        <5>1. Descendants(top.pix, top.o, Order) \subseteq Wanted
          BY <1>0, <2>2, <4>1, ZoneFacts DEF OutputSubpixels
        <5> QED
          BY <2>2, <5>1 DEF Descendants, First, Beyond
      <4>2. CASE OutputPixel
        <5>1. top.o = Order /\ top.pix \in disc.centres
          BY <1>0, <2>0, <2>2, <4>2, ZoneFacts DEF OutputPixel, Strict
        <5>2. Order - top.o = 0 /\ 4^0 = 1
          BY <2>2, <5>1, SMT
        <5>3. 4^(Order - top.o) = 1
          BY <5>2
        <5>4. First(top) = top.pix /\ Beyond(top) = top.pix + 1
          BY <2>2, <5>3 DEF First, Beyond
        <5>5. \A x \in Nat : x .. (x + 1) - 1 = {x}
          OBVIOUS
        <5> QED
          BY <2>2, <5>1, <5>4, <5>5, SeenParts
      <4> QED
        BY <2>8, <4>1, <4>2
    <3>6. \A i \in 1 .. Len(stk) - 1 : i \in 1 .. Len(stk') /\ stk'[i] = stk[i]
      BY <2>0, <3>1, LowerEntriesStay
    <3>7. ASSUME NEW p \in SeenCentres
          PROVE  p \in Elements(pixset') \/ \E i \in 1 .. Len(stk') : Covers(stk'[i], p)
      BY <2>1, <2>2, <2>3, <2>4, <3>3, <3>6
    <3> QED
      BY <2>0, <2>1, <3>4, <3>5, <3>7, SeenStays DEF StrictInv, Covers, First, Beyond, Elements
  <2>9. CASE AddChildren
    <3>1. stk' = push(rest, top.pix, top.o) /\ UNCHANGED pixset /\ top.o < Order
          /\ top.o < OrderMax
      BY <2>2, <2>9 DEF AddChildren
    <3>2. \A i \in 1 .. Len(stk) - 1 : i \in 1 .. Len(stk') /\ stk'[i] = stk[i]
      BY <2>0, <3>1, LowerEntriesStay
    <3>3. ASSUME NEW p \in SeenCentres, Covers(top, p)
          PROVE  \E i \in 1 .. Len(stk') : Covers(stk'[i], p)
      <4>1. PICK c \in 0 .. 3 : Covers(Child(top, c), p)
        BY <2>2, <2>4, <3>1, <3>3, CoveredByChild
      <4>2. PICK i \in 1 .. Len(stk') : stk'[i] = Child(top, c)
        BY <2>0, <3>1, ChildrenPushed
      <4> QED
        BY <4>1, <4>2
    <3>4. ASSUME NEW p \in SeenCentres
          PROVE  p \in Elements(pixset) \/ \E i \in 1 .. Len(stk') : Covers(stk'[i], p)
      BY <2>1, <2>2, <2>3, <3>2, <3>3
    <3> QED
      BY <2>0, <2>1, <3>1, <3>4, SeenStays DEF StrictInv, Covers, First, Beyond, Elements
  <2>10. ~EnterSublevels /\ ~AddSubchildren /\ ~OutputAncestor
    BY <2>0, <2>1, <2>2 DEF EnterSublevels, AddSubchildren, OutputAncestor, Strict
  <2> QED
    BY <1>3, <2>6, <2>7, <2>8, <2>9, <2>10 DEF Walk
<1> QED
  BY <1>1, <1>2, <1>3 DEF Next

\* A strict query returns pixels of the map whose centres are in the disc, or that
\* are in pinned pixels, and all of the former but those in blind pixels.
THEOREM StrictQueryExact == Spec => []StrictExact
<1> DEFINE IInv == Inv /\ StrictInv /\ StrictExact
<1>1. Init => IInv
  <2> SUFFICES ASSUME Init
               PROVE  IInv
    OBVIOUS
  <2>1. Inv
    BY InitInv
  <2>2. status = "called"
    BY DEF Init
  <2> QED
    BY <2>1, <2>2 DEF StrictInv, Strict, StrictExact
<1>2. IInv /\ [Next]_vars => IInv'
  <2> SUFFICES ASSUME Inv, StrictInv, StrictExact, [Next]_vars
               PROVE  StrictExact'
    BY InvStep, StrictStep
  <2> SUFFICES ASSUME status' = "returned", ~inclusive'
               PROVE  /\ SeenCentres' \subseteq Elements(pixset')
                      /\ Elements(pixset') \subseteq Wanted'
    BY DEF StrictExact, inclusive, Elements
  <2>1. CASE CoverSphere
    <3>1. /\ pixset' = append(<< >>, 0, NBase * 4^Order) /\ disc' = disc
          /\ disc.wide /\ TypeOK
      BY <2>1 DEF CoverSphere, Inv, StatusInv
    <3>2. NBase * 4^Order \in Nat
      <4>1. Order \in 0 .. OrderMax /\ NBase \in Nat
        BY ConstantsAssumption
      <4>2. 4^Order \in Nat
        BY <4>1, PowerType
      <4> QED
        BY <4>1, <4>2
    <3>3. disc.centres = PixelsAt(Order)
      BY <3>1 DEF TypeOK, IsDisc
    <3>4. Elements(pixset') = disc.centres
      BY <3>1, <3>2, <3>3, WholeSphere DEF PixelsAt
    <3> QED
      BY <3>1, <3>4, SeenParts, SeenStays
  <2>2. CASE Return
    <3>1. Strict /\ stk = << >> /\ pixset' = pixset /\ disc' = disc
      BY <2>2 DEF Return, Strict, inclusive
    <3>2. ~ \E i \in 1 .. Len(stk) : TRUE
      BY <3>1
    <3>3. Elements(pixset) \subseteq Wanted /\ SeenCentres \subseteq Elements(pixset)
      BY <3>1, <3>2 DEF StrictInv
    <3> QED
      BY <3>1, <3>3, SeenStays
  <2>3. CASE RejectFact \/ PushBasePixels
    BY <2>3 DEF RejectFact, PushBasePixels
  <2>4. CASE Walk
    <3>1. status = "walking" /\ stk # << >>
      BY <2>4 DEF Walk, Looking, SkipOutside, OutputSubpixels, AddChildren, OutputPixel,
                  SkipPixel, EnterSublevels, AddSubchildren, OutputAncestor
    <3>2. status' # "returned"
      BY <2>4, <3>1 DEF Walk, Output, SkipOutside, OutputSubpixels, AddChildren, OutputPixel,
                  SkipPixel, EnterSublevels, AddSubchildren, OutputAncestor
    <3> QED
      BY <3>2
  <2>5. CASE Finished \/ UNCHANGED vars
    BY <2>5, SeenStays DEF Finished, vars, StrictExact, inclusive
  <2> QED
    BY <2>1, <2>2, <2>3, <2>4, <2>5 DEF Next, Query
<1>3. IInv => StrictExact
  OBVIOUS
<1> QED
  BY <1>1, <1>2, <1>3, PTL DEF Spec

----------------------------------------------------------------------------
(* Nothing is lost.  Inclusive queries.                                    *)

LEMMA InclusiveStep == Inv /\ InclusiveInv /\ [Next]_vars => InclusiveInv'
<1> SUFFICES ASSUME Inv, InclusiveInv, [Next]_vars, Inclusive'
             PROVE  InclusiveInv'
  BY DEF InclusiveInv
<1> USE ConstantsAssumption
<1>0. TypeOK /\ StackInv /\ SavedInv /\ OutputInv /\ StatusInv
  BY DEF Inv
<1>1. CASE Query
  <2>1. PushBasePixels /\ disc' = disc
    BY <1>1 DEF Query, CoverSphere, RejectFact, Return, Inclusive, PushBasePixels
  <2>2. ASSUME NEW f \in Seen
        PROVE  \E i \in 1 .. Len(stk') :
                 f \in Descendants(stk'[i].pix, stk'[i].o, OrderMax)
    <3> DEFINE P == 4^OrderMax
               q == f \div P
    <3>1. P \in Nat \ {0} /\ f \in Nat /\ f < NBase * P
      <4>1. OrderMax \in 0 .. OrderMax
        OBVIOUS
      <4>2. P \in Nat \ {0} /\ NBase * P \in Nat
        BY <4>1, PowerType
      <4>3. f \in 0 .. NBase * P - 1
        BY <1>0, SeenParts DEF TypeOK, IsDisc, PixelsAt
      <4> HIDE DEF P
      <4> QED
        BY <4>2, <4>3
    <3>2. q \in Nat /\ P * q <= f /\ f < P * (q + 1)
      BY <3>1, DivBounds
    <3>3. /\ Len(stk') = NBase
          /\ \A i \in 1 .. NBase : stk'[i] = [ pix |-> NBase - i, o |-> 0 ]
      BY <2>1, BasePixelsStack
    <3> HIDE DEF P, q
    <3>4. q < NBase
      <4>1. P * q < P * NBase
        BY <3>1, <3>2
      <4> QED
        BY <3>1, <3>2, <4>1
    <3>5. NBase - q \in 1 .. NBase /\ NBase - (NBase - q) = q
      BY <3>2, <3>4
    <3> DEFINE e == [ pix |-> q, o |-> 0 ]
    <3>6. stk'[NBase - q] = e
      BY <3>3, <3>5
    <3>7. e \in Entries
      BY <3>2 DEF Entries
    <3>8. At(f, e.o) = e.pix
      BY DEF P, q, At
    <3>9. f \in Descendants(e.pix, e.o, OrderMax)
      BY <3>1, <3>7, <3>8, PartOf
    <3> QED
      BY <3>3, <3>5, <3>6, <3>9
  <2> QED
    BY <2>1, <2>2, SeenStays DEF InclusiveInv, Descendants
<1>2. CASE Finished \/ UNCHANGED vars
  BY <1>2, SeenStays DEF Finished, vars, InclusiveInv, Inclusive, inclusive, Descendants, Elements
<1>3. CASE Walk
  <2>0. /\ stk # << >> /\ Inclusive /\ UNCHANGED << disc, fact, omax >>
    BY <1>3 DEF Walk, Looking, SkipOutside, OutputSubpixels, AddChildren,
                OutputPixel, SkipPixel, EnterSublevels, AddSubchildren,
                OutputAncestor, Inclusive, inclusive
  <2>1. \A f \in Seen :
          \/ At(f, Order) \in Elements(pixset)
          \/ \E i \in 1 .. Len(stk) : f \in Descendants(stk[i].pix, stk[i].o, OrderMax)
    BY <2>0 DEF InclusiveInv, At
  <2>2. /\ Len(stk) \in Nat \ {0} /\ top = stk[Len(stk)] /\ top \in Entries
        /\ top.o \in Nat /\ top.o <= OrderMax /\ top.pix \in Nat
        /\ Order \in Nat /\ Order <= omax /\ omax <= OrderMax /\ omax \in Nat
        /\ \A i \in 1 .. Len(stk) : stk[i] \in Entries
    BY <1>0, <2>0, TopFacts
  <2>3. \A i \in 1 .. Len(stk) : i \in 1 .. Len(stk) - 1 \/ i = Len(stk)
    BY <2>2
  <2>4. \A f \in Seen : f \in Nat /\ f \in disc.touched
    BY <1>0, SeenParts DEF TypeOK, IsDisc, PixelsAt
  <2>5. SUFFICES ASSUME NEW f \in Seen
                 PROVE  \/ At(f, Order) \in Elements(pixset')
                        \/ \E i \in 1 .. Len(stk') :
                             f \in Descendants(stk'[i].pix, stk'[i].o, OrderMax)
    BY <2>0, SeenStays DEF InclusiveInv, At, Descendants, Elements
  <2>6. CASE SkipOutside
    <3>1. stk' = rest /\ UNCHANGED pixset
      BY <2>6 DEF SkipOutside
    <3>2. f \notin Descendants(top.pix, top.o, OrderMax)
      <4>1. top \in disc.blind => f \notin Descendants(top.pix, top.o, OrderMax)
        BY DEF Seen
      <4> QED
        BY <1>0, <2>2, <2>4, <2>6, <4>1, ZoneFacts DEF SkipOutside
    <3>3. \A i \in 1 .. Len(stk) - 1 : i \in 1 .. Len(stk') /\ stk'[i] = stk[i]
      BY <2>0, <3>1, LowerEntriesStay
    <3> QED
      BY <2>1, <2>2, <2>3, <3>1, <3>2, <3>3
  <2>7. ~SkipPixel
    BY <2>0 DEF SkipPixel, Inclusive
  <2>8. CASE OutputSubpixels \/ OutputPixel \/ OutputAncestor
    <3>1. Output(First(top), Beyond(top))
      <4>1. CASE OutputSubpixels
        BY <2>2, <4>1 DEF OutputSubpixels, First, Beyond
      <4>2. CASE OutputPixel
        <5>1. Order - top.o = 0 /\ Output(top.pix, top.pix + 1) /\ 4^0 = 1
          BY <2>2, <4>2, SMT DEF OutputPixel
        <5>2. 4^(Order - top.o) = 1
          BY <5>1
        <5>3. top.pix * 1 = top.pix /\ (top.pix + 1) * 1 = top.pix + 1
          BY <2>2
        <5>4. top.o <= Order
          BY <2>2, <4>2 DEF OutputPixel
        <5> QED
          BY <5>1, <5>2, <5>3, <5>4 DEF First, Beyond
      <4>3. CASE OutputAncestor
        BY <2>2, <4>3 DEF OutputAncestor, First, Beyond
      <4> QED
        BY <2>8, <4>1, <4>2, <4>3
    <3>2. \A p \in Int : p \in Elements(pixset') <=> p \in Elements(pixset) \/ Covers(top, p)
      BY <1>0, <2>0, <3>1, OutputtingElements
    <3>3. f \in Nat /\ At(f, Order) \in Int
      <4>1. Order \in Order .. OrderMax /\ Order \in 0 .. OrderMax
        BY <2>2
      <4>2. f \in Nat
        BY <2>4
      <4>3. At(f, Order) \in Nat
        BY <4>1, <4>2, AtAbove
      <4> QED
        BY <4>2, <4>3
    <3>4. ASSUME f \in Descendants(top.pix, top.o, OrderMax)
          PROVE  At(f, Order) \in Elements(pixset')
      <4>1. Covers(top, At(f, Order))
        BY <2>2, <3>3, <3>4, PartOf, PartCovered
      <4> QED
        BY <3>2, <3>3, <4>1
    <3>5. ASSUME NEW i \in 1 .. Len(stk) - 1,
                 f \in Descendants(stk[i].pix, stk[i].o, OrderMax)
          PROVE  \/ At(f, Order) \in Elements(pixset')
                 \/ i \in 1 .. Len(stk') /\ stk'[i] = stk[i]
      <4>1. CASE OutputSubpixels \/ OutputPixel
        <5>1. stk' = rest
          BY <4>1 DEF OutputSubpixels, OutputPixel
        <5> QED
          BY <2>0, <5>1, LowerEntriesStay
      <4>2. CASE OutputAncestor
        <5>1. /\ Len(stk') = stacktop /\ stacktop \in 0 .. Len(stk) - 1
              /\ \A k \in 1 .. stacktop : stk'[k] = stk[k]
              /\ \A k \in stacktop + 1 .. Len(stk) :
                   stk[k].o > Order /\ First(stk[k]) \in Elements(pixset')
          BY <4>2, UnwindingStep
        <5>2. CASE i <= stacktop
          BY <2>2, <5>1, <5>2
        <5>3. CASE i > stacktop
          <6>1. i \in stacktop + 1 .. Len(stk) /\ i \in 1 .. Len(stk)
            BY <2>2, <5>1, <5>3
          <6>2. Covers(stk[i], At(f, Order)) /\ stk[i] \in Entries
            BY <2>2, <3>3, <3>5, <6>1, PartOf, PartCovered
          <6>3. stk[i].o > Order /\ stk[i].o \in Int /\ First(stk[i]) \in Nat
            BY <5>1, <6>1, <6>2, FirstBeyond DEF Entries
          <6>4. Beyond(stk[i]) = First(stk[i]) + 1
            BY <2>2, <6>3 DEF First, Beyond
          <6>5. At(f, Order) = First(stk[i])
            BY <3>3, <6>2, <6>3, <6>4 DEF Covers
          <6> QED
            BY <5>1, <6>1, <6>5
        <5> QED
          BY <5>1, <5>2, <5>3
      <4> QED
        BY <2>8, <4>1, <4>2
    <3> QED
      BY <2>1, <2>2, <2>3, <3>2, <3>3, <3>4, <3>5
  <2>9. CASE AddChildren \/ EnterSublevels \/ AddSubchildren
    <3>1. stk' = push(rest, top.pix, top.o) /\ UNCHANGED pixset /\ top.o < OrderMax
      BY <2>2, <2>9 DEF AddChildren, EnterSublevels, AddSubchildren
    <3>2. \A i \in 1 .. Len(stk) - 1 : i \in 1 .. Len(stk') /\ stk'[i] = stk[i]
      BY <2>0, <3>1, LowerEntriesStay
    <3>3. ASSUME f \in Descendants(top.pix, top.o, OrderMax)
          PROVE  \E i \in 1 .. Len(stk') :
                   f \in Descendants(stk'[i].pix, stk'[i].o, OrderMax)
      <4>1. f \in Nat /\ At(f, top.o) = top.pix
        BY <2>2, <2>4, <3>3, PartOf
      <4>2. PICK c \in 0 .. 3 : At(f, top.o + 1) = 4 * top.pix + c
        BY <2>2, <3>1, <4>1, PartOfChild
      <4>3. Child(top, c) \in Entries
        BY <2>2, <3>1, ChildFacts
      <4>4. At(f, Child(top, c).o) = Child(top, c).pix
        BY <4>2 DEF Child
      <4>5. f \in Descendants(Child(top, c).pix, Child(top, c).o, OrderMax)
        BY <4>1, <4>3, <4>4, PartOf
      <4>6. PICK i \in 1 .. Len(stk') : stk'[i] = Child(top, c)
        BY <2>0, <3>1, ChildrenPushed
      <4> QED
        BY <4>5, <4>6
    <3> QED
      BY <2>1, <2>2, <2>3, <3>1, <3>2, <3>3
  <2> QED
    BY <1>3, <2>6, <2>7, <2>8, <2>9 DEF Walk
<1> QED
  BY <1>1, <1>2, <1>3 DEF Next

\* An inclusive query returns every pixel of the map that overlaps the disc
\* outside blind pixels.
THEOREM InclusiveQueryComplete == Spec => []InclusiveComplete
<1> DEFINE IInv == Inv /\ InclusiveInv /\ InclusiveComplete
<1>1. Init => IInv
  <2> SUFFICES ASSUME Init
               PROVE  IInv
    OBVIOUS
  <2>1. Inv
    BY InitInv
  <2>2. status = "called"
    BY DEF Init
  <2> QED
    BY <2>1, <2>2 DEF InclusiveInv, Inclusive, InclusiveComplete
<1>2. IInv /\ [Next]_vars => IInv'
  <2> SUFFICES ASSUME Inv, InclusiveInv, InclusiveComplete, [Next]_vars
               PROVE  InclusiveComplete'
    BY InvStep, InclusiveStep
  <2> SUFFICES ASSUME status' = "returned", inclusive'
               PROVE  Touched' \subseteq Elements(pixset')
    BY DEF InclusiveComplete, inclusive, Elements
  <2>0. TypeOK /\ Order \in 0 .. OrderMax /\ OrderMax \in Order .. OrderMax /\ NBase \in Nat
    BY ConstantsAssumption DEF Inv
  <2>1. CASE CoverSphere
    <3>1. pixset' = append(<< >>, 0, NBase * 4^Order)
      BY <2>1 DEF CoverSphere, Inv, StatusInv
    <3>2. NBase * 4^Order \in Nat
      <4>1. 4^Order \in Nat
        BY <2>0, PowerType
      <4> QED
        BY <2>0, <4>1
    <3>3. Elements(pixset') = PixelsAt(Order)
      BY <3>1, <3>2, WholeSphere DEF PixelsAt
    <3> QED
      BY <3>3 DEF Touched
  <2>2. CASE Return
    <3>1. Inclusive /\ stk = << >> /\ pixset' = pixset /\ disc' = disc
      BY <2>2 DEF Return, Inclusive, inclusive
    <3>2. \A f \in Seen : f \in Nat /\ At(f, Order) \in Elements(pixset)
      <4>1. 1 .. Len(stk) = {}
        BY <3>1
      <4> QED
        BY <2>0, <3>1, <4>1, SeenParts DEF InclusiveInv, At, TypeOK, IsDisc, PixelsAt
    <3>3. ASSUME NEW p \in PixelsAt(Order), Descendants(p, Order, OrderMax) \cap Seen # {}
          PROVE  p \in Elements(pixset)
      <4>1. PICK f \in Seen : f \in Descendants(p, Order, OrderMax)
        BY <3>3
      <4>2. p \in Nat
        <5>1. 4^Order \in Nat
          BY <2>0, PowerType
        <5> QED
          BY <2>0, <5>1 DEF PixelsAt
      <4>3. f \in Nat /\ At(f, Order) \in Elements(pixset)
        BY <3>2
      <4>4. At(f, Order) = p
        BY <2>0, <4>1, <4>2, <4>3, InDescendants DEF At
      <4> QED
        BY <4>3, <4>4
    <3> QED
      BY <3>1, <3>3, SeenStays DEF Touched
  <2>3. CASE RejectFact \/ PushBasePixels
    BY <2>3 DEF RejectFact, PushBasePixels
  <2>4. CASE Walk
    <3>1. status = "walking" /\ stk # << >>
      BY <2>4 DEF Walk, Looking, SkipOutside, OutputSubpixels, AddChildren, OutputPixel,
                  SkipPixel, EnterSublevels, AddSubchildren, OutputAncestor
    <3>2. status' # "returned"
      BY <2>4, <3>1 DEF Walk, Output, SkipOutside, OutputSubpixels, AddChildren, OutputPixel,
                  SkipPixel, EnterSublevels, AddSubchildren, OutputAncestor
    <3> QED
      BY <3>2
  <2>5. CASE Finished \/ UNCHANGED vars
    BY <2>5, SeenStays DEF Finished, vars, InclusiveComplete, inclusive, Touched
  <2> QED
    BY <2>1, <2>2, <2>3, <2>4, <2>5 DEF Next, Query
<1>3. IInv => InclusiveComplete
  OBVIOUS
<1> QED
  BY <1>1, <1>2, <1>3, PTL DEF Spec

\* At every moment of a query, whatever must be returned has been output or
\* can still be reached from the stack.
THEOREM NothingLost == Spec => []CoverInv
<1>1. Init => Inv /\ CoverInv
  <2>1. Init => CoverInv
    BY DEF Init, CoverInv, StrictInv, Strict, InclusiveInv, Inclusive
  <2> QED
    BY <2>1, InitInv
<1>2. (Inv /\ CoverInv) /\ [Next]_vars => (Inv /\ CoverInv)'
  BY InvStep, StrictStep, InclusiveStep DEF CoverInv
<1> QED
  BY <1>1, <1>2, PTL DEF Spec

----------------------------------------------------------------------------
(* Queries of several discs.                                               *)

\* The centre of a pixel is in the pixel, and in one of the sphere only when
\* the pixel is.
LEMMA MidInside ==
  ASSUME NEW pix \in Nat, NEW o \in 0 .. OrderMax
  PROVE  Mid(pix, o) \in Descendants(pix, o, OrderMax)
<1> DEFINE K == 4^(OrderMax - o)
           x == pix * K
<1>1. K \in Nat /\ K > 0
  <2>1. OrderMax - o \in 0 .. OrderMax
    BY ConstantsAssumption
  <2> QED
    BY <2>1, PowerType
<1>2. Mid(pix, o) = x + K \div 2 /\ Descendants(pix, o, OrderMax) = x .. (pix + 1) * K - 1
  BY DEF Mid, Descendants
<1> HIDE DEF K
<1>3. x \in Nat /\ (pix + 1) * K = x + K
  BY <1>1
<1> HIDE DEF x
<1> QED
  BY <1>1, <1>2, <1>3

LEMMA MidOnSphere ==
  ASSUME NEW p \in Nat, Mid(p, Order) \in PixelsAt(OrderMax)
  PROVE  p \in PixelsAt(Order)
<1> DEFINE K == 4^(OrderMax - Order)
           N == NBase * 4^Order
<1>1. K \in Nat /\ K > 0 /\ 4^Order \in Nat /\ NBase \in Nat
  <2>1. OrderMax - Order \in 0 .. OrderMax /\ Order \in 0 .. OrderMax
    BY ConstantsAssumption
  <2> QED
    BY <2>1, PowerType, ConstantsAssumption
<1>2. 4^OrderMax = 4^Order * K
  <2>1. Order \in Nat /\ OrderMax - Order \in Nat /\ Order + (OrderMax - Order) = OrderMax
    BY ConstantsAssumption
  <2>2. 4^(Order + (OrderMax - Order)) = 4^Order * 4^(OrderMax - Order)
    BY <2>1, PowerSum
  <2> QED
    BY <2>1, <2>2
<1>3. Mid(p, Order) = p * K + K \div 2
  BY DEF Mid
<1>4. PixelsAt(OrderMax) = 0 .. NBase * (4^Order * K) - 1 /\ PixelsAt(Order) = 0 .. N - 1
  BY <1>2 DEF PixelsAt
<1> HIDE DEF K
<1>5. N \in Nat /\ NBase * (4^Order * K) = N * K
  BY <1>1
<1> HIDE DEF N
<1>6. p * K \in Nat /\ N * K \in Nat /\ p * K < N * K
  <2>1. p * K \in Nat /\ N * K \in Nat /\ K \div 2 \in Nat
    BY <1>1, <1>5
  <2>2. p * K + K \div 2 \in 0 .. N * K - 1
    BY <1>3, <1>4, <1>5
  <2> QED
    BY <2>1, <2>2
<1>7. p < N
  <2> SUFFICES ASSUME p >= N
               PROVE  FALSE
    BY <1>5
  <2>1. PICK d \in Nat : p = N + d
    <3>1. p - N \in Nat /\ p = N + (p - N)
      BY <1>5
    <3> QED
      BY <3>1
  <2>2. p * K = N * K + d * K /\ d * K \in Nat
    BY <1>1, <1>5, <2>1
  <2> QED
    BY <1>6, <2>2
<1> QED
  BY <1>4, <1>5, <1>7

Records == [ touched : SUBSET PixelsAt(OrderMax), core : SUBSET PixelsAt(OrderMax),
             central : SUBSET [ pix : Nat, o : 0 .. OrderMax ] ]

\* A disc or a region, as the zones see it.
IsRegion(r) == r.touched \subseteq PixelsAt(OrderMax) /\ r.core \subseteq r.touched

\* What is known of the zone in two regions is known of the larger one in both
\* together, and of the smaller one in what they share.
LEMMA ZonesCombine ==
  ASSUME NEW pix, NEW o, NEW r, NEW s, IsRegion(r), IsRegion(s),
         NEW x \in PartZones(r, pix, o), NEW y \in PartZones(s, pix, o)
  PROVE  /\ MaxZone(x, y) \in PartZones(Both(r, s), pix, o)
         /\ MinZone(x, y) \in PartZones(Shared(r, s), pix, o)
         /\ IsRegion(Both(r, s)) /\ IsRegion(Shared(r, s))
<1> DEFINE pixels  == Descendants(pix, o, OrderMax)
           centres == IF o <= Order THEN Descendants(pix, o, Order) ELSE {}
           mid     == Mid(pix, o)
           Fits(z, t) == /\ z \in 0 .. 3
                         /\ z = 0 => pixels \cap t.touched = {}
                         /\ z >= 2 <=> mid \in t.core
                         /\ z = 3 => \/ /\ pixels \subseteq t.touched
                                        /\ \A p \in centres : Mid(p, Order) \in t.core
                                     \/ [ pix |-> pix, o |-> o ] \in t.central
<1>1. \A t, z : z \in PartZones(t, pix, o) <=> Fits(z, t)
  BY DEF PartZones
<1>2. Fits(x, r) /\ Fits(y, s)
  BY <1>1
<1>3. /\ Both(r, s).touched = r.touched \cup s.touched /\ Both(r, s).core = r.core \cup s.core
      /\ Shared(r, s).touched = r.touched \cap s.touched /\ Shared(r, s).core = r.core \cap s.core
      /\ Both(r, s).central = r.central \cup s.central
      /\ Shared(r, s).central = r.central \cup s.central
  BY DEF Both, Shared
<1> HIDE DEF pixels, centres, mid
<1>4. Fits(MaxZone(x, y), Both(r, s))
  <2>1. CASE x > y
    BY <1>2, <1>3, <2>1 DEF MaxZone
  <2>2. CASE ~ x > y
    BY <1>2, <1>3, <2>2 DEF MaxZone
  <2> QED
    BY <2>1, <2>2
<1>5. Fits(MinZone(x, y), Shared(r, s))
  <2>1. CASE x < y
    BY <1>2, <1>3, <2>1 DEF MinZone
  <2>2. CASE ~ x < y
    BY <1>2, <1>3, <2>2 DEF MinZone
  <2> QED
    BY <2>1, <2>2
<1>6. IsRegion(Both(r, s)) /\ IsRegion(Shared(r, s))
  BY <1>3 DEF IsRegion
<1> HIDE DEF Fits
<1> QED
  BY <1>1, <1>4, <1>5, <1>6

\* The stack of zones zs is one for the stack of regions rs.
Match(zs, rs, pix, o) ==
  /\ zs \in Seq(0 .. 3) /\ rs \in Seq(Records)
  /\ Len(zs) = Len(rs)
  /\ \A k \in 1 .. Len(rs) : IsRegion(rs[k]) /\ zs[k] \in PartZones(rs[k], pix, o)

ZoneStep(zs, cmd, zone) == Command(zs, cmd, LAMBDA k : zone[k+1], MaxZone, MinZone)
RegionStep(rs, cmd, parts) == Command(rs, cmd, LAMBDA k : parts[k+1], Both, Shared)

\* Each command keeps it so.
LEMMA PushMatch ==
  ASSUME NEW pix, NEW o, NEW zs, NEW rs, Match(zs, rs, pix, o), NEW r, IsRegion(r),
         NEW z \in PartZones(r, pix, o),
         r \in Records
  PROVE  Match(Append(zs, z), Append(rs, r), pix, o)
<1> DEFINE R == Records
<1>1. zs \in Seq(0 .. 3) /\ rs \in Seq(R) /\ Len(zs) = Len(rs) /\ z \in 0 .. 3 /\ r \in R
  BY DEF Match, PartZones
<1> HIDE DEF R
<1>2. /\ Append(zs, z) \in Seq(0 .. 3) /\ Len(Append(zs, z)) = Len(zs) + 1
      /\ \A k \in 1 .. Len(zs) + 1 : Append(zs, z)[k] = IF k <= Len(zs) THEN zs[k] ELSE z
  BY <1>1, AppendProperties
<1>3. /\ Append(rs, r) \in Seq(R) /\ Len(Append(rs, r)) = Len(rs) + 1
      /\ \A k \in 1 .. Len(rs) + 1 : Append(rs, r)[k] = IF k <= Len(rs) THEN rs[k] ELSE r
  BY <1>1, AppendProperties
<1>4. Len(zs) \in Nat
  BY <1>1, LenProperties
<1>5. ASSUME NEW k \in 1 .. Len(rs) + 1
      PROVE  IsRegion(Append(rs, r)[k]) /\ Append(zs, z)[k] \in PartZones(Append(rs, r)[k], pix, o)
  <2>1. CASE k <= Len(rs)
    <3>1. k \in 1 .. Len(rs) /\ Append(rs, r)[k] = rs[k] /\ Append(zs, z)[k] = zs[k]
      BY <1>1, <1>2, <1>3, <1>4, <2>1
    <3> QED
      BY <3>1 DEF Match
  <2>2. CASE ~ k <= Len(rs)
    <3>1. Append(rs, r)[k] = r /\ Append(zs, z)[k] = z
      BY <1>1, <1>2, <1>3, <1>4, <2>2
    <3> QED
      BY <3>1
  <2> QED
    BY <2>1, <2>2
<1> QED
  BY <1>1, <1>2, <1>3, <1>5 DEF Match, R

LEMMA PopMatch ==
  ASSUME NEW pix, NEW o, NEW zs, NEW rs, Match(zs, rs, pix, o), Len(rs) >= 2
  PROVE  /\ Match(SubSeq(zs, 1, Len(zs) - 2), SubSeq(rs, 1, Len(rs) - 2), pix, o)
         /\ \A k \in { Len(rs) - 1, Len(rs) } :
              /\ IsRegion(rs[k]) /\ zs[k] \in PartZones(rs[k], pix, o)
              /\ rs[k] \in Records
<1> DEFINE R == Records
           n == Len(rs)
           zb == SubSeq(zs, 1, n - 2)
           rb == SubSeq(rs, 1, n - 2)
<1>1. zs \in Seq(0 .. 3) /\ rs \in Seq(R) /\ Len(zs) = n
  BY DEF Match
<1> HIDE DEF R
<1>2. n \in Nat /\ n >= 2
  BY <1>1, LenProperties
<1>3. zb \in Seq(0 .. 3) /\ Len(zb) = n - 2 /\ \A k \in 1 .. n - 2 : zb[k] = zs[k]
  BY <1>1, <1>2, SubSeqProperties
<1>4. rb \in Seq(R) /\ Len(rb) = n - 2 /\ \A k \in 1 .. n - 2 : rb[k] = rs[k]
  BY <1>1, <1>2, SubSeqProperties
<1>5. ASSUME NEW k \in 1 .. n - 2
      PROVE  IsRegion(rb[k]) /\ zb[k] \in PartZones(rb[k], pix, o)
  <2>1. k \in 1 .. n /\ rb[k] = rs[k] /\ zb[k] = zs[k]
    BY <1>2, <1>3, <1>4
  <2> QED
    BY <2>1 DEF Match
<1>6. ASSUME NEW k \in { n - 1, n }
      PROVE  IsRegion(rs[k]) /\ zs[k] \in PartZones(rs[k], pix, o) /\ rs[k] \in R
  <2>1. k \in 1 .. n
    BY <1>2
  <2> QED
    BY <1>1, <2>1, ElementOfSeq DEF Match
<1> QED
  BY <1>1, <1>3, <1>4, <1>5, <1>6 DEF Match, R

LEMMA CommandMatch ==
  ASSUME NEW pix, NEW o, NEW zs, NEW rs, Match(zs, rs, pix, o), NEW parts, NEW zone,
         parts \in Seq(Records),
         \A i \in 1 .. Len(parts) : IsRegion(parts[i]) /\ zone[i] \in PartZones(parts[i], pix, o),
         NEW cmd \in -2 .. Len(parts) - 1, cmd < 0 => Len(rs) >= 2
  PROVE  Match(ZoneStep(zs, cmd, zone), RegionStep(rs, cmd, parts), pix, o)
<1> DEFINE R == Records
           n == Len(rs)
           zb == SubSeq(zs, 1, n - 2)
           rb == SubSeq(rs, 1, n - 2)
<1>0. Len(zs) = n
  BY DEF Match
<1>1. CASE cmd >= 0
  <2>1. ZoneStep(zs, cmd, zone) = Append(zs, zone[cmd+1])
    BY <1>1 DEF ZoneStep, Command
  <2>2. RegionStep(rs, cmd, parts) = Append(rs, parts[cmd+1])
    BY <1>1 DEF RegionStep, Command
  <2>3. cmd + 1 \in 1 .. Len(parts)
    <3>1. Len(parts) \in Nat
      BY LenProperties
    <3> QED
      BY <1>1, <3>1
  <2>4. parts[cmd+1] \in R
    BY <2>3, ElementOfSeq
  <2> QED
    BY <2>1, <2>2, <2>3, <2>4, PushMatch
<1>2. CASE cmd < 0
  <2> DEFINE r == rs[n-1]
             s == rs[n]
             x == zs[n-1]
             y == zs[n]
  <2>1. n >= 2 /\ Match(zb, rb, pix, o)
    BY <1>0, <1>2, PopMatch
  <2>2. /\ IsRegion(r) /\ x \in PartZones(r, pix, o) /\ r \in R
        /\ IsRegion(s) /\ y \in PartZones(s, pix, o) /\ s \in R
    BY <2>1, PopMatch
  <2> HIDE DEF r, s, x, y, zb, rb
  <2>3. /\ MaxZone(x, y) \in PartZones(Both(r, s), pix, o)
        /\ MinZone(x, y) \in PartZones(Shared(r, s), pix, o)
        /\ IsRegion(Both(r, s)) /\ IsRegion(Shared(r, s))
    BY <2>2, ZonesCombine
  <2>4. Both(r, s) \in R /\ Shared(r, s) \in R
    BY <2>2 DEF Both, Shared, Records
  <2>5. CASE cmd = -1
    <3>1. ZoneStep(zs, cmd, zone) = Append(zb, MaxZone(x, y))
      BY <1>0, <2>5 DEF ZoneStep, Command, zb, x, y
    <3>2. RegionStep(rs, cmd, parts) = Append(rb, Both(r, s))
      BY <2>5 DEF RegionStep, Command, rb, r, s
    <3> QED
      BY <2>1, <2>3, <2>4, <3>1, <3>2, PushMatch
  <2>6. CASE cmd = -2
    <3>1. ZoneStep(zs, cmd, zone) = Append(zb, MinZone(x, y))
      BY <1>0, <2>6 DEF ZoneStep, Command, zb, x, y
    <3>2. RegionStep(rs, cmd, parts) = Append(rb, Shared(r, s))
      BY <2>6 DEF RegionStep, Command, rb, r, s
    <3> QED
      BY <2>1, <2>3, <2>4, <3>1, <3>2, PushMatch
  <2> QED
    BY <1>2, <2>5, <2>6
<1> QED
  BY <1>1, <1>2


\* What the commands do, one by one, to the zones ...
LEMMA ZoneTurns ==
  ASSUME NEW zone, disc.cmds \in Seq(Int)
  PROVE  \E h : /\ h[0] = << >>
                /\ \A i \in 1 .. Len(disc.cmds) : h[i] = ZoneStep(h[i-1], disc.cmds[i], zone)
                /\ Commands(zone) = h[Len(disc.cmds)]
<1> DEFINE n == Len(disc.cmds)
           Step(f, i) == IF i = 0 THEN << >> ELSE ZoneStep(f[i-1], disc.cmds[i], zone)
           S == { j \in Nat : \E f : f = [ i \in 0 .. j |-> Step(f, i) ] }
           after == CHOOSE f : f = [ i \in 0 .. n |-> Step(f, i) ]
<1>0. n \in Nat
  BY LenProperties
<1>1. 0 \in S
  <2> DEFINE f == [ i \in 0 .. 0 |-> << >> ]
  <2>1. f = [ i \in 0 .. 0 |-> Step(f, i) ]
    OBVIOUS
  <2> HIDE DEF f
  <2> QED
    BY <2>1
<1>2. ASSUME NEW j \in Nat, j \in S
      PROVE  j + 1 \in S
  <2>1. PICK f : f = [ i \in 0 .. j |-> Step(f, i) ]
    BY <1>2
  <2> DEFINE g == [ i \in 0 .. j + 1 |-> Step(f, i) ]
  <2>2. \A i \in 0 .. j : g[i] = f[i]
    <3> HIDE DEF Step
    <3> QED
      BY <2>1
  <2>3. ASSUME NEW i \in 0 .. j + 1
        PROVE  Step(f, i) = Step(g, i)
    <3>1. CASE i = 0
      BY <3>1
    <3>2. CASE i # 0
      <4>1. i - 1 \in 0 .. j
        BY <3>2
      <4>2. g[i-1] = f[i-1]
        BY <2>2, <4>1
      <4> HIDE DEF g
      <4> QED
        BY <3>2, <4>2
    <3> QED
      BY <3>1, <3>2
  <2>4. g = [ i \in 0 .. j + 1 |-> Step(g, i) ]
    <3> HIDE DEF Step
    <3> QED
      BY <2>3
  <2> HIDE DEF g, Step
  <2> QED
    BY <2>4
<1>3. n \in S
  <2> HIDE DEF S
  <2>1. \A j \in Nat : j \in S => j + 1 \in S
    BY <1>2
  <2> QED
    BY <1>0, <1>1, <2>1, NatSetInduction
<1>4. after = [ i \in 0 .. n |-> Step(after, i) ]
  <2> HIDE DEF Step
  <2> QED
    BY <1>3
<1>5. Commands(zone) = after[n]
  BY DEF Commands, ZoneStep
<1> HIDE DEF after
<1>6. after[0] = << >>
  BY <1>0, <1>4
<1>7. ASSUME NEW i \in 1 .. n
      PROVE  after[i] = ZoneStep(after[i-1], disc.cmds[i], zone)
  <2>1. i \in 0 .. n /\ i # 0
    BY <1>0
  <2> QED
    BY <1>4, <2>1
<1> QED
  BY <1>5, <1>6, <1>7

\* ... and to the regions.
LEMMA RegionTurns ==
  ASSUME NEW d, d.cmds \in Seq(Int)
  PROVE  /\ Regions(d)[0] = << >>
         /\ \A i \in 1 .. Len(d.cmds) :
              Regions(d)[i] = RegionStep(Regions(d)[i-1], d.cmds[i], d.parts)
<1> DEFINE n == Len(d.cmds)
           Step(f, i) == IF i = 0 THEN << >> ELSE RegionStep(f[i-1], d.cmds[i], d.parts)
           S == { j \in Nat : \E f : f = [ i \in 0 .. j |-> Step(f, i) ] }
           after == CHOOSE f : f = [ i \in 0 .. n |-> Step(f, i) ]
<1>0. n \in Nat
  BY LenProperties
<1>1. 0 \in S
  <2> DEFINE f == [ i \in 0 .. 0 |-> << >> ]
  <2>1. f = [ i \in 0 .. 0 |-> Step(f, i) ]
    OBVIOUS
  <2> HIDE DEF f
  <2> QED
    BY <2>1
<1>2. ASSUME NEW j \in Nat, j \in S
      PROVE  j + 1 \in S
  <2>1. PICK f : f = [ i \in 0 .. j |-> Step(f, i) ]
    BY <1>2
  <2> DEFINE g == [ i \in 0 .. j + 1 |-> Step(f, i) ]
  <2>2. \A i \in 0 .. j : g[i] = f[i]
    <3> HIDE DEF Step
    <3> QED
      BY <2>1
  <2>3. ASSUME NEW i \in 0 .. j + 1
        PROVE  Step(f, i) = Step(g, i)
    <3>1. CASE i = 0
      BY <3>1
    <3>2. CASE i # 0
      <4>1. i - 1 \in 0 .. j
        BY <3>2
      <4>2. g[i-1] = f[i-1]
        BY <2>2, <4>1
      <4> HIDE DEF g
      <4> QED
        BY <3>2, <4>2
    <3> QED
      BY <3>1, <3>2
  <2>4. g = [ i \in 0 .. j + 1 |-> Step(g, i) ]
    <3> HIDE DEF Step
    <3> QED
      BY <2>3
  <2> HIDE DEF g, Step
  <2> QED
    BY <2>4
<1>3. n \in S
  <2> HIDE DEF S
  <2>1. \A j \in Nat : j \in S => j + 1 \in S
    BY <1>2
  <2> QED
    BY <1>0, <1>1, <2>1, NatSetInduction
<1>4. after = [ i \in 0 .. n |-> Step(after, i) ]
  <2> HIDE DEF Step
  <2> QED
    BY <1>3
<1>5. Regions(d) = after
  BY DEF Regions, RegionStep
<1> HIDE DEF after
<1>6. after[0] = << >>
  BY <1>0, <1>4
<1>7. ASSUME NEW i \in 1 .. n
      PROVE  after[i] = RegionStep(after[i-1], d.cmds[i], d.parts)
  <2>1. i \in 0 .. n /\ i # 0
    BY <1>0
  <2> QED
    BY <1>4, <2>1
<1> QED
  BY <1>5, <1>6, <1>7

\* Each turn of the commands keeps the two stacks alike.
LEMMA CommandsMatch ==
  ASSUME NEW pix, NEW o, NEW zone, disc.cmds \in Seq(Int), ConsistentCommands(disc),
         disc.parts \in Seq(Records),
         \A i \in 1 .. Len(disc.parts) :
           IsRegion(disc.parts[i]) /\ zone[i] \in PartZones(disc.parts[i], pix, o)
  PROVE  Match(Commands(zone), Regions(disc)[Len(disc.cmds)], pix, o)
<1> DEFINE n == Len(disc.cmds)
           R == Records
<1>0. n \in Nat
  BY LenProperties
<1>1. PICK h : /\ h[0] = << >>
               /\ \A i \in 1 .. n : h[i] = ZoneStep(h[i-1], disc.cmds[i], zone)
               /\ Commands(zone) = h[n]
  BY ZoneTurns
<1> DEFINE g == Regions(disc)
<1>2. g[0] = << >> /\ \A i \in 1 .. n : g[i] = RegionStep(g[i-1], disc.cmds[i], disc.parts)
  BY RegionTurns
<1>3. \A i \in 1 .. n : /\ disc.cmds[i] \in -2 .. Len(disc.parts) - 1
                        /\ disc.cmds[i] < 0 => Len(g[i-1]) >= 2
  BY DEF ConsistentCommands
<1> HIDE DEF g
<1> DEFINE S == { j \in Nat : j <= n => Match(h[j], g[j], pix, o) }
<1>4. 0 \in S
  <2>1. << >> \in Seq(0 .. 3) /\ << >> \in Seq(R) /\ Len(<< >>) = 0
    OBVIOUS
  <2> HIDE DEF R
  <2>2. Match(<< >>, << >>, pix, o)
    BY <2>1 DEF Match, R
  <2> QED
    BY <1>1, <1>2, <2>2
<1>5. ASSUME NEW j \in Nat, j \in S
      PROVE  j + 1 \in S
  <2> SUFFICES ASSUME j + 1 <= n
               PROVE  Match(h[j+1], g[j+1], pix, o)
    OBVIOUS
  <2> DEFINE cmd == disc.cmds[j+1]
  <2>1. j + 1 \in 1 .. n /\ (j + 1) - 1 = j
    BY <1>0
  <2>2. Match(h[j], g[j], pix, o)
    BY <1>0, <1>5
  <2>3. h[j+1] = ZoneStep(h[j], cmd, zone) /\ g[j+1] = RegionStep(g[j], cmd, disc.parts)
    BY <1>1, <1>2, <2>1
  <2>4. cmd \in -2 .. Len(disc.parts) - 1 /\ (cmd < 0 => Len(g[j]) >= 2)
    BY <1>3, <2>1
  <2> HIDE DEF cmd
  <2>5. Match(ZoneStep(h[j], cmd, zone), RegionStep(g[j], cmd, disc.parts), pix, o)
    BY <2>2, <2>4, CommandMatch
  <2> QED
    BY <2>3, <2>5
<1>6. n \in S
  <2> HIDE DEF S
  <2>1. \A j \in Nat : j \in S => j + 1 \in S
    BY <1>5
  <2> QED
    BY <1>0, <1>4, <2>1, NatSetInduction
<1> QED
  BY <1>0, <1>1, <1>6 DEF g

\* The smallest of the zones.
LEMMA InAllIs ==
  ASSUME NEW n \in Nat, n > 0, NEW zone \in [ 1 .. n -> 0 .. 3 ]
  PROVE  /\ InAll(zone) \in 0 .. 3 /\ \A i \in 1 .. n : InAll(zone) <= zone[i]
         /\ \E i \in 1 .. n : InAll(zone) = zone[i]
<1> DEFINE P(z) == (\A i \in 1 .. n : z <= zone[i]) /\ \E i \in 1 .. n : z = zone[i]
<1>1. \E z \in 0 .. 3 : P(z)
  <2>0. \A i \in 1 .. n : zone[i] \in { 0, 1, 2, 3 }
    OBVIOUS
  <2>1. CASE \E i \in 1 .. n : zone[i] = 0
    <3>1. P(0)
      BY <2>0, <2>1
    <3> QED
      BY <3>1
  <2>2. CASE (\A i \in 1 .. n : zone[i] # 0) /\ \E i \in 1 .. n : zone[i] = 1
    <3>1. P(1)
      BY <2>0, <2>2
    <3> QED
      BY <3>1
  <2>3. CASE (\A i \in 1 .. n : zone[i] \notin { 0, 1 }) /\ \E i \in 1 .. n : zone[i] = 2
    <3>1. P(2)
      BY <2>0, <2>3
    <3> QED
      BY <3>1
  <2>4. CASE \A i \in 1 .. n : zone[i] \notin { 0, 1, 2 }
    <3>1. \A i \in 1 .. n : zone[i] = 3
      BY <2>0, <2>4
    <3>2. 1 \in 1 .. n
      OBVIOUS
    <3>3. P(3)
      BY <3>1, <3>2
    <3> QED
      BY <3>3
  <2> QED
    BY <2>1, <2>2, <2>3, <2>4
<1>2. InAll(zone) = CHOOSE z \in 0 .. 3 : P(z)
  <2>1. DOMAIN zone = 1 .. n
    OBVIOUS
  <2> QED
    BY <2>1 DEF InAll
<1> HIDE DEF P
<1>3. InAll(zone) \in 0 .. 3 /\ P(InAll(zone))
  BY <1>1, <1>2
<1> QED
  BY <1>3 DEF P


\* A zone in the region of a query is one that the query's disc could have.
LEMMA RegionZone ==
  ASSUME NEW r, IsRegion(r), disc.touched = r.touched, disc.blind = {}, disc.pinned = r.central,
         disc.centres = { p \in PixelsAt(Order) : Mid(p, Order) \in r.core },
         NEW pix \in Nat, NEW o \in 0 .. OrderMax, NEW z \in PartZones(r, pix, o)
  PROVE  z \in Zones(pix, o)
<1> DEFINE pixels  == Descendants(pix, o, OrderMax)
           centres == IF o <= Order THEN Descendants(pix, o, Order) ELSE {}
<1>1. z \in 0 .. 3 /\ (z = 0 => pixels \cap r.touched = {})
  BY DEF PartZones
<1>2. z >= 2 <=> Mid(pix, o) \in r.core
  BY DEF PartZones
<1>3. z = 3 => \/ pixels \subseteq r.touched /\ \A p \in centres : Mid(p, Order) \in r.core
               \/ [ pix |-> pix, o |-> o ] \in disc.pinned
  BY DEF PartZones
<1>4. \A p \in Nat : Mid(p, Order) \in r.core => p \in disc.centres
  <2> SUFFICES ASSUME NEW p \in Nat, Mid(p, Order) \in r.core
               PROVE  p \in PixelsAt(Order)
    OBVIOUS
  <2>1. Mid(p, Order) \in PixelsAt(OrderMax)
    BY DEF IsRegion
  <2> QED
    BY <2>1, MidOnSphere
<1>5. z >= 2 => pixels \cap r.touched # {}
  <2>1. Mid(pix, o) \in pixels
    BY MidInside
  <2> QED
    BY <1>2, <2>1 DEF IsRegion
<1>6. (\A p \in centres : Mid(p, Order) \in r.core) => centres \subseteq disc.centres
  <2> SUFFICES ASSUME \A p \in centres : Mid(p, Order) \in r.core, NEW p \in centres
               PROVE  p \in Nat
    BY <1>4
  <2>1. o <= Order /\ p \in Descendants(pix, o, Order)
    OBVIOUS
  <2>2. Order - o \in 0 .. OrderMax
    BY <2>1, ConstantsAssumption
  <2>3. 4^(Order - o) \in Nat
    BY <2>2, PowerType
  <2>4. pix * 4^(Order - o) \in Nat /\ (pix + 1) * 4^(Order - o) - 1 \in Int
    BY <2>3
  <2> QED
    BY <2>1, <2>4 DEF Descendants
<1>7. o = Order => (z >= 2 <=> pix \in disc.centres)
  BY <1>2, <1>4
<1>8. Zones(pix, o) =
        { y \in 0 .. 3 :
            /\ y = 0 => ~(pixels \cap disc.touched # {})
            /\ y >= 2 => pixels \cap disc.touched # {}
            /\ y = 3 => \/ pixels \subseteq disc.touched /\ centres \subseteq disc.centres
                        \/ [ pix |-> pix, o |-> o ] \in disc.pinned
            /\ o = Order => (y >= 2 <=> pix \in disc.centres) }
  BY DEF Zones
<1> HIDE DEF pixels, centres
<1> QED
  BY <1>1, <1>3, <1>5, <1>6, <1>7, <1>8

\* What the commands leave of several discs.
LEMMA SeveralZones ==
  ASSUME disc \in Discs, Several, NEW pix \in Nat, NEW o \in 0 .. OrderMax,
         NEW zstk \in ZoneStacks(pix, o)
  PROVE  Len(zstk) = 1 /\ zstk[1] \in Zones(pix, o)
<1> DEFINE R == Records
           n == Len(disc.parts)
           r == Region(disc)
<1>1. /\ disc.blind = {} /\ disc.parts \in Seq(R) /\ n > 0 /\ disc.cmds \in Seq(Int)
      /\ ConsistentCommands(disc)
      /\ \A i \in 1 .. n : disc.parts[i].core \subseteq disc.parts[i].touched
      /\ disc.touched = r.touched /\ disc.pinned = r.central
      /\ disc.centres = { p \in PixelsAt(Order) : Mid(p, Order) \in r.core }
  BY SeveralAssumption DEF Several, Records
<1>2. n \in Nat
  BY <1>1, LenProperties
<1>3. \A i \in 1 .. n : IsRegion(disc.parts[i])
  <2>1. \A i \in 1 .. n : disc.parts[i] \in R
    BY <1>1, ElementOfSeq
  <2> QED
    BY <1>1, <2>1 DEF IsRegion, Records
<1>4. PICK zone \in [ 1 .. n -> 0 .. 3 ] :
        /\ \A i \in 1 .. n : zone[i] \in PartZones(disc.parts[i], pix, o)
        /\ zstk = IF disc.cmds = << >> THEN << InAll(zone) >> ELSE Commands(zone)
  BY DEF ZoneStacks
<1>5. CASE disc.cmds # << >>
  <2> DEFINE rs == Regions(disc)[Len(disc.cmds)]
  <2>1. Match(zstk, rs, pix, o)
    BY <1>1, <1>3, <1>4, <1>5, CommandsMatch
  <2>2. Len(rs) = 1 /\ r = rs[1]
    BY <1>1, <1>5 DEF ConsistentCommands, Region
  <2> HIDE DEF rs, r
  <2>3. Len(zstk) = 1 /\ IsRegion(r) /\ zstk[1] \in PartZones(r, pix, o)
    BY <2>1, <2>2 DEF Match
  <2> QED
    BY <1>1, <2>3, RegionZone
<1>6. CASE disc.cmds = << >>
  <2> DEFINE z == InAll(zone)
  <2>1. z \in 0 .. 3 /\ (\A i \in 1 .. n : z <= zone[i]) /\ \E i \in 1 .. n : z = zone[i]
    BY <1>1, <1>2, InAllIs
  <2>2. zstk = << z >>
    BY <1>4, <1>6
  <2> HIDE DEF z
  <2>3. /\ r.touched = { p \in PixelsAt(OrderMax) : \A i \in 1 .. n : p \in disc.parts[i].touched }
        /\ r.core = { p \in PixelsAt(OrderMax) : \A i \in 1 .. n : p \in disc.parts[i].core }
        /\ r.central = UNION { disc.parts[i].central : i \in 1 .. n }
    BY <1>6 DEF Region
  <2> HIDE DEF r
  <2>4. IsRegion(r)
    BY <1>1, <2>3 DEF IsRegion
  <2>5. z \in PartZones(r, pix, o)
    <3> DEFINE pixels  == Descendants(pix, o, OrderMax)
               centres == IF o <= Order THEN Descendants(pix, o, Order) ELSE {}
               mid     == Mid(pix, o)
               e       == [ pix |-> pix, o |-> o ]
    <3>1. \A i \in 1 .. n : /\ zone[i] \in 0 .. 3
                            /\ zone[i] = 0 => pixels \cap disc.parts[i].touched = {}
      BY <1>4 DEF PartZones
    <3>2. \A i \in 1 .. n : zone[i] >= 2 <=> mid \in disc.parts[i].core
      BY <1>4 DEF PartZones
    <3>3. \A i \in 1 .. n : zone[i] = 3 =>
            \/ /\ pixels \subseteq disc.parts[i].touched
               /\ \A p \in centres : Mid(p, Order) \in disc.parts[i].core
            \/ e \in disc.parts[i].central
      BY <1>4 DEF PartZones
    <3>4. \A i \in 1 .. n : disc.parts[i].core \subseteq PixelsAt(OrderMax)
      BY <1>1, <1>3 DEF IsRegion
    <3>5. 1 \in 1 .. n
      BY <1>1, <1>2
    <3> HIDE DEF pixels, centres, mid, e
    <3>6. z = 0 => pixels \cap r.touched = {}
      BY <2>1, <2>3, <3>1
    <3>7. z >= 2 <=> mid \in r.core
      <4>1. ASSUME z >= 2
            PROVE  mid \in r.core
        <5>1. \A i \in 1 .. n : mid \in disc.parts[i].core
          BY <2>1, <3>1, <3>2, <4>1
        <5> QED
          BY <2>3, <3>4, <3>5, <5>1
      <4>2. ASSUME mid \in r.core
            PROVE  z >= 2
        BY <2>1, <2>3, <3>2, <4>2
      <4> QED
        BY <4>1, <4>2
    <3>8. z = 3 => \/ /\ pixels \subseteq r.touched
                      /\ \A p \in centres : Mid(p, Order) \in r.core
                   \/ e \in r.central
      <4> SUFFICES ASSUME z = 3, e \notin r.central
                   PROVE  /\ pixels \subseteq r.touched
                          /\ \A p \in centres : Mid(p, Order) \in r.core
        OBVIOUS
      <4>1. \A i \in 1 .. n : zone[i] = 3
        BY <2>1, <3>1
      <4>2. \A i \in 1 .. n : /\ pixels \subseteq disc.parts[i].touched
                              /\ \A p \in centres : Mid(p, Order) \in disc.parts[i].core
        BY <2>3, <3>3, <4>1
      <4>3. pixels \subseteq PixelsAt(OrderMax)
        BY <1>3, <3>5, <4>2 DEF IsRegion
      <4> QED
        BY <2>3, <3>4, <3>5, <4>2, <4>3
    <3> QED
      BY <2>1, <3>6, <3>7, <3>8 DEF PartZones, pixels, centres, mid, e
  <2>6. Len(zstk) = 1 /\ zstk[1] = z
    BY <2>2
  <2> QED
    BY <1>1, <2>4, <2>5, <2>6, RegionZone
<1> QED
  BY <1>5, <1>6

\* Whatever the discs and the commands, they leave one zone wherever the walk
\* is, and it is one that a single disc of the same extent could have there
\* (query_multidisc and query_multidisc_general).
THEOREM SeveralDiscsAsOne == Spec => []SeveralAsOne
<1>1. Init => disc \in Discs
  BY DEF Init
<1>2. disc \in Discs /\ [Next]_vars => (disc \in Discs)'
  <2>1. [Next]_vars => disc' = disc
    BY DEF Next, Query, Walk, CoverSphere, RejectFact, PushBasePixels, Return, Looking,
           SkipOutside, OutputSubpixels, AddChildren, OutputPixel, SkipPixel, EnterSublevels,
           AddSubchildren, OutputAncestor, Finished, vars
  <2> QED
    BY <2>1
<1>3. Inv /\ disc \in Discs => SeveralAsOne
  <2> SUFFICES ASSUME Inv, disc \in Discs, Several, stk # << >>,
                      NEW zstk \in ZoneStacks(top.pix, top.o)
               PROVE  Len(zstk) = 1 /\ zstk[1] \in Zones(top.pix, top.o)
    BY DEF SeveralAsOne
  <2>1. top.pix \in Nat /\ top.o \in 0 .. OrderMax
    BY TopFacts DEF Inv, Entries
  <2> QED
    BY <2>1, SeveralZones
<1> QED
  BY <1>1, <1>2, <1>3, Invariance, PTL DEF Spec

=============================================================================
