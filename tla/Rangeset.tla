------------------------------ MODULE Rangeset ------------------------------
(***************************************************************************)
(* The data structure every disc, polygon and strip query of HEALPix       *)
(* returns its pixels in: template class rangeset<T> of                    *)
(* cxxsupport/rangeset.h.  A set of integers is a vector r of boundaries   *)
(* <<b0, e0, b1, e1, ...>>: the set is [b0;e0[ + [b1;e1[ + ...             *)
(*                                                                         *)
(* The operators below are the member functions, as functions from the     *)
(* vector before the call to the vector after it; C++'s r[k] is r[k+1]     *)
(* here.  generalUnion, a loop, is module RangesetUnion.                   *)
(***************************************************************************)
EXTENDS Integers, Sequences

----------------------------------------------------------------------------
(* What a vector of boundaries means, and the two degrees of order that    *)
(* the member functions need of it and preserve.                           *)

\* The integers that r stands for.
Elements(r) ==
  UNION { r[i] .. r[i+1] - 1 : i \in { j \in DOMAIN r : j % 2 = 1 } }

\* Boundaries in pairs, in ascending order.
Ordered(r) ==
  /\ Len(r) % 2 = 0
  /\ \A i \in 1 .. Len(r) - 1 : r[i] <= r[i+1]

\* ... with no empty range and no two ranges that touch: the only vector
\* for its set, which is what lets equals compare vectors.
Canonical(r) ==
  /\ Len(r) % 2 = 0
  /\ \A i \in 1 .. Len(r) - 1 : r[i] < r[i+1]

----------------------------------------------------------------------------
(* Access.                                                                 *)

Last(r) == r[Len(r)]

\* Mutant of iiv: lower_bound in place of upper_bound.
iivLower(r, val) ==
  CHOOSE k \in -1 .. Len(r) - 1 : \A i \in 1 .. Len(r) : r[i] < val <=> i - 1 <= k

\* Position (from 0) of the last boundary <= val, -1 if there is none.
iiv(r, val) ==
  CHOOSE k \in -1 .. Len(r) - 1 : \A i \in 1 .. Len(r) : r[i] <= val <=> i - 1 <= k

contains(r, v) == iiv(r, v) % 2 = 0

\* Looks at the one range that holds a: exact on canonical vectors only.
containsAll(r, a, b) ==
  LET res == iiv(r, a) IN res % 2 = 0 /\ b <= r[res+2]

findInterval(r, v) == IF iiv(r, v) % 2 # 0 THEN -1 ELSE iiv(r, v) \div 2

----------------------------------------------------------------------------
(* append: the only writer the disc queries use.                           *)

\* planck_assert (v1>=r[r.size()-2],"bad append operation")
appendAssert(r, v1, v2) ==
  v2 > v1 /\ r # << >> /\ v1 <= Last(r) => v1 >= r[Len(r) - 1]

\* Mutant of append: a range that touches the last one is not merged with it.
appendTouching(r, v1, v2) ==
  IF v2 <= v1 THEN r
  ELSE IF r # << >> /\ v1 < Last(r)
       THEN IF v2 > Last(r) THEN [r EXCEPT ![Len(r)] = v2] ELSE r
       ELSE r \o << v1, v2 >>

append(r, v1, v2) ==
  IF v2 <= v1 THEN r
  ELSE IF r # << >> /\ v1 <= Last(r)
       THEN IF v2 > Last(r) THEN [r EXCEPT ![Len(r)] = v2] ELSE r
       ELSE r \o << v1, v2 >>

\* append(other): the ranges of other, one after the other.
appendSteps(r, other) ==
  LET after[n \in 0 .. Len(other) \div 2] ==
        IF n = 0 THEN r ELSE append(after[n-1], other[2*n-1], other[2*n])
  IN  after

appendAll(r, other) == appendSteps(r, other)[Len(other) \div 2]

appendAllAssert(r, other) ==
  \A n \in 1 .. Len(other) \div 2 :
    appendAssert(appendSteps(r, other)[n-1], other[2*n-1], other[2*n])

----------------------------------------------------------------------------
(* add and remove, one function of the parity that is wanted outside       *)
(* [a;b[: 1 (outside a range) for add, 0 (inside) for remove.              *)

\* Mutant of addRemovePlan: it erases the boundary a that it just wrote.
addRemovePlanErasesA(r, a, b, v) ==
  LET below == iiv(r, a)
      pos1  == IF below >= 0 /\ r[below+1] = a THEN below - 1 ELSE below
      pos2  == iiv(r, b)
  IN  [ pos1 |-> pos1, pos2 |-> pos2, insA |-> pos1 % 2 = v, insB |-> pos2 % 2 = v,
        rmstart |-> pos1 + 1, rmend |-> pos2 - (IF pos2 % 2 = v THEN 1 ELSE 0) ]

\* The positions addRemove works with, as one record.
addRemovePlan(r, a, b, v) ==
  LET below == iiv(r, a)
      pos1  == IF below >= 0 /\ r[below+1] = a THEN below - 1 ELSE below
      pos2  == iiv(r, b)
      insA  == pos1 % 2 = v
      insB  == pos2 % 2 = v
  IN  [ pos1 |-> pos1, pos2 |-> pos2, insA |-> insA, insB |-> insB,
        rmstart |-> pos1 + 1 + (IF insA THEN 1 ELSE 0),
        rmend   |-> pos2 - (IF insB THEN 1 ELSE 0) ]

\* planck_assert((rmend-rmstart)&1,"cannot happen"), and what the code needs
\* without asserting it: both writes hit an existing boundary and the erased
\* positions rmstart..rmend are a (perhaps empty) section of the vector.
addRemoveInBounds(r, a, b, v) ==
  LET p == addRemovePlan(r, a, b, v)
  IN  /\ (p.rmend - p.rmstart) % 2 = 1
      /\ \/ p.insA /\ p.insB /\ p.pos1 + 1 > p.pos2
         \/ /\ p.insA => p.pos1 + 1 < Len(r)
            /\ p.insB => p.pos2 >= 0
            /\ p.rmstart <= p.rmend + 1
            /\ p.rmend < Len(r)

addRemove(r, a, b, v) ==
  LET p      == addRemovePlan(r, a, b, v)
      marked == [ i \in 1 .. Len(r) |->
                    IF p.insB /\ i = p.pos2 + 1 THEN b
                    ELSE IF p.insA /\ i = p.pos1 + 2 THEN a
                    ELSE r[i] ]
  IN  IF p.insA /\ p.insB /\ p.pos1 + 1 > p.pos2
      THEN SubSeq(r, 1, p.pos1 + 1) \o << a, b >> \o SubSeq(r, p.pos1 + 2, Len(r))
      ELSE SubSeq(marked, 1, p.rmstart) \o SubSeq(marked, p.rmend + 2, Len(r))

add(r, v1, v2)    == addRemove(r, v1, v2, 1)
remove(r, v1, v2) == addRemove(r, v1, v2, 0)

----------------------------------------------------------------------------
(* intersect with one range: cut off the end, then the start.              *)

\* Is the write r[pos1]=a inside the vector that the first erase left?
intersectInBounds(r, a, b) ==
  LET pos1  == iiv(r, a)
      found == iiv(r, b)
      pos2  == IF found >= 0 /\ r[found+1] = b THEN found - 1 ELSE found
  IN  pos1 % 2 = 0 => pos1 < pos2 + 1 + (IF pos2 % 2 = 0 THEN 1 ELSE 0)

intersect(r, a, b) ==
  LET pos1  == iiv(r, a)
      found == iiv(r, b)
      pos2  == IF found >= 0 /\ r[found+1] = b THEN found - 1 ELSE found
      cut   == SubSeq(r, 1, pos2 + 1) \o (IF pos2 % 2 = 0 THEN << b >> ELSE << >>)
  IN  IF pos1 % 2 = 0
      THEN IF pos1 + 1 > Len(cut) THEN << >>
           ELSE << a >> \o SubSeq(cut, pos1 + 2, Len(cut))
      ELSE SubSeq(cut, pos1 + 2, Len(cut))

=============================================================================
