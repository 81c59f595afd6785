---------------------------- MODULE RangesetCalls ---------------------------
(***************************************************************************)
(* One rangeset object and a caller that makes any legal sequence of       *)
(* calls.  A call is legal when its bounds are in order (v1 <= v2; HEALPix *)
(* does pass the empty range v1 = v2, see query_multidisc) and, for        *)
(* append, when the assertion it starts with holds.  A call with another   *)
(* rangeset is a loop, generalUnion, that takes one step per turn.         *)
(***************************************************************************)
EXTENDS RangesetUnion, FiniteSets

CONSTANTS Values,   \* the integers used as range bounds
          Others    \* the vectors of the rangesets that are passed, and of
                    \* those that other rangesets are passed to

ASSUME ValuesAssumption == Values \subseteq Int /\ IsFiniteSet(Values)
ASSUME OthersAssumption == \A s \in Others : s \in Seq(Values) /\ Ordered(s)

VARIABLES r,        \* the vector of boundaries
          u,        \* the locals of generalUnion, << >> when it does not run
          call      \* the last call: <<name, v1, v2>>, or <<name, other>>

vars == << r, u, call >>

Legal(v1, v2) == v1 <= v2

Init == r = << >> /\ u = << >> /\ call = << "clear" >>

Clear == r' = << >> /\ call' = << "clear" >>

Append2(v1, v2) ==
  /\ appendAssert(r, v1, v2)
  /\ r' = append(r, v1, v2)
  /\ call' = << "append", v1, v2 >>

Add(v1, v2) ==
  /\ Legal(v1, v2)
  /\ r' = add(r, v1, v2)
  /\ call' = << "add", v1, v2 >>

Remove(v1, v2) ==
  /\ Legal(v1, v2)
  /\ r' = remove(r, v1, v2)
  /\ call' = << "remove", v1, v2 >>

Intersect(v1, v2) ==
  /\ Legal(v1, v2)
  /\ r' = intersect(r, v1, v2)
  /\ call' = << "intersect", v1, v2 >>

CallWith(name, other) ==
  /\ r \in Others
  /\ u' = Entered(r, other, Flips[name])
  /\ call' = << name, other >>
  /\ r' = r

MergeTurn ==
  /\ runa(u) \/ runb(u)
  /\ u' = Turn(u)
  /\ UNCHANGED << r, call >>

\* What was built is swapped with the object's vector.
Swap ==
  /\ ~runa(u) /\ ~runb(u)
  /\ r' = u.c /\ u' = << >>
  /\ call' = << "returned" >>

Next ==
  \/ /\ u = << >> /\ u' = << >>
     /\ \/ Clear
        \/ \E v1, v2 \in Values :
             Append2(v1, v2) \/ Add(v1, v2) \/ Remove(v1, v2) \/ Intersect(v1, v2)
  \/ u = << >> /\ \E name \in DOMAIN Flips, other \in Others : CallWith(name, other)
  \/ u # << >> /\ (MergeTurn \/ Swap)

Spec == Init /\ [][Next]_vars

----------------------------------------------------------------------------
(* Properties.                                                             *)

\* v is contained, in a range that starts with it.
StartsRange(s, v) == contains(s, v) /\ s[iiv(s, v) + 1] = v

\* The boundaries stay in pairs and in ascending order, as the binary search iiv
\* needs them, through every legal sequence of calls, the ones with empty ranges
\* included.  Neither addRemove's "cannot happen" assertion nor an access outside the
\* vector is reachable: whatever was called before, the next add, remove or
\* intersect finds positions that fit.  The one exception is an intersect with the
\* empty range at the start of one of the object's ranges, which writes one past
\* the end, and does so always; an empty range elsewhere is harmless.
PositionsFit ==
  /\ r \in Seq(Int) /\ Ordered(r)
  /\ \A v1, v2 \in Values : v1 <= v2 =>
       /\ addRemoveInBounds(r, v1, v2, 0)
       /\ addRemoveInBounds(r, v1, v2, 1)
       /\ intersectInBounds(r, v1, v2) <=> v1 < v2 \/ ~StartsRange(r, v1)

\* contains, findInterval and containsAll answer about the set the object
\* stands for, after any history.  (containsAll is exact only on canonical
\* vectors: it looks at one range.)
QueriesAgree ==
  \A v \in Values :
    /\ contains(r, v) <=> v \in Elements(r)
    /\ v \in Elements(r) =>
         v \in r[2 * findInterval(r, v) + 1] .. r[2 * findInterval(r, v) + 2] - 1
    /\ v \notin Elements(r) => findInterval(r, v) = -1
    /\ Canonical(r) =>
         \A w \in Values :
           v < w => (containsAll(r, v, w) <=> v .. w - 1 \subseteq Elements(r))

\* A call with a nonempty range leaves a canonical vector canonical, and so does
\* one with a rangeset that is: a boundary that both have is crossed in one turn
\* of the loop, and pushed once or not at all.  So two objects built without
\* empty ranges compare equal when their sets do.
StaysCanonical ==
  [][ Canonical(r) /\ (Len(call') = 3 => call'[2] < call'[3])
       /\ (u # << >> => Canonical(u.b)) => Canonical(r') ]_vars

\* The object implements the set of integers that the names of its calls describe,
\* those with other rangesets included (unite, intersect, subtract over generalUnion).
IntSet == INSTANCE IntegerSet WITH
            set <- Elements(r),
            call <- IF u = << >> THEN call ELSE << call[1], Elements(call[2]) >>
ImplementsSet == IntSet!Spec

=============================================================================
