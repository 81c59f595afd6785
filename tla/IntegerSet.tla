----------------------------- MODULE IntegerSet -----------------------------
(***************************************************************************)
(* What a rangeset is to its user, without saying how: a set of integers   *)
(* that each call changes in the way its name says.  The comments of       *)
(* cxxsupport/rangeset.h say the same ("the union of itself with           *)
(* [v1;v2[", ...) but for one: subtract takes the difference, where its    *)
(* comment speaks of a union with the inverse.  A call with another        *)
(* rangeset takes a while, and changes the set when it returns.            *)
(* RangesetCalls is shown to implement it.                                 *)
(***************************************************************************)
EXTENDS Integers, Sequences

CONSTANTS Values    \* the integers callers pass as range bounds

VARIABLES set,      \* the integers in the set
          call      \* the last call and its arguments

Range(v1, v2) == v1 .. v2 - 1

\* The sets that ranges between the values make.
Sets == SUBSET UNION { Range(v1, v2) : v1, v2 \in Values }

\* A call with another rangeset that has not returned is <<name, other>>.
Busy == Len(call) = 2

Init == set = {} /\ call = << "clear" >>

Clear == set' = {} /\ call' = << "clear" >>

Add(v1, v2) ==
  /\ set' = set \cup Range(v1, v2)
  /\ call' \in { << "append", v1, v2 >>, << "add", v1, v2 >> }

Remove(v1, v2) ==
  /\ set' = set \ Range(v1, v2)
  /\ call' = << "remove", v1, v2 >>

Intersect(v1, v2) ==
  /\ set' = set \cap Range(v1, v2)
  /\ call' = << "intersect", v1, v2 >>

\* unite, intersect and subtract with a rangeset of the integers in other.
Begin(name, other) ==
  /\ set' = set
  /\ call' = << name, other >>

Return ==
  /\ \/ call[1] = "unite"     /\ set' = set \cup call[2]
     \/ call[1] = "intersect" /\ set' = set \cap call[2]
     \/ call[1] = "subtract"  /\ set' = set \ call[2]
  /\ call' = << "returned" >>

RangeCall ==
  \/ Clear
  \/ \E v1, v2 \in Values : Add(v1, v2) \/ Remove(v1, v2) \/ Intersect(v1, v2)

CallWith ==
  \E name \in { "unite", "intersect", "subtract" }, other \in Sets : Begin(name, other)

Next == IF Busy THEN Return ELSE RangeCall \/ CallWith

Spec == Init /\ [][Next]_<< set, call >>

=============================================================================
