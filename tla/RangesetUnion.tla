---------------------------- MODULE RangesetUnion ---------------------------
(***************************************************************************)
(* rangeset::generalUnion, the loop behind unite, intersect and subtract   *)
(* of two rangesets (cxxsupport/rangeset.h).  It merges the boundaries of  *)
(* a and b in ascending order and keeps, for each operand and for the      *)
(* result, whether the current position is inside; an operand that is      *)
(* "flipped" is taken as its complement, and what is built is the set of   *)
(* positions where the union differs from its value at minus infinity.     *)
(* The locals of a call are a record u; its turns are RangesetCalls' steps.*)
(***************************************************************************)
EXTENDS Rangeset

\* Mutant of Flips: subtract complements the other operand.
FlipsOther == [ unite     |-> << FALSE, FALSE >>,
                intersect |-> << TRUE, TRUE >>,
                subtract  |-> << FALSE, TRUE >> ]

\* The flips of a and b that the member functions use:
\*   unite      neither : a + b
\*   intersect  both    : not (not a + not b)
\*   subtract   a       : not (not a + b)
Flips == [ unite     |-> << FALSE, FALSE >>,
           intersect |-> << TRUE, TRUE >>,
           subtract  |-> << TRUE, FALSE >> ]

\* Before the first turn; ia and ib are the next boundary of each, from 0.
Entered(a, b, flips) ==
  [ a |-> a, b |-> b, ia |-> 0, ib |-> 0,
    state_a |-> flips[1], state_b |-> flips[2], state_res |-> flips[1] \/ flips[2],
    c |-> << >> ]

runa(u) == u.ia # Len(u.a)
runb(u) == u.ib # Len(u.b)

\* Mutant of adv_b: a boundary that both have is stepped over in a only.
adv_bAlone(u) == runb(u) /\ (~runa(u) \/ u.b[u.ib+1] < u.a[u.ia+1])

\* Which operand's boundary comes next: both when they are equal.
adv_a(u) == runa(u) /\ (~runb(u) \/ u.a[u.ia+1] <= u.b[u.ib+1])
adv_b(u) == runb(u) /\ (~runa(u) \/ u.b[u.ib+1] <= u.a[u.ia+1])

\* One turn of the loop: step over the smallest boundary, and push it when
\* the union's value changes there.
Turn(u) ==
  LET val == IF adv_b(u) THEN u.b[u.ib+1] ELSE u.a[u.ia+1]
      state_a == u.state_a # adv_a(u)
      state_b == u.state_b # adv_b(u)
  IN  [ u EXCEPT !.ia = IF adv_a(u) THEN @ + 1 ELSE @,
                 !.ib = IF adv_b(u) THEN @ + 1 ELSE @,
                 !.state_a = state_a, !.state_b = state_b,
                 !.state_res = state_a \/ state_b,
                 !.c = IF (state_a \/ state_b) # u.state_res THEN Append(@, val) ELSE @ ]

=============================================================================
