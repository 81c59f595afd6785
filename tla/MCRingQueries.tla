---------------------------- MODULE MCRingQueries ---------------------------
EXTENDS RingQueries

MCNsides == { 1, 2 }

\* Pixel centres and the centres of discs are at even longitudes, the ends of
\* intervals at odd ones.
MCTurn == 32

\* A disc that reaches rings from..to, h[1] units far in even rings and h[2]
\* in odd ones.
MCDisc(n, from, to, north, south, phi, h, rounds, overlaps) ==
  [ wide |-> FALSE, north |-> north, south |-> south, irmin |-> from, irmax |-> to,
    phi |-> phi, rounds |-> rounds, overlaps |-> overlaps,
    half |-> [ ring \in 1 .. 4 * n - 1 |->
                 IF (north /\ ring < from) \/ (south /\ ring > to) THEN MCTurn \div 2
                 ELSE h[(ring % 2) + 1] ] ]

WideDisc(n) == [ MCDisc(n, 1, 4 * n - 1, TRUE, TRUE, 0, << 1, 1 >>, FALSE, {}) EXCEPT !.wide = TRUE ]

All(n) == 0 .. 12 * n * n - 1

\* No poles, the northern, the southern, both; an empty run of rings.
Shapes(n) ==
  { << 1, 1, FALSE, FALSE >>, << 2, 4 * n - 2, FALSE, FALSE >>,
    << 2, 2 * n, TRUE, FALSE >>, << 1, 2 * n, TRUE, FALSE >>,
    << 2 * n, 4 * n - 2, FALSE, TRUE >>, << 2 * n, 4 * n - 1, FALSE, TRUE >>,
    << 2 * n, 2 * n, TRUE, TRUE >>, << 2, 1, FALSE, FALSE >>, << 2, 1, TRUE, FALSE >>,
    << 4 * n, 4 * n - 1, TRUE, FALSE >>, << 3, 2, TRUE, TRUE >> }

StrictDiscs(n) ==
  { MCDisc(n, s[1], s[2], s[3], s[4], phi, h, FALSE, {}) :
      s \in Shapes(n), phi \in { 0, 2, 6, 28 }, h \in { 1, 5, 11, 15 } \X { 1, 7, 15 } }

TestedDiscs(n) ==
  { MCDisc(n, s[1], s[2], s[3], s[4], phi, h, rounds, overlaps) :
      s \in Shapes(n), phi \in { 0, 4, 12, 30 }, h \in { 3, 11, 16 } \X { 7, 16 },
      rounds \in BOOLEAN,
      overlaps \in { {}, All(n), { 4 }, { 6, 7 }, { 7, 8, 9 }, All(n) \ { 4, 7 } } }

\* Discs to intersect: half spheres and others.
StrictParts(n) ==
  { MCDisc(n, s[1], s[2], s[3], s[4], phi, h, rounds, {}) :
      s \in { << 2, 4 * n - 2, FALSE, FALSE >>, << 2, 2 * n, TRUE, FALSE >>,
              << 3, 3, TRUE, FALSE >>, << 2 * n, 4 * n - 2, FALSE, TRUE >> },
      phi \in { 0, 2, 12, 30 }, h \in { << 1, 15 >>, << 9, 3 >> }, rounds \in BOOLEAN }

TestedParts(n) ==
  { MCDisc(n, s[1], s[2], s[3], s[4], phi, h, FALSE, overlaps) :
      s \in { << 2, 4 * n - 2, FALSE, FALSE >>, << 3, 3, TRUE, FALSE >> },
      phi \in { 0, 12, 30 }, h \in { << 3, 16 >>, << 16, 9 >> },
      overlaps \in { {}, All(n), { 5, 6 }, All(n) \ { 4, 7 } } }

Call(kind, discs, fact, inclusive) ==
  [ kind |-> kind, discs |-> discs, fact |-> fact, inclusive |-> inclusive ]

MCQueries(n) ==
  { Call("disc", << d >>, 0, FALSE) : d \in StrictDiscs(n) \cup { WideDisc(n) } }
  \cup { Call("disc", << d >>, 1, TRUE) : d \in { e \in StrictDiscs(n) : e.phi < 6 } }
  \cup { Call("disc", << d >>, 2, TRUE) : d \in { e \in TestedDiscs(n) : n = 1 \/ e.phi = 12 } }
  \cup { Call("disc", << WideDisc(n) >>, fact, TRUE) : fact \in { -1, 0, 3, 8 } }
  \cup { Call("multidisc", << >>, 0, FALSE) }
  \cup { Call("multidisc", << d, e >>, 0, FALSE) :
           d \in StrictParts(n), e \in { WideDisc(n) } \cup
             { p \in StrictParts(n) : n = 1 \/ p.phi = 2 } }
  \cup { Call("multidisc", << d, e >>, 2, TRUE) :
           d, e \in { p \in TestedParts(n) : n = 1 \/ p.phi = 12 } }
  \cup { [ kind |-> "strip", z1 |-> z1, z2 |-> z2, inclusive |-> inclusive ] :
           z1, z2 \in (-(3 * n * n) .. 3 * n * n)
                        \ { ring2z(SetNside(n, "RING"), ring) : ring \in 1 .. 4 * n - 1 },
           inclusive \in BOOLEAN }

=============================================================================
