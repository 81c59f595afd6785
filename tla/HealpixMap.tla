------------------------------ MODULE HealpixMap ----------------------------
(***************************************************************************)
(* Healpix_Map: a value for every pixel of a base, in an array in the      *)
(* order of the pixel numbers.  swap_scheme changes the order of the array *)
(* in place, along the cycles of the permutation; the Import functions     *)
(* copy a map to one of another scheme or resolution.  The caller of       *)
(* PixelWalk holds a map beside its pixel; it works on the map while the   *)
(* pixel is number 0, since neither depends on the other.                  *)
(*                                                                         *)
(* A value is the place it was measured at; one place has none.            *)
(***************************************************************************)
EXTENDS PixelWalk

CONSTANTS Undef     \* Healpix_undef

VARIABLES
  map,        \* the array
  mapbase,    \* the base that the map is derived from
  swap        \* the locals of swap_scheme, << >> if no swap is under way

mapvars == << map, mapbase, swap >>

\* The values that belong to its pixels.
Measured ==
  [ p \in Pixels(mapbase) |->
      LET at == pix2xyf(mapbase, p)
      IN  IF at = [ face |-> 4, ix |-> 0, iy |-> 0 ] THEN Undef ELSE at ]

MapInit ==
  /\ Init
  /\ mapbase = base
  /\ map = Measured
  /\ swap = << >>

----------------------------------------------------------------------------
(* swap_scheme.                                                            *)

swap_clen(o) == << 0, 7, 5, 4 >>[o+1]
swap_cycle ==
  << 0,1,8,12,16,21,40,
     0,1,2,40,114,
     0,4,160,263 >>

\* One start for each cycle of more than one pixel.  Asserts order_>=0, "need
\* hierarchical map"; the table of the code ends at order 13, here at 3.
swap_cycles(order) ==
  LET ofs[o \in 0 .. order] == IF o = 0 THEN 0 ELSE ofs[o-1] + swap_clen(o-1)
  IN  SubSeq(swap_cycle, ofs[order] + 1, ofs[order] + swap_clen(order))

swapper(b, p) == IF b.scheme = "NEST" THEN ring2nest(b, p) ELSE nest2ring(b, p)

\* From each start a trail leads around a cycle; the trails share no pixel, and
\* the pixels on none of them stay where they are.
LeadAround(b, sw, trails) ==
  LET starts == swap_cycles(b.order)
      on(m) == 1 .. Len(trails[m])
  IN  /\ starts \in Seq(Pixels(b)) /\ trails \in Seq(Seq(Pixels(b)))
      /\ Len(trails) = Len(starts)
      /\ \A m \in 1 .. Len(starts) :
           /\ trails[m] # << >> /\ trails[m][1] = starts[m]
           /\ \A i \in on(m) :
                sw[trails[m][i]] = IF i = Len(trails[m]) THEN starts[m] ELSE trails[m][i+1]
      /\ \A m, k \in 1 .. Len(starts) : \A i \in on(m), j \in on(k) :
           trails[m][i] = trails[k][j] => m = k /\ i = j
      /\ \A p \in Pixels(b) :
           sw[p] = p \/ \E m \in 1 .. Len(starts) : \E i \in on(m) : p = trails[m][i]

\* The trail of sw from start, of at most 1024 pixels.
Trail(sw, start) ==
  LET walk[k \in 0 .. 10, p \in DOMAIN sw] ==
        IF k = 0 THEN << p >>
        ELSE LET first == walk[k-1, p]
             IN  first \o walk[k-1, sw[first[Len(first)]]]
      way == walk[10, start]
  IN  SubSeq(way, 1, CHOOSE i \in DOMAIN way :
                       /\ sw[way[i]] = start
                       /\ \A j \in 1 .. i - 1 : sw[way[j]] # start)

\* The table names each cycle of more than one pixel once.
ASSUME SwapCycles ==
  \A order \in 0 .. 3, scheme \in { "RING", "NEST" } :
    \E b \in { Set(order, scheme) } :
      \E sw \in { [ p \in Pixels(b) |-> swapper(b, p) ] } :
        \E trails \in { [ m \in 1 .. Len(swap_cycles(order)) |->
                            Trail(sw, swap_cycles(order)[m]) ] } :
          LeadAround(b, sw, trails)

\* scheme_ = (scheme_==RING) ? NEST : RING
OtherScheme ==
  mapbase' = [ mapbase EXCEPT !.scheme = IF @ = "RING" THEN "NEST" ELSE "RING" ]

\* istart = cycle[m]: its value is kept in pixbuf.  inew is always
\* swapper(iold).
Starts == swap_cycles(mapbase.order)
AtStart(m) ==
  [ m |-> m, pixbuf |-> map[Starts[m]], istart |-> Starts[m],
    iold |-> Starts[m] ]

Resting == swap = << >> /\ pix = 0 /\ ~peano /\ UNCHANGED vars

SwapBegin ==
  /\ Resting /\ mapbase.order \in 0 .. 3
  /\ IF Starts = << >> THEN OtherScheme /\ UNCHANGED swap
     ELSE swap' = AtStart(1) /\ UNCHANGED mapbase
  /\ UNCHANGED map

\* Mutant of SwapMove: the value goes the other way.
SwapMoveBack ==
  /\ swap # << >>
  /\ \E inew \in { swapper(mapbase, swap.iold) } :
       /\ inew # swap.istart
       /\ map' = [map EXCEPT ![inew] = map[swap.iold]]
       /\ swap' = [swap EXCEPT !.iold = inew]
  /\ UNCHANGED << vars, mapbase >>

SwapMove ==
  /\ swap # << >>
  /\ \E inew \in { swapper(mapbase, swap.iold) } :
       /\ inew # swap.istart
       /\ map' = [map EXCEPT ![swap.iold] = map[inew]]
       /\ swap' = [swap EXCEPT !.iold = inew]
  /\ UNCHANGED << vars, mapbase >>

\* The cycle is closed with the value kept; the next one, or the end.
SwapClose ==
  /\ swap # << >> /\ swapper(mapbase, swap.iold) = swap.istart
  /\ map' = [map EXCEPT ![swap.iold] = swap.pixbuf]
  /\ IF swap.m < Len(Starts)
     THEN swap' = AtStart(swap.m + 1) /\ UNCHANGED mapbase
     ELSE swap' = << >> /\ OtherScheme
  /\ UNCHANGED vars

----------------------------------------------------------------------------
(* The copies.                                                             *)

\* Import_nograde by a map of the other scheme, which then takes the place of
\* the first: map[swapper(m)] = orig.map[m].
Import_nograde ==
  /\ Resting /\ mapbase.order >= 0
  /\ OtherScheme
  /\ LET to(m) == IF mapbase.scheme = "RING" THEN ring2nest(mapbase, m) ELSE nest2ring(mapbase, m)
     IN  map' = [ p \in Pixels(mapbase) |-> map[CHOOSE m \in Pixels(mapbase) : to(m) = p] ]
  /\ UNCHANGED swap

\* The places of a base with fact * nside that make up a place.
Parts(fact, at) ==
  { [ face |-> at.face, ix |-> i, iy |-> j ] :
      i \in fact * at.ix .. fact * (at.ix + 1) - 1, j \in fact * at.iy .. fact * (at.iy + 1) - 1 }

\* pix2xyf as a table.
PlaceOf(b) == [ p \in Pixels(b) |-> pix2xyf(b, p) ]

\* map[mypix] = orig.map[m] for all parts of pixel m; at are the places of the
\* finer base.
Import_upgrade(at, fact) ==
  [ p \in DOMAIN at |->
      map[xyf2pix(mapbase, [ at[p] EXCEPT !.ix = @ \div fact, !.iy = @ \div fact ])] ]

\* The mean of some values: stands for the value if they agree, and for the set
\* of them if not.
Mean(values) == IF Cardinality(values) = 1 THEN CHOOSE v \in values : TRUE ELSE values

\* The mean of the parts that have a value, if there are enough; at are the
\* places of the coarser base.
Import_degrade(orig, finer, at, fact, pessimistic) ==
  LET minhits == IF pessimistic THEN fact * fact ELSE 1
      hits(m) == { p \in Parts(fact, at[m]) : orig[xyf2pix(finer, p)] # Undef }
  IN  [ m \in DOMAIN at |->
          IF Cardinality(hits(m)) < minhits THEN Undef
          ELSE Mean({ orig[xyf2pix(finer, p)] : p \in hits(m) }) ]

\* To a finer map of either scheme and back.
ImportThereAndBack(fact, s, pessimistic) ==
  /\ Resting
  /\ s = "NEST" => nside2order(fact * mapbase.nside) >= 0
  /\ \E finer \in { SetNside(fact * mapbase.nside, s) } :
       \E there \in { PlaceOf(finer) }, here \in { PlaceOf(mapbase) } :
         \E orig \in { Import_upgrade(there, fact) } :
           map' = Import_degrade(orig, finer, here, fact, pessimistic)
  /\ UNCHANGED << mapbase, swap >>

----------------------------------------------------------------------------
MapNext ==
  \/ SwapBegin \/ SwapMove \/ SwapClose
  \/ Import_nograde
  \/ \E fact \in 2 .. 3, s \in { "RING", "NEST" }, pessimistic \in BOOLEAN :
       ImportThereAndBack(fact, s, pessimistic)
  \/ swap = << >> /\ Next /\ UNCHANGED mapvars

MapSpec == MapInit /\ [][MapNext]_<< vars, mapvars >>

\* Every value stays with its place: between calls the map holds at each pixel
\* number of its scheme the value measured there, whatever sequence of swaps
\* and copies it has been through, and while a swap moves values along its
\* cycles no value is lost: each is in the array or is the one kept.
MapKept ==
  \E measured \in { Measured } :
    IF swap = << >> THEN map = measured
    ELSE { map[p] : p \in Pixels(mapbase) } \cup { swap.pixbuf }
           = { measured[p] : p \in Pixels(mapbase) }

=============================================================================
