---------------------------- MODULE DiscQueryNest ---------------------------
(***************************************************************************)
(* T_Healpix_Base::query_disc and query_disc_inclusive in the NEST scheme  *)
(* (Healpix_cxx/healpix_base.cc: query_disc_internal and check_pixel).     *)
(*                                                                         *)
(* The sphere is a forest: NBase base pixels of order 0, and pixel pix of  *)
(* order o has the children 4*pix .. 4*pix+3 of order o+1.  The query      *)
(* walks the forest depth first with an explicit stack, classifies each    *)
(* pixel against the disc (its "zone") and appends what belongs to the     *)
(* answer, pixels of order Order, to a rangeset.  An inclusive query looks *)
(* below Order, down to omax = Order + log2(fact), for the first           *)
(* descendant that overlaps the disc; having found one it outputs the      *)
(* ancestor and unwinds the stack to where it stood at that ancestor.      *)
(*                                                                         *)
(* The trigonometry is abstracted to what it decides.  A disc is the set   *)
(* of pixels of order OrderMax that it touches, the set of pixels of order *)
(* Order whose centres it contains, the set of its blind pixels, which the *)
(* first comparison leaves out by mistake, and, when it stands for several *)
(* discs (MultidiscNest), the set of its pinned pixels, which the last     *)
(* comparison takes whole by mistake; the zone of each other pixel visited *)
(* is chosen freely among those the comparisons with crpdr, cosrad and     *)
(* crmdr can yield for such a disc.                                        *)
(***************************************************************************)
EXTENDS Rangeset, FiniteSets

CONSTANTS
  NBase,      \* number of base pixels: 12
  OrderMax,   \* the highest order supported: order_max, 29
  Order,      \* the order of the map queried: order_
  Facts,      \* the values passed as fact; 0 is the strict query
  Discs       \* the discs queried

PixelsAt(o) == 0 .. NBase * 4^o - 1

\* The pixels of order `to` that pixel pix of order o consists of, o <= to.
Descendants(pix, o, to) == pix * 4^(to - o) .. (pix + 1) * 4^(to - o) - 1

\* The pixel of order Order that pixel pix of order o >= Order lies in.
Ancestor(pix, o) == pix \div 4^(o - Order)

\* A disc that contains the centre of a pixel touches that pixel.  A blind
\* pixel of order o is centred opposite the disc's own centre while the
\* radius plus the safety distance of order o exceeds pi.  A pinned pixel of order
\* o is centred on the centre of one of several discs, whose radius is below the
\* safety distance; it has none in a query_disc, which compares with <=.
IsDisc(d) ==
  /\ d.touched \subseteq PixelsAt(OrderMax)
  /\ d.centres \subseteq PixelsAt(Order)
  /\ \A p \in d.centres : Descendants(p, Order, OrderMax) \cap d.touched # {}
  /\ d.blind \subseteq [ pix : Nat, o : 0 .. OrderMax ]
  /\ \A e \in d.blind : e.o = Order => e.pix \notin d.centres
  /\ d.pinned \subseteq [ pix : Nat, o : 0 .. OrderMax ]
  /\ d.wide \in BOOLEAN
  /\ d.wide => d.touched = PixelsAt(OrderMax) /\ d.centres = PixelsAt(Order)

ASSUME ConstantsAssumption ==
  /\ NBase \in Nat \ {0}
  /\ OrderMax \in Nat
  /\ Order \in 0 .. OrderMax
  /\ Facts \subseteq Int
  /\ \A d \in Discs : IsDisc(d)

\* What the proofs use of ^ .
ASSUME PowersOf4 ==
  \A k \in 0 .. OrderMax : 4^k \in Nat \ {0} /\ 4^(k+1) = 4 * 4^k

VARIABLES
  disc,       \* the disc queried; wide when its radius is >= pi
  fact,       \* the oversampling factor
  omax,       \* the order up to which the query tests
  stk,        \* pixels still to be looked at, the next one last
  stacktop,   \* a place to save a stack position
  pixset,     \* the answer, a vector of boundaries
  status      \* "called", "walking", "returned" or "threw"

vars == << disc, fact, omax, stk, stacktop, pixset, status >>

inclusive == fact # 0

----------------------------------------------------------------------------
(* Starting the query.                                                     *)

Init ==
  /\ disc \in Discs
  /\ fact \in Facts
  /\ omax = Order
  /\ stk = << >>
  /\ stacktop = 0
  /\ pixset = << >>
  /\ status = "called"

\* fact>0, (I(1)<<(order_max-order_))>=fact, (fact&(fact-1))==0
FactAllowed ==
  inclusive => \E k \in 0 .. OrderMax - Order : fact = 2^k

\* radius>=pi: disk covers the whole sphere.  (query_disc_inclusive has
\* asserted fact>0 before, the other two assertions come after.)
CoverSphere ==
  /\ status = "called" /\ fact >= 0 /\ disc.wide
  /\ pixset' = append(pixset, 0, NBase * 4^Order)
  /\ status' = "returned"
  /\ UNCHANGED << disc, fact, omax, stk, stacktop >>

RejectFact ==
  /\ status = "called" /\ ~FactAllowed
  /\ fact < 0 \/ ~disc.wide
  /\ status' = "threw"
  /\ UNCHANGED << disc, fact, omax, stk, stacktop, pixset >>

\* Mutant of PushBasePixels: the factor itself in place of its logarithm.
PushBasePixelsAddsFact ==
  /\ status = "called" /\ FactAllowed /\ ~disc.wide
  /\ omax' = Order + fact
  /\ stk' = [ i \in 1 .. NBase |-> [ pix |-> NBase - i, o |-> 0 ] ]
  /\ status' = "walking"
  /\ UNCHANGED << disc, fact, stacktop, pixset >>

\* The base pixels in reverse order, so that 0 is on top.
PushBasePixels ==
  /\ status = "called" /\ FactAllowed /\ ~disc.wide
  /\ omax' = IF inclusive
             THEN Order + (CHOOSE k \in 0 .. OrderMax - Order : fact = 2^k)
             ELSE Order
  /\ stk' = [ i \in 1 .. NBase |-> [ pix |-> NBase - i, o |-> 0 ] ]
  /\ status' = "walking"
  /\ UNCHANGED << disc, fact, stacktop, pixset >>

----------------------------------------------------------------------------
(* The walk: one turn of while (!stk.empty()).                             *)

top  == stk[Len(stk)]
rest == SubSeq(stk, 1, Len(stk) - 1)

(* The zones a pixel of order o may be given:                              *)
(*   0  no part of it is in the disc                                       *)
(*   1  its centre is outside the disc                                     *)
(*   2  its centre is inside the disc                                      *)
(*   3  all of it is inside the disc                                       *)
(* 0 and 3 are decided with a safety margin, so a pixel outside may be     *)
(* given 1, and one inside may be given 2.  A blind pixel is given 0: its  *)
(* cangdist is -1, and so is crpdr[o], which it has to exceed.  A pinned   *)
(* pixel may be given 3: its crad is 1, and so is the crlimit it must not  *)
(* be below.                                                               *)
Zones(pix, o) ==
  LET parts   == Descendants(pix, o, OrderMax)
      centres == IF o <= Order THEN Descendants(pix, o, Order) ELSE {}
      touches == parts \cap disc.touched # {}
  IN  IF [ pix |-> pix, o |-> o ] \in disc.blind THEN { 0 } ELSE
      { z \in 0 .. 3 :
          /\ z = 0 => ~touches
          /\ z >= 2 => touches
          /\ z = 3 => \/ parts \subseteq disc.touched /\ centres \subseteq disc.centres
                      \/ [ pix |-> pix, o |-> o ] \in disc.pinned
          /\ o = Order => (z >= 2 <=> pix \in disc.centres) }

\* Mutant of push: the children in forward order.
pushForward(s, pix, o) ==
  s \o [ i \in 1 .. 4 |-> [ pix |-> 4 * pix + i - 1, o |-> o + 1 ] ]

\* Four children in reverse order, so that the first is on top.
push(s, pix, o) ==
  s \o [ i \in 1 .. 4 |-> [ pix |-> 4 * pix + 4 - i, o |-> o + 1 ] ]

\* stk.resize(n): drops entries, or makes up new ones of value 0.
resize(s, n) ==
  IF n <= Len(s) THEN SubSeq(s, 1, n)
  ELSE s \o [ i \in 1 .. n - Len(s) |-> [ pix |-> 0, o |-> 0 ] ]

\* pixset.append(v1,v2), which may throw.
Output(v1, v2) ==
  IF appendAssert(pixset, v1, v2)
  THEN pixset' = append(pixset, v1, v2) /\ UNCHANGED status
  ELSE status' = "threw" /\ UNCHANGED pixset

Looking == status = "walking" /\ stk # << >> /\ UNCHANGED << disc, fact, omax >>

InZone(zones) == Zones(top.pix, top.o) \cap zones # {}

SkipOutside ==
  /\ Looking /\ InZone({0})
  /\ stk' = rest
  /\ UNCHANGED << stacktop, pixset, status >>

\* Mutant of OutputSubpixels: zone>=2 in place of zone>=3.
OutputSubpixelsZone2 ==
  /\ Looking /\ top.o < Order /\ InZone({2, 3})
  /\ Output(top.pix * 4^(Order - top.o), (top.pix + 1) * 4^(Order - top.o))
  /\ stk' = rest
  /\ UNCHANGED stacktop

\* Above Order, completely inside: output all subpixels.
OutputSubpixels ==
  /\ Looking /\ top.o < Order /\ InZone({3})
  /\ Output(top.pix * 4^(Order - top.o), (top.pix + 1) * 4^(Order - top.o))
  /\ stk' = rest
  /\ UNCHANGED stacktop

\* Mutant of AddChildren: the pixel itself stays on the stack.
AddChildrenKeepsPixel ==
  /\ Looking /\ top.o < Order /\ InZone({1, 2})
  /\ stk' = push(stk, top.pix, top.o)
  /\ UNCHANGED << stacktop, pixset, status >>

\* Above Order, not decided: add children.
AddChildren ==
  /\ Looking /\ top.o < Order /\ InZone({1, 2})
  /\ stk' = push(rest, top.pix, top.o)
  /\ UNCHANGED << stacktop, pixset, status >>

\* Mutant of OutputPixel: the entry is looked at without being popped.
OutputPixelKeepsPixel ==
  /\ Looking /\ top.o = Order
  /\ InZone({2, 3}) \/ (InZone({1}) /\ inclusive /\ Order >= omax)
  /\ Output(top.pix, top.pix + 1)
  /\ UNCHANGED << stk, stacktop >>

\* At Order, centre inside, or nothing finer to test it with.
OutputPixel ==
  /\ Looking /\ top.o = Order
  /\ InZone({2, 3}) \/ (InZone({1}) /\ inclusive /\ Order >= omax)
  /\ Output(top.pix, top.pix + 1)
  /\ stk' = rest
  /\ UNCHANGED stacktop

\* Mutant of SkipPixel: inclusive queries skip the pixel, too.
SkipPixelAlways ==
  /\ Looking /\ top.o = Order /\ InZone({1})
  /\ stk' = rest
  /\ UNCHANGED << stacktop, pixset, status >>

\* At Order, centre outside, strict query.
SkipPixel ==
  /\ Looking /\ top.o = Order /\ InZone({1}) /\ ~inclusive
  /\ stk' = rest
  /\ UNCHANGED << stacktop, pixset, status >>

\* Mutant of EnterSublevels: the stack position is not saved.
EnterSublevelsForgetsTop ==
  /\ Looking /\ top.o = Order /\ InZone({1}) /\ inclusive /\ Order < omax
  /\ stk' = push(rest, top.pix, top.o)
  /\ UNCHANGED << stacktop, pixset, status >>

\* At Order, centre outside: check sublevels, remember the stack position.
EnterSublevels ==
  /\ Looking /\ top.o = Order /\ InZone({1}) /\ inclusive /\ Order < omax
  /\ stacktop' = Len(rest)
  /\ stk' = push(rest, top.pix, top.o)
  /\ UNCHANGED << pixset, status >>

\* Below Order, centre in the safety range: check further sublevels.
AddSubchildren ==
  /\ Looking /\ top.o > Order /\ InZone({1}) /\ top.o < omax
  /\ stk' = push(rest, top.pix, top.o)
  /\ UNCHANGED << stacktop, pixset, status >>

\* Below Order, centre inside or resolution limit reached: output the
\* ancestor at Order and unwind the stack.
OutputAncestor ==
  /\ Looking /\ top.o > Order
  /\ InZone({2, 3}) \/ (InZone({1}) /\ top.o >= omax)
  /\ Output(Ancestor(top.pix, top.o), Ancestor(top.pix, top.o) + 1)
  /\ stk' = resize(rest, stacktop)
  /\ UNCHANGED stacktop

Return ==
  /\ status = "walking" /\ stk = << >>
  /\ status' = "returned"
  /\ UNCHANGED << disc, fact, omax, stk, stacktop, pixset >>

Query == CoverSphere \/ RejectFact \/ PushBasePixels \/ Return
Walk  == \/ SkipOutside \/ OutputSubpixels \/ AddChildren \/ OutputPixel
         \/ SkipPixel \/ EnterSublevels \/ AddSubchildren \/ OutputAncestor

\* The call has returned or thrown: nothing more happens.
Finished == status \in {"returned", "threw"} /\ UNCHANGED vars

Next == Query \/ Walk \/ Finished

Spec == Init /\ [][Next]_vars /\ WF_vars(Query \/ Walk)

----------------------------------------------------------------------------
(* Properties.                                                             *)

\* The types of the variables.
Entries == [ pix : Nat, o : 0 .. OrderMax ]

TypeOK ==
  /\ IsDisc(disc)
  /\ fact \in Facts
  /\ omax \in Order .. OrderMax
  /\ stk \in Seq(Entries)
  /\ stacktop \in Nat
  /\ pixset \in Seq(Nat)
  /\ status \in {"called", "walking", "returned", "threw"}

\* "reserve maximum size to avoid reallocation": the stack never holds more
\* than the 12+3*omax entries it reserved.
StackBounded == Len(stk) <= NBase + 3 * omax

\* Pixels are output in ascending order, however the walk descends and
\* unwinds: the "bad append operation" assertion is never hit.  Only an
\* oversampling factor that is not allowed throws.
OnlyBadFactThrows == status = "threw" => ~FactAllowed

\* The answer has no empty, overlapping or touching ranges, so toVector
\* lists each pixel once, in ascending order.
AnswerCanonical == Canonical(pixset)

\* The first pixel of order Order that an entry of the stack can lead to the
\* output of, and the one after the last.
First(e) ==
  IF e.o <= Order THEN e.pix * 4^(Order - e.o) ELSE Ancestor(e.pix, e.o)
Beyond(e) ==
  IF e.o <= Order THEN (e.pix + 1) * 4^(Order - e.o) ELSE Ancestor(e.pix, e.o) + 1

\* From the bottom of the stack to its top, orders rise and pixels fall, one
\* level deeper for every three entries; two entries that lead to the same
\* pixel are both below Order.
StackInv ==
  /\ \A i \in 1 .. Len(stk) : stk[i].o <= omax /\ i <= NBase + 3 * stk[i].o
  /\ \A i, j \in 1 .. Len(stk) : i < j =>
       /\ stk[i].o <= stk[j].o
       /\ \/ Beyond(stk[j]) <= First(stk[i])
          \/ stk[i].o > Order /\ First(stk[i]) = First(stk[j])

\* While the walk is below Order, the entries above the saved position are
\* the ones below Order, and all of them are below the same pixel.
SavedInv ==
  \A j \in 1 .. Len(stk) : stk[j].o > Order =>
    /\ stacktop < j
    /\ \A i \in stacktop + 1 .. Len(stk) :
         stk[i].o > Order /\ First(stk[i]) = First(stk[j])

\* What was output lies before what is left to do.
OutputInv ==
  /\ Canonical(pixset)
  /\ \A i \in 1 .. Len(stk) : pixset # << >> => Last(pixset) <= First(stk[i])

StatusInv ==
  /\ status = "called" => stk = << >> /\ pixset = << >>
  /\ status = "walking" => FactAllowed
  /\ status = "threw" => ~FactAllowed

\* Together they are inductive.
Inv == TypeOK /\ StackInv /\ SavedInv /\ OutputInv /\ StatusInv

\* What the disc touches and the centres it contains, outside blind pixels.
Seen ==
  { f \in disc.touched :
      \A e \in disc.blind : f \notin Descendants(e.pix, e.o, OrderMax) }
SeenCentres ==
  { p \in disc.centres :
      \A e \in disc.blind : e.o <= Order => p \notin Descendants(e.pix, e.o, Order) }

\* What a strict query may return: pixels whose centres the disc contains, and the
\* subpixels of pinned pixels above Order.
Wanted ==
  disc.centres \cup
    UNION { Descendants(e.pix, e.o, Order) : e \in { f \in disc.pinned : f.o < Order } }

\* A strict query returns the pixels whose centres the disc contains: no
\* other pixel but those in pinned pixels, and all of them but those in blind
\* pixels.
StrictExact ==
  status = "returned" /\ ~inclusive =>
    SeenCentres \subseteq Elements(pixset) /\ Elements(pixset) \subseteq Wanted

\* An inclusive query misses no pixel that overlaps the disc outside blind
\* pixels: what the unwinding throws away had nothing to add.
Touched == { p \in PixelsAt(Order) : Descendants(p, Order, OrderMax) \cap Seen # {} }

InclusiveComplete ==
  status = "returned" /\ inclusive => Touched \subseteq Elements(pixset)

\* What the comment on query_disc says: "Returns the range set of all pixels
\* whose centers lie within the disk".
DiscAsDocumented ==
  status = "returned" /\ ~inclusive => Elements(pixset) = disc.centres

\* Does entry e of the stack lead to pixel p of order Order?
Covers(e, p) == First(e) <= p /\ p < Beyond(e)

\* In a strict query under way, only pixels whose centres are in the disc or
\* that are in pinned ones have been output, and every one seen that has not is still to be reached from
\* the stack.
Strict == status = "walking" /\ ~inclusive

StrictInv ==
  Strict =>
    /\ omax = Order
    /\ Elements(pixset) \subseteq Wanted
    /\ \A p \in SeenCentres :
         p \in Elements(pixset) \/ \E i \in 1 .. Len(stk) : Covers(stk[i], p)

\* In an inclusive query under way, every finest pixel seen to be touched
\* either lies in a pixel that has been output or below an entry of the stack.
Inclusive == status = "walking" /\ inclusive

InclusiveInv ==
  Inclusive =>
    \A f \in Seen :
      \/ f \div 4^(OrderMax - Order) \in Elements(pixset)
      \/ \E i \in 1 .. Len(stk) : f \in Descendants(stk[i].pix, stk[i].o, OrderMax)

\* Nothing is lost on the way.
CoverInv == StrictInv /\ InclusiveInv

\* Unwinding drops only pixels below the one just output: every entry that
\* leaves the stack unseen is a descendant of it.
UnwindsOwnSubtree ==
  [][ \A i \in Len(stk') + 1 .. Len(stk) - 1 :
        /\ stk[i].o > Order
        /\ Ancestor(stk[i].pix, stk[i].o) \in Elements(pixset') ]_vars

\* The query ends.
Terminates == <>(status \in {"returned", "threw"})

=============================================================================
