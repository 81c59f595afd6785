---------------------------- MODULE MultidiscNest ---------------------------
(***************************************************************************)
(* Queries of several discs in the NEST scheme: query_multidisc, which     *)
(* returns what lies in all of them and which polygons are queried with,   *)
(* and query_multidisc_general, which combines them by commands in postfix *)
(* order (Healpix_cxx/healpix_base.cc).  Their walk is the one of          *)
(* DiscQueryNest; only the zone of a pixel is found in another way, from   *)
(* its zone in each of the discs.  A query here is a disc of DiscQueryNest *)
(* (the region that is asked for) with two more fields:                    *)
(*   parts   the discs: what each touches, of order OrderMax, the part of  *)
(*           that, core, in which centres of pixels count as contained,    *)
(*           and its central pixel, if there is one (PartZones)            *)
(*   cmds    the commands: i >= 0 for disc i, -1 for union, -2 for         *)
(*           intersection; none in a query_multidisc                       *)
(***************************************************************************)
EXTENDS DiscQueryNest

Several == "parts" \in DOMAIN disc

\* The finest pixel that the centre of a pixel is a corner of.
Mid(pix, o) == pix * 4^(OrderMax - o) + 4^(OrderMax - o) \div 2

\* What a command leaves on the stack s, when each disc is Value(i).
Command(s, cmd, Value(_), Union(_, _), Common(_, _)) ==
  LET back == SubSeq(s, 1, Len(s) - 2)
      x    == s[Len(s) - 1]
      tmp  == s[Len(s)]
  IN  IF cmd = -1 THEN Append(back, Union(x, tmp))
      ELSE IF cmd = -2 THEN Append(back, Common(x, tmp))
      ELSE Append(s, Value(cmd))

\* The regions that the commands ask for, each touched and core like a disc, with
\* the central pixels of all their discs.
Both(x, y)   == [ touched |-> x.touched \cup y.touched, core |-> x.core \cup y.core,
                  central |-> x.central \cup y.central ]
Shared(x, y) == [ touched |-> x.touched \cap y.touched, core |-> x.core \cap y.core,
                  central |-> x.central \cup y.central ]
Regions(d) ==
  LET rstk[i \in 0 .. Len(d.cmds)] ==
        IF i = 0 THEN << >>
        ELSE Command(rstk[i-1], d.cmds[i], LAMBDA k : d.parts[k+1], Both, Shared)
  IN  rstk

\* The region of the query: the one that is left, or that in all discs.
Region(d) ==
  IF d.cmds # << >> THEN Regions(d)[Len(d.cmds)][1]
  ELSE [ touched |-> { p \in PixelsAt(OrderMax) : \A i \in 1 .. Len(d.parts) : p \in d.parts[i].touched },
         core    |-> { p \in PixelsAt(OrderMax) : \A i \in 1 .. Len(d.parts) : p \in d.parts[i].core },
         central |-> UNION { d.parts[i].central : i \in 1 .. Len(d.parts) } ]

\* A command that combines two discs finds them on the stack.
ConsistentCommands(d) ==
  /\ \A i \in 1 .. Len(d.cmds) :
       /\ d.cmds[i] \in -2 .. Len(d.parts) - 1
       /\ d.cmds[i] < 0 => Len(Regions(d)[i-1]) >= 2
  /\ d.cmds # << >> => Len(Regions(d)[Len(d.cmds)]) = 1

ASSUME SeveralAssumption ==
  \A d \in Discs : "parts" \in DOMAIN d =>
    /\ ~d.wide /\ d.blind = {}
    /\ d.parts \in Seq([ touched : SUBSET PixelsAt(OrderMax), core : SUBSET PixelsAt(OrderMax),
                         central : SUBSET [ pix : Nat, o : 0 .. OrderMax ] ])
    /\ Len(d.parts) > 0 /\ d.cmds \in Seq(Int) /\ ConsistentCommands(d)
    /\ \A i \in 1 .. Len(d.parts) :
         /\ d.parts[i].core \subseteq d.parts[i].touched
         /\ \A e \in d.parts[i].central : Mid(e.pix, e.o) \in d.parts[i].core
    /\ d.touched = Region(d).touched /\ d.pinned = Region(d).central
    /\ d.centres = { p \in PixelsAt(Order) : Mid(p, Order) \in Region(d).core }

\* The zones of a pixel in one disc: crad<crlimit(o,i,iz) for iz below the zone.
\* At each order zone 2 begins at the radius itself, 1 and 3 have a margin.  The
\* margin of 3 ends at the disc's own centre: where the radius is below it,
\* crlimit(o,i,2) is 1, and so is crad of the central pixel, which is centred there.
PartZones(part, pix, o) ==
  LET pixels  == Descendants(pix, o, OrderMax)
      centres == IF o <= Order THEN Descendants(pix, o, Order) ELSE {}
  IN  { z \in 0 .. 3 :
          /\ z = 0 => pixels \cap part.touched = {}
          /\ z >= 2 <=> Mid(pix, o) \in part.core
          /\ z = 3 => \/ /\ pixels \subseteq part.touched
                         /\ \A p \in centres : Mid(p, Order) \in part.core
                      \/ [ pix |-> pix, o |-> o ] \in part.central }

MaxZone(a, b)  == IF a > b THEN a ELSE b
MinZone(a, b) == IF a < b THEN a ELSE b

\* Mutant of Commands: a union takes the smaller zone, too.
CommandsMeet(zone) ==
  LET zstk[i \in 0 .. Len(disc.cmds)] ==
        IF i = 0 THEN << >>
        ELSE Command(zstk[i-1], disc.cmds[i], LAMBDA k : zone[k+1], MinZone, MinZone)
  IN  zstk[Len(disc.cmds)]

\* zstk after the commands.
Commands(zone) ==
  LET zstk[i \in 0 .. Len(disc.cmds)] ==
        IF i = 0 THEN << >>
        ELSE Command(zstk[i-1], disc.cmds[i], LAMBDA k : zone[k+1], MaxZone, MinZone)
  IN  zstk[Len(disc.cmds)]

\* The zone in all discs: the smallest, with a bailout at 0.
InAll(zone) == CHOOSE z \in 0 .. 3 : /\ \A i \in DOMAIN zone : z <= zone[i]
                                     /\ \E i \in DOMAIN zone : z = zone[i]

\* What the stack of zones may be when pixel pix of order o is looked at.
ZoneStacks(pix, o) ==
  LET zones == { zone \in [ 1 .. Len(disc.parts) -> 0 .. 3 ] :
                   \A i \in 1 .. Len(disc.parts) :
                     zone[i] \in PartZones(disc.parts[i], pix, o) }
  IN  { IF disc.cmds = << >> THEN << InAll(zone) >> ELSE Commands(zone) : zone \in zones }

\* Wherever the walk is, the commands leave one zone ("inconsistent commands"),
\* and it is one that a single disc of the same extent could have there, the
\* margins of all discs taken together: a query of several discs takes no walk
\* but those of DiscQueryNest, and what is shown of them holds of it.
SeveralAsOne ==
  Several /\ status = "walking" /\ stk # << >> =>
    \A zstk \in ZoneStacks(top.pix, top.o) :
      Len(zstk) = 1 /\ zstk[1] \in Zones(top.pix, top.o)

=============================================================================
