--------------------------- MODULE MCDiscQueryNest --------------------------
EXTENDS MultidiscNest

MCNBase    == 2
MCOrderMax == 3
MCOrder    == 1
MCFacts    == {-1, 0, 1, 2, 3, 4}

\* The pixels that a set of pixels of order OrderMax overlaps at order Order.
Over(touched) == { f \div 4^(OrderMax - Order) : f \in touched }

\* What the disc touches: one or two pixels, or a run of pixels, with ends at
\* the first, an inner and the last child of some pixel of order Order.
Ends == { 0, 30, 31, 64, 85, 127 }
MCTouched ==
  { {} } \cup { { x, y } : x, y \in Ends } \cup { x .. y : x, y \in Ends }

\* Discs that cover all but a little of the sphere, and the pixel opposite
\* their centre: a base pixel, a pixel of order Order, or a finer one.
MCOpposite ==
  { [ touched |-> PixelsAt(OrderMax) \ { 95, 96 }, centres |-> c, wide |-> FALSE,
      blind |-> { e }, pinned |-> {} ] :
      c \in { PixelsAt(Order), PixelsAt(Order) \ { 5 }, { 4 } },
      e \in { [ pix |-> 1, o |-> 0 ], [ pix |-> 5, o |-> 1 ], [ pix |-> 23, o |-> 2 ] } }

\* Several discs: runs of pixels, whose cores are one or two pixels shorter at
\* both ends, what is asked for of them and the commands that ask for it.
Run(x, y, margin) ==
  [ touched |-> x .. y, core |-> x + margin .. y - margin, central |-> {} ]
MCParts == << Run(3, 75, 1), Run(31, 100, 2), Run(60, 127, 0) >>

\* A small disc centred on the centre of a pixel.
Spot(pix, o) ==
  [ Run(Mid(pix, o) - 2, Mid(pix, o) + 1, 1) EXCEPT !.central = { [ pix |-> pix, o |-> o ] } ]

AskOf(parts, Of(_, _, _), cmds) ==
  LET of(f) == Of(parts[1][f], parts[2][f], parts[3][f])
  IN  [ touched |-> of("touched"), wide |-> FALSE, blind |-> {},
        pinned |-> UNION { parts[i].central : i \in 1 .. 3 },
        centres |-> { p \in PixelsAt(Order) : Mid(p, Order) \in of("core") },
        parts |-> parts, cmds |-> cmds ]
Ask(Of(_, _, _), cmds) == AskOf(MCParts, Of, cmds)

MCSeveral ==
  { Ask(LAMBDA a, b, c : a \cap b \cap c,     << >>),
    Ask(LAMBDA a, b, c : (a \cup b) \cap c,   << 0, 1, -1, 2, -2 >>),
    Ask(LAMBDA a, b, c : (a \cap c) \cup b,   << 1, 0, 2, -2, -1 >>),
    Ask(LAMBDA a, b, c : (a \cup c) \cap b,   << 0, 1, -2, 1, 2, -2, -1 >>) }
  \cup { AskOf(<< Spot(pix, o), Run(3, 75, 1), Run(0, 127, 0) >>,
               LAMBDA a, b, c : (a \cup b) \cap c, << 0, 1, -1, 2, -2 >>) :
            pix \in { 1 }, o \in { 0, 1, 2 } }
  \cup { AskOf(<< Spot(0, 0), Run(0, 75, 1), Run(0, 127, 0) >>,
               LAMBDA a, b, c : a \cap b \cap c, << >>) }

MCDiscs ==
  UNION { { [ touched |-> t, centres |-> c, wide |-> FALSE, blind |-> {}, pinned |-> {} ] :
              c \in SUBSET Over(t) } : t \in MCTouched }
  \cup { d \in MCOpposite : IsDisc(d) }
  \cup MCSeveral
  \cup { [ touched |-> PixelsAt(OrderMax), centres |-> PixelsAt(Order), wide |-> TRUE,
           blind |-> {}, pinned |-> {} ] }

=============================================================================
