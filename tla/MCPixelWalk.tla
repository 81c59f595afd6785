----------------------------- MODULE MCPixelWalk ----------------------------
EXTENDS HealpixMap

MCOrders == 0 .. 2

\* 3 and 5: bases without an order.  2: the same base as Set(1, RING).
MCNsides == { 2, 3, 5 }

=============================================================================
