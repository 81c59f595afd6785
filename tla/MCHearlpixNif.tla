---------------------------- MODULE MCHearlpixNif ---------------------------
EXTENDS HearlpixNif, TLC

\* An int of 6 bits is in -32 .. 31 and an int64 of 9 bits in -256 .. 255: 192 is
\* narrowed to 0 as an order, is too wide for a step, and is a npix (of nside 4);
\* 256 does not fit in an int64.
MCNumbers == { -1, 29, 192, 256 }

\* Processes are alike, and so are resources.
Alike == Permutations(Processes) \cup Permutations(Handles)

=============================================================================
