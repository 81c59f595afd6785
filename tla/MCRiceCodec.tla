----------------------------- MODULE MCRiceCodec ----------------------------
EXTENDS RiceCodec

\* Differences of every size, up to the ones that overflow the pixel.
MCBytes  == { -128, -100, -9, -1, 0, 1, 20, 127 }
MCShorts == { -32768, -300, -1, 0, 2, 9000, 32767 }

Lines(pixels, most) == UNION { [ 1 .. n -> pixels ] : n \in 1 .. most }

MCTiles ==
  [ bytepix : {1}, a : Lines(MCBytes, 4), nblock : {1, 3} ]
    \cup [ bytepix : {2}, a : Lines(MCShorts, 3), nblock : {2, 3} ]
    \cup [ bytepix : {1}, a : { [ k \in 1 .. 12 |-> (k * m) % 2^e ] : m \in 1 .. 31, e \in 1 .. 6 },
           nblock : {5} ]
    \cup [ bytepix : {2}, a : { [ k \in 1 .. 12 |-> (k * m * 37) % 2^e ] : m \in 1 .. 31, e \in 8 .. 15 },
           nblock : {4, 32} ]
=============================================================================
