--------------------------- MODULE MCRangesetCalls --------------------------
EXTENDS RangesetCalls

MCValues == 0 .. 4

\* All ordered vectors of up to two ranges over the values, the degenerate ones
\* with empty and touching ranges included.
MCOthers ==
  { s \in UNION { [1 .. n -> MCValues] : n \in {0, 2, 4} } : Ordered(s) }

\* No action depends on the call that was made last.
Object == << r, u >>

=============================================================================
