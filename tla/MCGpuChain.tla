----------------------------- MODULE MCGpuChain -----------------------------
\* Tables t and u, the smallest of the big fragments and an oversized one.
EXTENDS GpuChain
CONSTANTS t, u, big, over, own, end
MCWords ==
  [n \in Node \union {Own} |->
    CASE n = big -> 15 [] n = over -> 320 [] n = own -> 2 [] OTHER -> 0]
=============================================================================
