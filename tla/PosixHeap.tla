----------------------------- MODULE PosixHeap -----------------------------
(***************************************************************************)
(* What common/libc/alloc.h promises of a heap: a block that is handed out    *)
(* overlaps no other, stays where it is until it is given back or moved by a  *)
(* realloc that grows it, and a realloc to a smaller size never moves it and  *)
(* never fails.                                                              *)
(***************************************************************************)
EXTENDS Integers

CONSTANTS
  Pointer,      \* what malloc may return, as offsets into the heap
  Sizes,        \* sizes the application asks for
  HeapBytes     \* the size of the heap

VARIABLE blocks \* the blocks handed out: their sizes, by pointer

Overlap(p, m, q, n) == p < q + n /\ q < p + m

\* p may become a block of n bytes, next to the blocks held.
Fits(p, n, held) ==
  /\ p + n <= HeapBytes
  /\ \A q \in DOMAIN held : q # p /\ ~Overlap(p, n, q, held[q])

Without(p) == [q \in DOMAIN blocks \ {p} |-> blocks[q]]
With(held, p, n) == [q \in DOMAIN held \union {p} |-> IF q = p THEN n ELSE held[q]]

Init == blocks = [p \in {} |-> 0]

Malloc(n) == \E p \in Pointer : Fits(p, n, blocks) /\ blocks' = With(blocks, p, n)

Free(p) == blocks' = Without(p)

\* A failure to grow leaves everything as it was.
Realloc(p, n) ==
  \/ n # 0 /\ n <= blocks[p] /\ blocks' = With(Without(p), p, n)
  \/ n > blocks[p] /\ \E q \in Pointer :
       Fits(q, n, Without(p)) /\ blocks' = With(Without(p), q, n)

Next ==
  \/ \E n \in Sizes : Malloc(n)
  \/ \E p \in DOMAIN blocks : Free(p)
  \/ \E p \in DOMAIN blocks, n \in Sizes : Realloc(p, n)

Spec == Init /\ [][Next]_blocks
=============================================================================
