----------------------------- MODULE HeapAlloc -----------------------------
(***************************************************************************)
(* The allocator of common/libc/alloc.c, in units of one empty_block: the     *)
(* list of the empty blocks, linked in the order of their addresses, and the  *)
(* size each allocated block keeps before its pointer.  The list is a         *)
(* sequence here; its end is the marker, so a full heap is the empty list.    *)
(***************************************************************************)
EXTENDS Integers, Sequences, SequencesExt, FiniteSets

CONSTANTS
  Unit,         \* sizeof(empty_block), which is also the alignment
  Total,        \* units in the heap
  Sizes         \* bytes the application asks for

ASSUME HeapAssumption ==
  /\ Unit \in Nat \ {0} /\ Total \in Nat \ {0}
  /\ Sizes \subseteq Nat

VARIABLES
  started,      \* the heap has been initialised: head is not NULL
  free,         \* the empty blocks, from head
  size,         \* the size field of the allocated blocks, by address
  asked         \* the bytes that were asked for, by address

vars == <<started, free, size, asked>>

Units == 0 .. Total - 1
Block(at, length) == [at |-> at, size |-> length]
End(b) == b.at + b.size

TypeOK ==
  /\ started \in BOOLEAN
  /\ \A i \in DOMAIN free : free[i].at \in Units /\ free[i].size \in 1 .. Total
  /\ DOMAIN size \subseteq Units /\ \A p \in DOMAIN size : size[p] \in 1 .. Total
  /\ DOMAIN asked = DOMAIN size
  /\ \A p \in DOMAIN asked : asked[p] \in Sizes

Init ==
  /\ started = FALSE /\ free = << >>
  /\ size = [p \in {} |-> 0] /\ asked = [p \in {} |-> 0]

\* ALIGN_TO(bytes + sizeof(allocated_block)), in units.
UnitsFor(bytes) == (bytes + Unit + Unit - 1) \div Unit

\* The list, initialised by the first malloc.
List == IF started THEN free ELSE <<Block(0, Total)>>

\* The walk: the first of the smallest blocks that are big enough.
Fitting(list, n) == {i \in DOMAIN list : list[i].size >= n}
BestFit(list, n) ==
  CHOOSE i \in Fitting(list, n) : \A j \in Fitting(list, n) :
    list[i].size < list[j].size \/ (list[i].size = list[j].size /\ i <= j)

\* The first n units of an empty block are taken: it goes, or its rest replaces it.
Take(list, i, n) ==
  IF list[i].size = n THEN RemoveAt(list, i)
  ELSE [list EXCEPT ![i] = Block(@.at + n, @.size - n)]

\* How many empty blocks are before p: where the walks of free and realloc stop.
Before(list, p) == Cardinality({i \in DOMAIN list : list[i].at < p})

\* Mutant of Release: a block joins the one after it only.
ReleaseForward(list, b) ==
  LET i == Before(list, b.at)
      right == i < Len(list) /\ End(b) = list[i + 1].at
      end == IF right THEN End(list[i + 1]) ELSE End(b)
  IN  SubSeq(list, 1, i) \o <<Block(b.at, end - b.at)>>
      \o SubSeq(list, IF right THEN i + 2 ELSE i + 1, Len(list))

\* A block goes back in the list, and joins those it touches.
Release(list, b) ==
  LET i == Before(list, b.at)
      left == i > 0 /\ End(list[i]) = b.at
      right == i < Len(list) /\ End(b) = list[i + 1].at
      at == IF left THEN list[i].at ELSE b.at
      end == IF right THEN End(list[i + 1]) ELSE End(b)
  IN  SubSeq(list, 1, IF left THEN i - 1 ELSE i) \o <<Block(at, end - at)>>
      \o SubSeq(list, IF right THEN i + 2 ELSE i + 1, Len(list))

\* The tail of a block that shrinks is put in the list, p being where the block
\* is. Below the head, the end of the block as it will be is compared.
Shrink(list, p, old, n) ==
  LET i == Before(list, p)
      joins == i < Len(list) /\ list[i + 1].at = (IF i = 0 THEN p + n ELSE p + old)
      end == IF joins THEN End(list[i + 1]) ELSE p + old
  IN  SubSeq(list, 1, i) \o <<Block(p + n, end - (p + n))>>
      \o SubSeq(list, IF joins THEN i + 2 ELSE i + 1, Len(list))

\* Mutant of Growable: the size of the next empty block is not looked at.
GrowableAlways(p, n) ==
  LET i == Before(free, p) IN i < Len(free) /\ p + size[p] = free[i + 1].at

\* The block can grow where it is, into the empty block it touches.
Growable(p, n) ==
  LET i == Before(free, p) IN
    /\ i < Len(free) /\ p + size[p] = free[i + 1].at
    /\ free[i + 1].size >= n - size[p]

Without(f, p) == [q \in DOMAIN f \ {p} |-> f[q]]
With(f, p, v) == [q \in DOMAIN f \union {p} |-> IF q = p THEN v ELSE f[q]]

\* libc_malloc.
Malloc(bytes) ==
  LET n == UnitsFor(bytes) IN
    /\ started' = TRUE
    /\ IF Fitting(List, n) = {} THEN free' = List /\ UNCHANGED <<size, asked>>
       ELSE LET i == BestFit(List, n) IN
              /\ free' = Take(List, i, n)
              /\ size' = With(size, List[i].at, n)
              /\ asked' = With(asked, List[i].at, bytes)

\* libc_free.
Free(p) ==
  /\ free' = Release(free, Block(p, size[p]))
  /\ size' = Without(size, p) /\ asked' = Without(asked, p)
  /\ UNCHANGED started

Resize(p, n, bytes) == size' = With(size, p, n) /\ asked' = With(asked, p, bytes)

\* The last recourse of libc_realloc: malloc, memcpy and free.
Move(p, n, bytes) ==
  IF Fitting(free, n) = {} THEN UNCHANGED <<free, size, asked>>
  ELSE LET i == BestFit(free, n)
           q == free[i].at
       IN  /\ free' = Release(Take(free, i, n), Block(p, size[p]))
           /\ size' = With(Without(size, p), q, n)
           /\ asked' = With(Without(asked, p), q, bytes)

\* libc_realloc of a block, to a size that is not 0. Nothing can grow in a full heap.
Realloc(p, bytes) ==
  LET n == UnitsFor(bytes) IN
    /\ bytes # 0 /\ UNCHANGED started
    /\ \/ /\ n = size[p] /\ Resize(p, n, bytes) /\ UNCHANGED free
       \/ /\ n < size[p]
          /\ free' = Shrink(free, p, size[p], n) /\ Resize(p, n, bytes)
       \/ /\ n > size[p]
          /\ IF free = << >> THEN UNCHANGED <<free, size, asked>>
             ELSE IF Growable(p, n)
               THEN /\ free' = Take(free, Before(free, p) + 1, n - size[p])
                    /\ Resize(p, n, bytes)
               ELSE Move(p, n, bytes)

Next ==
  \/ \E bytes \in Sizes : Malloc(bytes)
  \/ \E p \in DOMAIN size : Free(p)
  \/ \E p \in DOMAIN size, bytes \in Sizes : Realloc(p, bytes)

Spec == Init /\ [][Next]_vars
----------------------------------------------------------------------------
Covers(u, at, length) == at <= u /\ u < at + length

\* check_integrity (alloc.c 174-236): the empty blocks are linked in the order of
\* their addresses, and each unit of the heap belongs to one block, empty or
\* allocated: none is lost, none is in two.
Tiles ==
  started =>
    /\ \A i, j \in DOMAIN free : i < j => End(free[i]) <= free[j].at
    /\ \A u \in Units :
         Cardinality({i \in DOMAIN free : Covers(u, free[i].at, free[i].size)})
         + Cardinality({p \in DOMAIN size : Covers(u, p, size[p])}) = 1
    /\ \A p \in DOMAIN size : p + size[p] <= Total

\* Two empty blocks never touch ("Is it adjacent to our head? ... Yes, we can merge
\* them", alloc.c 534): malloc fails only where no stretch of the heap is big
\* enough, and a heap that is given back whole is one block again.
Separate(list) == \A i \in 1 .. Len(list) - 1 : End(list[i]) < list[i + 1].at
Coalesced == Separate(free)

\* A block below the head is made smaller.
ShrinksBelowHead ==
  \E p \in DOMAIN size \intersect DOMAIN size' :
    size'[p] < size[p] /\ free # << >> /\ p < free[1].at

\* malloc, free and realloc merge all the empty blocks that touch, except a realloc
\* that makes a block below the head smaller (alloc.c 391-477, 597-611); and the heap
\* stays tiled by its blocks.
StaysCoalesced ==
  /\ [](TypeOK /\ Tiles)
  /\ [][Coalesced /\ ~ShrinksBelowHead => Coalesced']_vars

\* What alloc.h 36-83 promises: pointers are one unit past the address.
Blocks == [q \in {(p + 1) * Unit : p \in DOMAIN asked} |-> asked[(q \div Unit) - 1]]
Posix == INSTANCE PosixHeap WITH
  blocks <- Blocks, HeapBytes <- Total * Unit, Sizes <- Sizes,
  Pointer <- {u * Unit : u \in 1 .. Total}
ImplementsPosix == Posix!Spec
=============================================================================
