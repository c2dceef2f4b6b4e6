-------------------------- MODULE HeapAllocProofs --------------------------
(***************************************************************************)
(* For every size of the heap, every unit and every set of sizes that are     *)
(* asked for: the blocks tile the heap, those that touch are merged, and the  *)
(* pointers keep what alloc.h promises of them.                               *)
(***************************************************************************)
EXTENDS HeapAlloc, FiniteSetTheorems, SequenceTheorems, TLAPS

Empty == [at : Nat, size : Nat \ {0}]

\* The empty blocks in the order of their addresses, and the units they have.
Sorted(list) ==
  /\ list \in Seq(Empty)
  /\ \A i, j \in DOMAIN list : i < j => End(list[i]) <= list[j].at
EmptyUnits(list) == {u \in Nat : \E i \in DOMAIN list : Covers(u, list[i].at, list[i].size)}

\* The empty blocks are what the allocated ones, of sizes held, leave.
Tiling(list, held) ==
  /\ Sorted(list)
  /\ DOMAIN held \subseteq Nat
  /\ \A p \in DOMAIN held : held[p] \in Nat \ {0} /\ p + held[p] <= Total
  /\ \A p, q \in DOMAIN held : p < q => p + held[p] <= q
  /\ EmptyUnits(list) = {u \in Units : \A p \in DOMAIN held : ~Covers(u, p, held[p])}
----------------------------------------------------------------------------
(***************************************************************************)
(* Least numbers, from the sizes of sets.                                     *)
(***************************************************************************)
\* A set of numbers without gaps is an interval.
LEMMA NoGaps ==
  ASSUME NEW n \in Nat, NEW S \in SUBSET (1 .. n),
         \A i, j \in 1 .. n : j \in S /\ i < j => i \in S
  PROVE  /\ Cardinality(S) \in 0 .. n
         /\ S = 1 .. Cardinality(S)
<1> DEFINE k == Cardinality(S)
<1>1. IsFiniteSet(1 .. n) /\ Cardinality(1 .. n) = n
  BY FS_Interval
<1>2. IsFiniteSet(S) /\ k <= n
  BY <1>1, FS_Subset
<1>3. k \in Nat
  BY <1>2, FS_CardinalityType
<1>4. ASSUME NEW i \in S PROVE i <= k
  <2>1. IsFiniteSet(1 .. i) /\ Cardinality(1 .. i) = i
    BY FS_Interval
  <2>2. (1 .. i) \subseteq S
    OBVIOUS
  <2>3. Cardinality(1 .. i) <= k
    BY <1>2, <2>2, FS_Subset
  <2> QED BY <2>1, <2>3
<1>5. S \subseteq 1 .. k
  BY <1>3, <1>4
<1>6. IsFiniteSet(1 .. k) /\ Cardinality(1 .. k) = k
  BY <1>3, FS_Interval
<1>7. S = 1 .. k
  BY <1>5, <1>6, FS_Subset
<1> QED BY <1>2, <1>3, <1>7

LEMMA LeastNumber ==
  ASSUME NEW S \in SUBSET Nat, S # {}
  PROVE  \E m \in S : \A k \in S : m <= k
<1>1. PICK n \in S : TRUE
  OBVIOUS
<1> DEFINE below == {i \in 1 .. n : \A k \in S : i <= k}
           c == Cardinality(below)
<1>2. below \subseteq 1 .. n /\ \A i, j \in 1 .. n : j \in below /\ i < j => i \in below
  OBVIOUS
<1>3. c \in 0 .. n /\ below = 1 .. c
  BY <1>1, <1>2, NoGaps
<1> HIDE DEF c
<1>4. \A k \in S : c <= k
  BY <1>1, <1>3
<1>5. CASE c = n
  BY <1>1, <1>4, <1>5
<1>6. CASE c # n
  <2>1. n \in Nat /\ c \in 0 .. n
    BY <1>1, <1>3
  <2>2. c + 1 \in 1 .. n /\ c + 1 \notin 1 .. c
    BY <1>6, <2>1
  <2>3. c + 1 \in 1 .. n /\ c + 1 \notin below
    BY <1>3, <2>2
  <2>4. PICK k \in S : ~(c + 1 <= k)
    BY <2>3
  <2>5. k = c
    BY <1>4, <2>1, <2>4
  <2> QED BY <1>4, <2>5
<1> QED BY <1>5, <1>6
----------------------------------------------------------------------------
(***************************************************************************)
(* The walks of the list.                                                     *)
(***************************************************************************)
LEMMA ListBlocks ==
  ASSUME NEW list, Sorted(list)
  PROVE  /\ Len(list) \in Nat /\ DOMAIN list = 1 .. Len(list)
         /\ \A i \in 1 .. Len(list) : list[i] \in Empty /\ list[i].at \in Nat /\ list[i].size \in Nat
                                       /\ list[i].size > 0 /\ End(list[i]) = list[i].at + list[i].size
         /\ \A i, j \in 1 .. Len(list) : i < j => End(list[i]) <= list[j].at
<1>1. list \in Seq(Empty)
  BY DEF Sorted
<1>2. Len(list) \in Nat /\ DOMAIN list = 1 .. Len(list) /\ \A i \in 1 .. Len(list) : list[i] \in Empty
  BY <1>1, LenProperties, ElementOfSeq
<1>3. ASSUME NEW i \in 1 .. Len(list)
      PROVE  list[i].at \in Nat /\ list[i].size \in Nat /\ list[i].size > 0
  BY <1>2 DEF Empty
<1>4. \A i \in 1 .. Len(list) : End(list[i]) = list[i].at + list[i].size
  BY DEF End
<1>5. \A i, j \in 1 .. Len(list) : i < j => End(list[i]) <= list[j].at
  BY <1>2 DEF Sorted
<1> QED BY <1>2, <1>3, <1>4, <1>5, Zenon

\* Before: the blocks in front of p are the first ones.
LEMMA BeforeSplits ==
  ASSUME NEW list, Sorted(list), NEW p \in Nat
  PROVE  /\ Before(list, p) \in 0 .. Len(list)
         /\ \A i \in 1 .. Len(list) : list[i].at < p <=> i <= Before(list, p)
<1> DEFINE S == {i \in DOMAIN list : list[i].at < p}
<1>1. ASSUME NEW i \in 1 .. Len(list), NEW j \in 1 .. Len(list), j \in S, i < j PROVE i \in S
  <2>1. list[i].at \in Nat /\ list[i].size \in Nat /\ End(list[i]) = list[i].at + list[i].size
    BY ListBlocks
  <2>2. End(list[i]) <= list[j].at /\ list[j].at \in Nat /\ list[j].at < p
    BY <1>1, ListBlocks
  <2>3. list[i].at < p
    BY <2>1, <2>2
  <2> QED BY <2>3, ListBlocks
<1>2. Len(list) \in Nat /\ DOMAIN list = 1 .. Len(list)
  BY ListBlocks
<1>3. Before(list, p) = Cardinality(S) /\ S \in SUBSET (1 .. Len(list))
  BY <1>2 DEF Before
<1> HIDE DEF S
<1>4. Cardinality(S) \in 0 .. Len(list) /\ S = 1 .. Cardinality(S)
  BY <1>1, <1>2, <1>3, NoGaps
<1> QED
  <2>1. \A i \in 1 .. Len(list) : i \in S <=> list[i].at < p
    BY <1>2 DEF S
  <2> QED BY <1>2, <1>3, <1>4, <2>1

\* BestFit: there is a smallest one among the blocks that are big enough.
LEMMA BestFits ==
  ASSUME NEW list, Sorted(list), NEW n \in Nat, Fitting(list, n) # {}
  PROVE  BestFit(list, n) \in 1 .. Len(list) /\ list[BestFit(list, n)].size >= n
<1> DEFINE F == Fitting(list, n)
           sizes == {list[i].size : i \in F}
<1>1. F \subseteq 1 .. Len(list) /\ \A i \in F : list[i].size \in Nat
  BY ListBlocks DEF Fitting
<1>2. sizes \in SUBSET Nat /\ sizes # {}
  BY <1>1
<1>3. PICK s \in sizes : \A k \in sizes : s <= k
  BY <1>2, LeastNumber
<1> DEFINE smallest == {i \in F : list[i].size = s}
<1>4. smallest \in SUBSET Nat /\ smallest # {}
  BY <1>1, <1>3
<1>5. PICK i \in smallest : \A k \in smallest : i <= k
  BY <1>4, LeastNumber
<1>6. \A j \in F : list[i].size < list[j].size \/ (list[i].size = list[j].size /\ i <= j)
  <2> SUFFICES ASSUME NEW j \in F
               PROVE  list[i].size < list[j].size \/ (list[i].size = list[j].size /\ i <= j)
    OBVIOUS
  <2>1. list[i].size = s /\ s <= list[j].size /\ list[j].size \in Nat /\ s \in Nat
    BY <1>1, <1>3, <1>5
  <2>2. list[j].size = s => i <= j
    BY <1>5
  <2> QED BY <2>1, <2>2
<1>7. i \in F
  BY <1>5
<1> DEFINE best(b) == \A j \in F : list[b].size < list[j].size \/ (list[b].size = list[j].size /\ b <= j)
<1>8. BestFit(list, n) = CHOOSE b \in F : best(b)
  BY DEF BestFit
<1>9. best(i)
  BY <1>6
<1> HIDE DEF F, best
<1>10. BestFit(list, n) \in F
  BY <1>7, <1>8, <1>9
<1> QED BY <1>10, ListBlocks DEF F, Fitting
----------------------------------------------------------------------------
(***************************************************************************)
(* What the operations make of the list.                                      *)
(***************************************************************************)
Stretch(at, length) == {u \in Nat : Covers(u, at, length)}

\* The blocks behind i and in front of j give way to b.
Spliced(list, i, b, j) == SubSeq(list, 1, i) \o <<b>> \o SubSeq(list, j, Len(list))

\* Stretches one behind the other share no unit.
LEMMA ApartUnits ==
  ASSUME NEW at \in Nat, NEW m \in Nat, NEW from \in Nat, NEW n \in Nat,
         at + m <= from \/ from + n <= at,
         NEW u \in Nat, Covers(u, at, m)
  PROVE  ~Covers(u, from, n)
BY DEF Covers

LEMMA SplicedBlocks ==
  ASSUME NEW list, Sorted(list), NEW b \in Empty,
         NEW i \in 0 .. Len(list), NEW j \in i + 1 .. Len(list) + 1
  PROVE  /\ Spliced(list, i, b, j) \in Seq(Empty)
         /\ Len(Spliced(list, i, b, j)) = i + 2 + Len(list) - j
         /\ DOMAIN Spliced(list, i, b, j) = 1 .. i + 2 + Len(list) - j
         /\ \A k \in 1 .. i : Spliced(list, i, b, j)[k] = list[k]
         /\ Spliced(list, i, b, j)[i + 1] = b
         /\ \A k \in j .. Len(list) : Spliced(list, i, b, j)[i + 2 + k - j] = list[k]
<1> DEFINE n == Len(list)
           front == SubSeq(list, 1, i)
           back == SubSeq(list, j, n)
           head == front \o <<b>>
           r == head \o back
<1>1. n \in Nat /\ i \in 0 .. n /\ j \in i + 1 .. n + 1 /\ \A k \in 1 .. n : list[k] \in Empty
  BY ListBlocks
<1> HIDE DEF n
<1>2. front \in Seq(Empty) /\ Len(front) = i /\ \A k \in 1 .. i : front[k] = list[k]
  <2>1. /\ front \in Seq(Empty) /\ Len(front) = IF 1 <= i THEN i - 1 + 1 ELSE 0
        /\ \A k \in 1 .. i - 1 + 1 : front[k] = list[1 + k - 1]
    BY <1>1, SubSeqProperties
  <2>2. ASSUME NEW k \in 1 .. i PROVE front[k] = list[k]
    <3>1. k \in 1 .. i - 1 + 1 /\ 1 + k - 1 = k
      BY <1>1
    <3> QED BY <2>1, <3>1
  <2> QED BY <1>1, <2>1, <2>2
<1>3. /\ back \in Seq(Empty) /\ Len(back) = n + 1 - j
      /\ \A k \in j .. n : back[k + 1 - j] = list[k]
  <2>1. /\ back \in Seq(Empty) /\ Len(back) = IF j <= n THEN n - j + 1 ELSE 0
        /\ \A k \in 1 .. n - j + 1 : back[k] = list[j + k - 1]
    BY <1>1, SubSeqProperties
  <2>2. ASSUME NEW k \in j .. n PROVE back[k + 1 - j] = list[k]
    <3>1. k + 1 - j \in 1 .. n - j + 1 /\ j + (k + 1 - j) - 1 = k
      BY <1>1
    <3> QED BY <2>1, <3>1
  <2> QED BY <1>1, <2>1, <2>2
<1> HIDE DEF front, back
<1>4. /\ head \in Seq(Empty) /\ Len(head) = i + 1
      /\ head[i + 1] = b /\ \A k \in 1 .. i : head[k] = list[k]
  <2>1. <<b>> \in Seq(Empty) /\ Len(<<b>>) = 1 /\ <<b>>[1] = b
    OBVIOUS
  <2> DEFINE single == <<b>>
  <2>2. single \in Seq(Empty) /\ Len(single) = 1 /\ single[1] = b
    BY <2>1
  <2>3. head = front \o single
    OBVIOUS
  <2> HIDE DEF single, head
  <2>9. /\ head \in Seq(Empty) /\ Len(head) = Len(front) + Len(single)
        /\ \A k \in 1 .. Len(front) + Len(single) :
             head[k] = IF k <= Len(front) THEN front[k] ELSE single[k - Len(front)]
    BY <1>2, <2>2, <2>3, ConcatProperties
  <2>4. /\ head \in Seq(Empty) /\ Len(head) = i + 1
        /\ \A k \in 1 .. i + 1 : head[k] = IF k <= i THEN front[k] ELSE single[k - i]
    BY <1>2, <2>2, <2>9
  <2>5. head[i + 1] = single[i + 1 - i] /\ i + 1 - i = 1
    BY <1>1, <2>4
  <2> QED BY <1>1, <1>2, <2>2, <2>4, <2>5
<1> HIDE DEF head
<1>5. /\ r \in Seq(Empty) /\ Len(r) = i + 1 + (n + 1 - j)
      /\ \A k \in 1 .. i + 1 + (n + 1 - j) : r[k] = IF k <= i + 1 THEN head[k] ELSE back[k - (i + 1)]
  <2>1. /\ r \in Seq(Empty) /\ Len(r) = Len(head) + Len(back)
        /\ \A k \in 1 .. Len(head) + Len(back) :
             r[k] = IF k <= Len(head) THEN head[k] ELSE back[k - Len(head)]
    BY <1>3, <1>4, ConcatProperties
  <2> QED BY <1>3, <1>4, <2>1
<1>6. Spliced(list, i, b, j) = r
  BY DEF Spliced, front, head, back, n
<1> HIDE DEF r
<1>7. Len(r) = i + 2 + n - j /\ DOMAIN r = 1 .. i + 2 + n - j
  BY <1>1, <1>5, LenProperties
<1>8. ASSUME NEW k \in 1 .. i PROVE r[k] = list[k]
  BY <1>1, <1>4, <1>5
<1>9. r[i + 1] = b
  BY <1>1, <1>4, <1>5
<1>10. ASSUME NEW k \in j .. n PROVE r[i + 2 + k - j] = list[k]
  <2>1. i + 2 + k - j \in 1 .. i + 1 + (n + 1 - j) /\ ~(i + 2 + k - j <= i + 1)
    BY <1>1
  <2>2. i + 2 + k - j - (i + 1) = k + 1 - j
    BY <1>1
  <2> QED BY <1>3, <1>5, <2>1, <2>2
<1> QED BY <1>5, <1>6, <1>7, <1>8, <1>9, <1>10, Zenon DEF n

\* Where b has room, the order is kept; the units are those that were there and b's.
LEMMA SplicedSorted ==
  ASSUME NEW list, Sorted(list), NEW b \in Empty,
         NEW i \in 0 .. Len(list), NEW j \in i + 1 .. Len(list) + 1,
         i > 0 => End(list[i]) <= b.at,
         j <= Len(list) => End(b) <= list[j].at,
         \A k \in i + 1 .. j - 1 : b.at <= list[k].at /\ End(list[k]) <= End(b)
  PROVE  /\ Sorted(Spliced(list, i, b, j))
         /\ EmptyUnits(Spliced(list, i, b, j)) = EmptyUnits(list) \union Stretch(b.at, b.size)
         /\ Separate(list) /\ (i > 0 => End(list[i]) < b.at) /\ (j <= Len(list) => End(b) < list[j].at)
              => Separate(Spliced(list, i, b, j))
<1> DEFINE n == Len(list)
           r == Spliced(list, i, b, j)
           from(k) == k - i - 2 + j
<1>1. n \in Nat /\ i \in 0 .. n /\ j \in i + 1 .. n + 1 /\ DOMAIN list = 1 .. n
  BY ListBlocks
<1>2. /\ r \in Seq(Empty) /\ Len(r) = i + 2 + n - j /\ DOMAIN r = 1 .. i + 2 + n - j
      /\ \A k \in 1 .. i : r[k] = list[k]
      /\ r[i + 1] = b
      /\ \A k \in j .. n : r[i + 2 + k - j] = list[k]
  <2>1. r \in Seq(Empty) /\ Len(r) = i + 2 + n - j
    BY SplicedBlocks
  <2>2. DOMAIN r = 1 .. i + 2 + n - j
    BY SplicedBlocks
  <2>3. \A k \in 1 .. i : r[k] = list[k]
    BY SplicedBlocks
  <2>4. r[i + 1] = b
    BY SplicedBlocks
  <2>5. \A k \in j .. n : r[i + 2 + k - j] = list[k]
    BY SplicedBlocks
  <2> HIDE DEF n, r
  <2> QED BY <2>1, <2>2, <2>3, <2>4, <2>5
<1>3. /\ b.at \in Nat /\ b.size \in Nat /\ b.size > 0 /\ End(b) = b.at + b.size
      /\ i > 0 => End(list[i]) <= b.at
      /\ j <= n => End(b) <= list[j].at
      /\ \A k \in i + 1 .. j - 1 : b.at <= list[k].at /\ End(list[k]) <= End(b)
  BY DEF Empty, End
<1>4. /\ \A k \in 1 .. n : list[k].at \in Nat /\ list[k].size \in Nat /\ list[k].size > 0
                            /\ End(list[k]) = list[k].at + list[k].size
      /\ \A k, l \in 1 .. n : k < l => End(list[k]) <= list[l].at
  BY ListBlocks
<1> HIDE DEF n, r
<1>5. ASSUME NEW k \in i + 2 .. i + 2 + n - j PROVE from(k) \in j .. n /\ r[k] = list[from(k)]
  <2>1. from(k) \in j .. n /\ i + 2 + from(k) - j = k
    BY <1>1
  <2> QED BY <1>2, <2>1
<1>6. ASSUME NEW k \in 1 .. i PROVE End(list[k]) <= b.at /\ r[k] = list[k]
  <2>1. CASE k = i
    BY <1>2, <1>3, <2>1
  <2>2. CASE k < i
    <3>1. k \in 1 .. n /\ i \in 1 .. n /\ i > 0
      BY <1>1, <2>2
    <3>2. /\ End(list[k]) <= list[i].at /\ End(list[i]) <= b.at
          /\ list[i].at \in Nat /\ list[i].size \in Nat /\ End(list[i]) = list[i].at + list[i].size
          /\ list[k].at \in Nat /\ list[k].size \in Nat /\ End(list[k]) = list[k].at + list[k].size
      BY <1>3, <1>4, <2>2, <3>1, Zenon
    <3>3. b.at \in Nat /\ r[k] = list[k]
      BY <1>2, <1>3
    <3>4. End(list[k]) <= b.at
      BY <3>2, <3>3, SMTT(60)
    <3> QED BY <3>3, <3>4
  <2> QED BY <1>1, <2>1, <2>2
<1>7. ASSUME NEW k \in i + 2 .. i + 2 + n - j PROVE End(b) <= r[k].at
  <2>1. from(k) \in j .. n /\ r[k] = list[from(k)] /\ j <= n
    BY <1>1, <1>5
  <2>2. CASE from(k) = j
    BY <1>3, <2>1, <2>2
  <2>3. CASE j < from(k)
    <3>1. j \in 1 .. n /\ from(k) \in 1 .. n
      BY <1>1, <2>1
    <3>2. End(list[j]) <= list[from(k)].at /\ End(b) <= list[j].at
      BY <1>3, <1>4, <2>1, <2>3, <3>1, Zenon
    <3>3. /\ list[j].at \in Nat /\ list[from(k)].at \in Nat
          /\ End(list[j]) = list[j].at + list[j].size /\ list[j].size \in Nat
      BY <1>4, <3>1, Zenon
    <3>4. End(b) \in Nat
      BY <1>3
    <3> HIDE DEF from
    <3>5. End(b) <= list[from(k)].at
      BY <3>2, <3>3, <3>4, SMTT(60)
    <3> QED BY <2>1, <3>5
  <2> QED BY <1>1, <2>1, <2>2, <2>3
<1>8. ASSUME NEW k \in 1 .. i + 2 + n - j, NEW l \in 1 .. i + 2 + n - j, k < l
      PROVE  End(r[k]) <= r[l].at
  <2>1. CASE l <= i
    BY <1>1, <1>4, <1>6, <1>8, <2>1
  <2>2. CASE l = i + 1
    BY <1>1, <1>2, <1>6, <1>8, <2>2
  <2>3. CASE l > i + 1
    <3>1. l \in i + 2 .. i + 2 + n - j
      BY <1>1, <2>3
    <3>2. End(b) <= r[l].at /\ from(l) \in 1 .. n /\ r[l] = list[from(l)] /\ r[l].at \in Nat
      BY <1>1, <1>4, <1>5, <1>7, <3>1
    <3>3. CASE k <= i
      <4>1. k \in 1 .. i /\ k \in 1 .. n
        BY <1>1, <3>3
      <4>2. /\ End(list[k]) <= b.at /\ r[k] = list[k]
            /\ list[k].at \in Nat /\ list[k].size \in Nat /\ End(list[k]) = list[k].at + list[k].size
        BY <1>4, <1>6, <4>1
      <4>3. b.at \in Nat /\ b.size \in Nat /\ End(b) = b.at + b.size
        BY <1>3
      <4> DEFINE e == End(list[k])
                 f == r[l].at
                 x == b.at
      <4>4. x + b.size <= f /\ f \in Nat
        BY <3>2, <4>3
      <4>5. e \in Nat /\ e <= x
        BY <4>2, SMTT(60)
      <4>6. x \in Nat /\ b.size \in Nat
        BY <4>3
      <4>7. e <= f
        <5> HIDE DEF e, f, x
        <5> QED BY <4>4, <4>5, <4>6
      <4> QED BY <4>2, <4>7
    <3>4. CASE k = i + 1
      BY <1>2, <3>2, <3>4
    <3>5. CASE k > i + 1
      <4>1. k \in i + 2 .. i + 2 + n - j
        BY <1>1, <3>5
      <4>2. from(k) \in j .. n /\ r[k] = list[from(k)] /\ from(k) < from(l)
        BY <1>1, <1>5, <1>8, <4>1
      <4>3. from(k) \in 1 .. n /\ from(l) \in 1 .. n
        BY <1>1, <3>2, <4>2
      <4>4. End(list[from(k)]) <= list[from(l)].at
        BY <1>4, <4>2, <4>3
      <4> QED BY <3>2, <4>2, <4>4
    <3> QED BY <1>1, <3>3, <3>4, <3>5
  <2> QED BY <1>1, <2>1, <2>2, <2>3
<1>9. Sorted(r)
  BY <1>2, <1>8 DEF Sorted
<1>10. ASSUME NEW u \in EmptyUnits(r) PROVE u \in EmptyUnits(list) \union Stretch(b.at, b.size)
  <2>1. PICK k \in 1 .. i + 2 + n - j : Covers(u, r[k].at, r[k].size)
    BY <1>2 DEF EmptyUnits
  <2>2. u \in Nat
    BY DEF EmptyUnits
  <2>3. CASE k <= i
    <3>1. k \in 1 .. n /\ r[k] = list[k]
      BY <1>1, <1>6, <2>3
    <3> QED BY <1>1, <2>1, <2>2, <3>1 DEF EmptyUnits
  <2>4. CASE k = i + 1
    BY <1>2, <2>1, <2>2, <2>4 DEF Stretch
  <2>5. CASE k > i + 1
    <3>1. k \in i + 2 .. i + 2 + n - j
      BY <1>1, <2>5
    <3>2. from(k) \in 1 .. n /\ r[k] = list[from(k)]
      BY <1>1, <1>5, <3>1
    <3> QED BY <1>1, <2>1, <2>2, <3>2 DEF EmptyUnits
  <2> QED BY <1>1, <2>3, <2>4, <2>5
<1>11. ASSUME NEW u \in EmptyUnits(list) PROVE u \in EmptyUnits(r)
  <2>1. PICK k \in 1 .. n : Covers(u, list[k].at, list[k].size)
    BY <1>1 DEF EmptyUnits
  <2>2. u \in Nat
    BY DEF EmptyUnits
  <2>3. CASE k <= i
    <3>1. k \in 1 .. i + 2 + n - j /\ r[k] = list[k]
      BY <1>1, <1>6, <2>3
    <3> QED BY <1>2, <2>1, <2>2, <3>1 DEF EmptyUnits
  <2>4. CASE k \in i + 1 .. j - 1
    <3>1. b.at <= list[k].at /\ End(list[k]) <= End(b)
      BY <1>3, <2>4
    <3>2. list[k].at \in Nat /\ list[k].size \in Nat /\ End(list[k]) = list[k].at + list[k].size
      BY <1>4
    <3>4. b.at \in Nat /\ b.size \in Nat /\ End(b) = b.at + b.size
      BY <1>3
    <3>5. Covers(u, b.at, b.size)
      BY <2>1, <2>2, <3>1, <3>2, <3>4, SMTT(60) DEF Covers
    <3>3. i + 1 \in 1 .. i + 2 + n - j
      BY <1>1
    <3> QED BY <1>2, <2>2, <3>3, <3>5 DEF EmptyUnits
  <2>5. CASE j <= k
    <3>1. k \in j .. n /\ i + 2 + k - j \in 1 .. i + 2 + n - j
      BY <1>1, <2>5
    <3>2. r[i + 2 + k - j] = list[k]
      BY <1>2, <3>1
    <3> QED BY <1>2, <2>1, <2>2, <3>1, <3>2 DEF EmptyUnits
  <2> QED BY <1>1, <2>3, <2>4, <2>5
<1>12. ASSUME NEW u \in Stretch(b.at, b.size) PROVE u \in EmptyUnits(r)
  <2>1. i + 1 \in 1 .. i + 2 + n - j
    BY <1>1
  <2> QED BY <1>2, <2>1 DEF EmptyUnits, Stretch
<1>13. ASSUME Separate(list), i > 0 => End(list[i]) < b.at, j <= n => End(b) < list[j].at
       PROVE  Separate(r)
  <2> SUFFICES ASSUME NEW k \in 1 .. i + 1 + n - j PROVE End(r[k]) < r[k + 1].at
    BY <1>1, <1>2 DEF Separate
  <2>1. CASE k + 1 <= i
    <3>1. r[k] = list[k] /\ r[k + 1] = list[k + 1] /\ k \in 1 .. n - 1
      BY <1>1, <1>6, <2>1
    <3> QED BY <1>13, <3>1 DEF Separate, n
  <2>2. CASE k = i
    BY <1>1, <1>2, <1>6, <1>13, <2>2
  <2>3. CASE k = i + 1
    <3>1. k + 1 \in i + 2 .. i + 2 + n - j /\ from(k + 1) = j /\ j <= n
      BY <1>1, <2>3
    <3>2. r[k + 1] = list[j] /\ r[k] = b
      BY <1>2, <1>5, <2>3, <3>1
    <3> QED BY <1>13, <3>1, <3>2
  <2>4. CASE k > i + 1
    <3>1. k \in i + 2 .. i + 2 + n - j /\ k + 1 \in i + 2 .. i + 2 + n - j /\ from(k + 1) = from(k) + 1
      BY <1>1, <2>4
    <3>2. r[k] = list[from(k)] /\ r[k + 1] = list[from(k) + 1] /\ from(k) \in 1 .. n - 1
      BY <1>1, <1>5, <3>1
    <3> QED BY <1>13, <3>2 DEF Separate, n
  <2> QED BY <1>1, <2>1, <2>2, <2>3, <2>4
<1>14. EmptyUnits(r) = EmptyUnits(list) \union Stretch(b.at, b.size)
  BY <1>10, <1>11, <1>12
<1> QED BY <1>9, <1>13, <1>14 DEF n, r

\* A block that goes leaves the others in their order.
LEMMA RemovedBlock ==
  ASSUME NEW list, Sorted(list), NEW i \in 1 .. Len(list)
  PROVE  /\ Sorted(RemoveAt(list, i))
         /\ EmptyUnits(RemoveAt(list, i)) = EmptyUnits(list) \ Stretch(list[i].at, list[i].size)
         /\ Separate(list) => Separate(RemoveAt(list, i))
<1> DEFINE n == Len(list)
           front == SubSeq(list, 1, i - 1)
           back == SubSeq(list, i + 1, n)
           r == RemoveAt(list, i)
           from(k) == IF k < i THEN k ELSE k + 1
<1>1. n \in Nat /\ i \in 1 .. n /\ DOMAIN list = 1 .. n /\ \A k \in 1 .. n : list[k] \in Empty
  BY ListBlocks
<1>2. /\ \A k \in 1 .. n : list[k].at \in Nat /\ list[k].size \in Nat /\ list[k].size > 0
                            /\ End(list[k]) = list[k].at + list[k].size
      /\ \A k, l \in 1 .. n : k < l => End(list[k]) <= list[l].at
  BY ListBlocks
<1> HIDE DEF n
<1>3. front \in Seq(Empty) /\ Len(front) = i - 1 /\ \A k \in 1 .. i - 1 : front[k] = list[k]
  <2>1. /\ front \in Seq(Empty) /\ Len(front) = IF 1 <= i - 1 THEN i - 1 - 1 + 1 ELSE 0
        /\ \A k \in 1 .. i - 1 - 1 + 1 : front[k] = list[1 + k - 1]
    BY <1>1, SubSeqProperties
  <2>2. ASSUME NEW k \in 1 .. i - 1 PROVE front[k] = list[k]
    <3>1. k \in 1 .. i - 1 - 1 + 1 /\ 1 + k - 1 = k
      BY <1>1
    <3> QED BY <2>1, <3>1
  <2> QED BY <1>1, <2>1, <2>2
<1>4. back \in Seq(Empty) /\ Len(back) = n - i /\ \A k \in 1 .. n - i : back[k] = list[i + k]
  <2>1. /\ back \in Seq(Empty) /\ Len(back) = IF i + 1 <= n THEN n - (i + 1) + 1 ELSE 0
        /\ \A k \in 1 .. n - (i + 1) + 1 : back[k] = list[i + 1 + k - 1]
    BY <1>1, SubSeqProperties
  <2>2. ASSUME NEW k \in 1 .. n - i PROVE back[k] = list[i + k]
    <3>1. k \in 1 .. n - (i + 1) + 1 /\ i + 1 + k - 1 = i + k
      BY <1>1
    <3> QED BY <2>1, <3>1
  <2> QED BY <1>1, <2>1, <2>2
<1>5. r = front \o back
  BY DEF RemoveAt, n
<1> HIDE DEF front, back, r
<1>6. /\ r \in Seq(Empty) /\ Len(r) = n - 1 /\ DOMAIN r = 1 .. n - 1
      /\ \A k \in 1 .. n - 1 : from(k) \in 1 .. n /\ from(k) # i /\ r[k] = list[from(k)]
  <2>1. /\ r \in Seq(Empty) /\ Len(r) = Len(front) + Len(back)
        /\ \A k \in 1 .. Len(front) + Len(back) :
             r[k] = IF k <= Len(front) THEN front[k] ELSE back[k - Len(front)]
    BY <1>3, <1>4, <1>5, ConcatProperties
  <2>2. Len(r) = n - 1 /\ DOMAIN r = 1 .. n - 1
    BY <1>1, <1>3, <1>4, <2>1, LenProperties
  <2>3. ASSUME NEW k \in 1 .. n - 1 PROVE from(k) \in 1 .. n /\ from(k) # i /\ r[k] = list[from(k)]
    <3>1. r[k] = IF k <= i - 1 THEN front[k] ELSE back[k - (i - 1)]
      BY <1>1, <1>3, <1>4, <2>1
    <3>2. CASE k < i
      BY <1>1, <1>3, <3>1, <3>2
    <3>3. CASE i <= k
      <4>1. k - (i - 1) \in 1 .. n - i /\ i + (k - (i - 1)) = k + 1
        BY <1>1, <3>3
      <4> QED BY <1>1, <1>4, <3>1, <3>3, <4>1
    <3> QED BY <1>1, <3>2, <3>3
  <2> QED BY <2>1, <2>2, <2>3
<1>7. \A k, l \in 1 .. n - 1 : k < l => from(k) < from(l)
  BY <1>1
<1>8. \A k \in 1 .. n : k # i => \E l \in 1 .. n - 1 : from(l) = k
  <2> SUFFICES ASSUME NEW k \in 1 .. n, k # i PROVE \E l \in 1 .. n - 1 : from(l) = k
    OBVIOUS
  <2>1. CASE k < i
    <3>1. k \in 1 .. n - 1 /\ from(k) = k
      BY <1>1, <2>1
    <3> QED BY <3>1
  <2>2. CASE i < k
    <3>1. k - 1 \in 1 .. n - 1 /\ from(k - 1) = k
      BY <1>1, <2>2
    <3> QED BY <3>1
  <2> QED BY <1>1, <2>1, <2>2
<1>9. \A k \in 1 .. n - 2 : from(k + 1) = from(k) + 1 \/ (from(k) = i - 1 /\ from(k + 1) = i + 1)
  BY <1>1
<1> HIDE DEF from
<1>10. Sorted(r)
  BY <1>2, <1>6, <1>7 DEF Sorted
<1>11. ASSUME NEW k \in 1 .. n, k # i, NEW u \in Nat, Covers(u, list[k].at, list[k].size)
       PROVE  ~Covers(u, list[i].at, list[i].size)
  <2>1. k < i \/ i < k
    BY <1>1, <1>11
  <2>2. /\ list[k].at \in Nat /\ list[k].size \in Nat /\ list[i].at \in Nat /\ list[i].size \in Nat
        /\ list[k].at + list[k].size <= list[i].at \/ list[i].at + list[i].size <= list[k].at
    BY <1>1, <1>2, <2>1
  <2> QED BY <1>11, <2>2, ApartUnits
<1>12. ASSUME NEW u \in EmptyUnits(r) PROVE u \in EmptyUnits(list) /\ u \notin Stretch(list[i].at, list[i].size)
  <2>1. PICK k \in 1 .. n - 1 : Covers(u, r[k].at, r[k].size)
    BY <1>6 DEF EmptyUnits
  <2>2. u \in Nat /\ from(k) \in 1 .. n /\ from(k) # i /\ Covers(u, list[from(k)].at, list[from(k)].size)
    BY <1>6, <2>1 DEF EmptyUnits
  <2>3. ~Covers(u, list[i].at, list[i].size)
    BY <1>11, <2>2
  <2> QED BY <1>1, <2>2, <2>3 DEF EmptyUnits, Stretch
<1>13. ASSUME NEW u \in EmptyUnits(list), u \notin Stretch(list[i].at, list[i].size) PROVE u \in EmptyUnits(r)
  <2>1. PICK k \in 1 .. n : Covers(u, list[k].at, list[k].size)
    BY <1>1 DEF EmptyUnits
  <2>2. u \in Nat
    BY DEF EmptyUnits
  <2>3. k # i
    BY <1>13, <2>1, <2>2 DEF Stretch
  <2>4. PICK l \in 1 .. n - 1 : from(l) = k
    BY <1>8, <2>3
  <2> QED BY <1>6, <2>1, <2>2, <2>4 DEF EmptyUnits
<1>14. EmptyUnits(r) = EmptyUnits(list) \ Stretch(list[i].at, list[i].size)
  BY <1>12, <1>13
<1>15. ASSUME Separate(list) PROVE Separate(r)
  <2> SUFFICES ASSUME NEW k \in 1 .. n - 2 PROVE End(r[k]) < r[k + 1].at
    BY <1>1, <1>6 DEF Separate
  <2>1. /\ r[k] = list[from(k)] /\ r[k + 1] = list[from(k + 1)]
        /\ from(k) \in 1 .. n /\ from(k + 1) \in 1 .. n
    BY <1>1, <1>6
  <2>2. CASE from(k + 1) = from(k) + 1
    <3>1. from(k) \in 1 .. n - 1
      BY <1>1, <2>1, <2>2
    <3> QED BY <1>15, <2>1, <2>2, <3>1 DEF Separate, n
  <2>3. CASE from(k) = i - 1 /\ from(k + 1) = i + 1
    <3>1. i - 1 \in 1 .. n - 1 /\ i \in 1 .. n - 1 /\ i - 1 + 1 = i
      BY <1>1, <2>1, <2>3
    <3>2. End(list[i - 1]) < list[i].at /\ End(list[i]) < list[i + 1].at
      BY <1>15, <3>1 DEF Separate, n
    <3>3. /\ list[i].at \in Nat /\ list[i].size \in Nat /\ End(list[i]) = list[i].at + list[i].size
          /\ list[i + 1].at \in Nat
          /\ list[i - 1].at \in Nat /\ list[i - 1].size \in Nat /\ End(list[i - 1]) = list[i - 1].at + list[i - 1].size
      BY <1>1, <1>2, <3>1
    <3> DEFINE e == End(list[i - 1])
               x == list[i].at
               y == list[i + 1].at
               s == list[i].size
    <3>4. x \in Nat /\ s \in Nat /\ y \in Nat /\ e \in Nat
      <4>1. \A l \in 1 .. n : list[l].at \in Nat /\ list[l].size \in Nat /\ End(list[l]) \in Nat
        BY <1>2
      <4>2. i - 1 \in 1 .. n /\ i + 1 \in 1 .. n
        BY <1>1, <3>1
      <4> QED BY <1>1, <4>1, <4>2, Zenon
    <3>6. e < x /\ x + s < y
      BY <3>2, <3>3
    <3>5. e < y
      <4> HIDE DEF e, x, y, s
      <4> QED BY <3>4, <3>6
    <3> QED BY <2>1, <2>3, <3>5
  <2> QED BY <1>9, <2>2, <2>3
<1> QED BY <1>10, <1>14, <1>15 DEF r

\* A block that loses its front.
LEMMA CutBlock ==
  ASSUME NEW list, Sorted(list), NEW i \in 1 .. Len(list), NEW n \in Nat, n < list[i].size
  PROVE  LET r == [list EXCEPT ![i] = Block(@.at + n, @.size - n)]
         IN  /\ Sorted(r)
             /\ EmptyUnits(r) = EmptyUnits(list) \ Stretch(list[i].at, n)
             /\ Separate(list) => Separate(r)
<1> DEFINE r == [list EXCEPT ![i] = Block(@.at + n, @.size - n)]
           len == Len(list)
           b == list[i]
<1>1. len \in Nat /\ i \in 1 .. len /\ DOMAIN list = 1 .. len /\ \A k \in 1 .. len : list[k] \in Empty
  BY ListBlocks
<1>2. /\ \A k \in 1 .. len : list[k].at \in Nat /\ list[k].size \in Nat /\ list[k].size > 0
                            /\ End(list[k]) = list[k].at + list[k].size
      /\ \A k, l \in 1 .. len : k < l => End(list[k]) <= list[l].at
  BY ListBlocks
<1> HIDE DEF len
<1>3. b.at \in Nat /\ b.size \in Nat /\ End(b) = b.at + b.size /\ n < b.size
  BY <1>1, <1>2
<1> DEFINE rest == Block(b.at + n, b.size - n)
<1>4. rest \in Empty /\ rest.at = b.at + n /\ rest.size = b.size - n /\ End(rest) = End(b)
  BY <1>3 DEF Block, Empty, End
<1>5. /\ r \in Seq(Empty) /\ Len(r) = len /\ DOMAIN r = 1 .. len
      /\ r[i] = rest /\ \A k \in 1 .. len : k # i => r[k] = list[k]
  <2> HIDE DEF rest
  <2>1. list \in Seq(Empty) /\ r = [list EXCEPT ![i] = rest]
    BY DEF Sorted, rest
  <2>2. r \in Seq(Empty) /\ Len(r) = len
    BY <1>1, <1>4, <2>1, ExceptSeq DEF len
  <2>3. r[i] = rest /\ DOMAIN r = 1 .. len /\ \A k \in 1 .. len : k # i => r[k] = list[k]
    BY <1>1, <2>1
  <2> QED BY <2>2, <2>3
<1> HIDE DEF r, rest, b
<1>6. \A k \in 1 .. len : r[k].at >= list[k].at /\ End(r[k]) = End(list[k]) /\ r[k].at \in Nat
  BY <1>1, <1>2, <1>3, <1>4, <1>5, SMTT(60) DEF b
<1>7. ASSUME NEW k \in 1 .. len, NEW l \in 1 .. len, k < l PROVE End(r[k]) <= r[l].at
  <2> DEFINE e == End(list[k])
  <2>1. e <= list[l].at /\ list[l].at \in Nat /\ e \in Nat
    BY <1>2, <1>7
  <2>2. End(r[k]) = e /\ r[l].at >= list[l].at /\ r[l].at \in Nat
    BY <1>6
  <2> HIDE DEF e
  <2> QED BY <2>1, <2>2
<1>8. Sorted(r)
  BY <1>5, <1>7 DEF Sorted
<1>9. \A u \in Nat : Covers(u, b.at, b.size) <=> Covers(u, b.at, n) \/ Covers(u, rest.at, rest.size)
  BY <1>3, <1>4, SMTT(60) DEF Covers
<1>10. \A u \in Nat : Covers(u, b.at, n) => ~Covers(u, rest.at, rest.size)
  BY <1>3, <1>4, SMTT(60) DEF Covers
<1>11. ASSUME NEW k \in 1 .. len, k # i, NEW u \in Nat, Covers(u, list[k].at, list[k].size)
       PROVE  ~Covers(u, b.at, b.size)
  <2>1. k < i \/ i < k
    BY <1>1, <1>11
  <2>2. End(list[k]) <= b.at \/ End(b) <= list[k].at
    BY <1>1, <1>2, <2>1 DEF b
  <2>3. list[k].at \in Nat /\ list[k].size \in Nat /\ End(list[k]) = list[k].at + list[k].size
    BY <1>2
  <2> QED BY <1>3, <1>11, <2>2, <2>3, SMTT(60) DEF Covers
<1>12. ASSUME NEW u \in EmptyUnits(r) PROVE u \in EmptyUnits(list) /\ u \notin Stretch(b.at, n)
  <2>1. PICK k \in 1 .. len : Covers(u, r[k].at, r[k].size)
    BY <1>5 DEF EmptyUnits
  <2>2. u \in Nat
    BY DEF EmptyUnits
  <2>3. CASE k = i
    <3>1. Covers(u, b.at, b.size) /\ ~Covers(u, b.at, n)
      BY <1>5, <1>9, <1>10, <2>1, <2>2, <2>3
    <3> QED BY <1>1, <2>2, <3>1 DEF EmptyUnits, Stretch, b
  <2>4. CASE k # i
    <3>1. Covers(u, list[k].at, list[k].size)
      BY <1>5, <2>1, <2>4
    <3>2. ~Covers(u, b.at, n)
      BY <1>9, <1>11, <2>2, <2>4, <3>1
    <3> QED BY <1>1, <2>2, <3>1, <3>2 DEF EmptyUnits, Stretch
  <2> QED BY <2>3, <2>4
<1>13. ASSUME NEW u \in EmptyUnits(list), u \notin Stretch(b.at, n) PROVE u \in EmptyUnits(r)
  <2>1. PICK k \in 1 .. len : Covers(u, list[k].at, list[k].size)
    BY <1>1 DEF EmptyUnits
  <2>2. u \in Nat
    BY DEF EmptyUnits
  <2>3. Covers(u, r[k].at, r[k].size)
    BY <1>5, <1>9, <1>13, <2>1, <2>2 DEF Stretch, b
  <2> QED BY <1>5, <2>2, <2>3 DEF EmptyUnits
<1>14. EmptyUnits(r) = EmptyUnits(list) \ Stretch(b.at, n)
  BY <1>12, <1>13
<1>15. ASSUME Separate(list) PROVE Separate(r)
  <2> SUFFICES ASSUME NEW k \in 1 .. len - 1 PROVE End(r[k]) < r[k + 1].at
    BY <1>5 DEF Separate
  <2>1. k \in 1 .. len /\ k + 1 \in 1 .. len /\ End(list[k]) < list[k + 1].at
    BY <1>1, <1>15 DEF Separate, len
  <2> DEFINE e == End(list[k])
             x == list[k + 1].at
             y == r[k + 1].at
  <2>2. End(r[k]) = e /\ y >= x /\ y \in Nat /\ x \in Nat /\ e \in Nat /\ e < x
    BY <1>2, <1>6, <2>1, SMTT(60)
  <2> HIDE DEF e, x, y
  <2>3. e < y
    BY <2>2
  <2> QED BY <2>2, <2>3 DEF y
<1> QED BY <1>8, <1>14, <1>15 DEF r, b

\* Take: the front of an empty block goes.
LEMMA TakeKeeps ==
  ASSUME NEW list, Sorted(list), NEW i \in 1 .. Len(list), NEW n \in Nat, n <= list[i].size
  PROVE  /\ Sorted(Take(list, i, n))
         /\ EmptyUnits(Take(list, i, n)) = EmptyUnits(list) \ Stretch(list[i].at, n)
         /\ Separate(list) => Separate(Take(list, i, n))
<1>1. CASE list[i].size = n
  <2>1. Take(list, i, n) = RemoveAt(list, i)
    BY <1>1 DEF Take
  <2> QED BY <1>1, <2>1, RemovedBlock
<1>2. CASE list[i].size # n
  <2> DEFINE r == [list EXCEPT ![i] = Block(@.at + n, @.size - n)]
  <2>1. Take(list, i, n) = r
    BY <1>2 DEF Take
  <2>2. list[i].size \in Nat /\ n < list[i].size
    BY <1>2, ListBlocks
  <2>3. Sorted(r) /\ EmptyUnits(r) = EmptyUnits(list) \ Stretch(list[i].at, n) /\ (Separate(list) => Separate(r))
    BY <2>2, CutBlock, Zenon
  <2> HIDE DEF r
  <2> QED BY <2>1, <2>3
<1> QED BY <1>1, <1>2

\* A stretch that is not empty lies between two neighbours of the list.
LEMMA Between ==
  ASSUME NEW list, Sorted(list), NEW p \in Nat, NEW n \in Nat \ {0},
         \A u \in Stretch(p, n) : u \notin EmptyUnits(list)
  PROVE  /\ Before(list, p) > 0 => End(list[Before(list, p)]) <= p
         /\ Before(list, p) < Len(list) => p + n <= list[Before(list, p) + 1].at
<1> DEFINE i == Before(list, p)
<1>1. Len(list) \in Nat /\ DOMAIN list = 1 .. Len(list) /\ i \in 0 .. Len(list)
  BY ListBlocks, BeforeSplits
<1>2. \A k \in 1 .. Len(list) : list[k].at < p <=> k <= i
  BY BeforeSplits
<1>3. \A k \in 1 .. Len(list) : list[k].at \in Nat /\ list[k].size \in Nat /\ list[k].size > 0
                                /\ End(list[k]) = list[k].at + list[k].size
  BY ListBlocks
<1> HIDE DEF i
<1>4. ASSUME i > 0 PROVE End(list[i]) <= p
  <2> DEFINE at == list[i].at
             s == list[i].size
  <2>1. i \in 1 .. Len(list) /\ at \in Nat /\ s \in Nat /\ End(list[i]) = at + s /\ at < p
    BY <1>1, <1>2, <1>3, <1>4
  <2>2. p \in Stretch(p, n)
    BY DEF Stretch, Covers
  <2>3. ~Covers(p, at, s)
    BY <1>1, <2>1, <2>2 DEF EmptyUnits
  <2> HIDE DEF at, s
  <2>4. at + s <= p
    BY <2>1, <2>3 DEF Covers
  <2> QED BY <2>1, <2>4
<1>5. ASSUME i < Len(list) PROVE p + n <= list[i + 1].at
  <2> DEFINE at == list[i + 1].at
             s == list[i + 1].size
  <2>1. i + 1 \in 1 .. Len(list) /\ ~(i + 1 <= i)
    BY <1>1, <1>5
  <2>2. at \in Nat /\ s \in Nat /\ s > 0 /\ ~(at < p)
    BY <1>2, <1>3, <2>1
  <2>3. Covers(at, at, s)
    BY <2>2 DEF Covers
  <2>4. at \in EmptyUnits(list)
    BY <1>1, <2>1, <2>2, <2>3 DEF EmptyUnits
  <2>5. at \notin Stretch(p, n)
    BY <2>4
  <2> HIDE DEF at, s
  <2>6. p + n <= at
    BY <2>2, <2>5 DEF Stretch, Covers
  <2> QED BY <2>6 DEF at
<1> QED BY <1>4, <1>5 DEF i

\* Release: a block goes back, and is one with the empty blocks it touches.
LEMMA ReleaseKeeps ==
  ASSUME NEW list, Sorted(list), NEW p \in Nat, NEW n \in Nat \ {0},
         \A u \in Stretch(p, n) : u \notin EmptyUnits(list)
  PROVE  /\ Sorted(Release(list, Block(p, n)))
         /\ EmptyUnits(Release(list, Block(p, n))) = EmptyUnits(list) \union Stretch(p, n)
         /\ Separate(list) => Separate(Release(list, Block(p, n)))
<1> DEFINE len == Len(list)
           i == Before(list, p)
           left == i > 0 /\ End(list[i]) = p
           right == i < len /\ p + n = list[i + 1].at
           at == IF left THEN list[i].at ELSE p
           end == IF right THEN End(list[i + 1]) ELSE p + n
           b == Block(at, end - at)
           from == IF left THEN i - 1 ELSE i
           to == IF right THEN i + 2 ELSE i + 1
<1>1. len \in Nat /\ DOMAIN list = 1 .. len /\ i \in 0 .. len
  BY ListBlocks, BeforeSplits
<1>2. /\ i > 0 => End(list[i]) <= p
      /\ i < len => p + n <= list[i + 1].at
  BY Between
<1>3. /\ \A k \in 1 .. len : list[k].at \in Nat /\ list[k].size \in Nat /\ list[k].size > 0
                             /\ End(list[k]) = list[k].at + list[k].size
      /\ \A k, l \in 1 .. len : k < l => End(list[k]) <= list[l].at
  BY ListBlocks
<1>4. Release(list, Block(p, n)) = Spliced(list, from, b, to)
  <2>1. Block(p, n).at = p /\ End(Block(p, n)) = p + n
    BY DEF Block, End
  <2> QED BY <2>1 DEF Release, Spliced
<1> HIDE DEF len, i
<1>5. from \in 0 .. len /\ to \in from + 1 .. len + 1
  BY <1>1
<1>6. ASSUME left PROVE i \in 1 .. len /\ list[i].at \in Nat /\ list[i].size \in Nat /\ list[i].size > 0 /\ list[i].at + list[i].size = p
  BY <1>1, <1>3, <1>6
<1>7. ASSUME right
      PROVE  /\ i + 1 \in 1 .. len /\ list[i + 1].at = p + n /\ list[i + 1].size \in Nat /\ list[i + 1].size > 0
             /\ End(list[i + 1]) = p + n + list[i + 1].size
  BY <1>1, <1>3, <1>7
<1>8. at \in Nat /\ end \in Nat /\ at <= p /\ p + n <= end
  BY <1>6, <1>7
<1> HIDE DEF at, end
<1>9. b \in Empty /\ b.at = at /\ b.size = end - at /\ End(b) = end
  BY <1>8 DEF Block, Empty, End
<1> HIDE DEF b
<1>10. ASSUME from > 0
       PROVE  End(list[from]) <= at /\ (Separate(list) => End(list[from]) < at)
  <2>1. CASE left
    <3>1. i - 1 \in 1 .. len - 1 /\ i \in 1 .. len /\ i - 1 + 1 = i /\ from = i - 1 /\ at = list[i].at
      BY <1>1, <1>10, <2>1 DEF at
    <3>2. End(list[i - 1]) <= list[i].at
      BY <1>1, <1>3, <3>1
    <3>3. Separate(list) => End(list[i - 1]) < list[i].at
      BY <3>1 DEF Separate, len
    <3> QED BY <3>1, <3>2, <3>3
  <2>2. CASE ~left
    <3>1. i \in 1 .. len /\ from = i /\ at = p
      BY <1>1, <1>10, <2>2 DEF at
    <3>2. End(list[i]) <= p /\ End(list[i]) # p /\ End(list[i]) \in Nat
      BY <1>2, <1>3, <2>2, <3>1
    <3> QED BY <3>1, <3>2
  <2> QED BY <2>1, <2>2
<1>11. ASSUME to <= len
       PROVE  end <= list[to].at /\ (Separate(list) => end < list[to].at)
  <2>1. CASE right
    <3>1. i + 1 \in 1 .. len - 1 /\ i + 2 \in 1 .. len /\ i + 1 + 1 = i + 2 /\ to = i + 2 /\ end = End(list[i + 1])
      BY <1>1, <1>11, <2>1 DEF end
    <3>2. End(list[i + 1]) <= list[i + 2].at
      BY <1>1, <1>3, <3>1
    <3>3. Separate(list) => End(list[i + 1]) < list[i + 2].at
      BY <3>1 DEF Separate, len
    <3> QED BY <3>1, <3>2, <3>3
  <2>2. CASE ~right
    <3>1. i + 1 \in 1 .. len /\ i < len /\ to = i + 1 /\ end = p + n
      BY <1>1, <1>11, <2>2 DEF end
    <3>2. p + n <= list[i + 1].at /\ p + n # list[i + 1].at /\ list[i + 1].at \in Nat
      BY <1>2, <1>3, <2>2, <3>1
    <3> QED BY <3>1, <3>2
  <2> QED BY <2>1, <2>2
<1>12. ASSUME NEW k \in from + 1 .. to - 1
       PROVE  (left /\ k = i) \/ (right /\ k = i + 1)
  BY <1>1
<1>13. ASSUME NEW k \in from + 1 .. to - 1
       PROVE  at <= list[k].at /\ End(list[k]) <= end
  <2>1. CASE left /\ k = i
    <3>1. list[k].at = at /\ End(list[k]) = p
      BY <2>1 DEF at
    <3> QED BY <1>8, <3>1
  <2>2. CASE right /\ k = i + 1
    <3>1. list[k].at = p + n /\ End(list[k]) = end
      BY <2>2 DEF end
    <3> QED BY <1>8, <3>1
  <2> QED BY <1>12, <2>1, <2>2
<1>14. Stretch(at, end - at) \subseteq EmptyUnits(list) \union Stretch(p, n)
  <2> SUFFICES ASSUME NEW u \in Nat, at <= u, u < end, ~(p <= u /\ u < p + n)
               PROVE  u \in EmptyUnits(list)
    BY <1>8 DEF Stretch, Covers
  <2>1. CASE u < p
    <3>1. left /\ at = list[i].at
      BY <2>1 DEF at
    <3>2. Covers(u, list[i].at, list[i].size) /\ i \in 1 .. len
      BY <1>6, <2>1, <3>1 DEF Covers
    <3> QED BY <1>1, <3>2 DEF EmptyUnits
  <2>2. CASE p + n <= u
    <3>1. right /\ end = End(list[i + 1])
      BY <2>2 DEF end
    <3>2. Covers(u, list[i + 1].at, list[i + 1].size) /\ i + 1 \in 1 .. len
      BY <1>7, <2>2, <3>1 DEF Covers
    <3> QED BY <1>1, <3>2 DEF EmptyUnits
  <2> QED BY <2>1, <2>2
<1>15. Stretch(p, n) \subseteq Stretch(at, end - at)
  BY <1>8 DEF Stretch, Covers
<1> DEFINE r == Spliced(list, from, b, to)
<1> HIDE DEF from, to, left, right
<1>16. /\ Sorted(r)
       /\ EmptyUnits(r) = EmptyUnits(list) \union Stretch(b.at, b.size)
       /\ Separate(list) => Separate(r)
  <2>1. from \in 0 .. Len(list) /\ to \in from + 1 .. Len(list) + 1
    BY <1>5 DEF len
  <2>2. from > 0 => End(list[from]) <= b.at /\ (Separate(list) => End(list[from]) < b.at)
    BY <1>9, <1>10, Zenon
  <2>3. to <= Len(list) => End(b) <= list[to].at /\ (Separate(list) => End(b) < list[to].at)
    BY <1>9, <1>11, Zenon DEF len
  <2>4. \A k \in from + 1 .. to - 1 : b.at <= list[k].at /\ End(list[k]) <= End(b)
    BY <1>9, <1>13, Zenon
  <2> QED BY <1>9, <2>1, <2>2, <2>3, <2>4, SplicedSorted
<1>17. EmptyUnits(r) = EmptyUnits(list) \union Stretch(p, n)
  BY <1>9, <1>14, <1>15, <1>16
<1> QED BY <1>4, <1>16, <1>17

\* Shrink: the tail of a block goes back. Below the first empty block it joins nothing.
LEMMA ShrinkKeeps ==
  ASSUME NEW list, Sorted(list), NEW p \in Nat, NEW old \in Nat, NEW n \in Nat \ {0}, n < old,
         \A u \in Stretch(p, old) : u \notin EmptyUnits(list)
  PROVE  /\ Sorted(Shrink(list, p, old, n))
         /\ EmptyUnits(Shrink(list, p, old, n)) = EmptyUnits(list) \union Stretch(p + n, old - n)
         /\ Separate(list) /\ (list = << >> \/ ~(p < list[1].at)) => Separate(Shrink(list, p, old, n))
<1> DEFINE len == Len(list)
           i == Before(list, p)
           joins == i < len /\ list[i + 1].at = (IF i = 0 THEN p + n ELSE p + old)
           end == IF joins THEN End(list[i + 1]) ELSE p + old
           b == Block(p + n, end - (p + n))
           to == IF joins THEN i + 2 ELSE i + 1
<1>1. len \in Nat /\ DOMAIN list = 1 .. len /\ i \in 0 .. len
  BY ListBlocks, BeforeSplits
<1>2. /\ i > 0 => End(list[i]) <= p
      /\ i < len => p + old <= list[i + 1].at
  <2>1. old \in Nat \ {0}
    OBVIOUS
  <2> QED BY <2>1, Between
<1>3. /\ \A k \in 1 .. len : list[k].at \in Nat /\ list[k].size \in Nat /\ list[k].size > 0
                             /\ End(list[k]) = list[k].at + list[k].size
      /\ \A k, l \in 1 .. len : k < l => End(list[k]) <= list[l].at
  BY ListBlocks
<1>4. Shrink(list, p, old, n) = Spliced(list, i, b, to)
  BY DEF Shrink, Spliced
<1>5. list = << >> \/ ~(p < list[1].at) => len = 0 \/ i > 0
  <2>1. ASSUME i = 0, len > 0 PROVE list # << >> /\ p <= list[1].at
    <3>1. 1 \in 1 .. len /\ ~(1 <= i)
      BY <1>1, <2>1
    <3>2. ~(list[1].at < p) /\ list[1].at \in Nat
      BY <1>3, <3>1, BeforeSplits
    <3> QED BY <2>1, <3>2
  <2>2. ASSUME i = 0, len > 0 PROVE p < list[1].at
    <3>1. p + old <= list[1].at /\ list[1].at \in Nat
      BY <1>1, <1>2, <1>3, <2>2
    <3> QED BY <3>1
  <2> QED BY <1>1, <2>1, <2>2
<1> HIDE DEF len, i
<1>6. to \in i + 1 .. len + 1
  BY <1>1
<1>7. ASSUME joins
      PROVE  /\ i > 0 /\ i + 1 \in 1 .. len /\ list[i + 1].at = p + old /\ list[i + 1].size \in Nat /\ list[i + 1].size > 0
             /\ End(list[i + 1]) = p + old + list[i + 1].size
  <2>1. i + 1 \in 1 .. len /\ p + old <= list[i + 1].at /\ list[i + 1].at \in Nat
    BY <1>1, <1>2, <1>3, <1>7
  <2>2. i # 0
    BY <1>7, <2>1
  <2> QED BY <1>1, <1>3, <1>7, <2>1, <2>2
<1>8. end \in Nat /\ p + n \in Nat /\ p + n < p + old /\ p + old <= end
  BY <1>7
<1> HIDE DEF end
<1>9. b \in Empty /\ b.at = p + n /\ b.size = end - (p + n) /\ End(b) = end
  BY <1>8 DEF Block, Empty, End
<1> HIDE DEF b
<1>10. ASSUME i > 0
       PROVE  End(list[i]) < p + n
  <2>1. End(list[i]) <= p /\ End(list[i]) \in Nat
    BY <1>1, <1>2, <1>3, <1>10
  <2> QED BY <2>1
<1>11. ASSUME to <= len
       PROVE  end <= list[to].at /\ (Separate(list) /\ i > 0 => end < list[to].at)
  <2>1. CASE joins
    <3>1. i + 1 \in 1 .. len - 1 /\ i + 2 \in 1 .. len /\ i + 1 + 1 = i + 2 /\ to = i + 2 /\ end = End(list[i + 1])
      BY <1>1, <1>11, <2>1 DEF end
    <3>2. End(list[i + 1]) <= list[i + 2].at
      BY <1>1, <1>3, <3>1
    <3>3. Separate(list) => End(list[i + 1]) < list[i + 2].at
      BY <3>1 DEF Separate, len
    <3> QED BY <3>1, <3>2, <3>3
  <2>2. CASE ~joins
    <3>1. i + 1 \in 1 .. len /\ i < len /\ to = i + 1 /\ end = p + old
      BY <1>1, <1>11, <2>2 DEF end
    <3>2. p + old <= list[i + 1].at /\ (i > 0 => p + old # list[i + 1].at) /\ list[i + 1].at \in Nat
      BY <1>2, <1>3, <2>2, <3>1
    <3> QED BY <3>1, <3>2
  <2> QED BY <2>1, <2>2
<1>12. ASSUME NEW k \in i + 1 .. to - 1
       PROVE  p + n <= list[k].at /\ End(list[k]) <= end
  <2>1. joins /\ k = i + 1
    BY <1>1
  <2>2. list[k].at = p + old /\ End(list[k]) = end
    BY <1>7, <2>1 DEF end
  <2> QED BY <1>8, <2>2
<1>13. Stretch(p + n, end - (p + n)) \subseteq EmptyUnits(list) \union Stretch(p + n, old - n)
  <2> SUFFICES ASSUME NEW u \in Nat, p + n <= u, u < end, ~(u < p + old)
               PROVE  u \in EmptyUnits(list)
    BY <1>8 DEF Stretch, Covers
  <2>1. joins /\ end = End(list[i + 1])
    BY DEF end
  <2>2. Covers(u, list[i + 1].at, list[i + 1].size) /\ i + 1 \in 1 .. len
    BY <1>7, <2>1 DEF Covers
  <2> QED BY <1>1, <2>2 DEF EmptyUnits
<1>14. Stretch(p + n, old - n) \subseteq Stretch(p + n, end - (p + n))
  BY <1>8 DEF Stretch, Covers
<1> DEFINE r == Spliced(list, i, b, to)
<1> HIDE DEF to, joins
<1>15. /\ Sorted(r)
       /\ EmptyUnits(r) = EmptyUnits(list) \union Stretch(b.at, b.size)
       /\ Separate(list) /\ (to <= len => i > 0) => Separate(r)
  <2>1. i \in 0 .. Len(list) /\ to \in i + 1 .. Len(list) + 1
    BY <1>1, <1>6 DEF len
  <2>2. i > 0 => End(list[i]) <= b.at /\ End(list[i]) < b.at
    <3>1. ASSUME i > 0 PROVE End(list[i]) <= p + n
      <4>1. End(list[i]) \in Nat
        BY <1>1, <1>3, <3>1
      <4> QED BY <1>10, <3>1, <4>1
    <3> QED BY <1>9, <1>10, <3>1, Zenon
  <2>3. to <= Len(list) => End(b) <= list[to].at /\ (Separate(list) /\ i > 0 => End(b) < list[to].at)
    BY <1>9, <1>11, Zenon DEF len
  <2>4. \A k \in i + 1 .. to - 1 : b.at <= list[k].at /\ End(list[k]) <= End(b)
    BY <1>9, <1>12, Zenon
  <2> QED BY <1>9, <2>1, <2>2, <2>3, <2>4, SplicedSorted DEF len
<1>16. EmptyUnits(r) = EmptyUnits(list) \union Stretch(p + n, old - n)
  BY <1>9, <1>13, <1>14, <1>15
<1>17. len = 0 => ~(to <= len)
  BY <1>1, <1>6
<1> QED BY <1>4, <1>5, <1>15, <1>16, <1>17
----------------------------------------------------------------------------
(***************************************************************************)
(* The heap stays tiled.                                                      *)
(***************************************************************************)
LEMMA TilingFacts ==
  ASSUME NEW list, NEW held, Tiling(list, held)
  PROVE  /\ Sorted(list)
         /\ \A p \in DOMAIN held : p \in Nat /\ held[p] \in Nat /\ held[p] > 0 /\ p + held[p] <= Total
         /\ \A p, q \in DOMAIN held : p < q => p + held[p] <= q
         /\ \A u : u \in EmptyUnits(list) <=> u \in Nat /\ u < Total /\ \A p \in DOMAIN held : ~Covers(u, p, held[p])
<1> USE HeapAssumption
<1>1. \A u : u \in Units <=> u \in Nat /\ u < Total
  BY DEF Units
<1> QED BY <1>1 DEF Tiling

\* An allocated block has no empty unit, and what precedes it has none of its own.
LEMMA HeldApart ==
  ASSUME NEW list, NEW held, Tiling(list, held), NEW p \in DOMAIN held
  PROVE  /\ \A u \in Stretch(p, held[p]) : u \notin EmptyUnits(list) /\ u < Total
         /\ \A q \in DOMAIN held : q # p => \A u \in Stretch(p, held[p]) : ~Covers(u, q, held[q])
<1>1. /\ p \in Nat /\ held[p] \in Nat /\ held[p] > 0 /\ p + held[p] <= Total /\ Total \in Nat
  BY TilingFacts, HeapAssumption
<1>2. ASSUME NEW u \in Stretch(p, held[p]) PROVE u \notin EmptyUnits(list) /\ u < Total
  <2>1. u \in Nat /\ Covers(u, p, held[p])
    BY DEF Stretch
  <2>2. u < Total
    BY <1>1, <2>1 DEF Covers
  <2> QED BY <2>1, <2>2, TilingFacts
<1>3. ASSUME NEW q \in DOMAIN held, q # p, NEW u \in Stretch(p, held[p]) PROVE ~Covers(u, q, held[q])
  <2>1. q \in Nat /\ held[q] \in Nat
    BY TilingFacts
  <2>2. p + held[p] <= q \/ q + held[q] <= p
    BY <1>1, <1>3, <2>1, TilingFacts
  <2>3. u \in Nat /\ Covers(u, p, held[p])
    BY DEF Stretch
  <2> QED BY <1>1, <2>1, <2>2, <2>3, ApartUnits
<1> QED BY <1>2, <1>3

\* A stretch of empty units lies in the heap, between the allocated blocks.
LEMMA EmptyApart ==
  ASSUME NEW list, NEW held, Tiling(list, held), NEW at \in Nat, NEW n \in Nat \ {0},
         Stretch(at, n) \subseteq EmptyUnits(list)
  PROVE  /\ at + n <= Total
         /\ \A q \in DOMAIN held : q # at /\ (at + n <= q \/ q + held[q] <= at)
<1>1. at \in Stretch(at, n) /\ at + n - 1 \in Stretch(at, n)
  BY DEF Stretch, Covers
<1>2. at + n <= Total
  <2>1. at + n - 1 < Total /\ Total \in Nat
    BY <1>1, TilingFacts, HeapAssumption
  <2> QED BY <2>1
<1>3. ASSUME NEW q \in DOMAIN held PROVE q # at /\ (at + n <= q \/ q + held[q] <= at)
  <2>1. q \in Nat /\ held[q] \in Nat /\ held[q] > 0
    BY TilingFacts
  <2> DEFINE h == held[q]
  <2>2. ~Covers(at, q, h)
    BY <1>1, TilingFacts
  <2>3. Covers(q, q, h)
    BY <2>1 DEF Covers
  <2>4. q \notin Stretch(at, n)
    BY <2>3, TilingFacts
  <2> HIDE DEF h
  <2>5. h \in Nat /\ h > 0
    BY <2>1 DEF h
  <2> QED BY <2>1, <2>2, <2>4, <2>5 DEF Covers, Stretch, h
<1> QED BY <1>2, <1>3

\* What is in an empty block is empty.
LEMMA FrontEmpty ==
  ASSUME NEW list, Sorted(list), NEW i \in 1 .. Len(list), NEW n \in Nat, n <= list[i].size
  PROVE  Stretch(list[i].at, n) \subseteq EmptyUnits(list)
<1>1. i \in DOMAIN list /\ list[i].at \in Nat /\ list[i].size \in Nat
  BY ListBlocks
<1>2. ASSUME NEW u \in Stretch(list[i].at, n) PROVE u \in Nat /\ Covers(u, list[i].at, list[i].size)
  BY <1>1 DEF Stretch, Covers
<1> QED BY <1>1, <1>2 DEF EmptyUnits

\* malloc: the front of an empty block becomes an allocated one.
LEMMA AllotTiles ==
  ASSUME NEW list, NEW held, Tiling(list, held),
         NEW i \in 1 .. Len(list), NEW n \in Nat \ {0}, n <= list[i].size
  PROVE  /\ list[i].at \in Nat /\ list[i].at \notin DOMAIN held
         /\ Tiling(Take(list, i, n), With(held, list[i].at, n))
<1> DEFINE at == list[i].at
           r == Take(list, i, n)
           new == With(held, at, n)
<1>1. Sorted(list) /\ at \in Nat
  BY TilingFacts, ListBlocks
<1>2. Stretch(at, n) \subseteq EmptyUnits(list)
  BY <1>1, FrontEmpty
<1>3. Sorted(r) /\ EmptyUnits(r) = EmptyUnits(list) \ Stretch(at, n)
  BY <1>1, TakeKeeps
<1> HIDE DEF at, r
<1>4. /\ at + n <= Total
      /\ \A q \in DOMAIN held : q # at /\ (at + n <= q \/ q + held[q] <= at)
  BY <1>1, <1>2, EmptyApart
<1>5. DOMAIN new = DOMAIN held \union {at} /\ new[at] = n /\ \A q \in DOMAIN held : new[q] = held[q]
  BY <1>4 DEF With
<1> HIDE DEF new
<1>6. /\ \A p \in DOMAIN held : p \in Nat /\ held[p] \in Nat /\ held[p] > 0 /\ p + held[p] <= Total
      /\ \A p, q \in DOMAIN held : p < q => p + held[p] <= q
  BY TilingFacts
<1>7. \A p \in DOMAIN new : p \in Nat /\ new[p] \in Nat \ {0} /\ p + new[p] <= Total
  BY <1>1, <1>4, <1>5, <1>6
<1>8. ASSUME NEW p \in DOMAIN new, NEW q \in DOMAIN new, p < q PROVE p + new[p] <= q
  <2>1. CASE p = at
    <3>1. q \in DOMAIN held
      BY <1>1, <1>5, <1>8, <2>1
    <3>2. at + n <= q \/ q + held[q] <= at
      BY <1>4, <3>1
    <3>3. q \in Nat /\ held[q] \in Nat /\ held[q] > 0
      BY <1>6, <3>1
    <3> QED BY <1>1, <1>5, <1>8, <2>1, <3>2, <3>3
  <2>2. CASE q = at
    <3>1. p \in DOMAIN held
      BY <1>1, <1>5, <1>8, <2>2
    <3>2. at + n <= p \/ p + held[p] <= at
      BY <1>4, <3>1
    <3>3. p \in Nat /\ new[p] = held[p]
      BY <1>5, <1>6, <3>1
    <3> QED BY <1>1, <1>8, <2>2, <3>2, <3>3
  <2>3. CASE p # at /\ q # at
    BY <1>5, <1>6, <1>8, <2>3
  <2> QED BY <2>1, <2>2, <2>3
<1>9. ASSUME NEW u PROVE u \in EmptyUnits(r) <=> u \in Units /\ \A p \in DOMAIN new : ~Covers(u, p, new[p])
  <2>1. u \in EmptyUnits(r) <=> u \in EmptyUnits(list) /\ u \notin Stretch(at, n)
    BY <1>3
  <2>2. u \in Nat => (u \notin Stretch(at, n) <=> ~Covers(u, at, new[at]))
    BY <1>5 DEF Stretch
  <2>3. u \in Units => u \in Nat
    BY HeapAssumption DEF Units
  <2>4. u \in EmptyUnits(list) <=> u \in Units /\ \A p \in DOMAIN held : ~Covers(u, p, new[p])
    BY <1>5 DEF Tiling
  <2> QED BY <1>5, <2>1, <2>2, <2>3, <2>4
<1>10. Tiling(r, new)
  <2>1. EmptyUnits(r) = {u \in Units : \A p \in DOMAIN new : ~Covers(u, p, new[p])}
    BY <1>9
  <2> QED BY <1>3, <1>7, <1>8, <2>1 DEF Tiling
<1> QED BY <1>1, <1>4, <1>10 DEF at, r, new

\* free: an allocated block becomes empty.
LEMMA GiveTiles ==
  ASSUME NEW list, NEW held, Tiling(list, held), NEW p \in DOMAIN held
  PROVE  Tiling(Release(list, Block(p, held[p])), Without(held, p))
<1> DEFINE r == Release(list, Block(p, held[p]))
           new == Without(held, p)
<1>1. /\ Sorted(list)
      /\ \A q \in DOMAIN held : q \in Nat /\ held[q] \in Nat /\ held[q] > 0 /\ q + held[q] <= Total
      /\ \A q, s \in DOMAIN held : q < s => q + held[q] <= s
  BY TilingFacts
<1>2. p \in Nat /\ held[p] \in Nat \ {0} /\ \A u \in Stretch(p, held[p]) : u \notin EmptyUnits(list)
  BY <1>1, HeldApart
<1>3. Sorted(r) /\ EmptyUnits(r) = EmptyUnits(list) \union Stretch(p, held[p])
  BY <1>1, <1>2, ReleaseKeeps
<1> HIDE DEF r
<1>4. DOMAIN new = DOMAIN held \ {p} /\ \A q \in DOMAIN new : new[q] = held[q]
  BY DEF Without
<1> HIDE DEF new
<1>5. ASSUME NEW u PROVE u \in EmptyUnits(r) <=> u \in Units /\ \A q \in DOMAIN new : ~Covers(u, q, new[q])
  <2>1. u \in EmptyUnits(list) <=> u \in Units /\ \A q \in DOMAIN held : ~Covers(u, q, held[q])
    BY DEF Tiling
  <2>2. u \in Units => u \in Nat
    BY HeapAssumption DEF Units
  <2>3. u \in Nat => (u \in Stretch(p, held[p]) <=> Covers(u, p, held[p]))
    BY DEF Stretch
  <2>4. u \in Stretch(p, held[p]) => u \in Units /\ \A q \in DOMAIN new : ~Covers(u, q, new[q])
    <3> SUFFICES ASSUME u \in Stretch(p, held[p]) PROVE u \in Units /\ \A q \in DOMAIN new : ~Covers(u, q, new[q])
      OBVIOUS
    <3>1. u \in Nat /\ u < Total
      BY HeldApart DEF Stretch
    <3>2. \A q \in DOMAIN held : q # p => ~Covers(u, q, held[q])
      BY HeldApart
    <3>3. u \in Units
      BY <3>1, HeapAssumption DEF Units
    <3> QED BY <1>4, <3>2, <3>3
  <2> QED BY <1>3, <1>4, <2>1, <2>2, <2>3, <2>4
<1>6. \A q \in DOMAIN new : q \in Nat /\ new[q] \in Nat \ {0} /\ q + new[q] <= Total
  BY <1>1, <1>4
<1>7. \A q, s \in DOMAIN new : q < s => q + new[q] <= s
  BY <1>1, <1>4
<1>8. Tiling(r, new)
  <2>1. EmptyUnits(r) = {u \in Units : \A q \in DOMAIN new : ~Covers(u, q, new[q])}
    BY <1>5
  <2> QED BY <1>3, <1>6, <1>7, <2>1 DEF Tiling
<1> QED BY <1>8 DEF r, new

\* realloc to less: the tail of a block becomes empty.
LEMMA ShrinkTiles ==
  ASSUME NEW list, NEW held, Tiling(list, held), NEW p \in DOMAIN held,
         NEW n \in Nat \ {0}, n < held[p]
  PROVE  Tiling(Shrink(list, p, held[p], n), With(held, p, n))
<1> DEFINE r == Shrink(list, p, held[p], n)
           new == With(held, p, n)
           old == held[p]
<1>1. /\ Sorted(list)
      /\ \A q \in DOMAIN held : q \in Nat /\ held[q] \in Nat /\ held[q] > 0 /\ q + held[q] <= Total
      /\ \A q, s \in DOMAIN held : q < s => q + held[q] <= s
  BY TilingFacts
<1>2. p \in Nat /\ old \in Nat /\ p + old <= Total /\ \A u \in Stretch(p, old) : u \notin EmptyUnits(list)
  BY <1>1, HeldApart
<1>3. Sorted(r) /\ EmptyUnits(r) = EmptyUnits(list) \union Stretch(p + n, old - n)
  BY <1>1, <1>2, ShrinkKeeps
<1> HIDE DEF r
<1>4. DOMAIN new = DOMAIN held /\ new[p] = n /\ \A q \in DOMAIN held : q # p => new[q] = held[q]
  BY DEF With
<1> HIDE DEF new, old
<1>5. n < old /\ held[p] = old
  BY DEF old
<1>6. \A u \in Nat : Covers(u, p, old) <=> Covers(u, p, n) \/ u \in Stretch(p + n, old - n)
  BY <1>2, <1>5 DEF Stretch, Covers
<1>7. \A u \in Stretch(p + n, old - n) : u \in Nat /\ ~Covers(u, p, n) /\ u \in Stretch(p, old)
  BY <1>2, <1>5 DEF Stretch, Covers
<1>8. ASSUME NEW u PROVE u \in EmptyUnits(r) <=> u \in Units /\ \A q \in DOMAIN new : ~Covers(u, q, new[q])
  <2>1. u \in EmptyUnits(list) <=> u \in Units /\ \A q \in DOMAIN held : ~Covers(u, q, held[q])
    BY DEF Tiling
  <2>2. u \in Units => u \in Nat
    BY HeapAssumption DEF Units
  <2>3. u \in Stretch(p + n, old - n) => u \in Units /\ \A q \in DOMAIN new : ~Covers(u, q, new[q])
    <3> SUFFICES ASSUME u \in Stretch(p + n, old - n) PROVE u \in Units /\ \A q \in DOMAIN new : ~Covers(u, q, new[q])
      OBVIOUS
    <3>1. u \in Nat /\ ~Covers(u, p, n) /\ u \in Stretch(p, held[p])
      BY <1>5, <1>7
    <3>2. u < Total /\ \A q \in DOMAIN held : q # p => ~Covers(u, q, held[q])
      BY <3>1, HeldApart
    <3>3. u \in Units
      BY <3>1, <3>2, HeapAssumption DEF Units
    <3> QED BY <1>4, <3>1, <3>2, <3>3
  <2>4. u \in Nat => (~Covers(u, p, held[p]) => ~Covers(u, p, new[p]))
    BY <1>4, <1>5, <1>6
  <2>5. u \in Nat => (~Covers(u, p, new[p]) => ~Covers(u, p, held[p]) \/ u \in Stretch(p + n, old - n))
    BY <1>4, <1>5, <1>6
  <2> QED BY <1>3, <1>4, <2>1, <2>2, <2>3, <2>4, <2>5
<1>9. \A q \in DOMAIN new : q \in Nat /\ new[q] \in Nat \ {0} /\ q + new[q] <= Total
  <2>1. Total \in Nat
    BY HeapAssumption
  <2> QED BY <1>1, <1>2, <1>4, <1>5, <2>1
<1>10. \A q, s \in DOMAIN new : q < s => q + new[q] <= s
  BY <1>1, <1>4, <1>5
<1>11. Tiling(r, new)
  <2>1. EmptyUnits(r) = {u \in Units : \A q \in DOMAIN new : ~Covers(u, q, new[q])}
    BY <1>8
  <2> QED BY <1>3, <1>9, <1>10, <2>1 DEF Tiling
<1> QED BY <1>11 DEF r, new

\* realloc in place: the block takes the front of the empty one behind it.
LEMMA GrowTiles ==
  ASSUME NEW list, NEW held, Tiling(list, held), NEW p \in DOMAIN held,
         NEW i \in 1 .. Len(list), list[i].at = p + held[p],
         NEW n \in Nat, n > held[p], n - held[p] <= list[i].size
  PROVE  Tiling(Take(list, i, n - held[p]), With(held, p, n))
<1> DEFINE r == Take(list, i, n - held[p])
           new == With(held, p, n)
           old == held[p]
           more == n - old
<1>1. /\ Sorted(list)
      /\ \A q \in DOMAIN held : q \in Nat /\ held[q] \in Nat /\ held[q] > 0 /\ q + held[q] <= Total
      /\ \A q, s \in DOMAIN held : q < s => q + held[q] <= s
  BY TilingFacts
<1>2. p \in Nat /\ old \in Nat /\ old > 0 /\ p + old <= Total /\ n > old
  BY <1>1
<1>3. more \in Nat \ {0} /\ more <= list[i].size /\ list[i].at = p + old
  BY <1>2
<1>4. Sorted(r) /\ EmptyUnits(r) = EmptyUnits(list) \ Stretch(p + old, more)
  BY <1>1, <1>3, TakeKeeps
<1>5. Stretch(p + old, more) \subseteq EmptyUnits(list)
  BY <1>1, <1>3, FrontEmpty
<1> HIDE DEF r
<1>6. DOMAIN new = DOMAIN held /\ new[p] = n /\ \A q \in DOMAIN held : q # p => new[q] = held[q]
  BY DEF With
<1> HIDE DEF new, old
<1>7. /\ p + n <= Total
      /\ \A q \in DOMAIN held : p + n <= q \/ q + held[q] <= p + old
  <2>1. p + old \in Nat /\ p + old + more = p + n
    BY <1>2
  <2>2. /\ p + old + more <= Total
        /\ \A q \in DOMAIN held : p + old + more <= q \/ q + held[q] <= p + old
    <3> HIDE DEF more
    <3> QED BY <1>3, <1>5, <2>1, EmptyApart
  <2> QED BY <2>1, <2>2
<1>8. \A u \in Nat : Covers(u, p, n) <=> Covers(u, p, old) \/ u \in Stretch(p + old, more)
  BY <1>2 DEF Stretch, Covers
<1> HIDE DEF more
<1>9. held[p] = old
  BY DEF old
<1>10. ASSUME NEW u PROVE u \in EmptyUnits(r) <=> u \in Units /\ \A q \in DOMAIN new : ~Covers(u, q, new[q])
  <2>1. u \in EmptyUnits(list) <=> u \in Units /\ \A q \in DOMAIN held : ~Covers(u, q, held[q])
    BY DEF Tiling
  <2>2. u \in Units => u \in Nat
    BY HeapAssumption DEF Units
  <2>3. u \in Nat => (Covers(u, p, new[p]) <=> Covers(u, p, held[p]) \/ u \in Stretch(p + old, more))
    BY <1>6, <1>8, <1>9
  <2> QED BY <1>4, <1>6, <2>1, <2>2, <2>3
<1>11. \A q \in DOMAIN new : q \in Nat /\ new[q] \in Nat \ {0} /\ q + new[q] <= Total
  <2> SUFFICES ASSUME NEW q \in DOMAIN new PROVE q \in Nat /\ new[q] \in Nat \ {0} /\ q + new[q] <= Total
    OBVIOUS
  <2>1. CASE q = p
    BY <1>2, <1>6, <1>7, <2>1
  <2>2. CASE q # p
    BY <1>1, <1>6, <2>2
  <2> QED BY <2>1, <2>2
<1>12. ASSUME NEW q \in DOMAIN new, NEW s \in DOMAIN new, q < s PROVE q + new[q] <= s
  <2>1. CASE q = p
    <3>1. p + n <= s \/ s + held[s] <= p + old
      BY <1>6, <1>7
    <3>2. s \in Nat /\ held[s] \in Nat /\ held[s] > 0 /\ p + old <= s
      BY <1>1, <1>6, <1>9, <1>12, <2>1
    <3> QED BY <1>2, <1>6, <2>1, <3>1, <3>2
  <2>2. CASE q # p
    BY <1>1, <1>6, <1>12, <2>2
  <2> QED BY <2>1, <2>2
<1>13. Tiling(r, new)
  <2>1. EmptyUnits(r) = {u \in Units : \A q \in DOMAIN new : ~Covers(u, q, new[q])}
    BY <1>10
  <2> QED BY <1>4, <1>11, <1>12, <2>1 DEF Tiling
<1> QED BY <1>13 DEF r, new
----------------------------------------------------------------------------
(***************************************************************************)
(* The steps.                                                                 *)
(***************************************************************************)
\* Each allocated block has the units for what was asked.
Sizing(held, wanted) ==
  /\ held \in [DOMAIN held -> Nat] /\ wanted \in [DOMAIN held -> Sizes]
  /\ \A p \in DOMAIN held : held[p] = UnitsFor(wanted[p])

HeapInv ==
  /\ started \in BOOLEAN
  /\ ~started => free = << >> /\ DOMAIN size = {}
  /\ Tiling(List, size)
  /\ Sizing(size, asked)

\* ALIGN_TO in units: enough for the bytes and a header, and never less for more.
LEMMA Division ==
  ASSUME NEW a \in Nat, NEW d \in Nat \ {0}
  PROVE  a \div d \in Nat /\ (a \div d) * d <= a /\ a < (a \div d) * d + d
  OBVIOUS

LEMMA Multiples ==
  ASSUME NEW a \in Nat, NEW b \in Nat, NEW d \in Nat \ {0}
  PROVE  /\ a * d \in Nat
         /\ a <= b => a * d <= b * d
         /\ a < b => a * d + d <= b * d
         /\ a * d < b * d + d => a <= b
  OBVIOUS

LEMMA UnitsForSize ==
  ASSUME NEW bytes \in Nat
  PROVE  /\ UnitsFor(bytes) \in Nat \ {0}
         /\ bytes + Unit <= UnitsFor(bytes) * Unit
         /\ \A more \in Nat : bytes <= more => UnitsFor(bytes) <= UnitsFor(more)
<1> USE HeapAssumption
<1> DEFINE n(b) == UnitsFor(b)
<1>1. ASSUME NEW b \in Nat
      PROVE  n(b) \in Nat /\ n(b) * Unit <= b + Unit + Unit - 1 /\ b + Unit + Unit - 1 < n(b) * Unit + Unit
  BY Division DEF UnitsFor
<1> HIDE DEF n
<1>2. bytes + Unit <= n(bytes) * Unit
  <2>1. n(bytes) * Unit \in Nat
    BY <1>1, Multiples
  <2> QED BY <1>1, <2>1
<1>3. n(bytes) # 0
  <2>1. 0 * Unit = 0
    OBVIOUS
  <2> QED BY <1>2, <2>1
<1>4. ASSUME NEW more \in Nat, bytes <= more PROVE n(bytes) <= n(more)
  <2>1. n(bytes) \in Nat /\ n(more) \in Nat /\ n(bytes) * Unit \in Nat /\ n(more) * Unit \in Nat
    BY <1>1, Multiples
  <2>2. n(bytes) * Unit < n(more) * Unit + Unit
    BY <1>1, <1>4, <2>1
  <2> QED BY <2>1, <2>2, Multiples
<1> QED BY <1>1, <1>2, <1>3, <1>4 DEF n

LEMMA WithSizing ==
  ASSUME NEW held, NEW wanted, Sizing(held, wanted), NEW p, NEW bytes \in Sizes
  PROVE  Sizing(With(held, p, UnitsFor(bytes)), With(wanted, p, bytes))
<1>1. UnitsFor(bytes) \in Nat
  BY UnitsForSize, HeapAssumption
<1> QED BY <1>1 DEF Sizing, With

LEMMA WithoutSizing ==
  ASSUME NEW held, NEW wanted, Sizing(held, wanted), NEW p
  PROVE  Sizing(Without(held, p), Without(wanted, p))
BY DEF Sizing, Without

LEMMA Started ==
  ASSUME HeapInv, DOMAIN size # {}
  PROVE  started /\ List = free /\ Tiling(free, size)
BY DEF HeapInv, List

LEMMA MallocKeeps ==
  ASSUME HeapInv, NEW bytes \in Sizes, Malloc(bytes)
  PROVE  HeapInv' /\ (Coalesced => Coalesced')
<1> DEFINE n == UnitsFor(bytes)
<1>1. n \in Nat \ {0}
  BY UnitsForSize, HeapAssumption
<1>2. started' = TRUE /\ List' = free' /\ Tiling(List, size) /\ Sizing(size, asked) /\ Sorted(List)
  BY DEF Malloc, List, HeapInv, Tiling
<1>3. Coalesced => Separate(List)
  <2>1. Separate(<<Block(0, Total)>>)
    BY DEF Separate
  <2> QED BY <2>1 DEF Coalesced, List
<1> HIDE DEF n
<1>4. CASE Fitting(List, n) = {}
  <2>1. free' = List /\ size' = size /\ asked' = asked
    BY <1>4 DEF Malloc, n
  <2> QED BY <1>2, <1>3, <2>1 DEF HeapInv, Coalesced
<1>5. CASE Fitting(List, n) # {}
  <2> DEFINE i == BestFit(List, n)
             at == List[i].at
  <2>1. i \in 1 .. Len(List) /\ n <= List[i].size
    <3>1. List[i].size >= n /\ i \in 1 .. Len(List)
      BY <1>1, <1>2, <1>5, BestFits
    <3>2. List[i].size \in Nat
      BY <1>2, <3>1, ListBlocks
    <3> QED BY <1>1, <3>1, <3>2
  <2>2. free' = Take(List, i, n) /\ size' = With(size, at, n) /\ asked' = With(asked, at, bytes)
    BY <1>5 DEF Malloc, n
  <2> HIDE DEF i
  <2>3. Tiling(free', size')
    BY <1>1, <1>2, <2>1, <2>2, AllotTiles
  <2>4. Sizing(size', asked')
    BY <1>2, <2>2, WithSizing DEF n
  <2>5. Separate(List) => Separate(free')
    BY <1>1, <1>2, <2>1, <2>2, TakeKeeps
  <2> QED BY <1>2, <1>3, <2>3, <2>4, <2>5 DEF HeapInv, Coalesced
<1> QED BY <1>4, <1>5

LEMMA FreeKeeps ==
  ASSUME HeapInv, NEW p \in DOMAIN size, Free(p)
  PROVE  HeapInv' /\ (Coalesced => Coalesced')
<1>1. started /\ Tiling(free, size) /\ Sizing(size, asked)
  BY Started DEF HeapInv
<1>2. /\ started' = started
      /\ free' = Release(free, Block(p, size[p]))
      /\ size' = Without(size, p) /\ asked' = Without(asked, p)
  BY DEF Free
<1>3. Tiling(free', size')
  BY <1>1, <1>2, GiveTiles
<1>4. Sizing(size', asked')
  BY <1>1, <1>2, WithoutSizing
<1>5. Separate(free) => Separate(free')
  <2>1. /\ Sorted(free) /\ p \in Nat /\ size[p] \in Nat \ {0}
        /\ \A u \in Stretch(p, size[p]) : u \notin EmptyUnits(free)
    BY <1>1, TilingFacts, HeldApart
  <2> QED BY <1>2, <2>1, ReleaseKeeps
<1> QED BY <1>1, <1>2, <1>3, <1>4, <1>5 DEF HeapInv, Coalesced, List

\* The block that moves is allotted anew before it goes.
LEMMA MoveKeeps ==
  ASSUME HeapInv, NEW p \in DOMAIN size, NEW bytes \in Sizes,
         Move(p, UnitsFor(bytes), bytes), UNCHANGED started
  PROVE  HeapInv' /\ (Coalesced => Coalesced')
<1> DEFINE n == UnitsFor(bytes)
<1>1. n \in Nat \ {0}
  BY UnitsForSize, HeapAssumption
<1>2. started /\ Tiling(free, size) /\ Sizing(size, asked) /\ Sorted(free)
  BY Started DEF HeapInv, Tiling
<1> HIDE DEF n
<1>3. CASE Fitting(free, n) = {}
  <2>1. free' = free /\ size' = size /\ asked' = asked
    BY <1>3 DEF Move, n
  <2> QED BY <1>2, <2>1 DEF HeapInv, Coalesced, List
<1>4. CASE Fitting(free, n) # {}
  <2> DEFINE i == BestFit(free, n)
             q == free[i].at
             taken == Take(free, i, n)
             both == With(size, q, n)
  <2>1. i \in 1 .. Len(free) /\ n <= free[i].size
    <3>1. free[i].size >= n /\ i \in 1 .. Len(free)
      BY <1>1, <1>2, <1>4, BestFits
    <3>2. free[i].size \in Nat
      BY <1>2, <3>1, ListBlocks
    <3> QED BY <1>1, <3>1, <3>2
  <2>2. /\ free' = Release(taken, Block(p, size[p]))
        /\ size' = With(Without(size, p), q, n)
        /\ asked' = With(Without(asked, p), q, bytes)
    BY <1>4 DEF Move, n
  <2> HIDE DEF i
  <2>3. q \notin DOMAIN size /\ Tiling(taken, both)
    BY <1>1, <1>2, <2>1, AllotTiles
  <2>4. Separate(free) => Separate(taken)
    BY <1>1, <1>2, <2>1, TakeKeeps
  <2> HIDE DEF q, taken
  <2>5. both[p] = size[p] /\ p \in DOMAIN both /\ Without(both, p) = With(Without(size, p), q, n)
    <3>1. p \in DOMAIN both /\ both[p] = size[p] /\ p # q
      BY <2>3 DEF With
    <3>2. DOMAIN both \ {p} = (DOMAIN size \ {p}) \union {q}
      BY <3>1 DEF With
    <3> QED BY <3>1, <3>2 DEF With, Without
  <2> HIDE DEF both
  <2>6. Tiling(free', size')
    BY <2>2, <2>3, <2>5, GiveTiles
  <2>7. Sizing(size', asked')
    BY <1>2, <2>2, WithSizing, WithoutSizing DEF n
  <2>8. Separate(taken) => Separate(free')
    <3>1. /\ Sorted(taken) /\ p \in Nat /\ size[p] \in Nat \ {0}
          /\ \A u \in Stretch(p, size[p]) : u \notin EmptyUnits(taken)
      BY <2>3, <2>5, TilingFacts, HeldApart
    <3> QED BY <2>2, <3>1, ReleaseKeeps
  <2> QED BY <1>2, <2>4, <2>6, <2>7, <2>8 DEF HeapInv, Coalesced, List
<1> QED BY <1>3, <1>4

LEMMA ReallocKeeps ==
  ASSUME HeapInv, NEW p \in DOMAIN size, NEW bytes \in Sizes, Realloc(p, bytes)
  PROVE  HeapInv' /\ (Coalesced /\ ~ShrinksBelowHead => Coalesced')
<1> DEFINE n == UnitsFor(bytes)
<1>1. n \in Nat \ {0} /\ p \in Nat /\ size[p] \in Nat /\ size[p] > 0
  <2>1. n \in Nat \ {0}
    BY UnitsForSize, HeapAssumption
  <2> QED BY <2>1, Started, TilingFacts
<1>2. started /\ Tiling(free, size) /\ Sizing(size, asked) /\ Sorted(free)
  BY Started DEF HeapInv, Tiling
<1>3. started' = started
  BY DEF Realloc
<1>4. ASSUME Resize(p, n, bytes), Tiling(free', With(size, p, n)) PROVE HeapInv'
  <2>1. size' = With(size, p, n) /\ asked' = With(asked, p, bytes)
    BY <1>4 DEF Resize
  <2>2. Sizing(size', asked')
    BY <1>2, <2>1, WithSizing
  <2> QED BY <1>2, <1>3, <1>4, <2>1, <2>2 DEF HeapInv, List
<1>5. CASE n = size[p] /\ Resize(p, n, bytes) /\ UNCHANGED free
  <2>1. With(size, p, n) = size
    <3>1. DOMAIN size \union {p} = DOMAIN size /\ size = [q \in DOMAIN size |-> size[q]]
      BY <1>2 DEF Sizing
    <3> HIDE DEF n
    <3> QED BY <1>5, <3>1 DEF With
  <2> QED BY <1>2, <1>4, <1>5, <2>1 DEF Coalesced
<1>6. CASE n < size[p] /\ free' = Shrink(free, p, size[p], n) /\ Resize(p, n, bytes)
  <2>1. Tiling(free', With(size, p, n))
    BY <1>1, <1>2, <1>6, ShrinkTiles
  <2>2. ASSUME ~ShrinksBelowHead PROVE free = << >> \/ ~(p < free[1].at)
    <3>1. p \in DOMAIN size \intersect DOMAIN size' /\ size'[p] < size[p]
      BY <1>6 DEF Resize, With
    <3> QED BY <2>2, <3>1 DEF ShrinksBelowHead
  <2>3. \A u \in Stretch(p, size[p]) : u \notin EmptyUnits(free)
    BY <1>2, HeldApart
  <2>4. Separate(free) /\ ~ShrinksBelowHead => Separate(free')
    BY <1>1, <1>2, <1>6, <2>2, <2>3, ShrinkKeeps
  <2> QED BY <1>4, <1>6, <2>1, <2>4 DEF Coalesced
<1>7. CASE n > size[p] /\ free = << >> /\ UNCHANGED <<free, size, asked>>
  BY <1>2, <1>3, <1>7 DEF HeapInv, List, Coalesced
<1>8. CASE /\ n > size[p] /\ Growable(p, n)
           /\ free' = Take(free, Before(free, p) + 1, n - size[p])
           /\ Resize(p, n, bytes)
  <2> DEFINE i == Before(free, p) + 1
             more == n - size[p]
  <2>1. /\ Before(free, p) < Len(free) /\ p + size[p] = free[i].at
        /\ free[i].size >= more
    BY <1>8 DEF Growable
  <2>2. i \in 1 .. Len(free)
    BY <1>1, <1>2, <2>1, BeforeSplits, ListBlocks
  <2>3. free[i].size \in Nat /\ more \in Nat /\ more <= free[i].size
    <3>1. free[i].size \in Nat
      BY <1>2, <2>2, ListBlocks
    <3> QED BY <1>1, <1>8, <2>1, <3>1
  <2> HIDE DEF i
  <2>4. Tiling(free', With(size, p, n))
    <3>1. free' = Take(free, i, n - size[p])
      BY <1>8 DEF i
    <3> QED BY <1>1, <1>2, <1>8, <2>1, <2>2, <2>3, <3>1, GrowTiles
  <2>5. Separate(free) => Separate(free')
    <3>1. free' = Take(free, i, more)
      BY <1>8 DEF i
    <3> HIDE DEF more
    <3> QED BY <1>2, <2>2, <2>3, <3>1, TakeKeeps
  <2> QED BY <1>4, <1>8, <2>4, <2>5 DEF Coalesced
<1>9. CASE Move(p, n, bytes)
  BY <1>3, <1>9, MoveKeeps
<1> QED
  <2>1. \/ n = size[p] /\ Resize(p, n, bytes) /\ UNCHANGED free
        \/ n < size[p] /\ free' = Shrink(free, p, size[p], n) /\ Resize(p, n, bytes)
        \/ n > size[p] /\ free = << >> /\ UNCHANGED <<free, size, asked>>
        \/ /\ n > size[p] /\ Growable(p, n)
           /\ free' = Take(free, Before(free, p) + 1, n - size[p])
           /\ Resize(p, n, bytes)
        \/ Move(p, n, bytes)
    BY Zenon DEF Realloc
  <2> QED BY <1>5, <1>6, <1>7, <1>8, <1>9, <2>1, Zenon

\* The heap as it is before the first malloc.
LEMMA Initially ==
  ASSUME Init
  PROVE  HeapInv
<1> DEFINE whole == <<Block(0, Total)>>
<1>1. Total \in Nat \ {0}
  BY HeapAssumption
<1>2. /\ started = FALSE /\ free = << >> /\ DOMAIN size = {} /\ DOMAIN asked = {}
      /\ List = whole
      /\ size \in [{} -> Nat] /\ asked \in [{} -> Sizes]
  BY DEF Init, List
<1>3. /\ whole \in Seq(Empty) /\ DOMAIN whole = {1}
      /\ whole[1].at = 0 /\ whole[1].size = Total
  BY <1>1 DEF Block, Empty
<1> HIDE DEF whole
<1>4. Sorted(whole)
  BY <1>3 DEF Sorted
<1>5. ASSUME NEW u PROVE u \in EmptyUnits(whole) <=> u \in Units
  <2>1. u \in EmptyUnits(whole) <=> u \in Nat /\ 0 <= u /\ u < 0 + Total
    BY <1>3 DEF EmptyUnits, Covers
  <2> QED BY <1>1, <2>1 DEF Units
<1>6. EmptyUnits(whole) = {u \in Units : \A p \in DOMAIN size : ~Covers(u, p, size[p])}
  BY <1>2, <1>5
<1>7. Tiling(List, size)
  BY <1>2, <1>4, <1>6 DEF Tiling
<1>8. Sizing(size, asked)
  BY <1>2 DEF Sizing
<1> QED BY <1>2, <1>7, <1>8 DEF HeapInv

\* The steps keep it, and merge the empty blocks but for the one that is excepted.
LEMMA StepKeeps ==
  ASSUME HeapInv, [Next]_vars
  PROVE  HeapInv' /\ (Coalesced /\ ~ShrinksBelowHead => Coalesced')
<1>1. CASE Next
  BY <1>1, MallocKeeps, FreeKeeps, ReallocKeeps, Zenon DEF Next
<1>2. CASE UNCHANGED vars
  BY <1>2 DEF vars, HeapInv, List, Coalesced
<1> QED BY <1>1, <1>2

\* A unit is in one block: an empty one or an allocated one.
LEMMA OneBlock ==
  ASSUME NEW list, NEW held, Tiling(list, held), NEW u \in Units
  PROVE  Cardinality({i \in DOMAIN list : Covers(u, list[i].at, list[i].size)})
         + Cardinality({p \in DOMAIN held : Covers(u, p, held[p])}) = 1
<1> DEFINE empty == {i \in DOMAIN list : Covers(u, list[i].at, list[i].size)}
           used == {p \in DOMAIN held : Covers(u, p, held[p])}
<1>1. u \in Nat
  BY HeapAssumption DEF Units
<1>2. /\ \A i, j \in DOMAIN list : i < j => list[i].at + list[i].size <= list[j].at
      /\ \A i \in DOMAIN list : i \in Nat /\ list[i].at \in Nat /\ list[i].size \in Nat
  BY ListBlocks, TilingFacts DEF Sorted, End
<1>3. ASSUME NEW i \in empty, NEW j \in empty PROVE i = j
  <2>1. /\ list[i].at <= u /\ u < list[i].at + list[i].size
        /\ list[j].at <= u /\ u < list[j].at + list[j].size
    BY DEF Covers
  <2>2. ~(i < j)
    BY <1>1, <1>2, <2>1
  <2>3. ~(j < i)
    BY <1>1, <1>2, <2>1
  <2> QED BY <1>2, <2>2, <2>3
<1>4. ASSUME NEW p \in used, NEW q \in used PROVE p = q
  <2>1. /\ p \in Nat /\ held[p] \in Nat /\ q \in Nat /\ held[q] \in Nat
        /\ (p < q => p + held[p] <= q) /\ (q < p => q + held[q] <= p)
    BY TilingFacts
  <2>2. p <= u /\ u < p + held[p] /\ q <= u /\ u < q + held[q]
    BY DEF Covers
  <2> QED BY <1>1, <2>1, <2>2
<1>5. empty # {} <=> used = {}
  BY <1>1 DEF Tiling, EmptyUnits
<1> HIDE DEF empty, used
<1>6. Cardinality({}) = 0
  BY FS_EmptySet
<1>7. CASE used = {}
  <2>1. PICK i \in empty : TRUE
    BY <1>5, <1>7
  <2>2. empty = {i}
    BY <1>3, <2>1
  <2>3. Cardinality(empty) = 1
    BY <2>2, FS_Singleton
  <2> QED BY <1>6, <1>7, <2>3 DEF empty, used
<1>8. CASE used # {}
  <2>1. PICK p \in used : TRUE
    BY <1>8
  <2>2. used = {p} /\ empty = {}
    BY <1>4, <1>5, <1>8, <2>1
  <2>3. Cardinality(used) = 1
    BY <2>2, FS_Singleton
  <2> QED BY <1>6, <2>2, <2>3 DEF empty, used
<1> QED BY <1>7, <1>8

LEMMA BlocksWithin ==
  ASSUME NEW list, NEW held, Tiling(list, held)
  PROVE  \A i \in DOMAIN list : list[i].at \in Units /\ list[i].size \in 1 .. Total
<1> SUFFICES ASSUME NEW i \in DOMAIN list
             PROVE  list[i].at \in Units /\ list[i].size \in 1 .. Total
  OBVIOUS
<1> DEFINE at == list[i].at
           n == list[i].size
<1>1. /\ Sorted(list) /\ i \in 1 .. Len(list)
      /\ at \in Nat /\ n \in Nat /\ n > 0
  BY TilingFacts, ListBlocks
<1>2. n <= n
  BY <1>1
<1>3. Stretch(at, n) \subseteq EmptyUnits(list)
  BY <1>1, <1>2, FrontEmpty
<1> HIDE DEF at, n
<1>4. n \in Nat \ {0}
  BY <1>1
<1>5. at + n <= Total
  BY <1>1, <1>3, <1>4, EmptyApart
<1>6. at \in Units /\ n \in 1 .. Total
  BY <1>1, <1>5, HeapAssumption DEF Units
<1> QED BY <1>6 DEF at, n

LEMMA Typed ==
  ASSUME HeapInv
  PROVE  TypeOK /\ Tiles
<1>1. /\ started \in BOOLEAN /\ Tiling(List, size) /\ Sizing(size, asked)
      /\ ~started => free = << >>
      /\ started => List = free
  BY DEF HeapInv, List
<1>2. \A p \in DOMAIN size : p \in Units /\ size[p] \in 1 .. Total /\ p + size[p] <= Total
  <2> SUFFICES ASSUME NEW p \in DOMAIN size
               PROVE  p \in Units /\ size[p] \in 1 .. Total /\ p + size[p] <= Total
    OBVIOUS
  <2>1. p \in Nat /\ size[p] \in Nat /\ size[p] > 0 /\ p + size[p] <= Total
    BY <1>1, TilingFacts
  <2> QED BY <2>1, HeapAssumption DEF Units
<1>3. \A i \in DOMAIN free : free[i].at \in Units /\ free[i].size \in 1 .. Total
  <2>1. CASE started
    BY <1>1, <2>1, BlocksWithin
  <2>2. CASE ~started
    BY <1>1, <2>2
  <2> QED BY <2>1, <2>2
<1>4. DOMAIN asked = DOMAIN size /\ \A p \in DOMAIN asked : asked[p] \in Sizes
  BY <1>1 DEF Sizing
<1>5. TypeOK
  BY <1>1, <1>2, <1>3, <1>4 DEF TypeOK
<1>6. ASSUME started PROVE Tiles
  <2>1. Tiling(free, size)
    BY <1>1, <1>6
  <2>2. \A i, j \in DOMAIN free : i < j => End(free[i]) <= free[j].at
    BY <2>1, TilingFacts DEF Sorted
  <2>3. \A u \in Units :
          Cardinality({i \in DOMAIN free : Covers(u, free[i].at, free[i].size)})
          + Cardinality({p \in DOMAIN size : Covers(u, p, size[p])}) = 1
    BY <2>1, OneBlock
  <2> QED BY <1>2, <2>2, <2>3 DEF Tiles
<1> QED BY <1>5, <1>6 DEF Tiles

\* No unit of the heap is lost or in two blocks, and the blocks that touch are merged,
\* but for the rest of a block that is made smaller below the head (alloc.c 174-236,
\* 391-477, 534, 597-611).
THEOREM HeapStaysCoalesced == Spec => StaysCoalesced
<1>1. Init => HeapInv
  BY Initially
<1>2. HeapInv /\ [Next]_vars => HeapInv'
  BY StepKeeps
<1>3. HeapInv => TypeOK /\ Tiles
  BY Typed
<1>4. HeapInv /\ [Next]_vars => [Coalesced /\ ~ShrinksBelowHead => Coalesced']_vars
  BY StepKeeps
<1> QED BY <1>1, <1>2, <1>3, <1>4, PTL DEF Spec, StaysCoalesced
----------------------------------------------------------------------------
(***************************************************************************)
(* What alloc.h promises.                                                     *)
(***************************************************************************)
Pointer(p) == (p + 1) * Unit
Pointers(f) == {Pointer(p) : p \in DOMAIN f}
Handed(f) == [q \in Pointers(f) |-> f[(q \div Unit) - 1]]

\* A pointer tells its block.
LEMMA PointerTells ==
  ASSUME NEW p \in Nat
  PROVE  /\ Pointer(p) \in Nat /\ (Pointer(p) \div Unit) - 1 = p
         /\ \A q \in Nat : Pointer(p) = Pointer(q) => p = q
<1> USE HeapAssumption
<1>1. Pointer(p) \in Nat
  <2>1. p + 1 \in Nat
    OBVIOUS
  <2> QED BY <2>1, Multiples DEF Pointer
<1>2. ASSUME NEW q \in Nat PROVE (Pointer(q) \div Unit) - 1 = q
  <2> DEFINE a == Pointer(q)
             d == a \div Unit
             c == q + 1
  <2>1. c \in Nat /\ a = c * Unit
    BY DEF Pointer
  <2>2. a \in Nat
    BY <2>1, Multiples
  <2>3. d \in Nat /\ d * Unit <= a /\ a < d * Unit + Unit
    BY <2>2, Division
  <2> HIDE DEF a, d, c
  <2>4. d * Unit \in Nat
    BY <2>3, Multiples
  <2>5. c <= d
    BY <2>1, <2>2, <2>3, <2>4, Multiples
  <2>6. d * Unit < c * Unit + Unit
    BY <2>1, <2>2, <2>3, <2>4
  <2>7. d <= c
    BY <2>1, <2>3, <2>6, Multiples
  <2>8. d = q + 1
    BY <2>1, <2>3, <2>5, <2>7 DEF c
  <2> QED BY <2>8 DEF d, a
<1> QED BY <1>1, <1>2

LEMMA HandedBlocks ==
  ASSUME NEW f, DOMAIN f \subseteq Nat
  PROVE  /\ DOMAIN Handed(f) = Pointers(f)
         /\ \A p \in DOMAIN f : Handed(f)[Pointer(p)] = f[p]
         /\ \A p \in Nat : Pointer(p) \in Pointers(f) <=> p \in DOMAIN f
<1>1. \A p \in DOMAIN f : Pointer(p) \in Pointers(f) /\ (Pointer(p) \div Unit) - 1 = p
  BY PointerTells DEF Pointers
<1>2. ASSUME NEW p \in Nat, Pointer(p) \in Pointers(f) PROVE p \in DOMAIN f
  <2>1. PICK q \in DOMAIN f : Pointer(p) = Pointer(q)
    BY <1>2 DEF Pointers
  <2> QED BY <2>1, PointerTells
<1> QED BY <1>1, <1>2 DEF Handed

LEMMA HandedWith ==
  ASSUME NEW f, DOMAIN f \subseteq Nat, NEW p \in Nat, NEW v
  PROVE  Handed(With(f, p, v)) = With(Handed(f), Pointer(p), v)
<1> DEFINE g == With(f, p, v)
           h == With(Handed(f), Pointer(p), v)
<1>1. DOMAIN g = DOMAIN f \union {p} /\ DOMAIN g \subseteq Nat
      /\ \A q \in DOMAIN g : g[q] = IF q = p THEN v ELSE f[q]
  BY DEF With
<1>2. Pointers(g) = Pointers(f) \union {Pointer(p)}
  BY <1>1 DEF Pointers
<1>3. DOMAIN h = Pointers(g)
  BY <1>2, HandedBlocks DEF With
<1>4. ASSUME NEW q \in Pointers(g) PROVE Handed(g)[q] = h[q]
  <2>1. PICK s \in DOMAIN g : q = Pointer(s)
    BY DEF Pointers
  <2>2. Handed(g)[q] = g[s] /\ s \in Nat
    BY <1>1, <2>1, HandedBlocks
  <2>3. h[q] = IF q = Pointer(p) THEN v ELSE Handed(f)[q]
    BY <1>2, HandedBlocks DEF With
  <2>4. CASE s = p
    BY <1>1, <2>1, <2>2, <2>3, <2>4
  <2>5. CASE s # p
    <3>1. q # Pointer(p) /\ s \in DOMAIN f
      BY <1>1, <2>1, <2>2, <2>5, PointerTells
    <3>2. Handed(f)[q] = f[s]
      BY <2>1, <3>1, HandedBlocks
    <3> QED BY <1>1, <2>2, <2>3, <2>5, <3>1, <3>2
  <2> QED BY <2>4, <2>5
<1>5. Handed(g) = [q \in Pointers(g) |-> Handed(g)[q]] /\ h = [q \in Pointers(g) |-> h[q]]
  <2>1. DOMAIN h = Pointers(g) /\ h = [q \in DOMAIN h |-> h[q]]
    BY <1>3, Zenon DEF With
  <2> HIDE DEF g, h
  <2>2. Handed(g) = [q \in Pointers(g) |-> Handed(g)[q]]
    BY DEF Handed
  <2> QED BY <2>1, <2>2
<1> HIDE DEF g, h
<1>6. Handed(g) = h
  BY <1>4, <1>5
<1> QED BY <1>6 DEF g, h

LEMMA HandedWithout ==
  ASSUME NEW f, DOMAIN f \subseteq Nat, NEW p \in Nat
  PROVE  Handed(Without(f, p)) = Without(Handed(f), Pointer(p))
<1> DEFINE g == Without(f, p)
           h == Without(Handed(f), Pointer(p))
<1>1. DOMAIN g = DOMAIN f \ {p} /\ DOMAIN g \subseteq Nat
      /\ \A q \in DOMAIN g : g[q] = f[q]
  BY DEF Without
<1>2. Pointers(g) = Pointers(f) \ {Pointer(p)}
  BY <1>1, PointerTells DEF Pointers
<1>3. DOMAIN h = Pointers(g)
  BY <1>2, HandedBlocks DEF Without
<1>4. ASSUME NEW q \in Pointers(g) PROVE Handed(g)[q] = h[q]
  <2>1. PICK s \in DOMAIN g : q = Pointer(s)
    BY DEF Pointers
  <2>2. Handed(g)[q] = g[s] /\ Handed(f)[q] = f[s]
    BY <1>1, <2>1, HandedBlocks
  <2>3. h[q] = Handed(f)[q]
    BY <1>2, HandedBlocks DEF Without
  <2> QED BY <1>1, <2>1, <2>2, <2>3
<1>5. Handed(g) = [q \in Pointers(g) |-> Handed(g)[q]] /\ h = [q \in Pointers(g) |-> h[q]]
  <2>1. DOMAIN Handed(g) = Pointers(g)
    BY <1>1, HandedBlocks
  <2> QED BY <1>3, <2>1 DEF Handed, Without
<1> HIDE DEF g, h
<1>6. Handed(g) = h
  BY <1>4, <1>5
<1> QED BY <1>6 DEF g, h

\* The bytes of a block of a tiling are in its units, behind the header: they are in
\* the heap, and in no other block.
LEMMA BlockFits ==
  ASSUME NEW list, NEW held, NEW wanted, Tiling(list, held), Sizing(held, wanted),
         NEW p \in DOMAIN held
  PROVE  /\ Posix!Fits(Pointer(p), wanted[p], Handed(Without(wanted, p)))
         /\ Pointer(p) \in {u * Unit : u \in 1 .. Total}
<1> USE HeapAssumption
<1> DEFINE rest == Without(wanted, p)
<1>1. \A q \in DOMAIN held : /\ q \in Nat /\ held[q] \in Nat /\ held[q] > 0 /\ q + held[q] <= Total
                             /\ wanted[q] \in Nat /\ held[q] = UnitsFor(wanted[q])
  BY TilingFacts DEF Sizing
<1>2. \A q, s \in DOMAIN held : q < s => q + held[q] <= s
  BY TilingFacts
<1>3. ASSUME NEW q \in DOMAIN held, NEW end \in Nat, q + held[q] <= end
      PROVE  Pointer(q) + wanted[q] <= end * Unit
  <2> DEFINE n == held[q]
             w == wanted[q]
  <2>1. q \in Nat /\ n \in Nat /\ w \in Nat /\ q + n \in Nat
    BY <1>1
  <2>2. w + Unit <= n * Unit
    BY <1>1, UnitsForSize
  <2>3. (q + n) * Unit <= end * Unit /\ end * Unit \in Nat
    BY <1>3, <2>1, Multiples
  <2> HIDE DEF n, w
  <2>4. (q + 1) * Unit = q * Unit + Unit /\ (q + n) * Unit = q * Unit + n * Unit
    BY <2>1
  <2>5. q * Unit \in Nat /\ n * Unit \in Nat
    BY <2>1, Multiples
  <2>6. (q + 1) * Unit + w <= end * Unit
    BY <2>1, <2>2, <2>3, <2>4, <2>5
  <2> QED BY <2>6 DEF Pointer, w
<1>4. Pointer(p) + wanted[p] <= Total * Unit
  BY <1>1, <1>3
<1>5. ASSUME NEW q \in DOMAIN held, NEW s \in DOMAIN held, q < s
      PROVE  Pointer(q) + wanted[q] <= Pointer(s)
  <2>1. q + held[q] <= s /\ s \in Nat
    BY <1>1, <1>2, <1>5
  <2>2. Pointer(q) + wanted[q] <= s * Unit
    BY <1>3, <2>1
  <2>3. s * Unit \in Nat /\ Pointer(s) = s * Unit + Unit
    BY <2>1, Multiples DEF Pointer
  <2>4. Pointer(q) + wanted[q] \in Nat
    <3>1. Pointer(q) \in Nat /\ wanted[q] \in Nat
      BY <1>1, PointerTells
    <3> QED BY <3>1
  <2> QED BY <2>2, <2>3, <2>4
<1>6. DOMAIN rest = DOMAIN held \ {p} /\ DOMAIN rest \subseteq Nat /\ \A s \in DOMAIN rest : rest[s] = wanted[s]
  BY <1>1 DEF Sizing, Without
<1> HIDE DEF rest
<1>7. ASSUME NEW q \in DOMAIN Handed(rest)
      PROVE  q # Pointer(p) /\ ~Posix!Overlap(Pointer(p), wanted[p], q, Handed(rest)[q])
  <2>1. PICK s \in DOMAIN rest : q = Pointer(s)
    <3>1. DOMAIN Handed(rest) = Pointers(rest)
      BY <1>6, HandedBlocks
    <3> QED BY <3>1 DEF Pointers
  <2>2. Handed(rest)[q] = wanted[s] /\ s \in DOMAIN held /\ s # p
    BY <1>6, <2>1, HandedBlocks
  <2>3. p \in Nat /\ s \in Nat /\ wanted[p] \in Nat /\ wanted[s] \in Nat
    BY <1>1, <2>2
  <2>4. Pointer(p) \in Nat /\ Pointer(s) \in Nat /\ Pointer(p) # Pointer(s)
    BY <2>2, <2>3, PointerTells
  <2>5. Pointer(p) + wanted[p] <= Pointer(s) \/ Pointer(s) + wanted[s] <= Pointer(p)
    BY <1>5, <2>2, <2>3
  <2>6. ~Posix!Overlap(Pointer(p), wanted[p], Pointer(s), wanted[s])
    BY <2>3, <2>4, <2>5 DEF Posix!Overlap
  <2> QED BY <2>1, <2>2, <2>4, <2>6
<1>8. Posix!Fits(Pointer(p), wanted[p], Handed(rest))
  BY <1>4, <1>7 DEF Posix!Fits
<1>9. p + 1 \in 1 .. Total
  BY <1>1
<1> QED BY <1>8, <1>9 DEF Pointer, rest

\* A block that is allotted next to the others.
LEMMA Placed ==
  ASSUME HeapInv', NEW rest, DOMAIN rest \subseteq Nat, NEW q \in Nat, q \notin DOMAIN rest,
         rest = [s \in DOMAIN rest |-> rest[s]], NEW bytes,
         asked' = With(rest, q, bytes)
  PROVE  /\ Posix!Fits(Pointer(q), bytes, Handed(rest))
         /\ Pointer(q) \in {u * Unit : u \in 1 .. Total}
         /\ Blocks' = With(Handed(rest), Pointer(q), bytes)
<1>1. Tiling(List', size') /\ Sizing(size', asked')
  BY DEF HeapInv
<1>2. q \in DOMAIN size' /\ asked'[q] = bytes
  <2>1. DOMAIN asked' = DOMAIN size'
    BY <1>1 DEF Sizing
  <2> QED BY <2>1 DEF With
<1>3. Without(asked', q) = rest
  <2>1. (DOMAIN rest \union {q}) \ {q} = DOMAIN rest
    OBVIOUS
  <2> QED BY <2>1 DEF With, Without
<1>4. Blocks' = Handed(asked')
  BY Zenon DEF Blocks, Handed, Pointers, Pointer
<1>5. Blocks' = With(Handed(rest), Pointer(q), bytes)
  BY <1>4, HandedWith
<1> QED BY <1>1, <1>2, <1>3, <1>5, BlockFits

\* A block stays where it is, or another one is put in its place.
LEMMA Resized ==
  ASSUME HeapInv, HeapInv', NEW p \in DOMAIN size, NEW q \in Nat,
         q = p \/ q \notin DOMAIN size, NEW bytes \in Sizes, bytes # 0,
         q # p => bytes > asked[p],
         asked' = With(Without(asked, p), q, bytes)
  PROVE  Posix!Realloc(Pointer(p), bytes)
<1> DEFINE rest == Without(asked, p)
<1>1. /\ DOMAIN asked = DOMAIN size /\ DOMAIN asked \subseteq Nat /\ p \in Nat
      /\ asked[p] \in Nat /\ bytes \in Nat
  <2>1. Sizing(size, asked) /\ Tiling(List, size)
    BY DEF HeapInv
  <2>2. DOMAIN asked = DOMAIN size /\ asked[p] \in Sizes
    BY <2>1 DEF Sizing
  <2>3. DOMAIN size \subseteq Nat
    BY <2>1 DEF Tiling
  <2> QED BY <2>2, <2>3, HeapAssumption
<1>2. /\ DOMAIN rest \subseteq Nat /\ q \notin DOMAIN rest
      /\ rest = [s \in DOMAIN rest |-> rest[s]]
  BY <1>1 DEF Without
<1>3. Blocks = Handed(asked) /\ Blocks[Pointer(p)] = asked[p]
  <2>1. Blocks = Handed(asked)
    BY Zenon DEF Blocks, Handed, Pointers, Pointer
  <2> QED BY <1>1, <2>1, HandedBlocks
<1>4. Handed(rest) = Posix!Without(Pointer(p))
  <2>1. Handed(rest) = Without(Blocks, Pointer(p))
    BY <1>1, <1>3, HandedWithout
  <2> QED BY <2>1, Zenon DEF Without, Posix!Without
<1> HIDE DEF rest
<1>5. /\ Posix!Fits(Pointer(q), bytes, Handed(rest))
      /\ Pointer(q) \in {u * Unit : u \in 1 .. Total}
      /\ Blocks' = With(Handed(rest), Pointer(q), bytes)
  <2>1. asked' = With(rest, q, bytes)
    BY DEF rest
  <2> QED BY <1>2, <2>1, Placed
<1>6. Blocks' = Posix!With(Posix!Without(Pointer(p)), Pointer(q), bytes)
  BY <1>4, <1>5, Zenon DEF With, Posix!With
<1>7. CASE bytes <= asked[p]
  <2>1. q = p
    BY <1>1, <1>7
  <2> QED BY <1>3, <1>6, <1>7, <2>1 DEF Posix!Realloc
<1>8. CASE bytes > asked[p]
  BY <1>3, <1>4, <1>5, <1>6, <1>8 DEF Posix!Realloc
<1> QED BY <1>1, <1>7, <1>8

LEMMA MallocPromised ==
  ASSUME HeapInv, HeapInv', NEW bytes \in Sizes, Malloc(bytes)
  PROVE  Posix!Malloc(bytes) \/ Blocks' = Blocks
<1> DEFINE n == UnitsFor(bytes)
<1>1. CASE Fitting(List, n) = {}
  <2>1. asked' = asked
    BY <1>1 DEF Malloc
  <2> QED BY <2>1 DEF Blocks
<1>2. CASE Fitting(List, n) # {}
  <2> DEFINE i == BestFit(List, n)
             at == List[i].at
  <2>1. Tiling(List, size) /\ Sorted(List) /\ Sizing(size, asked) /\ n \in Nat \ {0}
    BY UnitsForSize, HeapAssumption DEF HeapInv, Tiling
  <2>2. i \in 1 .. Len(List) /\ n <= List[i].size
    <3> HIDE DEF n
    <3>1. List[i].size >= n /\ i \in 1 .. Len(List)
      BY <2>1, <1>2, BestFits
    <3>2. List[i].size \in Nat
      BY <2>1, <3>1, ListBlocks
    <3> QED BY <2>1, <3>1, <3>2
  <2>3. asked' = With(asked, at, bytes)
    BY <1>2 DEF Malloc
  <2> HIDE DEF i, n
  <2>4. at \in Nat /\ at \notin DOMAIN size
    BY <2>1, <2>2, AllotTiles
  <2> HIDE DEF at
  <2>5. DOMAIN asked \subseteq Nat /\ at \notin DOMAIN asked /\ asked = [s \in DOMAIN asked |-> asked[s]]
    BY <2>1, <2>4 DEF Tiling, Sizing
  <2>6. /\ Posix!Fits(Pointer(at), bytes, Handed(asked))
        /\ Pointer(at) \in {u * Unit : u \in 1 .. Total}
        /\ Blocks' = With(Handed(asked), Pointer(at), bytes)
    BY <2>3, <2>4, <2>5, Placed
  <2>7. Handed(asked) = Blocks
    BY Zenon DEF Blocks, Handed, Pointers, Pointer
  <2>8. Blocks' = Posix!With(Blocks, Pointer(at), bytes)
    BY <2>6, <2>7, Zenon DEF With, Posix!With
  <2> QED BY <2>6, <2>7, <2>8 DEF Posix!Malloc
<1> QED BY <1>1, <1>2

LEMMA FreePromised ==
  ASSUME HeapInv, NEW p \in DOMAIN size, Free(p)
  PROVE  Pointer(p) \in DOMAIN Blocks /\ Posix!Free(Pointer(p))
<1>1. DOMAIN asked = DOMAIN size /\ DOMAIN asked \subseteq Nat /\ p \in Nat
  BY DEF HeapInv, Sizing, Tiling
<1>2. asked' = Without(asked, p)
  BY DEF Free
<1>3. Blocks = Handed(asked) /\ Blocks' = Handed(asked')
  BY Zenon DEF Blocks, Handed, Pointers, Pointer
<1>4. Blocks' = Without(Blocks, Pointer(p))
  BY <1>1, <1>2, <1>3, HandedWithout
<1>5. Pointer(p) \in DOMAIN Blocks
  BY <1>1, <1>3, HandedBlocks
<1> QED BY <1>4, <1>5, Zenon DEF Without, Posix!Free, Posix!Without

LEMMA ReallocPromised ==
  ASSUME HeapInv, HeapInv', NEW p \in DOMAIN size, NEW bytes \in Sizes, Realloc(p, bytes)
  PROVE  Posix!Realloc(Pointer(p), bytes) \/ Blocks' = Blocks
<1> DEFINE n == UnitsFor(bytes)
<1>1. /\ Tiling(free, size) /\ Sorted(free) /\ Sizing(size, asked)
      /\ n \in Nat \ {0} /\ bytes \in Nat /\ p \in Nat /\ size[p] \in Nat
  <2>1. Tiling(free, size) /\ Sizing(size, asked) /\ Sorted(free)
    BY Started DEF HeapInv, Tiling
  <2>2. bytes \in Nat /\ n \in Nat \ {0}
    BY UnitsForSize, HeapAssumption
  <2> QED BY <2>1, <2>2, TilingFacts
<1>2. bytes # 0
  BY DEF Realloc
<1>3. n > size[p] => bytes > asked[p]
  <2>1. asked[p] \in Nat /\ size[p] = UnitsFor(asked[p])
    BY <1>1, HeapAssumption DEF Sizing
  <2>2. bytes <= asked[p] => n <= size[p]
    BY <1>1, <2>1, UnitsForSize
  <2> QED BY <1>1, <2>1, <2>2
<1>4. CASE asked' = With(asked, p, bytes)
  <2>1. With(asked, p, bytes) = With(Without(asked, p), p, bytes)
    <3>1. DOMAIN asked \union {p} = (DOMAIN asked \ {p}) \union {p}
      OBVIOUS
    <3> QED BY <3>1 DEF With, Without
  <2> QED BY <1>1, <1>2, <1>4, <2>1, Resized
<1>5. CASE asked' = asked
  BY <1>5 DEF Blocks
<1>6. CASE n > size[p] /\ Move(p, n, bytes) /\ Fitting(free, n) # {}
  <2> DEFINE i == BestFit(free, n)
             q == free[i].at
  <2>1. i \in 1 .. Len(free) /\ n <= free[i].size
    <3> HIDE DEF n
    <3>1. free[i].size >= n /\ i \in 1 .. Len(free)
      BY <1>1, <1>6, BestFits
    <3>2. free[i].size \in Nat
      BY <1>1, <3>1, ListBlocks
    <3> QED BY <1>1, <3>1, <3>2
  <2>2. asked' = With(Without(asked, p), q, bytes)
    BY <1>6 DEF Move
  <2> HIDE DEF i
  <2>3. q \in Nat /\ q \notin DOMAIN size
    <3> HIDE DEF n
    <3> QED BY <1>1, <2>1, AllotTiles
  <2> HIDE DEF q, n
  <2> QED BY <1>2, <1>3, <1>6, <2>2, <2>3, Resized
<1> QED
  <2>1. \/ Resize(p, n, bytes)
        \/ asked' = asked
        \/ n > size[p] /\ Move(p, n, bytes)
    BY Zenon DEF Realloc
  <2>2. Resize(p, n, bytes) => asked' = With(asked, p, bytes)
    BY Zenon DEF Resize
  <2>3. Move(p, n, bytes) /\ Fitting(free, n) = {} => asked' = asked
    BY DEF Move
  <2> QED BY <1>4, <1>5, <1>6, <2>1, <2>2, <2>3, Zenon

\* malloc, free and realloc do what alloc.h 36-83 says of them.
THEOREM PosixKept == Spec => ImplementsPosix
<1>1. Init => HeapInv
  BY Initially
<1>2. HeapInv /\ [Next]_vars => HeapInv'
  BY StepKeeps
<1>3. Init => Posix!Init
  <2> SUFFICES ASSUME Init PROVE Posix!Init
    OBVIOUS
  <2>1. DOMAIN asked = {}
    BY DEF Init
  <2> QED BY <2>1 DEF Blocks, Posix!Init
<1>4. HeapInv /\ HeapInv' /\ [Next]_vars => [Posix!Next]_Blocks
  <2> SUFFICES ASSUME HeapInv, HeapInv', [Next]_vars PROVE Posix!Next \/ Blocks' = Blocks
    OBVIOUS
  <2>1. CASE \E bytes \in Sizes : Malloc(bytes)
    BY <2>1, MallocPromised, Zenon DEF Posix!Next
  <2>2. CASE \E p \in DOMAIN size : Free(p)
    BY <2>2, FreePromised, Zenon DEF Posix!Next
  <2>3. CASE \E p \in DOMAIN size, bytes \in Sizes : Realloc(p, bytes)
    <3>1. PICK p \in DOMAIN size, bytes \in Sizes : Realloc(p, bytes)
      BY <2>3
    <3>2. Pointer(p) \in DOMAIN Blocks
      <4>1. DOMAIN asked = DOMAIN size
        BY DEF HeapInv, Sizing
      <4> QED BY <4>1 DEF Blocks, Pointer
    <3> QED BY <3>1, <3>2, ReallocPromised, Zenon DEF Posix!Next
  <2>4. CASE UNCHANGED vars
    BY <2>4 DEF vars, Blocks
  <2> QED BY <2>1, <2>2, <2>3, <2>4 DEF Next
<1> QED BY <1>1, <1>2, <1>3, <1>4, PTL DEF Spec, ImplementsPosix, Posix!Spec
=============================================================================
