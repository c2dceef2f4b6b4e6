------------------------ MODULE OpenbiosCardsProofs ------------------------
(***************************************************************************)
(* Theorems about the memory cards of openbios: for files and transfers of    *)
(* any size, every list of broken sectors and every order of the ports'         *)
(* interrupts.                                                                 *)
(***************************************************************************)
EXTENDS OpenbiosCards, FiniteSetTheorems, SequenceTheorems, TLAPS

\* The program is careful with the one set of flags, reads and writes inside the file,
\* and starts a blocking transfer with a block, or ends it in the block it starts in.
Careful ==
  /\ Habits = {}
  /\ \A t \in Transfers \union BlockTransfers : t[1] + t[2] <= Len(Chain) * BlockSectors
  /\ \A t \in BlockTransfers :
       (t[1] % BlockSectors) = 0 \/ (t[1] % BlockSectors) + t[2] <= BlockSectors

-----------------------------------------------------------------------------
(* The inductive invariant.                                                  *)

\* The sectors of a file, or of a table of contents, that come first.
Piece(t, k) == [sector |-> FileSector(t[1] + k), slot |-> k]
Pieces(t, k) == [i \in 1 .. k |-> Piece(t, i - 1)]
TocPiece(n) == [sector |-> n, slot |-> 0]
TocPieces(n) == [i \in 1 .. n |-> TocPiece(i - 1)]

Requests == [sector : Nat, slot : Nat]
Jobs == [start : Nat, count : Nat, slot : Nat]
Calls == {<<"none">>, <<"info">>, <<"toc">>} \union ({"read", "write"} \X (Transfers \union BlockTransfers))
MainUses == {"unit", "toc", "info"} \union ({"read", "write"} \X BlockTransfers)
MainCalls ==
  [at : {"claim", "arm", "wait"}, port : Port, kind : Commands, sector : Nat, slot : Nat,
   call : MainUses,
   blocking : BOOLEAN, owed : BOOLEAN, left : Nat, next : Nat, more : Nat]

Typed ==
  /\ TypeOK
  /\ request \in [Port -> Requests] /\ job \in [Port -> Jobs] /\ current \in [Port -> Nat]
  /\ asked \in [Port -> Calls] /\ moved \in [Port -> Seq(Requests)]
  /\ main = None \/ main \in MainCalls

\* The bus serves a command that is asked for.
Bus == listening = inProgress /\ (inProgress => ~Free(flipping))

Mine(p) == main # None /\ main.port = p

\* A command on its way to the driver: the flags are set, or the main thread is about to.
Asking(p, command, r) ==
  /\ Mine(p) /\ Free(p) /\ ~main.blocking /\ main.kind = command
  /\ \/ main.at = "claim" /\ main.sector = r.sector /\ main.slot = r.slot
     \/ main.at = "arm" /\ request[p] = r
Asked(p, command, r) == flags[p] = command /\ request[p] = r

Informing(p) ==
  /\ asked[p] \in {<<"info">>, <<"none">>}
  /\ flags[p] = "info" \/ (Mine(p) /\ Free(p) /\ main.kind = "info" /\ main.at # "wait")

Streaming(p) ==
  \E t \in Transfers, k \in Nat, command \in {"read", "write"} :
    /\ k < t[2] /\ asked[p] = <<command, t>> /\ op[p] = IF command = "read" THEN 2 ELSE 3
    /\ job[p] = [start |-> t[1] + k, count |-> t[2] - k, slot |-> k]
    /\ moved[p] = Pieces(t, k)
    /\ Asked(p, command, Piece(t, k)) \/ (Asking(p, command, Piece(t, k)) /\ k = 0 /\ main.call = "unit")

Checking(p) ==
  /\ flags[p] = "info"
  /\ \E t \in Transfers : asked[p] = <<"write", t>> /\ moved[p] = Pieces(t, t[2])

\* The place in the table of contents that comes next.
TocAt(p, n) ==
  \/ state[p] = 1 /\ n = 0
  \/ state[p] = 2 /\ n \in 1 .. Entries /\ current[p] = n - 1
  \/ state[p] = 3 /\ n - Entries \in 1 .. Brokens /\ current[p] = n - Entries - 1

Listing(p) ==
  /\ asked[p] = <<"toc">>
  /\ \E n \in Nat :
       /\ moved[p] = TocPieces(n)
       /\ \/ Asked(p, "read", TocPiece(n)) /\ TocAt(p, n)
          \/ Asking(p, "read", TocPiece(n)) /\ n = 0 /\ main.call = "toc"

\* What was asked for has been moved.
Delivered(p) ==
  \/ asked[p] \in {<<"info">>, <<"none">>}
  \/ asked[p] = <<"toc">> /\ moved[p] = TocPieces(1 + Entries + Brokens)
  \/ \E t \in Transfers \union BlockTransfers, command \in {"read", "write"} :
       asked[p] = <<command, t>> /\ moved[p] = Pieces(t, t[2])

\* What a port's unit and its driver are about.
PortInv(p) ==
  /\ op[p] # 0 <=> answer[p] = "busy"
  /\ op[p] = 0 => Free(p) \/ (Mine(p) /\ main.blocking)
  /\ Mine(p) /\ ~main.blocking => main.at # "wait" /\ op[p] # 0
  /\ Mine(p) /\ main.at # "wait" => Free(p)
  /\ op[p] = 1 => Informing(p)
  /\ op[p] \in {2, 3} => Streaming(p)
  /\ op[p] = 4 => Listing(p)
  /\ op[p] = 7 => Checking(p)
  /\ answer[p] = "done" => Delivered(p)

\* A blocking call: how far it is, and that nobody else sets the status flags.
Stage(p, t, n) ==
  /\ \/ /\ main.kind = main.call[1] /\ main.left > 0
        /\ main.sector = Absolute(t[1] + n) /\ ((t[1] + n) % BlockSectors) + main.left <= BlockSectors
     \/ main.kind = "info" /\ main.call[1] = "write" /\ main.left = 0
  /\ main.next = t[1] + n + main.left /\ main.more = t[2] - n - main.left
  /\ main.more > 0 => (main.next % BlockSectors) = 0

Alone(p) == asked[p] = <<"none">> /\ \A q \in Port \ {p} : Free(q) /\ op[q] = 0

Doing(p, t, n) ==
  /\ status = {} /\ moved[p] = Pieces(t, n)
  /\ op[p] = IF main.kind = "info" THEN 1 ELSE 0
  /\ CASE main.at = "claim" -> Free(p)
       [] main.at = "arm" -> Free(p) /\ (main.kind # "info" => request[p] = Piece(t, n))
       [] main.at = "wait" -> flags[p] = main.kind /\ (main.kind # "info" => request[p] = Piece(t, n))

Over(p, t, n) ==
  /\ main.at = "wait" /\ Free(p) /\ op[p] = 0
  /\ \/ status = {"failed"}
     \/ status = {"done"} /\ moved[p] = Pieces(t, IF main.kind = "info" THEN n ELSE n + 1)

Blocking ==
  main # None /\ main.blocking =>
    \E t \in BlockTransfers :
      /\ main.call \in {"read", "write"} \X {t}
      /\ Alone(main.port) /\ Stage(main.port, t, main.slot)
      /\ Doing(main.port, t, main.slot) \/ Over(main.port, t, main.slot)

CardsInv == Typed /\ Bus /\ (\A p \in Port : PortInv(p)) /\ Blocking

-----------------------------------------------------------------------------
(* Numbers.                                                                  *)

\* A set of numbers that holds every one before each of its own is an interval.
LEMMA NoGaps ==
  ASSUME NEW n \in Nat, NEW S \in SUBSET (1 .. n),
         \A i, j \in 1 .. n : j \in S /\ i < j => i \in S
  PROVE  /\ Cardinality(S) \in 0 .. n
         /\ S = 1 .. Cardinality(S)
<1> DEFINE k == Cardinality(S)
<1>1. IsFiniteSet(1 .. n) /\ Cardinality(1 .. n) = n
  BY FS_Interval
<1>2. IsFiniteSet(S) /\ k <= n
  BY <1>1, FS_Subset
<1>3. k \in Nat
  BY <1>2, FS_CardinalityType
<1>4. ASSUME NEW i \in S PROVE i <= k
  <2>1. IsFiniteSet(1 .. i) /\ Cardinality(1 .. i) = i
    BY FS_Interval
  <2>2. (1 .. i) \subseteq S
    OBVIOUS
  <2>3. Cardinality(1 .. i) <= k
    BY <1>2, <2>2, FS_Subset
  <2> QED BY <2>1, <2>3
<1>5. S \subseteq 1 .. k
  BY <1>3, <1>4
<1>6. IsFiniteSet(1 .. k) /\ Cardinality(1 .. k) = k
  BY <1>3, FS_Interval
<1>7. S = 1 .. k
  BY <1>5, <1>6, FS_Subset
<1> QED BY <1>2, <1>3, <1>7

\* A set of numbers has a least one: the place CHOOSE finds in the list of broken sectors.
LEMMA LeastNumber ==
  ASSUME NEW S \in SUBSET Nat, S # {}
  PROVE  \E m \in S : \A k \in S : m <= k
<1>1. PICK n \in S : TRUE
  OBVIOUS
<1> DEFINE below == {i \in 1 .. n : \A k \in S : i <= k}
           c == Cardinality(below)
<1>2. below \subseteq 1 .. n /\ \A i, j \in 1 .. n : j \in below /\ i < j => i \in below
  OBVIOUS
<1>3. c \in 0 .. n /\ below = 1 .. c
  BY <1>1, <1>2, NoGaps
<1> HIDE DEF c
<1>4. \A k \in S : c <= k
  BY <1>1, <1>3
<1>5. CASE c = n
  BY <1>1, <1>4, <1>5
<1>6. CASE c # n
  <2>1. n \in Nat /\ c \in 0 .. n
    BY <1>1, <1>3
  <2>2. c + 1 \in 1 .. n /\ c + 1 \notin 1 .. c
    BY <1>6, <2>1
  <2>3. c + 1 \in 1 .. n /\ c + 1 \notin below
    BY <1>3, <2>2
  <2>4. PICK k \in S : ~(c + 1 <= k)
    BY <2>3
  <2>5. k = c
    BY <1>4, <2>1, <2>4
  <2> QED BY <1>4, <2>5
<1> QED BY <1>5, <1>6
\* Division with a remainder.
LEMMA Division ==
  ASSUME NEW N \in Nat \ {0}, NEW s \in Nat
  PROVE  /\ s \div N \in Nat /\ s % N \in 0 .. N - 1
         /\ s = (s \div N) * N + (s % N)
<1>1. s \div N \in Nat /\ s % N \in 0 .. N - 1
  OBVIOUS
<1>2. s = (s \div N) * N + (s % N)
  OBVIOUS
<1> QED BY <1>1, <1>2

\* A number has one quotient and one remainder.
LEMMA SameMultiple ==
  ASSUME NEW N \in Nat \ {0}, NEW q \in Int, NEW r \in Int, NEW j \in 0 .. N - 1, NEW k \in 0 .. N - 1,
         q * N + j = r * N + k
  PROVE  q = r /\ j = k
<1>1. CASE q = r
  BY <1>1
<1>2. CASE q < r
  <2>1. q + 1 <= r
    BY <1>2
  <2>2. (q + 1) * N <= r * N
    BY <2>1
  <2>3. (q + 1) * N = q * N + N
    OBVIOUS
  <2> QED BY <2>2, <2>3
<1>3. CASE r < q
  <2>1. r + 1 <= q
    BY <1>3
  <2>2. (r + 1) * N <= q * N
    BY <2>1
  <2>3. (r + 1) * N = r * N + N
    OBVIOUS
  <2> QED BY <2>2, <2>3
<1> QED BY <1>1, <1>2, <1>3

\* The quotient and the remainder of a sum.
LEMMA Quotient ==
  ASSUME NEW N \in Nat \ {0}, NEW q \in Nat, NEW k \in 0 .. N - 1
  PROVE  (q * N + k) \div N = q /\ (q * N + k) % N = k
<1> DEFINE s == q * N + k
<1>1. q * N \in Nat
  OBVIOUS
<1>2. s \in Nat
  BY <1>1
<1> HIDE DEF s
<1>3. /\ s \div N \in Nat /\ s % N \in 0 .. N - 1
      /\ s = (s \div N) * N + (s % N)
  BY <1>2, Division
<1>4. q * N + k = (s \div N) * N + (s % N)
  BY <1>3 DEF s
<1> DEFINE r == s \div N
           j == s % N
<1>5. r \in Int /\ j \in 0 .. N - 1 /\ q \in Int /\ q * N + k = r * N + j
  BY <1>3, <1>4
<1> HIDE DEF r, j
<1>6. q = r /\ k = j
  BY <1>5, SameMultiple
<1> QED BY <1>6 DEF s, r, j

-----------------------------------------------------------------------------
(* The sectors of a file.                                                    *)

\* The sizes and the chain of the file.
LEMMA Constants ==
  /\ Entries \in Nat \ {0} /\ Brokens \in Nat \ {0} /\ BlockSectors \in Nat \ {0}
  /\ Broken \in [1 .. Brokens -> Int] /\ Len(Chain) \in Nat
  /\ DOMAIN Chain = 1 .. Len(Chain) /\ \A i \in DOMAIN Chain : Chain[i] \in 0 .. 14
  /\ CardSectors = 0 .. Entries + 2 * Brokens + 15 * BlockSectors
  /\ CardSectors \subseteq Nat
<1>1. Entries \in Nat \ {0} /\ Brokens \in Nat \ {0} /\ BlockSectors \in Nat \ {0}
  BY CardsAssumption
<1>2. Broken \in [1 .. Brokens -> Int] /\ Len(Chain) \in Nat
      /\ DOMAIN Chain = 1 .. Len(Chain) /\ \A i \in DOMAIN Chain : Chain[i] \in 0 .. 14
  <2>1. Broken \in [1 .. Brokens -> Int] /\ Chain \in Seq(0 .. 14)
    BY CardsAssumption
  <2>2. Len(Chain) \in Nat /\ DOMAIN Chain = 1 .. Len(Chain)
    BY <2>1
  <2>3. \A i \in 1 .. Len(Chain) : Chain[i] \in 0 .. 14
    BY <2>1, ElementOfSeq
  <2> QED BY <2>1, <2>2, <2>3
<1>3. CardSectors = 0 .. Entries + 2 * Brokens + 15 * BlockSectors
  BY <1>1 DEF CardSectors, DataSector
<1> QED BY <1>1, <1>2, <1>3

\* A sector that was reallocated is on the card as well.
LEMMA ActualOnCard ==
  ASSUME NEW s \in Nat
  PROVE  Actual(s) \in Nat /\ (s \in CardSectors => Actual(s) \in CardSectors)
<1> DEFINE spare == {i \in 1 .. Brokens : Broken[i] = s}
           least == CHOOSE i \in spare : \A j \in spare : i <= j
<1>1. CASE spare = {}
  BY <1>1 DEF Actual
<1>2. CASE spare # {}
  <2>1. spare \in SUBSET Nat
    OBVIOUS
  <2>2. \E i \in spare : \A j \in spare : i <= j
    BY <1>2, <2>1, LeastNumber
  <2>3. least \in spare
    BY <2>2, Zenon
  <2>4. least \in 1 .. Brokens
    BY <2>3
  <2> HIDE DEF least
  <2>5. SpareSector(least) \in CardSectors
    BY <2>4, Constants DEF SpareSector
  <2>6. Actual(s) = SpareSector(least)
    BY <1>2, Zenon DEF Actual, least
  <2> QED BY <2>5, <2>6, Constants
<1> QED BY <1>1, <1>2

\* Where the chain of the directory puts a sector of the file.
LEMMA AbsoluteOnCard ==
  ASSUME NEW s \in Nat, s < Len(Chain) * BlockSectors
  PROVE  /\ s \div BlockSectors + 1 \in DOMAIN Chain
         /\ s % BlockSectors \in 0 .. BlockSectors - 1
         /\ Absolute(s) = DataSector(Chain[s \div BlockSectors + 1], s % BlockSectors)
         /\ Absolute(s) \in CardSectors
<1> DEFINE q == s \div BlockSectors
           k == s % BlockSectors
<1>1. q \in Nat /\ k \in 0 .. BlockSectors - 1 /\ s = q * BlockSectors + k
  BY Constants, Division
<1> HIDE DEF q, k
<1>2. q < Len(Chain)
  <2> DEFINE L == Len(Chain)
             N == BlockSectors
  <2>1. L \in Nat /\ N \in Nat \ {0} /\ q \in Nat /\ k \in Nat /\ q * N + k < L * N
    BY <1>1, Constants
  <2> HIDE DEF L, N
  <2>2. q * N \in Nat /\ L * N \in Nat /\ (q >= L => L * N <= q * N)
    BY <2>1
  <2>3. q < L
    BY <2>1, <2>2
  <2> QED BY <2>3 DEF L
<1>3. q + 1 \in DOMAIN Chain
  BY <1>1, <1>2, Constants
<1>4. Chain[q + 1] \in 0 .. 14
  BY <1>3, Constants
<1>5. DataSector(Chain[q + 1], k) \in CardSectors
  <2> DEFINE b == Chain[q + 1]
  <2>1. b \in 0 .. 14
    BY <1>4
  <2> HIDE DEF b
  <2>2. b * BlockSectors \in Nat /\ b * BlockSectors <= 14 * BlockSectors
    BY <2>1, Constants
  <2>3. DataSector(b, k) \in CardSectors
    <3> DEFINE x == b * BlockSectors
               N == BlockSectors
    <3>1. x \in Nat /\ x <= 14 * N /\ k \in 0 .. N - 1 /\ N \in Nat \ {0} /\ Entries \in Nat /\ Brokens \in Nat
      BY <1>1, <2>2, Constants
    <3>2. DataSector(b, k) = Entries + 2 * Brokens + 1 + x + k /\ CardSectors = 0 .. Entries + 2 * Brokens + 15 * N
      BY Constants DEF DataSector
    <3> HIDE DEF x, N
    <3> QED BY <3>1, <3>2
  <2> QED BY <2>3 DEF b
<1>6. Absolute(s) = DataSector(Chain[q + 1], k)
  BY <1>2 DEF Absolute, q, k
<1> QED BY <1>1, <1>3, <1>5, <1>6 DEF q, k

\* The sectors of one block follow each other.
LEMMA NextInBlock ==
  ASSUME NEW s \in Nat, s + 1 < Len(Chain) * BlockSectors,
         (s % BlockSectors) + 1 < BlockSectors
  PROVE  /\ Absolute(s + 1) = Absolute(s) + 1
         /\ (s + 1) % BlockSectors = (s % BlockSectors) + 1
<1> DEFINE q == s \div BlockSectors
           k == s % BlockSectors
<1>1. q \in Nat /\ k \in 0 .. BlockSectors - 1 /\ s = q * BlockSectors + k
  BY Constants, Division
<1>2. k + 1 \in 0 .. BlockSectors - 1 /\ q * BlockSectors \in Nat
  BY <1>1, Constants
<1>3. Len(Chain) * BlockSectors \in Nat
  BY Constants
<1>4. Absolute(s) = DataSector(Chain[q + 1], k)
  <2>1. s < Len(Chain) * BlockSectors
    BY <1>3
  <2> QED BY <2>1, AbsoluteOnCard
<1>5. Absolute(s + 1) = DataSector(Chain[(s + 1) \div BlockSectors + 1], (s + 1) % BlockSectors)
  BY AbsoluteOnCard
<1> HIDE DEF q, k
<1>6. (q * BlockSectors + (k + 1)) \div BlockSectors = q
      /\ (q * BlockSectors + (k + 1)) % BlockSectors = k + 1
  BY <1>1, <1>2, Constants, Quotient
<1>7. s + 1 = q * BlockSectors + (k + 1)
  BY <1>1, <1>2
<1>8. (s + 1) \div BlockSectors = q /\ (s + 1) % BlockSectors = k + 1
  BY <1>6, <1>7
<1>9. Absolute(s + 1) = DataSector(Chain[q + 1], k + 1)
  BY <1>5, <1>8
<1>10. q + 1 \in DOMAIN Chain
  <2>1. s < Len(Chain) * BlockSectors
    BY <1>3
  <2> QED BY <2>1, AbsoluteOnCard DEF q
<1>11. DataSector(Chain[q + 1], k + 1) = DataSector(Chain[q + 1], k) + 1
  <2> DEFINE b == Chain[q + 1]
  <2>1. b \in 0 .. 14
    BY <1>10, Constants
  <2> HIDE DEF b
  <2>2. b * BlockSectors \in Nat
    BY <2>1, Constants
  <2>3. DataSector(b, k + 1) = DataSector(b, k) + 1
    BY <1>1, <2>2, Constants DEF DataSector
  <2> QED BY <2>3 DEF b
<1> QED BY <1>4, <1>8, <1>9, <1>11 DEF k

\* The place of a sector, found through the chain, is the one the properties speak of.
LEMMA FileSectorIsPlace ==
  ASSUME NEW s \in Nat, s < Len(Chain) * BlockSectors
  PROVE  FileSector(s) \in Nat /\ FileSector(s) = Place(s)
<1> DEFINE N == BlockSectors
           q == s \div N
           k == s % N
           At(d) == \E b \in DOMAIN Chain, j \in 0 .. N - 1 :
                      s = (b - 1) * N + j /\ d = Actual(DataSector(Chain[b], j))
<1>1. q \in Nat /\ k \in 0 .. N - 1 /\ s = q * N + k
  BY Constants, Division
<1>2. /\ q + 1 \in DOMAIN Chain /\ Absolute(s) = DataSector(Chain[q + 1], k)
      /\ Absolute(s) \in CardSectors
  BY AbsoluteOnCard
<1>3. FileSector(s) \in CardSectors /\ FileSector(s) = Actual(DataSector(Chain[q + 1], k))
  BY <1>2, Constants, ActualOnCard DEF FileSector
<1> HIDE DEF q, k
<1>4. At(FileSector(s))
  <2>1. q = (q + 1) - 1
    BY <1>1
  <2>2. s = ((q + 1) - 1) * N + k
    BY <1>1, <2>1
  <2> QED BY <1>1, <1>2, <1>3, <2>2
<1>5. ASSUME NEW d \in CardSectors, At(d) PROVE d = FileSector(s)
  <2>1. PICK b \in DOMAIN Chain, j \in 0 .. N - 1 :
          s = (b - 1) * N + j /\ d = Actual(DataSector(Chain[b], j))
    BY <1>5
  <2>2. PICK r \in Int : r = b - 1
    BY Constants
  <2>3. r * N + j = q * N + k
    BY <1>1, <2>1, <2>2
  <2>a. N \in Nat \ {0} /\ j \in 0 .. N - 1 /\ k \in 0 .. N - 1 /\ q \in Int
    BY <1>1, Constants
  <2> HIDE DEF N
  <2>4. r = q /\ j = k
    BY <2>3, <2>a, SameMultiple
  <2>5. b \in Nat
    BY Constants
  <2>6. b = q + 1
    BY <2>2, <2>4, <2>5
  <2> QED BY <1>3, <2>1, <2>4, <2>6
<1> HIDE DEF At
<1>6. (CHOOSE d \in CardSectors : At(d)) = FileSector(s)
  BY <1>3, <1>4, <1>5
<1>7. Place(s) = CHOOSE d \in CardSectors : At(d)
  BY DEF Place, At
<1> QED BY <1>3, <1>6, <1>7, Constants

-----------------------------------------------------------------------------
(* What is moved.                                                            *)

\* A transfer has a first sector and a number.
LEMMA TransferTypes ==
  ASSUME NEW t \in Transfers \union BlockTransfers
  PROVE  t \in Nat \X Nat /\ t = <<t[1], t[2]>> /\ t[1] \in Nat /\ t[2] \in Nat
<1>1. t \in Nat \X Nat
  BY CardsAssumption
<1> QED BY <1>1

\* The sectors of a transfer are in the file.
LEMMA InsideFile ==
  ASSUME Careful, NEW t \in Transfers \union BlockTransfers, NEW k \in Nat, k < t[2]
  PROVE  t[1] + k \in Nat /\ t[1] + k < Len(Chain) * BlockSectors
<1>1. t[1] \in Nat /\ t[2] \in Nat /\ t[1] + t[2] <= Len(Chain) * BlockSectors
  BY TransferTypes DEF Careful
<1>2. Len(Chain) * BlockSectors \in Nat
  BY Constants
<1> QED BY <1>1, <1>2

\* What is asked of the driver for the sector k of a transfer.
LEMMA PieceType ==
  ASSUME Careful, NEW t \in Transfers \union BlockTransfers, NEW k \in Nat, k < t[2]
  PROVE  /\ Piece(t, k) \in Requests
         /\ Piece(t, k).sector = FileSector(t[1] + k) /\ Piece(t, k).slot = k
         /\ FileSector(t[1] + k) \in Nat
<1>1. FileSector(t[1] + k) \in Nat
  BY InsideFile, FileSectorIsPlace
<1> QED BY <1>1 DEF Piece, Requests

\* The sector that was asked for comes behind those that were moved.
LEMMA OneMorePiece ==
  ASSUME Careful, NEW t \in Transfers \union BlockTransfers, NEW k \in Nat, k < t[2]
  PROVE  Append(Pieces(t, k), Piece(t, k)) = Pieces(t, k + 1)
<1>1. Pieces(t, k) \in Seq(Requests) /\ Len(Pieces(t, k)) = k
  <2>1. \A i \in 1 .. k : Piece(t, i - 1) \in Requests
    <3> TAKE i \in 1 .. k
    <3>1. i - 1 \in Nat /\ i - 1 < t[2]
      BY TransferTypes
    <3> QED BY <3>1, PieceType
  <2>2. Pieces(t, k) \in [1 .. k -> Requests]
    BY <2>1 DEF Pieces
  <2> QED BY <2>2
<1>2. Piece(t, k) \in Requests
  BY PieceType
<1> DEFINE s == Append(Pieces(t, k), Piece(t, k))
<1>3. /\ s \in Seq(Requests) /\ Len(s) = k + 1
      /\ \A i \in 1 .. k : s[i] = Pieces(t, k)[i]
      /\ s[k + 1] = Piece(t, k)
  BY <1>1, <1>2, AppendProperties
<1> HIDE DEF s
<1>4. \A i \in 1 .. k : s[i] = Piece(t, i - 1)
  BY <1>3 DEF Pieces
<1>5. (k + 1) - 1 = k
  OBVIOUS
<1>6. \A i \in 1 .. k + 1 : s[i] = Piece(t, i - 1)
  BY <1>3, <1>4, <1>5
<1>7. s = [i \in 1 .. k + 1 |-> s[i]]
  BY <1>3
<1>8. s = Pieces(t, k + 1)
  BY <1>6, <1>7 DEF Pieces
<1> QED BY <1>8 DEF s

\* Nothing has been moved at first.
LEMMA NoPieces ==
  ASSUME NEW t
  PROVE  Pieces(t, 0) = <<>> /\ TocPieces(0) = <<>>
<1>1. 1 .. 0 = {}
  OBVIOUS
<1> QED BY <1>1 DEF Pieces, TocPieces

\* The same of a table of contents.
LEMMA OneMoreTocPiece ==
  ASSUME NEW n \in Nat
  PROVE  Append(TocPieces(n), TocPiece(n)) = TocPieces(n + 1)
<1>1. TocPieces(n) \in Seq(Requests) /\ Len(TocPieces(n)) = n
  <2>1. \A i \in 1 .. n : TocPiece(i - 1) \in Requests
    BY DEF TocPiece, Requests
  <2>2. TocPieces(n) \in [1 .. n -> Requests]
    BY <2>1 DEF TocPieces
  <2> QED BY <2>2
<1>2. TocPiece(n) \in Requests
  BY DEF TocPiece, Requests
<1> DEFINE s == Append(TocPieces(n), TocPiece(n))
<1>3. /\ s \in Seq(Requests) /\ Len(s) = n + 1
      /\ \A i \in 1 .. n : s[i] = TocPieces(n)[i]
      /\ s[n + 1] = TocPiece(n)
  BY <1>1, <1>2, AppendProperties
<1> HIDE DEF s
<1>4. \A i \in 1 .. n : s[i] = TocPiece(i - 1)
  BY <1>3 DEF TocPieces
<1>5. (n + 1) - 1 = n
  OBVIOUS
<1>6. \A i \in 1 .. n + 1 : s[i] = TocPiece(i - 1)
  BY <1>3, <1>4, <1>5
<1>7. s = [i \in 1 .. n + 1 |-> s[i]]
  BY <1>3
<1>8. s = TocPieces(n + 1)
  BY <1>6, <1>7 DEF TocPieces
<1> QED BY <1>8 DEF s

\* All of a transfer is what it was to move.
LEMMA AllPieces ==
  ASSUME Careful, NEW t \in Transfers \union BlockTransfers
  PROVE  Pieces(t, t[2]) = Expected(t)
<1>1. t[1] \in Nat /\ t[2] \in Nat /\ t[1] + t[2] <= Len(Chain) * BlockSectors
  BY TransferTypes DEF Careful
<1>2. \A i \in 1 .. t[2] : Piece(t, i - 1) = [sector |-> Place(t[1] + i - 1), slot |-> i - 1]
  <2> TAKE i \in 1 .. t[2]
  <2>1. i - 1 \in Nat /\ i - 1 < t[2] /\ t[1] + (i - 1) = t[1] + i - 1
    BY <1>1
  <2>2. t[1] + (i - 1) \in Nat /\ t[1] + (i - 1) < Len(Chain) * BlockSectors
    BY <2>1, InsideFile
  <2>3. FileSector(t[1] + (i - 1)) = Place(t[1] + (i - 1))
    BY <2>2, FileSectorIsPlace
  <2> QED BY <2>1, <2>3 DEF Piece
<1>3. Pieces(t, t[2]) = [i \in 1 .. t[2] |-> [sector |-> Place(t[1] + i - 1), slot |-> i - 1]]
  BY <1>2, Zenon DEF Pieces
<1> QED BY <1>1, <1>3, Zenon DEF Expected

\* The invariant is about the properties.
LEMMA InvariantImplies ==
  ASSUME Careful, CardsInv
  PROVE  TransfersExact
<1>1. UnitHasCommand
  <2>1. TypeOK /\ (inProgress => listening /\ ~Free(flipping))
    BY DEF CardsInv, Typed, Bus
  <2>2. ASSUME NEW p \in Port PROVE op[p] # 0 => ~Free(p) \/ (main # None /\ main.port = p)
    <3>1. PortInv(p) /\ op[p] \in {0, 1, 2, 3, 4, 7}
      BY DEF CardsInv, Typed, TypeOK
    <3>2. CASE op[p] = 1
      BY <3>1, <3>2 DEF PortInv, Informing, Free, Mine
    <3>3. CASE op[p] \in {2, 3}
      <4>1. Streaming(p)
        BY <3>1, <3>3 DEF PortInv
      <4>2. PICK command \in {"read", "write"} : \E r : Asked(p, command, r) \/ Asking(p, command, r)
        BY <4>1 DEF Streaming
      <4> QED BY <4>2 DEF Asked, Asking, Free, Mine
    <3>4. CASE op[p] = 4
      <4>1. Listing(p)
        BY <3>1, <3>4 DEF PortInv
      <4>2. PICK r : Asked(p, "read", r) \/ Asking(p, "read", r)
        BY <4>1 DEF Listing
      <4> QED BY <4>2 DEF Asked, Asking, Free, Mine
    <3>5. CASE op[p] = 7
      BY <3>1, <3>5 DEF PortInv, Checking, Free
    <3> QED BY <3>1, <3>2, <3>3, <3>4, <3>5
  <2>3. ASSUME NEW p \in Port PROVE op[p] # 0 <=> answer[p] = "busy"
    BY DEF CardsInv, PortInv
  <2> QED BY <2>1, <2>2, <2>3 DEF UnitHasCommand
<1>2. ASSUME NEW p \in Port, answer[p] = "done"
      PROVE  /\ asked[p][1] \in {"read", "write"} => moved[p] = Expected(asked[p][2])
             /\ asked[p][1] = "toc" => moved[p] = TocSectors
  <2>1. PortInv(p)
    BY DEF CardsInv
  <2>2. CASE asked[p] \in {<<"info">>, <<"none">>}
    BY <2>2
  <2>3. CASE asked[p] = <<"toc">> /\ moved[p] = TocPieces(1 + Entries + Brokens)
    BY <2>3 DEF TocPieces, TocPiece, TocSectors
  <2>4. CASE \E t \in Transfers \union BlockTransfers, command \in {"read", "write"} :
               asked[p] = <<command, t>> /\ moved[p] = Pieces(t, t[2])
    <3>1. PICK t \in Transfers \union BlockTransfers, command \in {"read", "write"} :
            asked[p] = <<command, t>> /\ moved[p] = Pieces(t, t[2])
      BY <2>4
    <3>2. asked[p][1] = command /\ asked[p][2] = t
      BY <3>1
    <3> QED BY <3>1, <3>2, AllPieces
  <2> QED BY <1>2, <2>1, <2>2, <2>3, <2>4 DEF PortInv, Delivered
<1> QED BY <1>1, <1>2 DEF TransfersExact

-----------------------------------------------------------------------------
(* The other port.                                                           *)

\* There is one other port.
LEMMA TwoPorts ==
  ASSUME NEW p \in Port
  PROVE  /\ \E q \in Port : q # p
         /\ Other(p) \in Port /\ Other(p) # p
         /\ Port = {p, Other(p)}
<1>1. IsFiniteSet(Port \ {p}) /\ Cardinality(Port \ {p}) = 1
  <2>1. IsFiniteSet(Port) /\ Cardinality(Port) = 2
    BY CardsAssumption
  <2>2. /\ IsFiniteSet(Port \ {p})
        /\ Cardinality(Port \ {p}) = IF p \in Port THEN Cardinality(Port) - 1 ELSE Cardinality(Port)
    BY <2>1, FS_RemoveElement, Zenon
  <2> QED BY <2>1, <2>2
<1>2. PICK q : Port \ {p} = {q}
  BY <1>1, FS_Singleton
<1>3. q \in Port /\ q # p /\ Port = {p, q}
  BY <1>2
<1>4. Other(p) \in Port /\ Other(p) # p
  BY <1>3 DEF Other
<1> QED BY <1>3, <1>4

Local(p) == <<flags[p], request[p], op[p], state[p], current[p], job[p], asked[p], moved[p], answer[p]>>

\* What a step leaves alone, and the main thread as well.
LEMMA Elsewhere ==
  ASSUME NEW q \in Port, PortInv(q), Local(q)' = Local(q),
         main' = main \/ (~Mine(q) /\ ~Mine(q)')
  PROVE  PortInv(q)'
<1>1. /\ flags'[q] = flags[q] /\ request'[q] = request[q] /\ op'[q] = op[q] /\ state'[q] = state[q]
      /\ current'[q] = current[q] /\ job'[q] = job[q] /\ asked'[q] = asked[q] /\ moved'[q] = moved[q]
      /\ answer'[q] = answer[q]
  BY DEF Local
<1>2. /\ Mine(q)' = Mine(q) /\ Free(q)' = Free(q)
      /\ (Mine(q) => main' = main)
  BY <1>1 DEF Mine, Free
<1>3. ASSUME NEW command, NEW r
      PROVE  /\ Asking(q, command, r) => Asking(q, command, r)' /\ main' = main
             /\ Asked(q, command, r) => Asked(q, command, r)'
  BY <1>1, <1>2 DEF Asking, Asked
<1>4. Informing(q) => Informing(q)'
  BY <1>1, <1>2 DEF Informing
<1>5. Streaming(q) => Streaming(q)'
  <2> SUFFICES ASSUME Streaming(q) PROVE Streaming(q)'
    OBVIOUS
  <2>1. PICK t \in Transfers, k \in Nat, command \in {"read", "write"} :
          /\ k < t[2] /\ asked[q] = <<command, t>> /\ op[q] = IF command = "read" THEN 2 ELSE 3
          /\ job[q] = [start |-> t[1] + k, count |-> t[2] - k, slot |-> k]
          /\ moved[q] = Pieces(t, k)
          /\ Asked(q, command, Piece(t, k)) \/ (Asking(q, command, Piece(t, k)) /\ k = 0 /\ main.call = "unit")
    BY DEF Streaming
  <2>2. /\ k < t[2] /\ asked'[q] = <<command, t>> /\ op'[q] = IF command = "read" THEN 2 ELSE 3
        /\ job'[q] = [start |-> t[1] + k, count |-> t[2] - k, slot |-> k]
        /\ moved'[q] = Pieces(t, k)
    BY <1>1, <2>1
  <2>3. Asked(q, command, Piece(t, k))' \/ (Asking(q, command, Piece(t, k))' /\ k = 0 /\ main'.call = "unit")
    BY <1>3, <2>1 DEF Piece
  <2> QED BY <2>2, <2>3 DEF Streaming, Pieces, Piece
<1>6. Listing(q) => Listing(q)'
  <2> SUFFICES ASSUME Listing(q) PROVE Listing(q)'
    OBVIOUS
  <2>1. PICK n \in Nat :
          /\ moved[q] = TocPieces(n)
          /\ \/ Asked(q, "read", TocPiece(n)) /\ TocAt(q, n)
             \/ Asking(q, "read", TocPiece(n)) /\ n = 0 /\ main.call = "toc"
    BY DEF Listing
  <2>2. TocAt(q, n) => TocAt(q, n)'
    BY <1>1 DEF TocAt
  <2> QED BY <1>1, <1>3, <2>1, <2>2 DEF Listing
<1>7. Checking(q) => Checking(q)'
  BY <1>1 DEF Checking
<1>8. Delivered(q) => Delivered(q)'
  BY <1>1 DEF Delivered, Pieces, Piece, TocPieces, TocPiece
<1> QED BY <1>1, <1>2, <1>4, <1>5, <1>6, <1>7, <1>8 DEF PortInv

\* A command that the driver serves was asked for, by a unit or by a blocking call that waits.
LEMMA Served ==
  ASSUME CardsInv, NEW p \in Port, ~Free(p)
  PROVE  /\ Mine(p) => main.blocking /\ main.at = "wait"
         /\ main # None /\ main.blocking => Mine(p)
         /\ op[p] = 0 => Mine(p)
         /\ PortInv(p)
<1>1. PortInv(p)
  BY DEF CardsInv
<1>2. ASSUME main # None, main.blocking PROVE Mine(p)
  <2>1. Alone(main.port)
    BY <1>2 DEF CardsInv, Blocking
  <2> QED BY <1>2, <2>1 DEF Alone, Mine
<1> QED BY <1>1, <1>2 DEF PortInv

\* The blocking call that the driver serves.
LEMMA ServedBlocking ==
  ASSUME CardsInv, NEW p \in Port, ~Free(p), Mine(p)
  PROVE  /\ main # None /\ main.port = p /\ main.blocking /\ main.at = "wait"
         /\ \E t \in BlockTransfers :
              /\ main.call \in {"read", "write"} \X {t}
              /\ Alone(p) /\ Stage(p, t, main.slot) /\ Doing(p, t, main.slot)
<1>1. main # None /\ main.port = p /\ main.blocking /\ main.at = "wait"
  BY Served DEF Mine
<1>2. PICK t \in BlockTransfers :
        /\ main.call \in {"read", "write"} \X {t}
        /\ Alone(p) /\ Stage(p, t, main.slot)
        /\ Doing(p, t, main.slot) \/ Over(p, t, main.slot)
  BY <1>1 DEF CardsInv, Blocking
<1>3. Doing(p, t, main.slot)
  BY <1>2 DEF Over
<1> QED BY <1>1, <1>2, <1>3

-----------------------------------------------------------------------------
(* A command that fails.                                                     *)

\* The types of what a port holds.
LEMMA PortTypes ==
  ASSUME CardsInv, NEW p \in Port
  PROVE  /\ flags \in [Port -> Commands \union {"free"}] /\ request \in [Port -> Requests]
         /\ op \in [Port -> {0, 1, 2, 3, 4, 7}] /\ state \in [Port -> 0 .. 3] /\ current \in [Port -> Nat]
         /\ job \in [Port -> Jobs] /\ asked \in [Port -> Calls] /\ moved \in [Port -> Seq(Requests)]
         /\ answer \in [Port -> Reasons \union {"none", "busy"}]
         /\ status \subseteq Reasons /\ (main = None \/ main \in MainCalls) /\ flipping \in Port
BY DEF CardsInv, Typed, TypeOK

\* What a port holds when it has nothing to do.
LEMMA Literals ==
  /\ NoRequest \in Requests /\ NoJob \in Jobs /\ <<>> \in Seq(Requests)
BY DEF NoRequest, Requests, NoJob, Jobs, HeadSector

\* The types after a step, one by one.
LEMMA TypedNext ==
  ASSUME flags' \in [Port -> Commands \union {"free"}], request' \in [Port -> Requests],
         op' \in [Port -> {0, 1, 2, 3, 4, 7}], state' \in [Port -> 0 .. 3], current' \in [Port -> Nat],
         job' \in [Port -> Jobs], asked' \in [Port -> Calls], moved' \in [Port -> Seq(Requests)],
         answer' \in [Port -> Reasons \union {"none", "busy"}],
         status' \subseteq Reasons, main' = None \/ main' \in MainCalls, flipping' \in Port,
         operation' \in 0 .. 4, inProgress' \in BOOLEAN, listening' \in BOOLEAN, synced' \in BOOLEAN
  PROVE  Typed'
<1>1. {inProgress', listening', synced'} \subseteq BOOLEAN
  BY Zenon
<1>2. TypeOK'
  BY <1>1, Zenon DEF TypeOK
<1> QED BY <1>2, Zenon DEF Typed

\* The blocking call that a command fails for is over.
LEMMA FailedBlocking ==
  ASSUME CardsInv, NEW p \in Port, ~Free(p),
         UNCHANGED <<main, asked>>, status' = status \union {"failed"},
         flags' = [flags EXCEPT ![p] = "free"], op'[p] = 0, \A q \in Port \ {p} : op'[q] = op[q]
  PROVE  Blocking'
<1> SUFFICES ASSUME main # None, main.blocking PROVE Blocking'
  BY DEF Blocking
<1>1. Mine(p)
  BY Served
<1>2. PICK t \in BlockTransfers :
        /\ main.call \in {"read", "write"} \X {t}
        /\ Alone(p) /\ Stage(p, t, main.slot) /\ Doing(p, t, main.slot)
  BY <1>1, ServedBlocking
<1>3. main.port = p /\ main.at = "wait" /\ main' = main
  BY <1>1, ServedBlocking
<1>4. status' = {"failed"}
  BY <1>2 DEF Doing
<1>5. Free(p)'
  BY PortTypes DEF Free
<1>6. Alone(p)'
  BY <1>2, PortTypes DEF Alone, Free
<1>7. Stage(p, t, main.slot)'
  BY <1>2, <1>3 DEF Stage, Absolute
<1>8. Over(p, t, main.slot)'
  BY <1>3, <1>4, <1>5 DEF Over
<1> QED BY <1>2, <1>3, <1>6, <1>7, <1>8 DEF Blocking

\* A command that fails is over, for the unit and for a blocking call.
LEMMA FailureKeeps ==
  ASSUME CardsInv, NEW p \in Port, ~Free(p), Failure(p),
         UNCHANGED <<main, asked, flipping>>, synced' \in BOOLEAN, inProgress' = FALSE, listening' = FALSE
  PROVE  CardsInv'
<1>1. /\ flags' = [flags EXCEPT ![p] = "free"] /\ request' = [request EXCEPT ![p] = NoRequest]
      /\ operation' = 0 /\ moved' = [moved EXCEPT ![p] = <<>>]
      /\ status' = status \union {"failed"} /\ main' = main /\ asked' = asked /\ flipping' = flipping
  BY DEF Failure, Release
<1>2. /\ op' = [op EXCEPT ![p] = 0]
      /\ answer' = [answer EXCEPT ![p] = IF op[p] = 0 THEN answer[p] ELSE "failed"]
      /\ \/ state' = [state EXCEPT ![p] = 0] /\ current' = [current EXCEPT ![p] = 0] /\ job' = [job EXCEPT ![p] = NoJob]
         \/ UNCHANGED <<state, current, job>>
  <2>1. CASE op[p] # 0
    BY <2>1 DEF Failure, Finish
  <2>2. CASE op[p] = 0
    <3>1. UNCHANGED <<op, state, current, job, answer>>
      BY <2>2 DEF Failure, unit
    <3>2. op = [op EXCEPT ![p] = 0] /\ answer = [answer EXCEPT ![p] = answer[p]]
      BY <2>2, PortTypes
    <3> QED BY <2>2, <3>1, <3>2
  <2> QED BY <2>1, <2>2
<1>3. Typed'
  <2>1. flags' \in [Port -> Commands \union {"free"}] /\ request' \in [Port -> Requests]
        /\ op' \in [Port -> {0, 1, 2, 3, 4, 7}]
    BY <1>1, <1>2, PortTypes, Literals
  <2>2. state' \in [Port -> 0 .. 3] /\ current' \in [Port -> Nat] /\ job' \in [Port -> Jobs]
    <3>1. CASE UNCHANGED <<state, current, job>>
      BY <3>1, PortTypes
    <3>2. CASE state' = [state EXCEPT ![p] = 0] /\ current' = [current EXCEPT ![p] = 0] /\ job' = [job EXCEPT ![p] = NoJob]
      BY <3>2, PortTypes, Literals
    <3> QED BY <1>2, <3>1, <3>2
  <2>3. moved' \in [Port -> Seq(Requests)] /\ asked' \in [Port -> Calls]
    BY <1>1, PortTypes, Literals
  <2>4. answer' \in [Port -> Reasons \union {"none", "busy"}] /\ status' \subseteq Reasons
    BY <1>1, <1>2, PortTypes DEF Reasons
  <2>5. operation' \in 0 .. 4 /\ flipping' \in Port /\ (main' = None \/ main' \in MainCalls)
    BY <1>1, PortTypes
  <2>6. inProgress' \in BOOLEAN /\ listening' \in BOOLEAN
    OBVIOUS
  <2> QED BY <2>1, <2>2, <2>3, <2>4, <2>5, <2>6, TypedNext
<1>4. Bus'
  BY DEF Bus
<1>5. PortInv(p)'
  <2>1. Free(p)' /\ op'[p] = 0 /\ asked'[p] = asked[p] /\ Mine(p)' = Mine(p) /\ main' = main
        /\ answer'[p] = IF op[p] = 0 THEN answer[p] ELSE "failed"
    BY <1>1, <1>2, PortTypes DEF Free, Mine
  <2>2. PortInv(p) /\ (Mine(p) => main.blocking) /\ (op[p] = 0 => Mine(p))
    BY Served
  <2>3. answer'[p] = "done" => asked[p] = <<"none">>
    <3>1. op[p] = 0 => Alone(p)
      BY <2>2, ServedBlocking
    <3> QED BY <2>1, <3>1 DEF Alone
  <2>4. answer'[p] # "busy"
    BY <2>1, <2>2 DEF PortInv
  <2> QED BY <2>1, <2>2, <2>3, <2>4 DEF PortInv, Delivered
<1>6. ASSUME NEW q \in Port \ {p} PROVE PortInv(q)'
  <2>1. Local(q)' = Local(q)
    BY <1>1, <1>2, PortTypes DEF Local
  <2> QED BY <1>1, <2>1, Elsewhere DEF CardsInv
<1>7. Blocking'
  BY <1>1, <1>2, FailedBlocking, PortTypes
<1> QED BY <1>3, <1>4, <1>5, <1>6, <1>7 DEF CardsInv

-----------------------------------------------------------------------------
(* A command that goes well.                                                 *)

\* What mcHandler does whatever the unit makes of the command.
Serving(p) ==
  /\ ~Free(p) /\ inProgress' = FALSE /\ listening' = FALSE
  /\ UNCHANGED <<main, asked, flipping, synced>>
  /\ moved' = IF flags[p] = "info" THEN moved ELSE [moved EXCEPT ![p] = Append(@, request[p])]

\* The types after a command that went well.
LEMMA ServingTypes ==
  ASSUME CardsInv, NEW p \in Port, Serving(p), operation' = 0,
         flags' \in [Port -> Commands \union {"free"}], request' \in [Port -> Requests],
         op' \in [Port -> {0, 1, 2, 3, 4, 7}], state' \in [Port -> 0 .. 3], current' \in [Port -> Nat],
         job' \in [Port -> Jobs], answer' \in [Port -> Reasons \union {"none", "busy"}],
         status' \subseteq Reasons
  PROVE  Typed' /\ Bus'
<1>1. moved' \in [Port -> Seq(Requests)]
  <2>1. CASE flags[p] = "info"
    BY <2>1, PortTypes DEF Serving
  <2>2. CASE flags[p] # "info"
    <3>1. request[p] \in Requests /\ moved[p] \in Seq(Requests)
      BY PortTypes
    <3>2. Append(moved[p], request[p]) \in Seq(Requests)
      BY <3>1
    <3> QED BY <2>2, <3>2, PortTypes DEF Serving
  <2> QED BY <2>1, <2>2
<1>2. asked' \in [Port -> Calls] /\ flipping' \in Port /\ (main' = None \/ main' \in MainCalls)
      /\ operation' \in 0 .. 4
  BY PortTypes DEF Serving
<1>3. inProgress' \in BOOLEAN /\ listening' \in BOOLEAN
  BY DEF Serving
<1>4. synced' \in BOOLEAN
  <2>1. synced \in BOOLEAN
    BY DEF CardsInv, Typed, TypeOK
  <2>2. synced' = synced
    BY DEF Serving
  <2> QED BY <2>1, <2>2, Zenon
<1>5. Bus'
  BY DEF Serving, Bus
<1> QED BY <1>1, <1>2, <1>3, <1>4, <1>5, TypedNext

\* The other port is not touched.
LEMMA ServingElsewhere ==
  ASSUME CardsInv, NEW p \in Port, Serving(p), NEW q \in Port \ {p},
         flags'[q] = flags[q], request'[q] = request[q], op'[q] = op[q], state'[q] = state[q],
         current'[q] = current[q], job'[q] = job[q], answer'[q] = answer[q]
  PROVE  PortInv(q)'
<1>1. Local(q)' = Local(q) /\ main' = main
  BY PortTypes DEF Local, Serving
<1> QED BY <1>1, Elsewhere DEF CardsInv

\* The unit is done.
LEMMA ReleaseTypes ==
  ASSUME CardsInv, NEW p \in Port, NEW why \in Reasons, Release(p), Finish(p, why),
         status' \subseteq Reasons, Serving(p)
  PROVE  Typed' /\ Bus' /\ \A q \in Port \ {p} : PortInv(q)'
<1>1. flags' = [flags EXCEPT ![p] = "free"] /\ request' = [request EXCEPT ![p] = NoRequest] /\ operation' = 0
  BY DEF Release
<1>2. /\ op' = [op EXCEPT ![p] = 0] /\ state' = [state EXCEPT ![p] = 0]
      /\ current' = [current EXCEPT ![p] = 0] /\ job' = [job EXCEPT ![p] = NoJob]
      /\ answer' = [answer EXCEPT ![p] = why]
  BY DEF Finish
<1>3. /\ flags' \in [Port -> Commands \union {"free"}] /\ request' \in [Port -> Requests]
      /\ op' \in [Port -> {0, 1, 2, 3, 4, 7}] /\ state' \in [Port -> 0 .. 3] /\ current' \in [Port -> Nat]
      /\ job' \in [Port -> Jobs]
  BY <1>1, <1>2, PortTypes, Literals
<1>4. answer' \in [Port -> Reasons \union {"none", "busy"}]
  BY <1>2, PortTypes DEF Reasons
<1>5. Typed' /\ Bus'
  BY <1>1, <1>3, <1>4, ServingTypes
<1>6. ASSUME NEW q \in Port \ {p} PROVE PortInv(q)'
  <2>1. /\ flags'[q] = flags[q] /\ request'[q] = request[q] /\ op'[q] = op[q] /\ state'[q] = state[q]
        /\ current'[q] = current[q] /\ job'[q] = job[q] /\ answer'[q] = answer[q]
    BY <1>1, <1>2, PortTypes
  <2> QED BY <2>1, ServingElsewhere
<1> QED BY <1>5, <1>6

\* A sector of a blocking call.
LEMMA BlockingSector ==
  ASSUME Careful, CardsInv, NEW p \in Port, Serving(p), op[p] = 0,
         status' = status \union {"done"}, Release(p), UNCHANGED <<unit, answer>>
  PROVE  CardsInv'
<1>1. Mine(p)
  BY Served DEF Serving
<1>2. PICK t \in BlockTransfers :
        /\ main.call \in {"read", "write"} \X {t}
        /\ Alone(p) /\ Stage(p, t, main.slot) /\ Doing(p, t, main.slot)
  BY <1>1, ServedBlocking DEF Serving
<1>3. main.port = p /\ main.at = "wait" /\ main' = main /\ main.blocking /\ main # None
  BY <1>1, ServedBlocking DEF Serving
<1>4. flags' = [flags EXCEPT ![p] = "free"] /\ request' = [request EXCEPT ![p] = NoRequest] /\ operation' = 0
      /\ op' = op /\ state' = state /\ current' = current /\ job' = job /\ answer' = answer
  BY DEF Release, unit
<1>5. main.kind # "info" /\ flags[p] = main.kind /\ request[p] = Piece(t, main.slot) /\ moved[p] = Pieces(t, main.slot)
  BY <1>2, <1>3 DEF Doing
<1>6. main.slot \in Nat /\ main.slot < t[2]
  <2>1. main \in MainCalls
    BY <1>3, PortTypes
  <2>2. main.slot \in Nat /\ main.left \in Nat /\ main.more \in Nat
    BY <2>1 DEF MainCalls
  <2>3. main.left > 0 /\ main.more = t[2] - main.slot - main.left
    BY <1>2, <1>5 DEF Stage
  <2>4. t[2] \in Nat
    BY TransferTypes
  <2> QED BY <2>2, <2>3, <2>4
<1>7. moved'[p] = Pieces(t, main.slot + 1)
  <2>1. moved'[p] = Append(Pieces(t, main.slot), Piece(t, main.slot))
    BY <1>5, PortTypes DEF Serving
  <2> QED BY <1>6, <2>1, OneMorePiece
<1>8. Typed' /\ Bus'
  <2>1. flags' \in [Port -> Commands \union {"free"}] /\ request' \in [Port -> Requests]
    BY <1>4, PortTypes, Literals
  <2>2. status' \subseteq Reasons
    BY PortTypes DEF Reasons
  <2>3. /\ op' \in [Port -> {0, 1, 2, 3, 4, 7}] /\ state' \in [Port -> 0 .. 3]
        /\ current' \in [Port -> Nat] /\ job' \in [Port -> Jobs]
        /\ answer' \in [Port -> Reasons \union {"none", "busy"}]
    BY <1>4, PortTypes, Zenon
  <2> QED BY <1>4, <2>1, <2>2, <2>3, ServingTypes
<1>9. ASSUME NEW q \in Port \ {p} PROVE PortInv(q)'
  <2>1. /\ flags'[q] = flags[q] /\ request'[q] = request[q] /\ op'[q] = op[q] /\ state'[q] = state[q]
        /\ current'[q] = current[q] /\ job'[q] = job[q] /\ answer'[q] = answer[q]
    BY <1>4, PortTypes
  <2> QED BY <2>1, ServingElsewhere
<1>10. asked' = asked /\ asked[p] = <<"none">> /\ Free(p)' /\ Mine(p)'
  BY <1>1, <1>2, <1>3, <1>4, PortTypes DEF Alone, Serving, Free, Mine
<1>11. PortInv(p)'
  <2>1. answer[p] # "busy"
    BY DEF CardsInv, PortInv
  <2>2. op'[p] = 0 /\ answer'[p] # "busy" /\ asked'[p] = <<"none">>
    BY <1>4, <1>10, <2>1
  <2>3. main'.blocking
    BY <1>3
  <2> QED BY <1>10, <2>2, <2>3 DEF PortInv, Delivered
<1>12. Blocking'
  <2>1. status' = {"done"}
    BY <1>2 DEF Doing
  <2>2. Over(p, t, main.slot)'
    BY <1>3, <1>4, <1>5, <1>7, <1>10, <2>1 DEF Over, Pieces, Piece
  <2>3. Alone(p)'
    BY <1>2, <1>4, <1>10, PortTypes DEF Alone, Free
  <2>4. Stage(p, t, main.slot)'
    BY <1>2, <1>3 DEF Stage
  <2> QED BY <1>2, <1>3, <2>2, <2>3, <2>4 DEF Blocking
<1> QED BY <1>8, <1>9, <1>11, <1>12 DEF CardsInv

-----------------------------------------------------------------------------
(* The unit is done.                                                         *)

\* Only the unit's own operations are served when it has one that no blocking call starts.
LEMMA NotBlocking ==
  ASSUME CardsInv, NEW p \in Port, ~Free(p), op[p] \notin {0, 1}
  PROVE  ~Mine(p) /\ ~(main # None /\ main.blocking)
<1>1. ~Mine(p)
  <2> SUFFICES ASSUME Mine(p) PROVE FALSE
    OBVIOUS
  <2> QED BY ServedBlocking DEF Doing
<1> QED BY <1>1, Served

\* A unit that is done has delivered.
LEMMA FinishedKeeps ==
  ASSUME CardsInv, NEW p \in Port, Serving(p), op[p] # 0,
         status' = status \union {"done"}, Release(p), Finish(p, "done"), Delivered(p)'
  PROVE  CardsInv'
<1>1. Typed' /\ Bus' /\ \A q \in Port \ {p} : PortInv(q)'
  <2>1. status' \subseteq Reasons
    BY PortTypes DEF Reasons
  <2>2. "done" \in Reasons
    BY DEF Reasons
  <2> QED BY <2>1, <2>2, ReleaseTypes
<1>2. /\ flags' = [flags EXCEPT ![p] = "free"] /\ op' = [op EXCEPT ![p] = 0]
      /\ answer' = [answer EXCEPT ![p] = "done"] /\ main' = main /\ asked' = asked
  BY DEF Release, Finish, Serving
<1>3. Free(p)' /\ op'[p] = 0 /\ answer'[p] = "done"
  BY <1>2, PortTypes DEF Free
<1>4. Mine(p)' => main'.blocking
  BY <1>2, Served DEF Serving, Mine
<1>5. PortInv(p)'
  BY <1>3, <1>4 DEF PortInv
<1>6. Blocking'
  <2> SUFFICES ASSUME main # None, main.blocking PROVE Blocking'
    BY <1>2 DEF Blocking
  <2>1. Mine(p)
    BY Served DEF Serving
  <2>2. PICK t \in BlockTransfers :
          /\ main.call \in {"read", "write"} \X {t}
          /\ Alone(p) /\ Stage(p, t, main.slot) /\ Doing(p, t, main.slot)
    BY <2>1, ServedBlocking DEF Serving
  <2>3. main.port = p /\ main.at = "wait"
    BY <2>1, ServedBlocking DEF Serving
  <2>4. main.kind = "info" /\ flags[p] = "info" /\ moved' = moved
    BY <2>2, <2>3 DEF Doing, Serving
  <2>5. status' = {"done"} /\ moved'[p] = Pieces(t, main.slot)
    BY <2>2, <2>4 DEF Doing
  <2>6. Over(p, t, main.slot)'
    BY <1>2, <1>3, <2>3, <2>4, <2>5 DEF Over, Pieces, Piece
  <2>7. Alone(p)'
    BY <1>2, <2>2, PortTypes DEF Alone, Free
  <2>8. Stage(p, t, main.slot)'
    BY <1>2, <2>2 DEF Stage
  <2> QED BY <1>2, <2>2, <2>3, <2>6, <2>7, <2>8 DEF Blocking
<1> QED BY <1>1, <1>5, <1>6 DEF CardsInv

\* The sectors of a file, one after the other.
LEMMA StreamServed ==
  ASSUME CardsInv, NEW p \in Port, ~Free(p), op[p] \in {2, 3}
  PROVE  \E t \in Transfers, k \in Nat, command \in {"read", "write"} :
           /\ k < t[2] /\ asked[p] = <<command, t>> /\ op[p] = IF command = "read" THEN 2 ELSE 3
           /\ job[p] = [start |-> t[1] + k, count |-> t[2] - k, slot |-> k]
           /\ moved[p] = Pieces(t, k)
           /\ flags[p] = command /\ request[p] = Piece(t, k)
<1>1. Streaming(p)
  BY DEF CardsInv, PortInv
<1> QED BY <1>1 DEF Streaming, Asking, Asked

\* The sector that is moved is the next of the transfer.
LEMMA StreamMoves ==
  ASSUME Careful, CardsInv, NEW p \in Port, Serving(p), NEW t \in Transfers, NEW k \in Nat, k < t[2],
         moved[p] = Pieces(t, k), request[p] = Piece(t, k), flags[p] # "info"
  PROVE  moved'[p] = Pieces(t, k + 1)
<1>1. moved'[p] = Append(Pieces(t, k), Piece(t, k))
  BY PortTypes DEF Serving
<1> QED BY <1>1, OneMorePiece

\* The last sector of a read, the check of a write and cardInfo.
LEMMA SucceededKeeps ==
  ASSUME Careful, CardsInv, NEW p \in Port, Serving(p),
         op[p] \in {1, 7} \/ (op[p] = 2 /\ job[p].count = 1),
         Succeeded(p)
  PROVE  CardsInv'
<1>1. status' = status \union {"done"} /\ Release(p) /\ Finish(p, "done")
  BY DEF Succeeded
<1>2. asked' = asked
  BY DEF Serving
<1>3. PortInv(p)
  BY DEF CardsInv
<1>4. Delivered(p)'
  <2>1. CASE op[p] = 1
    BY <1>2, <1>3, <2>1 DEF PortInv, Informing, Delivered
  <2>2. CASE op[p] = 7
    <3>1. PICK t \in Transfers : asked[p] = <<"write", t>> /\ moved[p] = Pieces(t, t[2]) /\ flags[p] = "info"
      BY <1>3, <2>2 DEF PortInv, Checking
    <3>2. moved' = moved
      BY <3>1 DEF Serving
    <3>3. asked'[p] = <<"write", t>> /\ moved'[p] = Pieces(t, t[2])
      BY <1>2, <3>1, <3>2
    <3> QED BY <3>3 DEF Delivered, Pieces, Piece
  <2>3. CASE op[p] = 2 /\ job[p].count = 1
    <3>1. PICK t \in Transfers, k \in Nat, command \in {"read", "write"} :
            /\ k < t[2] /\ asked[p] = <<command, t>> /\ op[p] = IF command = "read" THEN 2 ELSE 3
            /\ job[p] = [start |-> t[1] + k, count |-> t[2] - k, slot |-> k]
            /\ moved[p] = Pieces(t, k)
            /\ flags[p] = command /\ request[p] = Piece(t, k)
      BY <2>3, StreamServed DEF Serving
    <3>2. t[2] \in Nat
      BY TransferTypes
    <3>3. k + 1 = t[2]
      BY <2>3, <3>1, <3>2
    <3>4. moved'[p] = Pieces(t, t[2])
      BY <3>1, <3>3, StreamMoves
    <3> QED BY <1>2, <3>1, <3>4 DEF Delivered, Pieces, Piece
  <2> QED BY <2>1, <2>2, <2>3
<1> QED BY <1>1, <1>4, FinishedKeeps

-----------------------------------------------------------------------------
(* The unit goes on.                                                         *)

\* The next command of a port, which no blocking call waits for.
LEMMA IssueKeeps ==
  ASSUME CardsInv, NEW p \in Port, Serving(p), op[p] \notin {0, 1},
         NEW command \in Commands, NEW sector \in Nat, NEW s \in Nat, Issue(p, command, sector, s),
         op' \in [Port -> {0, 1, 2, 3, 4, 7}], op'[p] \notin {0, 1}, \A q \in Port \ {p} : op'[q] = op[q],
         state' \in [Port -> 0 .. 3], \A q \in Port \ {p} : state'[q] = state[q],
         current' \in [Port -> Nat], \A q \in Port \ {p} : current'[q] = current[q],
         job' \in [Port -> Jobs], \A q \in Port \ {p} : job'[q] = job[q],
         answer' = answer, status' \subseteq Reasons,
         op'[p] \in {2, 3} => Streaming(p)', op'[p] = 4 => Listing(p)', op'[p] = 7 => Checking(p)'
  PROVE  CardsInv'
<1>1. /\ flags' = [flags EXCEPT ![p] = command] /\ request' = [request EXCEPT ![p] = [sector |-> sector, slot |-> s]]
      /\ operation' = 0 /\ main' = main
  BY DEF Issue, Serving
<1>2. flags' \in [Port -> Commands \union {"free"}] /\ request' \in [Port -> Requests]
  BY <1>1, PortTypes DEF Requests
<1>3. answer' \in [Port -> Reasons \union {"none", "busy"}]
  BY PortTypes
<1>4. Typed' /\ Bus'
  BY <1>1, <1>2, <1>3, ServingTypes
<1>5. ASSUME NEW q \in Port \ {p} PROVE PortInv(q)'
  <2>1. flags'[q] = flags[q] /\ request'[q] = request[q] /\ answer'[q] = answer[q]
    BY <1>1, PortTypes
  <2> QED BY <2>1, ServingElsewhere
<1>6. ~Mine(p) /\ ~(main # None /\ main.blocking) /\ answer[p] = "busy"
  BY NotBlocking DEF Serving, CardsInv, PortInv
<1>7. ~Mine(p)' /\ answer'[p] = "busy"
  BY <1>1, <1>6 DEF Mine
<1>8. PortInv(p)'
  BY <1>7 DEF PortInv
<1>9. Blocking'
  BY <1>1, <1>6 DEF Blocking
<1> QED BY <1>4, <1>5, <1>8, <1>9 DEF CardsInv

\* The next sector of a transfer.
LEMMA NextSectorKeeps ==
  ASSUME Careful, CardsInv, NEW p \in Port, Serving(p), job[p].count # 1,
         NEW command \in {"read", "write"}, op[p] = IF command = "read" THEN 2 ELSE 3,
         NextSector(p, command)
  PROVE  CardsInv'
<1>1. PICK t \in Transfers, k \in Nat, c \in {"read", "write"} :
        /\ k < t[2] /\ asked[p] = <<c, t>> /\ op[p] = IF c = "read" THEN 2 ELSE 3
        /\ job[p] = [start |-> t[1] + k, count |-> t[2] - k, slot |-> k]
        /\ moved[p] = Pieces(t, k)
        /\ flags[p] = c /\ request[p] = Piece(t, k)
  BY StreamServed DEF Serving
<1>2. c = command
  BY <1>1
<1>3. t[1] \in Nat /\ t[2] \in Nat
  BY TransferTypes
<1>4. k + 1 \in Nat /\ k + 1 < t[2]
  BY <1>1, <1>3
<1>5. FileSector(t[1] + (k + 1)) \in Nat
  BY <1>4, PieceType
<1>6. job[p].start + 1 = t[1] + (k + 1) /\ job[p].count - 1 = t[2] - (k + 1) /\ job[p].slot + 1 = k + 1
  BY <1>1, <1>3
<1> DEFINE sector == FileSector(t[1] + (k + 1))
           j == [start |-> t[1] + (k + 1), count |-> t[2] - (k + 1), slot |-> k + 1]
<1>7. FileSector(job[p].start + 1) = sector /\ sector # -1
  BY <1>5, <1>6
<1>8. /\ Issue(p, command, sector, k + 1) /\ job' = [job EXCEPT ![p] = j]
      /\ status' = status \union {"done"} /\ UNCHANGED <<op, state, current, answer>>
  BY <1>6, <1>7, Zenon DEF NextSector
<1>9. j \in Jobs
  BY <1>3, <1>4 DEF Jobs
<1>10. moved'[p] = Pieces(t, k + 1)
  BY <1>1, StreamMoves
<1>11. Streaming(p)'
  <2>1. flags'[p] = command /\ request'[p] = Piece(t, k + 1)
    BY <1>8, PortTypes DEF Issue, Piece
  <2>2. Asked(p, command, Piece(t, k + 1))'
    BY <2>1 DEF Asked, Piece
  <2>3. job'[p] = j /\ asked'[p] = <<command, t>> /\ op'[p] = op[p]
    BY <1>1, <1>2, <1>8, PortTypes DEF Serving
  <2> QED BY <1>4, <1>10, <2>2, <2>3 DEF Streaming, Pieces, Piece
<1>12. status' \subseteq Reasons
  BY <1>8, PortTypes DEF Reasons
<1>13. job' \in [Port -> Jobs] /\ \A q \in Port \ {p} : job'[q] = job[q]
  BY <1>8, <1>9, PortTypes
<1>14. /\ op' \in [Port -> {0, 1, 2, 3, 4, 7}] /\ op'[p] \in {2, 3} /\ (\A q \in Port \ {p} : op'[q] = op[q])
       /\ state' \in [Port -> 0 .. 3] /\ (\A q \in Port \ {p} : state'[q] = state[q])
       /\ current' \in [Port -> Nat] /\ (\A q \in Port \ {p} : current'[q] = current[q])
  BY <1>8, PortTypes
<1>15. command \in Commands
  BY DEF Commands
<1> HIDE DEF sector, j
<1>16. sector \in Nat
  BY <1>5 DEF sector
<1> QED BY <1>4, <1>8, <1>11, <1>12, <1>13, <1>14, <1>15, <1>16, IssueKeeps

\* The card is asked whether the last write went well.
LEMMA LastWriteKeeps ==
  ASSUME Careful, CardsInv, NEW p \in Port, Serving(p), op[p] = 3, job[p].count = 1,
         Issue(p, "info", HeadSector, 0), op' = [op EXCEPT ![p] = 7], status' = status \ {"done"},
         UNCHANGED <<state, current, job, answer>>
  PROVE  CardsInv'
<1>1. PICK t \in Transfers, k \in Nat, c \in {"read", "write"} :
        /\ k < t[2] /\ asked[p] = <<c, t>> /\ op[p] = IF c = "read" THEN 2 ELSE 3
        /\ job[p] = [start |-> t[1] + k, count |-> t[2] - k, slot |-> k]
        /\ moved[p] = Pieces(t, k)
        /\ flags[p] = c /\ request[p] = Piece(t, k)
  BY StreamServed DEF Serving
<1>2. c = "write" /\ k + 1 = t[2]
  BY <1>1, TransferTypes
<1>3. moved'[p] = Pieces(t, t[2])
  BY <1>1, <1>2, StreamMoves
<1>4. flags'[p] = "info" /\ asked'[p] = <<"write", t>> /\ op'[p] = 7
  BY <1>1, <1>2, PortTypes DEF Issue, Serving
<1>5. Checking(p)'
  BY <1>3, <1>4 DEF Checking, Pieces, Piece
<1>6. /\ op' \in [Port -> {0, 1, 2, 3, 4, 7}] /\ (\A q \in Port \ {p} : op'[q] = op[q])
      /\ state' \in [Port -> 0 .. 3] /\ (\A q \in Port \ {p} : state'[q] = state[q])
      /\ current' \in [Port -> Nat] /\ (\A q \in Port \ {p} : current'[q] = current[q])
      /\ job' \in [Port -> Jobs] /\ (\A q \in Port \ {p} : job'[q] = job[q])
      /\ status' \subseteq Reasons /\ answer' = answer
  BY PortTypes
<1>7. "info" \in Commands /\ HeadSector \in Nat /\ 0 \in Nat
  BY DEF Commands, HeadSector
<1> QED BY <1>4, <1>5, <1>6, <1>7, IssueKeeps

-----------------------------------------------------------------------------
(* The table of contents.                                                    *)

\* The place a table of contents has come to.
LEMMA ListServed ==
  ASSUME CardsInv, NEW p \in Port, Serving(p), op[p] = 4
  PROVE  \E n \in Nat :
           /\ asked'[p] = <<"toc">> /\ TocAt(p, n)
           /\ moved'[p] = TocPieces(n + 1)
<1>1. Listing(p)
  BY DEF CardsInv, PortInv
<1>2. PICK n \in Nat : moved[p] = TocPieces(n) /\ Asked(p, "read", TocPiece(n)) /\ TocAt(p, n)
  BY <1>1 DEF Listing, Asking, Serving
<1>3. moved'[p] = Append(TocPieces(n), TocPiece(n))
  BY <1>2, PortTypes DEF Serving, Asked
<1>4. moved'[p] = TocPieces(n + 1)
  BY <1>3, OneMoreTocPiece
<1> QED BY <1>1, <1>2, <1>4 DEF Listing, Serving

\* The unit goes on to sector n.
LEMMA FetchKeeps ==
  ASSUME CardsInv, NEW p \in Port, Serving(p), op[p] = 4, NEW n \in Nat, Fetch(p, n),
         asked'[p] = <<"toc">>, moved'[p] = TocPieces(n), TocAt(p, n)',
         state' \in [Port -> 0 .. 3], \A q \in Port \ {p} : state'[q] = state[q],
         current' \in [Port -> Nat], \A q \in Port \ {p} : current'[q] = current[q]
  PROVE  CardsInv'
<1>1. /\ Issue(p, "read", n, 0) /\ op' = op /\ job' = job /\ answer' = answer
      /\ status' = status \union {"done"}
  BY DEF Fetch
<1>2. flags'[p] = "read" /\ request'[p] = TocPiece(n)
  BY <1>1, PortTypes DEF Issue, TocPiece
<1>3. Asked(p, "read", TocPiece(n))'
  BY <1>2 DEF Asked, TocPiece
<1>4. Listing(p)'
  BY <1>3 DEF Listing, TocPieces, TocPiece
<1>5. /\ op' \in [Port -> {0, 1, 2, 3, 4, 7}] /\ op'[p] = 4 /\ (\A q \in Port \ {p} : op'[q] = op[q])
      /\ job' \in [Port -> Jobs] /\ (\A q \in Port \ {p} : job'[q] = job[q])
  BY <1>1, PortTypes
<1>6. status' \subseteq Reasons
  BY <1>1, PortTypes DEF Reasons
<1>7. "read" \in Commands /\ 0 \in Nat
  BY DEF Commands
<1> QED BY <1>1, <1>4, <1>5, <1>6, <1>7, IssueKeeps

\* The card is not formatted.
LEMMA FailedKeeps ==
  ASSUME CardsInv, NEW p \in Port, Serving(p), op[p] \notin {0, 1}, Failed(p)
  PROVE  CardsInv'
<1>1. Finish(p, "failed") /\ Release(p) /\ status' = (status \ {"done"}) \union {"failed"}
  BY DEF Failed
<1>2. "failed" \in Reasons /\ status' \subseteq Reasons
  BY <1>1, PortTypes DEF Reasons
<1>3. Typed' /\ Bus' /\ \A q \in Port \ {p} : PortInv(q)'
  BY <1>1, <1>2, ReleaseTypes
<1>4. /\ flags' = [flags EXCEPT ![p] = "free"] /\ op' = [op EXCEPT ![p] = 0]
      /\ answer' = [answer EXCEPT ![p] = "failed"] /\ main' = main
  BY <1>1 DEF Release, Finish, Serving
<1>5. Free(p)' /\ op'[p] = 0 /\ answer'[p] = "failed"
  BY <1>4, PortTypes DEF Free
<1>6. ~Mine(p) /\ ~(main # None /\ main.blocking)
  BY NotBlocking DEF Serving
<1>7. PortInv(p)'
  BY <1>4, <1>5, <1>6 DEF PortInv, Mine
<1>8. Blocking'
  BY <1>4, <1>6 DEF Blocking
<1> QED BY <1>3, <1>7, <1>8 DEF CardsInv

\* Case 4: the header, the directory, the list of broken sectors.
LEMMA TocKeeps ==
  ASSUME CardsInv, NEW p \in Port, Serving(p), op[p] = 4,
         LoadHeader(p) \/ LoadDirectory(p) \/ LoadBroken(p)
  PROVE  CardsInv'
<1>1. PICK n \in Nat : asked'[p] = <<"toc">> /\ TocAt(p, n) /\ moved'[p] = TocPieces(n + 1)
  BY ListServed
<1>2. n + 1 \in Nat
  OBVIOUS
<1>3. CASE LoadHeader(p)
  <2>1. CASE Failed(p)
    BY <2>1, FailedKeeps
  <2>2. CASE Fetch(p, DirSector(1)) /\ current' = [current EXCEPT ![p] = 0] /\ state' = [state EXCEPT ![p] = 2]
    <3>1. n = 0
      BY <1>1, <1>3 DEF LoadHeader, TocAt
    <3>2. DirSector(1) = n + 1
      BY <3>1 DEF DirSector, HeadSector
    <3>3. /\ state' \in [Port -> 0 .. 3] /\ (\A q \in Port \ {p} : state'[q] = state[q])
          /\ current' \in [Port -> Nat] /\ (\A q \in Port \ {p} : current'[q] = current[q])
          /\ state'[p] = 2 /\ current'[p] = 0
      BY <2>2, PortTypes
    <3>4. TocAt(p, n + 1)'
      BY <3>1, <3>3, Constants DEF TocAt
    <3> QED BY <1>1, <1>2, <2>2, <3>2, <3>3, <3>4, FetchKeeps
  <2> QED BY <1>3, <2>1, <2>2 DEF LoadHeader
<1>4. CASE LoadDirectory(p)
  <2>1. n \in 1 .. Entries /\ current[p] = n - 1 /\ state[p] = 2
    BY <1>1, <1>4 DEF LoadDirectory, TocAt
  <2>2. CASE current[p] + 1 < Entries
    <3>1. Fetch(p, DirSector(current[p] + 2)) /\ current' = [current EXCEPT ![p] = @ + 1] /\ state' = state
      BY <1>4, <2>2 DEF LoadDirectory
    <3>2. DirSector(current[p] + 2) = n + 1
      BY <2>1 DEF DirSector, HeadSector
    <3>3. /\ state' \in [Port -> 0 .. 3] /\ (\A q \in Port \ {p} : state'[q] = state[q])
          /\ current' \in [Port -> Nat] /\ (\A q \in Port \ {p} : current'[q] = current[q])
          /\ state'[p] = 2 /\ current'[p] = n
      BY <2>1, <3>1, PortTypes
    <3>4. TocAt(p, n + 1)'
      BY <2>1, <2>2, <3>3, Constants DEF TocAt
    <3> QED BY <1>1, <1>2, <3>1, <3>2, <3>3, <3>4, FetchKeeps
  <2>3. CASE ~(current[p] + 1 < Entries)
    <3>1. Fetch(p, BrokenSector(1)) /\ current' = [current EXCEPT ![p] = 0] /\ state' = [state EXCEPT ![p] = 3]
      BY <1>4, <2>3 DEF LoadDirectory
    <3>2. n = Entries
      BY <2>1, <2>3, Constants
    <3>3. BrokenSector(1) = n + 1
      BY <3>2 DEF BrokenSector
    <3>4. /\ state' \in [Port -> 0 .. 3] /\ (\A q \in Port \ {p} : state'[q] = state[q])
          /\ current' \in [Port -> Nat] /\ (\A q \in Port \ {p} : current'[q] = current[q])
          /\ state'[p] = 3 /\ current'[p] = 0
      BY <3>1, PortTypes
    <3>5. TocAt(p, n + 1)'
      BY <3>2, <3>4, Constants DEF TocAt
    <3> QED BY <1>1, <1>2, <3>1, <3>3, <3>4, <3>5, FetchKeeps
  <2> QED BY <2>2, <2>3
<1>5. CASE LoadBroken(p)
  <2>1. n - Entries \in 1 .. Brokens /\ current[p] = n - Entries - 1 /\ state[p] = 3
    BY <1>1, <1>5 DEF LoadBroken, TocAt
  <2>2. CASE current[p] + 1 < Brokens
    <3>1. Fetch(p, BrokenSector(current[p] + 2)) /\ current' = [current EXCEPT ![p] = @ + 1] /\ state' = state
      BY <1>5, <2>2 DEF LoadBroken
    <3>2. BrokenSector(current[p] + 2) = n + 1
      <4>1. current[p] \in Nat /\ Entries \in Nat /\ n \in Nat /\ current[p] = n - Entries - 1
        BY <2>1, PortTypes, Constants
      <4>2. Entries + (current[p] + 2) = n + 1
        BY <4>1
      <4> QED BY <4>2 DEF BrokenSector
    <3>3. /\ state' \in [Port -> 0 .. 3] /\ (\A q \in Port \ {p} : state'[q] = state[q])
          /\ current' \in [Port -> Nat] /\ (\A q \in Port \ {p} : current'[q] = current[q])
          /\ state'[p] = 3 /\ current'[p] = n - Entries
      BY <2>1, <3>1, PortTypes, Constants
    <3>4. TocAt(p, n + 1)'
      BY <2>1, <2>2, <3>3, Constants DEF TocAt
    <3> QED BY <1>1, <1>2, <3>1, <3>2, <3>3, <3>4, FetchKeeps
  <2>3. CASE ~(current[p] + 1 < Brokens)
    <3>1. Succeeded(p)
      BY <1>5, <2>3 DEF LoadBroken
    <3>2. n + 1 = 1 + Entries + Brokens
      BY <2>1, <2>3, Constants
    <3>3. Delivered(p)'
      BY <1>1, <3>2 DEF Delivered, TocPieces, TocPiece
    <3>4. status' = status \union {"done"} /\ Release(p) /\ Finish(p, "done")
      BY <3>1 DEF Succeeded
    <3> QED BY <3>3, <3>4, FinishedKeeps
  <2> QED BY <2>2, <2>3
<1> QED BY <1>3, <1>4, <1>5

\* What buLowLevelOpCompleted makes of a command.
LEMMA CompletedKeeps ==
  ASSUME Careful, CardsInv, NEW p \in Port, Serving(p), Completed(p)
  PROVE  CardsInv'
<1> DEFINE last == job[p].count = 1
<1>1. CASE op[p] = 0 /\ status' = status \union {"done"} /\ Release(p) /\ UNCHANGED <<unit, answer>>
  BY <1>1, BlockingSector
<1>2. CASE (op[p] \in {1, 7} \/ (op[p] = 2 /\ last)) /\ Succeeded(p)
  BY <1>2, SucceededKeeps
<1>3. CASE op[p] = 2 /\ ~last /\ NextSector(p, "read")
  BY <1>3, NextSectorKeeps
<1>4. CASE op[p] = 3 /\ ~last /\ NextSector(p, "write")
  BY <1>4, NextSectorKeeps
<1>5. CASE /\ op[p] = 3 /\ last
           /\ Issue(p, "info", HeadSector, 0)
           /\ op' = [op EXCEPT ![p] = 7]
           /\ status' = status \ {"done"}
           /\ UNCHANGED <<state, current, job, answer>>
  BY <1>5, LastWriteKeeps
<1>6. CASE op[p] = 4 /\ (LoadHeader(p) \/ LoadDirectory(p) \/ LoadBroken(p))
  BY <1>6, TocKeeps
<1> QED BY <1>1, <1>2, <1>3, <1>4, <1>5, <1>6 DEF Completed

-----------------------------------------------------------------------------
(* The driver.                                                               *)

\* Steps of the bus that change no command.
LEMMA BusKeeps ==
  ASSUME CardsInv, UNCHANGED <<flags, request, unit, status, main, ghosts>>,
         operation' \in 0 .. 4, flipping' \in Port,
         inProgress' \in BOOLEAN, listening' \in BOOLEAN, synced' \in BOOLEAN, Bus'
  PROVE  CardsInv'
<1>1. /\ flags' = flags /\ request' = request /\ op' = op /\ state' = state /\ current' = current /\ job' = job
      /\ asked' = asked /\ moved' = moved /\ answer' = answer /\ status' = status /\ main' = main
  BY DEF unit, ghosts
<1>2. Typed'
  <2>1. TypeOK /\ Typed
    BY DEF CardsInv, Typed
  <2>2. {inProgress', listening', synced'} \subseteq BOOLEAN
    BY Zenon
  <2>3. TypeOK'
    BY <1>1, <2>1, <2>2, Zenon DEF TypeOK
  <2> QED BY <1>1, <2>1, <2>3, Zenon DEF Typed
<1>3. ASSUME NEW q \in Port PROVE PortInv(q)'
  <2>1. Local(q)' = Local(q)
    BY <1>1 DEF Local
  <2> QED BY <1>1, <2>1, Elsewhere DEF CardsInv
<1>4. Blocking'
  <2> SUFFICES ASSUME main # None, main.blocking PROVE Blocking'
    BY <1>1 DEF Blocking
  <2>1. PICK t \in BlockTransfers :
          /\ main.call \in {"read", "write"} \X {t}
          /\ Alone(main.port) /\ Stage(main.port, t, main.slot)
          /\ Doing(main.port, t, main.slot) \/ Over(main.port, t, main.slot)
    BY DEF CardsInv, Blocking
  <2>2. Alone(main.port)' /\ Stage(main.port, t, main.slot)'
    BY <1>1, <2>1 DEF Alone, Stage, Free
  <2>3. Doing(main.port, t, main.slot) => Doing(main.port, t, main.slot)'
    BY <1>1 DEF Doing, Free, Pieces, Piece
  <2>4. Over(main.port, t, main.slot) => Over(main.port, t, main.slot)'
    BY <1>1 DEF Over, Free, Pieces, Piece
  <2> QED BY <1>1, <2>1, <2>2, <2>3, <2>4 DEF Blocking
<1> QED BY <1>2, <1>3, <1>4 DEF CardsInv

\* The types of the bus.
LEMMA BusTypes ==
  ASSUME CardsInv
  PROVE  /\ operation \in 0 .. 4 /\ flipping \in Port
         /\ inProgress \in BOOLEAN /\ listening \in BOOLEAN /\ synced \in BOOLEAN
         /\ \A p \in Port : Other(p) \in Port
<1>1. operation \in 0 .. 4 /\ flipping \in Port
  BY DEF CardsInv, Typed, TypeOK
<1>2. {inProgress, listening, synced} \subseteq BOOLEAN
  BY DEF CardsInv, Typed, TypeOK
<1>3. inProgress \in BOOLEAN /\ listening \in BOOLEAN /\ synced \in BOOLEAN
  BY <1>2, Zenon
<1>4. ASSUME NEW p \in Port PROVE Other(p) \in Port
  BY TwoPorts DEF Other
<1> QED BY <1>1, <1>3, <1>4

\* The vertical blank.
LEMMA VBlankKeeps ==
  ASSUME CardsInv, VBlank
  PROVE  CardsInv'
<1>1. CASE inProgress
  <2>1. Abort(flipping) /\ main' = main
    BY <1>1 DEF VBlank
  <2>2. ~Free(flipping) /\ flipping \in Port
    BY <1>1, BusTypes DEF CardsInv, Bus
  <2>3. /\ Failure(flipping) /\ UNCHANGED <<main, asked, flipping>> /\ synced' = synced
        /\ inProgress' = FALSE /\ listening' = FALSE
    BY <2>1 DEF Abort, Idle
  <2>4. synced' \in BOOLEAN
    BY <2>3, BusTypes, Zenon
  <2> QED BY <2>2, <2>3, <2>4, FailureKeeps
<1>2. CASE ~inProgress
  <2> DEFINE p == Other(flipping)
  <2>1. Turn(p) /\ main' = main
    BY <1>2 DEF VBlank
  <2>2. p \in Port
    BY BusTypes
  <2> HIDE DEF p
  <2>3. UNCHANGED <<flags, request, unit, status, main, ghosts>> /\ flipping' = p
    BY <2>1 DEF Turn
  <2>4. CASE Free(p)
    <3>1. UNCHANGED <<operation, inProgress, listening, synced>>
      BY <2>1, <2>4, Zenon DEF Turn
    <3>2. Bus'
      BY <1>2, <3>1 DEF CardsInv, Bus
    <3>3. operation' \in 0 .. 4 /\ inProgress' \in BOOLEAN /\ listening' \in BOOLEAN /\ synced' \in BOOLEAN
      BY <3>1, BusTypes, Zenon
    <3> QED BY <2>2, <2>3, <3>2, <3>3, BusKeeps
  <2>5. CASE ~Free(p)
    <3>1. operation' = 1 /\ inProgress' = TRUE /\ listening' = TRUE /\ synced' = TRUE
      BY <2>1, <2>5, Zenon DEF Turn
    <3>2. Bus'
      BY <2>3, <2>5, <3>1 DEF Bus, Free
    <3>3. operation' \in 0 .. 4 /\ inProgress' \in BOOLEAN /\ listening' \in BOOLEAN /\ synced' \in BOOLEAN
      BY <3>1
    <3> QED BY <2>2, <2>3, <3>2, <3>3, BusKeeps
  <2> QED BY <2>4, <2>5
<1> QED BY <1>1, <1>2

\* The controller's interrupt.
LEMMA InterruptKeeps ==
  ASSUME Careful, CardsInv, Interrupt
  PROVE  CardsInv'
<1>1. listening /\ UNCHANGED <<main, flipping, synced, asked>>
  BY DEF Interrupt
<1>2. ~Free(flipping) /\ flipping \in Port
  BY <1>1, BusTypes DEF CardsInv, Bus
<1>3. CASE Advance /\ operation <= 3
  <2>1. /\ operation' = operation + 1 /\ inProgress' = TRUE
        /\ UNCHANGED <<flags, request, listening, unit, status, moved, answer>>
    BY <1>3 DEF Advance
  <2>2. operation' \in 0 .. 4
    BY <1>3, <2>1, BusTypes
  <2>3. inProgress' \in BOOLEAN /\ listening' \in BOOLEAN /\ synced' \in BOOLEAN
    BY <1>1, <2>1, BusTypes, Zenon
  <2>4. Bus'
    BY <1>1, <1>2, <2>1 DEF CardsInv, Bus, Free
  <2>5. UNCHANGED <<flags, request, unit, status, main, ghosts>>
    BY <1>1, <2>1 DEF ghosts
  <2> QED BY <1>1, <1>2, <2>2, <2>3, <2>4, <2>5, BusKeeps
<1>4. CASE Fails(flipping)
  <2>1. Failure(flipping) /\ inProgress' = FALSE /\ listening' = FALSE
    BY <1>4 DEF Fails, Idle
  <2>2. synced' \in BOOLEAN
    BY <1>1, BusTypes, Zenon
  <2> QED BY <1>1, <1>2, <2>1, <2>2, FailureKeeps
<1>5. CASE Succeeds(flipping)
  <2>1. Serving(flipping) /\ Completed(flipping)
    BY <1>1, <1>2, <1>5 DEF Succeeds, Serving, Idle
  <2> QED BY <1>2, <2>1, CompletedKeeps
<1>6. (Advance /\ operation <= 3) \/ Fails(flipping) \/ Succeeds(flipping)
  <2>1. CASE operation <= 1 /\ Advance
    BY <2>1, BusTypes
  <2>2. CASE Flag
    BY <2>2 DEF Flag
  <2>3. CASE Middle
    BY <2>3 DEF Middle
  <2>4. CASE Conclude
    BY <2>4 DEF Conclude
  <2> QED BY <2>1, <2>2, <2>3, <2>4 DEF Interrupt
<1> QED BY <1>3, <1>4, <1>5, <1>6

-----------------------------------------------------------------------------
(* The main thread.                                                          *)

\* A step of the main thread is about the port of its call.
LEMMA MainKeeps ==
  ASSUME CardsInv, NEW p \in Port, ~Mine(p) => main = None, main' = None \/ main'.port = p,
         \A q \in Port \ {p} : Local(q)' = Local(q),
         Typed', Bus', PortInv(p)', Blocking'
  PROVE  CardsInv'
<1>1. ASSUME NEW q \in Port \ {p} PROVE PortInv(q)'
  <2>1. ~Mine(q) /\ ~Mine(q)'
    BY DEF Mine
  <2>2. PortInv(q) /\ Local(q)' = Local(q)
    BY DEF CardsInv
  <2> QED BY <2>1, <2>2, Elsewhere
<1> QED BY <1>1 DEF CardsInv

\* The types of a call of the main thread.
LEMMA MainTypes ==
  ASSUME CardsInv, main # None
  PROVE  /\ main \in MainCalls /\ main.port \in Port /\ main.kind \in Commands
         /\ main.sector \in Nat /\ main.slot \in Nat /\ main.left \in Nat /\ main.next \in Nat /\ main.more \in Nat
         /\ main.at \in {"claim", "arm", "wait"} /\ main.blocking \in BOOLEAN
         /\ PortInv(main.port) /\ Mine(main.port)
<1>1. main \in MainCalls
  BY DEF CardsInv, Typed
<1>2. /\ main.port \in Port /\ main.kind \in Commands
      /\ main.sector \in Nat /\ main.slot \in Nat /\ main.left \in Nat /\ main.next \in Nat /\ main.more \in Nat
      /\ main.at \in {"claim", "arm", "wait"} /\ main.blocking \in BOOLEAN
  BY <1>1 DEF MainCalls
<1> QED BY <1>1, <1>2 DEF CardsInv, Mine

\* A call stays one while it goes on.
LEMMA CallsAreCalls ==
  ASSUME NEW c \in MainCalls
  PROVE  /\ c # None
         /\ \A at \in {"claim", "arm", "wait"} : [c EXCEPT !.at = at] \in MainCalls
  BY DEF MainCalls, None

\* A call fills in its request: the driver refuses no call of a careful program.
LEMMA ClaimKeeps ==
  ASSUME CardsInv, Claim
  PROVE  CardsInv'
<1> DEFINE r == [sector |-> IF main.blocking THEN Actual(main.sector) ELSE main.sector, slot |-> main.slot]
<1>1. main # None /\ main.at = "claim"
  BY DEF Claim
<1>0. PICK p \in Port : p = main.port
  BY <1>1, MainTypes
<1>2. /\ main \in MainCalls /\ main.port = p /\ main.sector \in Nat /\ main.slot \in Nat
      /\ main.blocking \in BOOLEAN /\ PortInv(p) /\ Mine(p)
  BY <1>0, <1>1, MainTypes
<1>3. Free(p) /\ main.sector >= 0
  BY <1>1, <1>2 DEF PortInv
<1>4. /\ operation' = 0 /\ synced' = (synced /\ ~inProgress)
      /\ request' = [request EXCEPT ![p] = r] /\ main' = [main EXCEPT !.at = "arm"]
      /\ UNCHANGED <<op, answer, flags, inProgress, flipping, listening, asked, moved, state, current, job, status>>
  <2>1. r.sector >= 0
    BY <1>2, ActualOnCard
  <2> QED BY <1>1, <1>2, <1>3, <2>1 DEF Claim
<1>5. r \in Requests
  BY <1>2, ActualOnCard DEF Requests
<1>6. main' \in MainCalls /\ main' # None
  BY <1>2, <1>4, CallsAreCalls
<1>7. /\ main'.at = "arm" /\ main'.port = p /\ main'.kind = main.kind /\ main'.sector = main.sector
      /\ main'.slot = main.slot /\ main'.call = main.call /\ main'.blocking = main.blocking
      /\ main'.left = main.left /\ main'.next = main.next /\ main'.more = main.more
  BY <1>2, <1>4 DEF MainCalls
<1>8. request'[p] = r /\ Mine(p)'
  BY <1>2, <1>4, <1>6, <1>7, PortTypes DEF Mine
<1> HIDE DEF r
<1>9. Typed'
  <2>1. request' \in [Port -> Requests]
    BY <1>2, <1>4, <1>5, PortTypes
  <2>2. operation' \in 0 .. 4
    BY <1>4
  <2>3. inProgress' \in BOOLEAN /\ listening' \in BOOLEAN /\ synced' \in BOOLEAN
    BY <1>4, BusTypes, Zenon
  <2>4. /\ flags' \in [Port -> Commands \union {"free"}]
        /\ op' \in [Port -> {0, 1, 2, 3, 4, 7}] /\ state' \in [Port -> 0 .. 3] /\ current' \in [Port -> Nat]
        /\ job' \in [Port -> Jobs] /\ asked' \in [Port -> Calls] /\ moved' \in [Port -> Seq(Requests)]
        /\ answer' \in [Port -> Reasons \union {"none", "busy"}]
        /\ status' \subseteq Reasons /\ flipping' \in Port
    BY <1>2, <1>4, PortTypes
  <2> QED BY <1>6, <2>1, <2>2, <2>3, <2>4, TypedNext
<1>10. Bus'
  BY <1>4 DEF CardsInv, Bus, Free
<1>11. ASSUME NEW q \in Port \ {p} PROVE Local(q)' = Local(q)
  BY <1>2, <1>4, PortTypes DEF Local
<1>12. PortInv(p)'
  <2>1. Free(p)' /\ op'[p] = op[p] /\ answer'[p] = answer[p] /\ flags'[p] = "free" /\ flags[p] = "free"
    BY <1>3, <1>4 DEF Free
  <2>2. Informing(p) => Informing(p)'
    BY <1>4, <1>7, <1>8, <2>1 DEF Informing
  <2>3. ASSUME NEW command \in Commands, NEW x \in Requests, Asking(p, command, x) PROVE Asking(p, command, x)'
    <3>1. main.sector = x.sector /\ main.slot = x.slot /\ ~main.blocking /\ main.kind = command
      BY <1>1, <2>3 DEF Asking
    <3>2. r = x
      BY <3>1 DEF r, Requests
    <3> QED BY <1>7, <1>8, <2>1, <3>1, <3>2 DEF Asking
  <2>4. Streaming(p) => Streaming(p)'
    <3> SUFFICES ASSUME Streaming(p) PROVE Streaming(p)'
      OBVIOUS
    <3>1. PICK t \in Transfers, k \in Nat, command \in {"read", "write"} :
            /\ k < t[2] /\ asked[p] = <<command, t>> /\ op[p] = IF command = "read" THEN 2 ELSE 3
            /\ job[p] = [start |-> t[1] + k, count |-> t[2] - k, slot |-> k]
            /\ moved[p] = Pieces(t, k)
            /\ Asking(p, command, Piece(t, k)) /\ k = 0 /\ main.call = "unit"
      BY <2>1 DEF Streaming, Asked
    <3>2. /\ main.sector = Piece(t, k).sector /\ main.slot = Piece(t, k).slot
      BY <1>1, <3>1 DEF Asking
    <3>3. Piece(t, k) \in Requests
      BY <1>2, <3>2 DEF Piece, Requests
    <3>4. command \in Commands
      BY DEF Commands
    <3>5. Asking(p, command, Piece(t, k))'
      BY <2>3, <3>1, <3>3, <3>4 DEF Piece
    <3> QED BY <1>4, <1>7, <2>1, <3>1, <3>5 DEF Streaming, Pieces, Piece
  <2>5. Listing(p) => Listing(p)'
    <3> SUFFICES ASSUME Listing(p) PROVE Listing(p)'
      OBVIOUS
    <3>1. PICK n \in Nat :
            /\ moved[p] = TocPieces(n)
            /\ Asking(p, "read", TocPiece(n)) /\ n = 0 /\ main.call = "toc"
      BY <2>1 DEF Listing, Asked
    <3>2. TocPiece(n) \in Requests /\ "read" \in Commands
      BY DEF TocPiece, Requests, Commands
    <3>3. Asking(p, "read", TocPiece(n))'
      BY <2>3, <3>1, <3>2 DEF TocPiece
    <3> QED BY <1>4, <1>7, <3>1, <3>3 DEF Listing, TocPieces, TocPiece
  <2>6. ~Checking(p)
    BY <2>1 DEF Checking
  <2>7. Delivered(p) => Delivered(p)'
    BY <1>4 DEF Delivered, Pieces, Piece, TocPieces, TocPiece
  <2>8. Mine(p) /\ main.at # "wait" /\ main'.at # "wait"
    BY <1>1, <1>2, <1>7
  <2> QED BY <1>2, <1>7, <1>8, <2>1, <2>2, <2>4, <2>5, <2>6, <2>7, <2>8 DEF PortInv
<1>13. Blocking'
  <2> SUFFICES ASSUME main.blocking PROVE Blocking'
    BY <1>7 DEF Blocking
  <2>1. PICK t \in BlockTransfers :
          /\ main.call \in {"read", "write"} \X {t}
          /\ Alone(p) /\ Stage(p, t, main.slot) /\ Doing(p, t, main.slot)
    BY <1>1, <1>2 DEF CardsInv, Blocking, Over
  <2>2. Alone(p)' /\ Stage(p, t, main.slot)'
    BY <1>4, <1>7, <2>1 DEF Alone, Stage, Free, Absolute
  <2>3. main.kind # "info" => r = Piece(t, main.slot)
    BY <2>1 DEF Stage, r, Piece, FileSector
  <2>4. Doing(p, t, main.slot)'
    BY <1>3, <1>4, <1>7, <1>8, <2>1, <2>3 DEF Doing, Free, Pieces, Piece
  <2> QED BY <1>7, <2>1, <2>2, <2>4 DEF Blocking
<1> QED BY <1>2, <1>7, <1>9, <1>10, <1>11, <1>12, <1>13, MainKeeps

\* A call sets the flags.
LEMMA ArmKeeps ==
  ASSUME CardsInv, Arm
  PROVE  CardsInv'
<1>1. /\ main # None /\ main.at = "arm"
      /\ UNCHANGED <<request, operation, inProgress, flipping, listening, synced, op, current, job, status, asked, moved, answer>>
  BY DEF Arm, ghosts
<1>2. PICK p \in Port : p = main.port
  BY <1>1, MainTypes
<1>3. /\ main \in MainCalls /\ main.port = p /\ main.kind \in Commands
      /\ main.blocking \in BOOLEAN /\ PortInv(p) /\ Mine(p)
  BY <1>1, <1>2, MainTypes
<1>4. Free(p) /\ flags[p] = "free" /\ main.kind # "free"
  BY <1>1, <1>3 DEF PortInv, Free, Commands
<1>5. /\ flags' = [flags EXCEPT ![p] = main.kind]
      /\ state' = IF ~main.blocking /\ main.call = "toc" THEN [state EXCEPT ![p] = 1] ELSE state
      /\ main' = IF main.blocking THEN [main EXCEPT !.at = "wait"] ELSE None
  BY <1>3 DEF Arm
<1>6. flags'[p] = main.kind /\ \A q \in Port \ {p} : flags'[q] = flags[q] /\ state'[q] = state[q]
  BY <1>5, PortTypes
<1>7. ~Free(p)' /\ \A q \in Port \ {p} : Free(q)' = Free(q)
  BY <1>4, <1>6 DEF Free
<1>8. Typed'
  <2>1. flags' \in [Port -> Commands \union {"free"}] /\ state' \in [Port -> 0 .. 3]
    BY <1>3, <1>5, PortTypes
  <2>2. main' = None \/ main' \in MainCalls
    <3>1. CASE main.blocking
      BY <1>3, <1>5, <3>1, CallsAreCalls
    <3>2. CASE ~main.blocking
      BY <1>5, <3>2
    <3> QED BY <3>1, <3>2
  <2>3. operation' \in 0 .. 4 /\ inProgress' \in BOOLEAN /\ listening' \in BOOLEAN /\ synced' \in BOOLEAN
    BY <1>1, BusTypes, Zenon
  <2>4. /\ request' \in [Port -> Requests] /\ op' \in [Port -> {0, 1, 2, 3, 4, 7}] /\ current' \in [Port -> Nat]
        /\ job' \in [Port -> Jobs] /\ asked' \in [Port -> Calls] /\ moved' \in [Port -> Seq(Requests)]
        /\ answer' \in [Port -> Reasons \union {"none", "busy"}]
        /\ status' \subseteq Reasons /\ flipping' \in Port
    BY <1>1, PortTypes
  <2> QED BY <2>1, <2>2, <2>3, <2>4, TypedNext
<1>9. Bus'
  <2>1. listening' = listening /\ inProgress' = inProgress /\ flipping' = flipping
    BY <1>1
  <2>2. flipping \in Port /\ Bus
    BY BusTypes DEF CardsInv
  <2>3. ~Free(flipping) => ~Free(flipping)'
    BY <1>7, <2>1, <2>2 DEF Free
  <2> QED BY <2>1, <2>2, <2>3 DEF Bus
<1>10. ASSUME NEW q \in Port \ {p} PROVE Local(q)' = Local(q)
  BY <1>1, <1>6 DEF Local
<1>11. CASE ~main.blocking
  <2>1. main' = None /\ ~Mine(p)' /\ op'[p] = op[p] /\ op[p] # 0
    BY <1>1, <1>3, <1>5, <1>11 DEF Mine, PortInv
  <2>2. Informing(p) => Informing(p)'
    BY <1>1, <1>4, <1>6 DEF Informing
  <2>3. ASSUME NEW command, NEW x, Asking(p, command, x)
        PROVE  command = main.kind /\ request[p] = x
    BY <1>1, <2>3 DEF Asking
  <2>4. Streaming(p) => Streaming(p)'
    <3> SUFFICES ASSUME Streaming(p) PROVE Streaming(p)'
      OBVIOUS
    <3>1. PICK t \in Transfers, k \in Nat, command \in {"read", "write"} :
            /\ k < t[2] /\ asked[p] = <<command, t>> /\ op[p] = IF command = "read" THEN 2 ELSE 3
            /\ job[p] = [start |-> t[1] + k, count |-> t[2] - k, slot |-> k]
            /\ moved[p] = Pieces(t, k)
            /\ Asking(p, command, Piece(t, k)) /\ k = 0 /\ main.call = "unit"
      BY <1>4 DEF Streaming, Asked
    <3>2. command = main.kind /\ request[p] = Piece(t, k)
      BY <2>3, <3>1
    <3>3. Asked(p, command, Piece(t, k))'
      BY <1>1, <1>6, <3>2 DEF Asked, Piece
    <3> QED BY <1>1, <3>1, <3>3 DEF Streaming, Pieces, Piece
  <2>5. Listing(p) => Listing(p)'
    <3> SUFFICES ASSUME Listing(p) PROVE Listing(p)'
      OBVIOUS
    <3>1. PICK n \in Nat :
            /\ moved[p] = TocPieces(n)
            /\ Asking(p, "read", TocPiece(n)) /\ n = 0 /\ main.call = "toc"
      BY <1>4 DEF Listing, Asked
    <3>2. "read" = main.kind /\ request[p] = TocPiece(n)
      BY <2>3, <3>1
    <3>3. Asked(p, "read", TocPiece(n))'
      BY <1>1, <1>6, <3>2 DEF Asked, TocPiece
    <3>4. state'[p] = 1
      BY <1>5, <1>11, <3>1, PortTypes
    <3>5. TocAt(p, n)'
      BY <3>1, <3>4 DEF TocAt
    <3>6. asked[p] = <<"toc">> /\ asked' = asked /\ moved' = moved
      BY <1>1 DEF Listing
    <3> QED BY <3>1, <3>3, <3>5, <3>6 DEF Listing, TocPieces, TocPiece
  <2>6. ~Checking(p)
    BY <1>4 DEF Checking
  <2>7. Delivered(p) => Delivered(p)'
    BY <1>1 DEF Delivered, Pieces, Piece, TocPieces, TocPiece
  <2>8. PortInv(p)'
    BY <1>1, <1>3, <2>1, <2>2, <2>4, <2>5, <2>6, <2>7 DEF PortInv
  <2>9. Blocking'
    BY <2>1 DEF Blocking
  <2> QED BY <1>3, <1>8, <1>9, <1>10, <2>1, <2>8, <2>9, MainKeeps
<1>12. CASE main.blocking
  <2>1. main' = [main EXCEPT !.at = "wait"] /\ main' # None
    BY <1>3, <1>5, <1>12, CallsAreCalls
  <2>2. /\ main'.at = "wait" /\ main'.port = p /\ main'.kind = main.kind /\ main'.sector = main.sector
        /\ main'.slot = main.slot /\ main'.call = main.call /\ main'.blocking
        /\ main'.left = main.left /\ main'.next = main.next /\ main'.more = main.more
    BY <1>3, <1>12, <2>1 DEF MainCalls
  <2>3. PICK t \in BlockTransfers :
          /\ main.call \in {"read", "write"} \X {t}
          /\ Alone(p) /\ Stage(p, t, main.slot) /\ Doing(p, t, main.slot)
    BY <1>1, <1>3, <1>12 DEF CardsInv, Blocking, Over
  <2>4. Alone(p)' /\ Stage(p, t, main.slot)'
    BY <1>1, <1>7, <2>2, <2>3 DEF Alone, Stage, Absolute
  <2>5. /\ status = {} /\ moved[p] = Pieces(t, main.slot) /\ op[p] = IF main.kind = "info" THEN 1 ELSE 0
        /\ main.kind # "info" => request[p] = Piece(t, main.slot)
    BY <1>1, <2>3 DEF Doing
  <2>6. Doing(p, t, main.slot)'
    BY <1>1, <1>6, <2>2, <2>5 DEF Doing, Pieces, Piece
  <2>7. Blocking'
    BY <2>2, <2>3, <2>4, <2>6 DEF Blocking
  <2>8. Informing(p) => Informing(p)'
    BY <1>1, <1>4, <1>6 DEF Informing
  <2>9. Delivered(p) => Delivered(p)'
    BY <1>1 DEF Delivered, Pieces, Piece, TocPieces, TocPiece
  <2>10. op'[p] = op[p] /\ op[p] \in {0, 1} /\ answer'[p] = answer[p] /\ Mine(p)'
    BY <1>1, <2>1, <2>2, <2>5 DEF Mine
  <2>11. PortInv(p)'
    BY <1>3, <2>2, <2>8, <2>9, <2>10 DEF PortInv
  <2> QED BY <1>3, <1>8, <1>9, <1>10, <2>2, <2>7, <2>11, MainKeeps
<1> QED BY <1>3, <1>11, <1>12

\* A loop of a blocking call: what it moves is in one block.
LEMMA StretchIsStage ==
  ASSUME Careful, NEW t \in BlockTransfers, NEW kind \in {"read", "write"}, NEW c \in MainCalls,
         c.call = <<kind, t>>, c.slot < t[2],
         \/ ((t[1] + c.slot) % BlockSectors) = 0
         \/ ((t[1] + c.slot) % BlockSectors) + (t[2] - c.slot) <= BlockSectors,
         main' = Stretch(c, kind, t[1] + c.slot, t[2] - c.slot)
  PROVE  /\ main' \in MainCalls /\ main'.port = c.port /\ main'.call = c.call /\ main'.slot = c.slot
         /\ main'.at = "claim" /\ main'.blocking = TRUE /\ main'.kind = kind
         /\ Stage(c.port, t, c.slot)'
<1> DEFINE N == BlockSectors
           n == c.slot
           s == t[1] + n
           rest == t[2] - n
           limit == Limit(s)
           len == IF rest > limit THEN limit ELSE rest
           sector == Absolute(s)
<1>1. N \in Nat \ {0} /\ t[1] \in Nat /\ t[2] \in Nat /\ n \in Nat /\ s \in Nat /\ rest \in Nat \ {0}
  <2>1. N \in Nat \ {0} /\ n \in Nat
    BY Constants DEF MainCalls
  <2>2. t[1] \in Nat /\ t[2] \in Nat
    BY TransferTypes
  <2> QED BY <2>1, <2>2
<1>2. (s % N) \in 0 .. N - 1
  BY <1>1, Division
<1>3. sector \in Nat
  <2>1. s < Len(Chain) * BlockSectors
    BY <1>1, InsideFile
  <2> QED BY <1>1, <2>1, AbsoluteOnCard, Constants
<1>4. limit = IF (s % N) = 0 THEN N ELSE N - ((s % N) - N)
  BY <1>1, <1>2 DEF Limit
<1> HIDE DEF limit
<1>5. /\ len \in Nat \ {0} /\ (s % N) + len <= N /\ rest - len \in Nat
      /\ rest - len > 0 => len = N /\ (s % N) = 0
  <2>1. CASE (s % N) = 0
    BY <1>1, <1>4, <2>1
  <2>2. CASE (s % N) # 0
    <3> DEFINE m == s % N
    <3>1. m \in 1 .. N - 1 /\ limit = N - (m - N) /\ m + rest <= N
      BY <1>1, <1>2, <1>4, <2>2
    <3> HIDE DEF m, s, rest, N
    <3>2. rest <= limit
      BY <1>1, <3>1
    <3>3. len = rest
      BY <1>1, <3>1, <3>2
    <3> QED BY <1>1, <3>1, <3>3 DEF m
  <2> QED BY <2>1, <2>2
<1>6. rest - len > 0 => ((s + len) % N) = 0
  <2> SUFFICES ASSUME rest - len > 0 PROVE ((s + N) % N) = 0
    BY <1>5
  <2> DEFINE q == s \div N
  <2>1. q \in Nat /\ s = q * N + (s % N) /\ (s % N) = 0
    BY <1>1, <1>5, Division
  <2> HIDE DEF q
  <2>2. q + 1 \in Nat /\ N \in Nat \ {0} /\ 0 \in 0 .. N - 1
    BY <1>1, <2>1
  <2>3. ((q + 1) * N + 0) % N = 0
    BY <2>2, Quotient
  <2> HIDE DEF N, s
  <2>4. q * N \in Nat /\ (q + 1) * N = q * N + N
    BY <1>1, <2>1
  <2>5. s + N = (q + 1) * N + 0
    BY <1>1, <2>1, <2>4
  <2> QED BY <2>3, <2>5
<1>7. main' = [c EXCEPT !.at = "claim", !.blocking = TRUE, !.kind = kind, !.sector = sector,
                        !.left = len, !.next = s + len, !.more = rest - len]
  BY DEF Stretch, limit
<1> HIDE DEF len, sector
<1>8. s + len \in Nat /\ len \in Nat /\ rest - len \in Nat
  BY <1>1, <1>5
<1>9. /\ main'.port = c.port /\ main'.call = c.call /\ main'.slot = c.slot
      /\ main'.at = "claim" /\ main'.blocking = TRUE /\ main'.kind = kind
      /\ main'.sector = sector /\ main'.left = len /\ main'.next = s + len /\ main'.more = rest - len
  BY <1>7 DEF MainCalls
<1>10. main' \in MainCalls
  BY <1>3, <1>7, <1>8 DEF MainCalls, Commands
<1>11. Stage(c.port, t, c.slot)'
  <2>1. main'.kind = main'.call[1] /\ main'.left > 0
    BY <1>5, <1>9
  <2>2. main'.sector = Absolute(t[1] + c.slot)
    BY <1>9 DEF sector
  <2>3. ((t[1] + c.slot) % BlockSectors) + main'.left <= BlockSectors
    BY <1>5, <1>9
  <2>4. main'.next = t[1] + c.slot + main'.left /\ main'.more = t[2] - c.slot - main'.left
    BY <1>9
  <2>5. main'.more > 0 => (main'.next % BlockSectors) = 0
    BY <1>6, <1>9
  <2> QED BY <2>1, <2>2, <2>3, <2>4, <2>5 DEF Stage, Absolute
<1> QED BY <1>9, <1>10, <1>11

\* A blocking call whose command is answered by success: what it has moved.
LEMMA BlockDone ==
  ASSUME CardsInv, main # None, main.at = "wait", "done" \in status
  PROVE  /\ main.blocking /\ Free(main.port) /\ op[main.port] = 0
         /\ \E t \in BlockTransfers, n \in Nat :
              /\ main.call \in {<<"read", t>>, <<"write", t>>} /\ Alone(main.port) /\ Stage(main.port, t, main.slot)
              /\ moved[main.port] = Pieces(t, n)
              /\ n = IF main.kind = "info" THEN main.slot ELSE main.slot + 1
<1>1. main.blocking /\ main.slot \in Nat
  <2>1. PortInv(main.port) /\ Mine(main.port) /\ main.blocking \in BOOLEAN /\ main.slot \in Nat
    BY MainTypes
  <2> QED BY <2>1 DEF PortInv
<1>2. PICK t \in BlockTransfers :
        /\ main.call \in {"read", "write"} \X {t}
        /\ Alone(main.port) /\ Stage(main.port, t, main.slot)
        /\ Doing(main.port, t, main.slot) \/ Over(main.port, t, main.slot)
  BY <1>1 DEF CardsInv, Blocking
<1>3. Over(main.port, t, main.slot)
  BY <1>2 DEF Doing
<1>4. status = {"done"}
  BY <1>3 DEF Over
<1>5. Free(main.port) /\ op[main.port] = 0
      /\ moved[main.port] = Pieces(t, IF main.kind = "info" THEN main.slot ELSE main.slot + 1)
  BY <1>3, <1>4 DEF Over
<1>6. main.call \in {<<"read", t>>, <<"write", t>>}
  BY <1>2
<1>7. (IF main.kind = "info" THEN main.slot ELSE main.slot + 1) \in Nat
  BY <1>1
<1> QED BY <1>1, <1>2, <1>5, <1>6, <1>7

\* What a step of a call that waits leaves alone.
LEMMA WaitTypes ==
  ASSUME CardsInv, NEW p \in Port, Mine(p), UNCHANGED <<driver, state, current, job, moved>>, status' = {},
         op' \in [Port -> {0, 1, 2, 3, 4, 7}], asked' \in [Port -> Calls],
         answer' \in [Port -> Reasons \union {"none", "busy"}],
         \A q \in Port \ {p} : op'[q] = op[q] /\ asked'[q] = asked[q] /\ answer'[q] = answer[q],
         main' = None \/ (main' \in MainCalls /\ main'.port = p),
         PortInv(p)', Blocking'
  PROVE  CardsInv'
<1>1. /\ flags' = flags /\ request' = request /\ operation' = operation /\ inProgress' = inProgress
      /\ flipping' = flipping /\ listening' = listening /\ synced' = synced
  BY DEF driver
<1>2. Typed'
  <2>1. operation' \in 0 .. 4 /\ inProgress' \in BOOLEAN /\ listening' \in BOOLEAN /\ synced' \in BOOLEAN
    BY <1>1, BusTypes, Zenon
  <2>2. /\ flags' \in [Port -> Commands \union {"free"}] /\ request' \in [Port -> Requests]
        /\ state' \in [Port -> 0 .. 3] /\ current' \in [Port -> Nat] /\ job' \in [Port -> Jobs]
        /\ moved' \in [Port -> Seq(Requests)] /\ flipping' \in Port /\ status' \subseteq Reasons
    BY <1>1, PortTypes
  <2> QED BY <2>1, <2>2, TypedNext
<1>3. Bus'
  BY <1>1 DEF CardsInv, Bus, Free
<1>4. ASSUME NEW q \in Port \ {p} PROVE Local(q)' = Local(q)
  BY <1>1 DEF Local
<1> QED BY <1>2, <1>3, <1>4, MainKeeps

\* A blocking call goes on to the next sector, to the check of the card, to the next block, or returns.
LEMMA WaitKeeps ==
  ASSUME Careful, CardsInv, Wait
  PROVE  CardsInv'
<1>1. /\ main # None /\ main.at = "wait" /\ status # {} /\ status' = {}
      /\ UNCHANGED <<driver, state, current, job, moved>>
  BY DEF Wait
<1>2. PICK p \in Port : p = main.port
  BY <1>1, MainTypes
<1>3. /\ main \in MainCalls /\ main.port = p /\ PortInv(p) /\ Mine(p) /\ main.blocking
      /\ main.slot \in Nat /\ main.left \in Nat /\ main.next \in Nat /\ main.more \in Nat /\ main.sector \in Nat
  BY <1>1, <1>2, MainTypes DEF PortInv
<1>4. flags' = flags /\ request' = request
  BY <1>1 DEF driver
<1>5. CASE "done" \notin status
  <2>1. status = {"failed"}
    <3>1. status \subseteq {"done", "failed"} /\ status # {} /\ "done" \notin status
      BY <1>1, <1>3, <1>5, PortTypes DEF Reasons
    <3> QED BY <3>1
  <2>2. main' = None /\ UNCHANGED <<op, asked, answer>>
    BY <1>5 DEF Wait
  <2>3. op[p] = 0 /\ Free(p)
    BY <1>1, <1>3, <2>1 DEF CardsInv, Blocking, Doing, Over
  <2>4. ~Mine(p)' /\ op'[p] = 0 /\ Free(p)' /\ answer'[p] = answer[p]
    BY <1>4, <2>2, <2>3 DEF Mine, Free
  <2>5. Delivered(p) => Delivered(p)'
    BY <1>1, <2>2 DEF Delivered, Pieces, Piece, TocPieces, TocPiece
  <2>6. PortInv(p)' /\ Blocking'
    BY <1>3, <2>2, <2>3, <2>4, <2>5 DEF PortInv, Blocking
  <2> QED BY <1>1, <1>3, <2>2, <2>6, PortTypes, WaitTypes
<1>6. CASE "done" \in status
  <2>1. Free(p) /\ op[p] = 0
    BY <1>1, <1>3, <1>6, BlockDone
  <2>2. PICK t \in BlockTransfers, n \in Nat :
          /\ main.call \in {<<"read", t>>, <<"write", t>>} /\ Alone(p) /\ Stage(p, t, main.slot)
          /\ moved[p] = Pieces(t, n) /\ n = IF main.kind = "info" THEN main.slot ELSE main.slot + 1
    BY <1>1, <1>3, <1>6, BlockDone
  <2>3. Free(p)' /\ moved'[p] = Pieces(t, n) /\ answer[p] # "busy"
    BY <1>1, <1>3, <1>4, <2>1, <2>2 DEF Free, PortInv, Pieces, Piece
  <2>4. t[1] \in Nat /\ t[2] \in Nat
    BY TransferTypes
  <2>5. ASSUME main' \in MainCalls, main'.port = p, main'.call = main.call, main'.blocking, main'.at = "claim",
               UNCHANGED <<asked>>, \A q \in Port \ {p} : op'[q] = op[q] /\ answer'[q] = answer[q],
               op' \in [Port -> {0, 1, 2, 3, 4, 7}], answer' \in [Port -> Reasons \union {"none", "busy"}],
               main'.slot = n, op'[p] = IF main'.kind = "info" THEN 1 ELSE 0,
               answer'[p] = IF main'.kind = "info" THEN "busy" ELSE answer[p],
               Stage(p, t, n)'
        PROVE  CardsInv'
    <3>1. main' # None /\ Mine(p)'
      BY <2>5, CallsAreCalls DEF Mine
    <3>2. Alone(p)'
      BY <1>4, <2>2, <2>5 DEF Alone, Free
    <3>3. Doing(p, t, n)'
      BY <1>1, <2>3, <2>5 DEF Doing, Pieces, Piece
    <3>4. Blocking'
      <4>1. main'.call \in {"read", "write"} \X {t}
        BY <2>2, <2>5
      <4> QED BY <2>5, <3>1, <3>2, <3>3, <4>1 DEF Blocking
    <3>5. asked'[p] = <<"none">>
      BY <2>2, <2>5 DEF Alone
    <3>6. op'[p] = 1 => Informing(p)'
      BY <2>3, <2>5, <3>1, <3>5 DEF Informing
    <3>7. PortInv(p)'
      <4>1. op'[p] \in {0, 1} /\ (op'[p] # 0 <=> answer'[p] = "busy")
        BY <2>3, <2>5
      <4>2. Delivered(p)'
        BY <3>5 DEF Delivered
      <4> QED BY <2>3, <2>5, <3>1, <3>6, <4>1, <4>2 DEF PortInv
    <3>8. asked' \in [Port -> Calls] /\ \A q \in Port \ {p} : asked'[q] = asked[q]
      BY <2>5, PortTypes
    <3> QED BY <1>1, <1>3, <2>5, <3>4, <3>7, <3>8, WaitTypes
  <2>6. CASE SameStretch
    <3>1. /\ main.left > 1 /\ UNCHANGED <<op, asked, answer>>
          /\ main' = [main EXCEPT !.at = "claim", !.left = @ - 1, !.sector = @ + 1, !.slot = @ + 1]
      BY <2>6 DEF SameStretch
    <3>2. /\ main' \in MainCalls /\ main'.port = p /\ main'.call = main.call /\ main'.blocking /\ main'.at = "claim"
          /\ main'.kind = main.kind /\ main'.left = main.left - 1 /\ main'.sector = main.sector + 1
          /\ main'.slot = main.slot + 1 /\ main'.next = main.next /\ main'.more = main.more
      <4>1. main.left - 1 \in Nat /\ main.sector + 1 \in Nat /\ main.slot + 1 \in Nat
        BY <1>3, <3>1
      <4> QED BY <1>3, <3>1, <4>1 DEF MainCalls
    <3>3. /\ main.kind = main.call[1] /\ main.kind # "info" /\ n = main.slot + 1
          /\ main.sector = Absolute(t[1] + main.slot) /\ ((t[1] + main.slot) % BlockSectors) + main.left <= BlockSectors
          /\ main.next = t[1] + main.slot + main.left /\ main.more = t[2] - main.slot - main.left
          /\ main.more > 0 => (main.next % BlockSectors) = 0
      BY <2>2, <3>1 DEF Stage
    <3>4. /\ Absolute(t[1] + main.slot + 1) = Absolute(t[1] + main.slot) + 1
          /\ ((t[1] + main.slot + 1) % BlockSectors) = ((t[1] + main.slot) % BlockSectors) + 1
      <4> DEFINE s == t[1] + main.slot
      <4>1. s \in Nat /\ n < t[2] /\ s + 1 = t[1] + n
        BY <1>3, <2>4, <3>1, <3>3
      <4>2. s + 1 < Len(Chain) * BlockSectors
        BY <4>1, InsideFile
      <4>3. (s % BlockSectors) \in Nat
        <5>1. (s % BlockSectors) \in 0 .. BlockSectors - 1
          BY <4>1, Constants, Division
        <5> QED BY <5>1, Constants
      <4> HIDE DEF s
      <4>4. (s % BlockSectors) + main.left <= BlockSectors
        BY <3>3 DEF s
      <4>5. (s % BlockSectors) + 1 < BlockSectors
        <5> DEFINE m == s % BlockSectors
        <5>1. m \in Nat /\ BlockSectors \in Nat /\ main.left \in Nat /\ main.left > 1 /\ m + main.left <= BlockSectors
          BY <1>3, <3>1, <4>3, <4>4, Constants
        <5> HIDE DEF m
        <5>2. m + 1 < BlockSectors
          BY <5>1
        <5> QED BY <5>2 DEF m
      <4>6. Absolute(s + 1) = Absolute(s) + 1 /\ (s + 1) % BlockSectors = (s % BlockSectors) + 1
        BY <4>1, <4>2, <4>5, NextInBlock
      <4> QED BY <4>6 DEF s
    <3>5. t[1] + n = t[1] + main.slot + 1
      BY <1>3, <2>4, <3>3
    <3>6. Stage(p, t, n)'
      <4>1. main'.kind = main'.call[1] /\ main'.left > 0
        BY <1>3, <3>1, <3>2, <3>3
      <4>2. main'.sector = Absolute(t[1] + n)
        BY <3>2, <3>3, <3>4, <3>5
      <4>3. ((t[1] + n) % BlockSectors) + main'.left <= BlockSectors
        <5> DEFINE m == (t[1] + main.slot) % BlockSectors
        <5>1. m \in Nat
          <6>1. t[1] + main.slot \in Nat
            BY <1>3, <2>4
          <6>2. m \in 0 .. BlockSectors - 1
            BY <6>1, Constants, Division
          <6> QED BY <6>2, Constants
        <5>2. (t[1] + n) % BlockSectors = m + 1 /\ m + main.left <= BlockSectors
          BY <3>3, <3>4, <3>5
        <5> HIDE DEF m
        <5> QED BY <1>3, <3>2, <5>1, <5>2, Constants
      <4>4. main'.next = t[1] + n + main'.left /\ main'.more = t[2] - n - main'.left
        BY <1>3, <2>4, <3>2, <3>3
      <4>5. main'.more > 0 => (main'.next % BlockSectors) = 0
        BY <3>2, <3>3
      <4> QED BY <4>1, <4>2, <4>3, <4>4, <4>5 DEF Stage, Absolute
    <3>7. main'.slot = n /\ op'[p] = 0 /\ main'.kind # "info"
      BY <2>1, <3>1, <3>2, <3>3
    <3> QED BY <2>5, <3>1, <3>2, <3>6, <3>7, PortTypes
  <2>7. CASE AskCard
    <3>1. /\ main.left = 1 /\ main.kind = "write" /\ asked' = asked
          /\ main' = [main EXCEPT !.at = "claim", !.kind = "info", !.sector = HeadSector, !.slot = @ + 1, !.left = 0]
          /\ op' = [op EXCEPT ![p] = 1] /\ answer' = [answer EXCEPT ![p] = "busy"]
      BY <1>3, <2>7 DEF AskCard
    <3>2. /\ main' \in MainCalls /\ main'.port = p /\ main'.call = main.call /\ main'.blocking /\ main'.at = "claim"
          /\ main'.kind = "info" /\ main'.left = 0
          /\ main'.slot = main.slot + 1 /\ main'.next = main.next /\ main'.more = main.more
      <4>1. HeadSector \in Nat /\ main.slot + 1 \in Nat /\ "info" \in Commands
        BY <1>3 DEF HeadSector, Commands
      <4> QED BY <1>3, <3>1, <4>1 DEF MainCalls
    <3>3. /\ main.call[1] = "write" /\ n = main.slot + 1
          /\ main.next = t[1] + main.slot + main.left /\ main.more = t[2] - main.slot - main.left
          /\ main.more > 0 => (main.next % BlockSectors) = 0
      BY <2>2, <3>1 DEF Stage
    <3>4. Stage(p, t, n)'
      <4>1. main'.next = t[1] + n + main'.left /\ main'.more = t[2] - n - main'.left
        BY <1>3, <2>4, <3>1, <3>2, <3>3
      <4>2. main'.more > 0 => (main'.next % BlockSectors) = 0
        BY <3>2, <3>3
      <4> QED BY <3>2, <3>3, <4>1, <4>2 DEF Stage
    <3>5. op' \in [Port -> {0, 1, 2, 3, 4, 7}] /\ op'[p] = 1 /\ \A q \in Port \ {p} : op'[q] = op[q]
      BY <3>1, PortTypes
    <3>6. answer' \in [Port -> Reasons \union {"none", "busy"}] /\ answer'[p] = "busy"
          /\ \A q \in Port \ {p} : answer'[q] = answer[q]
      BY <3>1, PortTypes
    <3> QED BY <2>5, <3>1, <3>2, <3>3, <3>4, <3>5, <3>6
  <2>8. CASE NextStretch
    <3>1. /\ main.left = 0 \/ (main.left = 1 /\ main.kind = "read")
          /\ op' = op
      BY <2>8 DEF NextStretch
    <3>2. /\ main.next = t[1] + n /\ main.more = t[2] - n
          /\ n = IF main.kind = "read" THEN main.slot + 1 ELSE main.slot
      <4>1. /\ main.next = t[1] + main.slot + main.left /\ main.more = t[2] - main.slot - main.left
            /\ main.left = 0 <=> main.kind = "info"
        BY <2>2 DEF Stage
      <4>2. CASE main.left = 0
        <5>1. main.kind = "info" /\ n = main.slot
          BY <2>2, <4>1, <4>2
        <5> QED BY <1>3, <2>4, <4>1, <4>2, <5>1
      <4>3. CASE main.left = 1 /\ main.kind = "read"
        <5>1. n = main.slot + 1
          BY <2>2, <4>3
        <5> QED BY <1>3, <2>4, <4>1, <4>3, <5>1
      <4> QED BY <3>1, <4>2, <4>3
    <3>3. CASE main.more > 0
      <4>1. PICK c \in MainCalls : c = [main EXCEPT !.slot = n]
        BY <1>3 DEF MainCalls
      <4>2. c.port = p /\ c.call = main.call /\ c.slot = n
        BY <1>3, <4>1 DEF MainCalls
      <4>3. PICK kind \in {"read", "write"} : kind = main.call[1] /\ main.call = <<kind, t>>
        BY <2>2
      <4>4. UNCHANGED <<op, asked, answer>> /\ main' = Stretch(c, kind, main.next, main.more)
        <5>1. [main EXCEPT !.slot = IF main.kind = "read" THEN @ + 1 ELSE @] = c
          BY <1>3, <3>2, <4>1 DEF MainCalls
        <5>2. UNCHANGED <<op, asked, answer>>
          BY <2>8, <3>3 DEF NextStretch
        <5>3. main' = Stretch([main EXCEPT !.slot = IF main.kind = "read" THEN @ + 1 ELSE @], main.call[1], main.next, main.more)
          BY <2>8, <3>3, Zenon DEF NextStretch
        <5> QED BY <4>3, <5>1, <5>2, <5>3, Zenon
      <4>5. (main.next % BlockSectors) = 0 /\ c.slot < t[2]
        BY <2>2, <2>4, <3>2, <3>3, <4>2 DEF Stage
      <4>6. main' = Stretch(c, kind, t[1] + c.slot, t[2] - c.slot) /\ ((t[1] + c.slot) % BlockSectors) = 0
        BY <3>2, <4>2, <4>4, <4>5
      <4>7. c.call = <<kind, t>>
        BY <4>2, <4>3
      <4>8. /\ main' \in MainCalls /\ main'.port = c.port /\ main'.call = c.call /\ main'.slot = c.slot
            /\ main'.at = "claim" /\ main'.blocking = TRUE /\ main'.kind = kind
            /\ Stage(c.port, t, c.slot)'
        BY <4>5, <4>6, <4>7, StretchIsStage
      <4>9. op'[p] = 0 /\ kind # "info"
        BY <2>1, <4>4
      <4>10. Stage(p, t, n)'
        BY <4>2, <4>8
      <4> QED BY <2>5, <4>2, <4>4, <4>8, <4>9, <4>10, PortTypes
    <3>4. CASE ~(main.more > 0)
      <4>1. /\ main' = None /\ asked' = [asked EXCEPT ![p] = main.call] /\ answer' = [answer EXCEPT ![p] = "done"]
            /\ op' = op
        BY <1>3, <2>8, <3>4 DEF NextStretch
      <4>2. n = t[2]
        BY <1>3, <2>4, <3>2, <3>4
      <4>3. main.call \in Calls /\ asked'[p] = main.call /\ answer'[p] = "done" /\ op'[p] = 0 /\ ~Mine(p)'
        BY <2>1, <2>2, <4>1, PortTypes DEF Calls, Mine
      <4>4. Delivered(p)'
        BY <2>2, <2>3, <4>2, <4>3 DEF Delivered, Pieces, Piece
      <4>5. PortInv(p)' /\ Blocking'
        BY <2>3, <4>1, <4>3, <4>4 DEF PortInv, Blocking
      <4>6. asked' \in [Port -> Calls] /\ \A q \in Port \ {p} : asked'[q] = asked[q]
        BY <4>1, <4>3, PortTypes
      <4>7. answer' \in [Port -> Reasons \union {"none", "busy"}] /\ \A q \in Port \ {p} : answer'[q] = answer[q]
        BY <4>1, PortTypes DEF Reasons
      <4> QED BY <1>1, <1>3, <4>1, <4>5, <4>6, <4>7, PortTypes, WaitTypes
    <3> QED BY <3>3, <3>4
  <2> QED BY <1>6, <2>6, <2>7, <2>8 DEF Wait
<1> QED BY <1>5, <1>6

\* A careful program calls for a port that has nothing to do.
LEMMA MayCallIdle ==
  ASSUME Careful, CardsInv, NEW p \in Port, NEW blocking \in BOOLEAN, MayCall(p, blocking)
  PROVE  /\ main = None /\ op[p] = 0 /\ Free(p) /\ answer[p] # "busy" /\ PortInv(p)
         /\ \A q \in Port : ~Mine(q)
         /\ blocking => \A q \in Port : Free(q) /\ op[q] = 0
<1>1. main = None /\ op[p] = 0
  BY DEF MayCall, Careful
<1>2. PortInv(p) /\ \A q \in Port : ~Mine(q)
  BY <1>1 DEF CardsInv, Mine
<1>3. Free(p) /\ answer[p] # "busy"
  BY <1>1, <1>2 DEF PortInv
<1>4. ASSUME blocking PROVE \A q \in Port : Free(q) /\ op[q] = 0
  <2>1. Quiet(p) /\ Quiet(Other(p))
    BY <1>4 DEF MayCall, Careful
  <2>2. Port = {p, Other(p)}
    BY TwoPorts
  <2> QED BY <2>1, <2>2 DEF Quiet
<1> QED BY <1>1, <1>2, <1>3, <1>4

\* What a new call leaves alone.
LEMMA CallTypes ==
  ASSUME CardsInv, NEW p \in Port, main = None, UNCHANGED driver,
         state' \in [Port -> 0 .. 3], current' \in [Port -> Nat], job' \in [Port -> Jobs], status' \subseteq Reasons,
         op' \in [Port -> {0, 1, 2, 3, 4, 7}], asked' \in [Port -> Calls], moved' \in [Port -> Seq(Requests)],
         answer' \in [Port -> Reasons \union {"none", "busy"}],
         \A q \in Port \ {p} : /\ state'[q] = state[q] /\ current'[q] = current[q] /\ job'[q] = job[q]
                               /\ op'[q] = op[q] /\ asked'[q] = asked[q] /\ moved'[q] = moved[q] /\ answer'[q] = answer[q],
         main' = None \/ (main' \in MainCalls /\ main'.port = p),
         PortInv(p)', Blocking'
  PROVE  CardsInv'
<1>1. /\ flags' = flags /\ request' = request /\ operation' = operation /\ inProgress' = inProgress
      /\ flipping' = flipping /\ listening' = listening /\ synced' = synced
  BY DEF driver
<1>2. Typed'
  <2>1. operation' \in 0 .. 4 /\ inProgress' \in BOOLEAN /\ listening' \in BOOLEAN /\ synced' \in BOOLEAN
    BY <1>1, BusTypes, Zenon
  <2>2. flags' \in [Port -> Commands \union {"free"}] /\ request' \in [Port -> Requests] /\ flipping' \in Port
    BY <1>1, PortTypes
  <2> QED BY <2>1, <2>2, TypedNext
<1>3. Bus'
  BY <1>1 DEF CardsInv, Bus, Free
<1>4. ASSUME NEW q \in Port \ {p} PROVE Local(q)' = Local(q)
  BY <1>1 DEF Local
<1> QED BY <1>2, <1>3, <1>4, MainKeeps

\* buReadTOC.
LEMMA ReadTocKeeps ==
  ASSUME Careful, CardsInv, NEW p \in Port, ReadToc(p)
  PROVE  CardsInv'
<1>0. PICK c \in MainCalls :
        /\ c = Call(p, "read", HeadSector, "toc") /\ c # None
        /\ c.at = "claim" /\ c.port = p /\ c.kind = "read" /\ c.sector = HeadSector /\ c.slot = 0 /\ c.call = "toc"
        /\ c.blocking = FALSE
  <2>1. "read" \in Commands /\ HeadSector \in Nat
    BY DEF Commands, HeadSector
  <2>2. "toc" \in MainUses
    BY DEF MainUses
  <2>8. (answer[p] = "busy") \in BOOLEAN
    OBVIOUS
  <2>9. Call(p, "read", HeadSector, "toc") \in MainCalls
    BY <2>1, <2>2, <2>8 DEF Call, MainCalls
  <2> QED BY <2>9, CallsAreCalls DEF Call
<1>1. /\ MayCall(p, FALSE) /\ op' = [op EXCEPT ![p] = 4] /\ main' = c
      /\ asked' = [asked EXCEPT ![p] = <<"toc">>] /\ moved' = [moved EXCEPT ![p] = <<>>]
      /\ answer' = [answer EXCEPT ![p] = "busy"]
      /\ UNCHANGED <<driver, status, state, current, job>>
  BY <1>0 DEF ReadToc, Asks
<1>2. main = None /\ Free(p) /\ PortInv(p)
  BY <1>1, MayCallIdle
<1>4. Free(p)' /\ main' # None /\ Mine(p)'
  BY <1>1, <1>2, <1>0 DEF driver, Free, Mine
<1>5. op'[p] = 4 /\ answer'[p] = "busy" /\ asked'[p] = <<"toc">> /\ moved'[p] = <<>>
  BY <1>1, PortTypes
<1>6. Listing(p)'
  <2>1. Asking(p, "read", TocPiece(0))'
    BY <1>1, <1>0, <1>4 DEF Asking, TocPiece, HeadSector
  <2>2. moved'[p] = TocPieces(0)
    BY <1>5, NoPieces
  <2> QED BY <1>1, <1>0, <1>5, <2>1, <2>2 DEF Listing, TocPieces, TocPiece
<1>7. PortInv(p)' /\ Blocking'
  BY <1>1, <1>0, <1>4, <1>5, <1>6 DEF PortInv, Blocking
<1>8. <<"toc">> \in Calls
  BY DEF Calls
<1>9. /\ op' \in [Port -> {0, 1, 2, 3, 4, 7}] /\ asked' \in [Port -> Calls] /\ moved' \in [Port -> Seq(Requests)]
      /\ answer' \in [Port -> Reasons \union {"none", "busy"}] /\ status' \subseteq Reasons
      /\ state' \in [Port -> 0 .. 3] /\ current' \in [Port -> Nat] /\ job' \in [Port -> Jobs]
  BY <1>1, <1>8, PortTypes, Literals
<1>10. \A q \in Port \ {p} : /\ state'[q] = state[q] /\ current'[q] = current[q] /\ job'[q] = job[q]
                             /\ op'[q] = op[q] /\ asked'[q] = asked[q] /\ moved'[q] = moved[q] /\ answer'[q] = answer[q]
  BY <1>1, PortTypes
<1> QED BY <1>1, <1>2, <1>0, <1>7, <1>9, <1>10, CallTypes

\* cardInfo.
LEMMA CardInfoKeeps ==
  ASSUME Careful, CardsInv, NEW p \in Port, CardInfo(p)
  PROVE  CardsInv'
<1>0. PICK c \in MainCalls :
        /\ c = Call(p, "info", HeadSector, "info") /\ c # None
        /\ c.at = "claim" /\ c.port = p /\ c.kind = "info" /\ c.sector = HeadSector /\ c.slot = 0 /\ c.call = "info"
        /\ c.blocking = FALSE
  <2>1. "info" \in Commands /\ HeadSector \in Nat
    BY DEF Commands, HeadSector
  <2>2. "info" \in MainUses
    BY DEF MainUses
  <2>8. (answer[p] = "busy") \in BOOLEAN
    OBVIOUS
  <2>9. Call(p, "info", HeadSector, "info") \in MainCalls
    BY <2>1, <2>2, <2>8 DEF Call, MainCalls
  <2> QED BY <2>9, CallsAreCalls DEF Call
<1>1. /\ MayCall(p, FALSE) /\ op' = [op EXCEPT ![p] = 1] /\ main' = c
      /\ asked' = [asked EXCEPT ![p] = <<"info">>] /\ moved' = [moved EXCEPT ![p] = <<>>]
      /\ answer' = [answer EXCEPT ![p] = "busy"]
      /\ UNCHANGED <<driver, status, state, current, job>>
  BY <1>0 DEF CardInfo, Asks
<1>2. main = None /\ Free(p) /\ PortInv(p)
  BY <1>1, MayCallIdle
<1>4. Free(p)' /\ main' # None /\ Mine(p)'
  BY <1>1, <1>2, <1>0 DEF driver, Free, Mine
<1>5. op'[p] = 1 /\ answer'[p] = "busy" /\ asked'[p] = <<"info">>
  BY <1>1, PortTypes
<1>6. Informing(p)'
  BY <1>1, <1>0, <1>4, <1>5 DEF Informing
<1>7. PortInv(p)' /\ Blocking'
  BY <1>1, <1>0, <1>4, <1>5, <1>6 DEF PortInv, Blocking
<1>8. <<"info">> \in Calls
  BY DEF Calls
<1>9. /\ op' \in [Port -> {0, 1, 2, 3, 4, 7}] /\ asked' \in [Port -> Calls] /\ moved' \in [Port -> Seq(Requests)]
      /\ answer' \in [Port -> Reasons \union {"none", "busy"}] /\ status' \subseteq Reasons
      /\ state' \in [Port -> 0 .. 3] /\ current' \in [Port -> Nat] /\ job' \in [Port -> Jobs]
  BY <1>1, <1>8, PortTypes, Literals
<1>10. \A q \in Port \ {p} : /\ state'[q] = state[q] /\ current'[q] = current[q] /\ job'[q] = job[q]
                             /\ op'[q] = op[q] /\ asked'[q] = asked[q] /\ moved'[q] = moved[q] /\ answer'[q] = answer[q]
  BY <1>1, PortTypes
<1> QED BY <1>1, <1>2, <1>0, <1>7, <1>9, <1>10, CallTypes

\* A transfer of a file that is open with PSXF_ASYNC.
LEMMA TransferKeeps ==
  ASSUME Careful, CardsInv, NEW p \in Port, NEW kind \in {"read", "write"}, NEW t \in Transfers, Transfer(p, kind, t)
  PROVE  CardsInv'
<1>1. /\ MayCall(p, FALSE) /\ asked' = [asked EXCEPT ![p] = <<kind, t>>] /\ moved' = [moved EXCEPT ![p] = <<>>]
      /\ UNCHANGED driver
  BY DEF Transfer
<1>2. main = None /\ Free(p) /\ PortInv(p) /\ ~Mine(p)
  BY <1>1, MayCallIdle
<1>3. Free(p)' /\ asked'[p] = <<kind, t>> /\ moved'[p] = <<>>
  BY <1>1, <1>2, PortTypes DEF driver, Free
<1>4. t[1] \in Nat /\ t[2] \in Nat /\ t = <<t[1], t[2]>>
  BY TransferTypes
<1>5. asked' \in [Port -> Calls] /\ moved' \in [Port -> Seq(Requests)]
      /\ \A q \in Port \ {p} : asked'[q] = asked[q] /\ moved'[q] = moved[q]
  <2>1. <<kind, t>> \in Calls
    BY DEF Calls
  <2> QED BY <1>1, <2>1, PortTypes, Literals
<1>6. moved'[p] = Pieces(t, 0)
  BY <1>3, NoPieces
<1>7. CASE t[2] = 0
  <2>1. Finish(p, "done") /\ status' = {"done"} /\ main' = main
    BY <1>7 DEF Transfer
  <2>2. op'[p] = 0 /\ answer'[p] = "done" /\ ~Mine(p)'
    BY <1>2, <2>1, PortTypes DEF Finish, Mine
  <2>3. Delivered(p)'
    BY <1>3, <1>6, <1>7 DEF Delivered, Pieces, Piece
  <2>4. PortInv(p)' /\ Blocking'
    BY <1>2, <1>3, <2>1, <2>2, <2>3 DEF PortInv, Blocking
  <2>5. /\ op' \in [Port -> {0, 1, 2, 3, 4, 7}] /\ answer' \in [Port -> Reasons \union {"none", "busy"}]
        /\ status' \subseteq Reasons
        /\ state' \in [Port -> 0 .. 3] /\ current' \in [Port -> Nat] /\ job' \in [Port -> Jobs]
    BY <2>1, PortTypes, Literals DEF Finish, Reasons
  <2>6. \A q \in Port \ {p} : /\ state'[q] = state[q] /\ current'[q] = current[q] /\ job'[q] = job[q]
                              /\ op'[q] = op[q] /\ answer'[q] = answer[q]
    BY <2>1, PortTypes DEF Finish
  <2> QED BY <1>1, <1>2, <1>5, <2>1, <2>4, <2>5, <2>6, CallTypes
<1>8. CASE t[2] # 0
  <2> DEFINE j == [start |-> t[1], count |-> t[2], slot |-> 0]
  <2>2. FileSector(t[1]) \in Nat /\ t[1] + 0 = t[1] /\ 0 < t[2]
    <3>1. t[1] + 0 = t[1] /\ 0 \in Nat /\ 0 < t[2]
      BY <1>4, <1>8
    <3>2. FileSector(t[1] + 0) \in Nat
      BY <3>1, PieceType
    <3> QED BY <3>1, <3>2
  <2>3. PICK c \in MainCalls :
          /\ c = Call(p, kind, FileSector(t[1]), "unit") /\ c # None
          /\ c.at = "claim" /\ c.port = p /\ c.kind = kind /\ c.sector = FileSector(t[1]) /\ c.slot = 0
          /\ c.call = "unit" /\ c.blocking = FALSE
    <3>1. kind \in Commands
      BY DEF Commands
    <3>2. "unit" \in MainUses
      BY DEF MainUses
    <3>8. (answer[p] = "busy") \in BOOLEAN
      OBVIOUS
    <3>9. Call(p, kind, FileSector(t[1]), "unit") \in MainCalls
      BY <2>2, <3>1, <3>2, <3>8 DEF Call, MainCalls
    <3> QED BY <3>9, CallsAreCalls DEF Call
  <2>1. /\ op' = [op EXCEPT ![p] = IF kind = "read" THEN 2 ELSE 3]
        /\ job' = [job EXCEPT ![p] = j] /\ answer' = [answer EXCEPT ![p] = "busy"]
        /\ status' = {} /\ main' = c /\ UNCHANGED <<state, current>>
    BY <1>8, <2>3 DEF Transfer
  <2>4. main' # None /\ Mine(p)'
    BY <2>1, <2>3 DEF Mine
  <2>5. /\ op'[p] = (IF kind = "read" THEN 2 ELSE 3) /\ answer'[p] = "busy"
        /\ job'[p] = [start |-> t[1] + 0, count |-> t[2] - 0, slot |-> 0]
    BY <1>4, <2>1, PortTypes
  <2>6. Streaming(p)'
    <3>1. Asking(p, kind, Piece(t, 0))'
      <4>1. Piece(t, 0).sector = FileSector(t[1]) /\ Piece(t, 0).slot = 0
        BY <2>2 DEF Piece
      <4>2. main'.sector = Piece(t, 0).sector /\ main'.slot = Piece(t, 0).slot
        BY <2>1, <2>3, <4>1
      <4>3. Piece(t, 0)' = Piece(t, 0)
        BY DEF Piece
      <4> QED BY <1>3, <2>1, <2>3, <2>4, <4>2 DEF Asking, Piece, FileSector, Actual, Absolute
    <3> QED BY <1>3, <1>6, <2>1, <2>2, <2>3, <2>5, <3>1 DEF Streaming, Pieces, Piece
  <2>7. PortInv(p)' /\ Blocking'
    BY <1>3, <2>1, <2>3, <2>4, <2>5, <2>6 DEF PortInv, Blocking
  <2>8. j \in Jobs
    BY <1>4 DEF Jobs
  <2> HIDE DEF j
  <2>9. /\ op' \in [Port -> {0, 1, 2, 3, 4, 7}] /\ answer' \in [Port -> Reasons \union {"none", "busy"}]
        /\ status' \subseteq Reasons
        /\ state' \in [Port -> 0 .. 3] /\ current' \in [Port -> Nat] /\ job' \in [Port -> Jobs]
    BY <2>1, <2>8, PortTypes
  <2>10. \A q \in Port \ {p} : /\ state'[q] = state[q] /\ current'[q] = current[q] /\ job'[q] = job[q]
                               /\ op'[q] = op[q] /\ answer'[q] = answer[q]
    BY <2>1, PortTypes
  <2> QED BY <1>1, <1>2, <1>5, <2>1, <2>3, <2>7, <2>9, <2>10, CallTypes
<1> QED BY <1>7, <1>8

\* A transfer of a file that is not.
LEMMA BlockKeeps ==
  ASSUME Careful, CardsInv, NEW p \in Port, NEW kind \in {"read", "write"}, NEW t \in BlockTransfers, Block(p, kind, t)
  PROVE  CardsInv'
<1>1. /\ MayCall(p, TRUE) /\ t[2] > 0
      /\ asked' = [asked EXCEPT ![p] = <<"none">>] /\ moved' = [moved EXCEPT ![p] = <<>>]
      /\ answer' = [answer EXCEPT ![p] = "none"] /\ status' = {}
      /\ main' = Stretch(Call(p, kind, HeadSector, <<kind, t>>), kind, t[1], t[2])
      /\ UNCHANGED <<driver, unit>>
  BY DEF Block
<1>2. main = None /\ \A q \in Port : Free(q) /\ op[q] = 0
  BY <1>1, MayCallIdle
<1>3. t[1] \in Nat /\ t[2] \in Nat
  BY TransferTypes
<1>4. PICK c \in MainCalls : c = Call(p, kind, HeadSector, <<kind, t>>) /\ c.port = p /\ c.call = <<kind, t>> /\ c.slot = 0
  <2>1. kind \in Commands /\ HeadSector \in Nat
    BY DEF Commands, HeadSector
  <2>2. <<kind, t>> \in MainUses
    BY DEF MainUses
  <2>8. (answer[p] = "busy") \in BOOLEAN
    OBVIOUS
  <2>9. Call(p, kind, HeadSector, <<kind, t>>) \in MainCalls
    BY <2>1, <2>2, <2>8 DEF Call, MainCalls
  <2> QED BY <2>9, CallsAreCalls DEF Call
<1>5. t[1] + c.slot = t[1] /\ t[2] - c.slot = t[2]
  BY <1>3, <1>4
<1>6. /\ main' \in MainCalls /\ main'.port = p /\ main'.call = <<kind, t>> /\ main'.slot = 0
      /\ main'.at = "claim" /\ main'.blocking = TRUE /\ main'.kind = kind
      /\ Stage(p, t, 0)'
  <2>1. \/ ((t[1] + c.slot) % BlockSectors) = 0
        \/ ((t[1] + c.slot) % BlockSectors) + (t[2] - c.slot) <= BlockSectors
    BY <1>5 DEF Careful
  <2>2. main' = Stretch(c, kind, t[1] + c.slot, t[2] - c.slot)
    BY <1>1, <1>4, <1>5
  <2>3. c.slot < t[2]
    BY <1>1, <1>3, <1>4
  <2>4. c.call = <<kind, t>>
    BY <1>4
  <2>5. /\ main' \in MainCalls /\ main'.port = c.port /\ main'.call = c.call /\ main'.slot = c.slot
        /\ main'.at = "claim" /\ main'.blocking = TRUE /\ main'.kind = kind
        /\ Stage(c.port, t, c.slot)'
    BY <2>1, <2>2, <2>3, <2>4, StretchIsStage
  <2> QED BY <1>4, <2>5
<1>7. main' # None /\ Mine(p)'
  BY <1>6, CallsAreCalls DEF Mine
<1>8. /\ flags' = flags /\ op' = op /\ state' = state /\ current' = current /\ job' = job
  BY <1>1 DEF driver, unit
<1>9. asked'[p] = <<"none">> /\ answer'[p] = "none" /\ moved'[p] = Pieces(t, 0) /\ op'[p] = 0 /\ Free(p)'
  <2>1. moved'[p] = <<>>
    BY <1>1, PortTypes
  <2> QED BY <1>1, <1>2, <1>8, <2>1, NoPieces, PortTypes DEF Free
<1>10. Alone(p)'
  BY <1>2, <1>8, <1>9 DEF Alone, Free
<1>11. Doing(p, t, 0)'
  BY <1>1, <1>6, <1>9 DEF Doing, Pieces, Piece
<1>12. Blocking'
  <2>1. main'.call \in {"read", "write"} \X {t}
    BY <1>6
  <2> QED BY <1>6, <1>7, <1>10, <1>11, <2>1 DEF Blocking
<1>13. PortInv(p)'
  BY <1>6, <1>7, <1>9 DEF PortInv
<1>14. <<"none">> \in Calls
  BY DEF Calls
<1>15. /\ op' \in [Port -> {0, 1, 2, 3, 4, 7}] /\ asked' \in [Port -> Calls] /\ moved' \in [Port -> Seq(Requests)]
       /\ answer' \in [Port -> Reasons \union {"none", "busy"}] /\ status' \subseteq Reasons
       /\ state' \in [Port -> 0 .. 3] /\ current' \in [Port -> Nat] /\ job' \in [Port -> Jobs]
  BY <1>1, <1>8, <1>14, PortTypes, Literals
<1>16. \A q \in Port \ {p} : /\ state'[q] = state[q] /\ current'[q] = current[q] /\ job'[q] = job[q]
                             /\ op'[q] = op[q] /\ asked'[q] = asked[q] /\ moved'[q] = moved[q] /\ answer'[q] = answer[q]
  BY <1>1, <1>8, PortTypes
<1> QED BY <1>1, <1>2, <1>6, <1>12, <1>13, <1>15, <1>16, CallTypes

-----------------------------------------------------------------------------
(* The theorem.                                                              *)

\* At the start nothing is asked.
LEMMA InitHolds ==
  ASSUME Careful, Init
  PROVE  CardsInv
<1>1. /\ flags = [p \in Port |-> "free"] /\ request = [p \in Port |-> NoRequest]
      /\ operation = 0 /\ inProgress = FALSE /\ flipping \in Port /\ listening = FALSE /\ synced = TRUE
      /\ op = [p \in Port |-> 0] /\ state = op /\ current = op /\ job = [p \in Port |-> NoJob]
      /\ status = {} /\ main = None /\ asked = [p \in Port |-> <<"none">>] /\ moved = [p \in Port |-> <<>>]
      /\ answer = [p \in Port |-> "none"]
  BY DEF Init
<1>2. Typed
  <2>1. {inProgress, listening, synced} \subseteq BOOLEAN
    BY <1>1
  <2>2. TypeOK
    BY <1>1, <2>1 DEF TypeOK, Reasons, Commands
  <2>3. <<"none">> \in Calls
    BY DEF Calls
  <2>4. request \in [Port -> Requests] /\ job \in [Port -> Jobs] /\ moved \in [Port -> Seq(Requests)]
    BY <1>1, Literals
  <2>5. current \in [Port -> Nat] /\ asked \in [Port -> Calls]
    BY <1>1, <2>3
  <2> QED BY <1>1, <2>2, <2>4, <2>5 DEF Typed
<1>3. Bus
  BY <1>1 DEF Bus
<1>4. ASSUME NEW p \in Port PROVE PortInv(p)
  <2>1. flags[p] = "free" /\ op[p] = 0 /\ answer[p] = "none" /\ ~Mine(p)
    BY <1>1 DEF Mine
  <2> QED BY <2>1 DEF PortInv, Free
<1>5. Blocking
  BY <1>1 DEF Blocking
<1> QED BY <1>2, <1>3, <1>4, <1>5 DEF CardsInv

\* Steps of nothing.
LEMMA StutterKeeps ==
  ASSUME CardsInv, UNCHANGED vars
  PROVE  CardsInv'
<1>1. /\ UNCHANGED <<flags, request, unit, status, main, ghosts>>
      /\ operation' = operation /\ flipping' = flipping /\ inProgress' = inProgress /\ listening' = listening
      /\ synced' = synced /\ flags' = flags
  BY DEF vars, driver
<1>2. operation' \in 0 .. 4 /\ flipping' \in Port /\ inProgress' \in BOOLEAN /\ listening' \in BOOLEAN /\ synced' \in BOOLEAN
  BY <1>1, BusTypes, Zenon
<1>3. Bus'
  BY <1>1 DEF CardsInv, Bus, Free
<1> QED BY <1>1, <1>2, <1>3, BusKeeps

\* Whatever the order of the vertical blanks, the interrupts and the calls of a careful
\* program, every transfer and table of contents that is answered by success has moved each
\* of its sectors once, in order, to its place, and a unit is busy exactly while an answer is
\* owed, with a command on its way to a driver that serves it (backupunit.c:291-477,
\* device.c:297-364, driver.c:300-513).
THEOREM CardTransfersAreExact ==
  ASSUME Careful
  PROVE  Spec => []TransfersExact
<1>1. Init => CardsInv
  BY InitHolds
<1>2. CardsInv /\ [Next]_vars => CardsInv'
  <2> SUFFICES ASSUME CardsInv, [Next]_vars PROVE CardsInv'
    OBVIOUS
  <2>1. CASE VBlank
    BY <2>1, VBlankKeeps
  <2>2. CASE Interrupt
    BY <2>2, InterruptKeeps
  <2>3. CASE Claim
    BY <2>3, ClaimKeeps
  <2>4. CASE Arm
    BY <2>4, ArmKeeps
  <2>5. CASE Wait
    BY <2>5, WaitKeeps
  <2>6. ASSUME NEW p \in Port, ReadToc(p) PROVE CardsInv'
    BY <2>6, ReadTocKeeps
  <2>7. ASSUME NEW p \in Port, CardInfo(p) PROVE CardsInv'
    BY <2>7, CardInfoKeeps
  <2>8. ASSUME NEW p \in Port, NEW k \in {"read", "write"}, NEW t \in Transfers, Transfer(p, k, t) PROVE CardsInv'
    BY <2>8, TransferKeeps
  <2>9. ASSUME NEW p \in Port, NEW k \in {"read", "write"}, NEW t \in BlockTransfers, Block(p, k, t) PROVE CardsInv'
    BY <2>9, BlockKeeps
  <2>10. CASE UNCHANGED vars
    BY <2>10, StutterKeeps
  <2> QED BY <2>1, <2>2, <2>3, <2>4, <2>5, <2>6, <2>7, <2>8, <2>9, <2>10 DEF Next
<1>3. CardsInv => TransfersExact
  BY InvariantImplies
<1> QED BY <1>1, <1>2, <1>3, PTL DEF Spec
=============================================================================
