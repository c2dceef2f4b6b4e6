--------------------------- MODULE CardDirectory ---------------------------
(***************************************************************************)
(* The directory of a memory card in openbios: dev_bu_open with PSXF_CREAT,     *)
(* dev_bu_erase, dev_bu_rename and dev_bu_format change the entries in memory     *)
(* and write them one sector at a time, the first block of a file last; buInit      *)
(* reads them back and repairs what a reset, or a card that was pulled, left       *)
(* unfinished.  A sector is written whole or not at all.  An entry stands for the   *)
(* block of its number; sizes are in blocks.                                       *)
(***************************************************************************)
EXTENDS Integers, Sequences, FiniteSets, SequencesExt, FiniteSetsExt, TLC

CONSTANTS
  Blocks,       \* blocks of the card (15)
  Name,         \* names of files
  NoName,
  Sizes,        \* sizes of the files that are created
  MaxMishaps    \* resets in the middle of a call, and calls that fail

ASSUME DirectoryAssumption ==
  /\ Blocks \in Nat \ {0} /\ MaxMishaps \in Nat
  /\ Sizes \subseteq Nat /\ NoName \notin Name

VARIABLES
  dir,          \* g_buDirEntries
  card,         \* the directory on the card
  call,         \* what the main thread is doing, and the sectors it has yet to write
  failed,       \* the files of the calls that failed since the directory was read
  mishaps

vars == <<dir, card, call, failed, mishaps>>

Block == 0 .. Blocks - 1
Used == {"first", "inner", "last"}              \* 0x51, 0x52, 0x53
Unused == {"free", "gone1", "gone2", "gone3"}   \* 0xa0, 0xa1, 0xa2, 0xa3
End == -1
Empty == [state |-> "free", size |-> 0, next |-> End, name |-> NoName]
None == [kind |-> "none", names |-> {}]

TypeOK ==
  /\ {dir, card} \subseteq [Block -> [state : Used \union Unused, size : 0 .. Blocks,
                                      next : Block \union {End}, name : Name \union {NoName}]]
  /\ call.names \subseteq Name
  /\ failed \subseteq Name /\ mishaps \in 0 .. MaxMishaps

Names == Permutations(Name)     \* the names are interchangeable

Init ==
  /\ dir = [b \in Block |-> Empty] /\ card = dir
  /\ call = None /\ failed = {} /\ mishaps = 0

-----------------------------------------------------------------------------
(* Reading the directory.                                                   *)

\* The block k links after b, End past the end of the chain.
Hop(d, b, k) ==
  LET h[i \in 0 .. k] == IF i = 0 THEN b ELSE IF h[i - 1] = End THEN End ELSE d[h[i - 1]].next
  IN h[k]

\* The blocks of the file that starts at b, as long as its size and its chain allow.
Extent(d, b) == ({b} \union {Hop(d, b, k) : k \in 0 .. d[b].size - 1}) \ {End}

\* Mutant of Broken: only the first block after b is looked at.
BrokenNearby(d, b) ==
  LET wrong == IF d[b].state = "first" THEN Unused ELSE Used IN
  /\ d[b].state \in {"first", "gone1"} /\ d[b].size > 1 /\ d[b].next # End
  /\ d[d[b].next].state \in wrong

\* buValidateEntryAndCorrect: a file some block of which is no more of it.
Broken(d, b) ==
  LET wrong == IF d[b].state = "first" THEN Unused ELSE Used IN
  /\ d[b].state \in {"first", "gone1"} /\ d[b].size > 1
  /\ \E k \in 1 .. d[b].size : Hop(d, b, k) # End /\ d[Hop(d, b, k)].state \in wrong

Validate(d, b) == IF Broken(d, b) THEN [c \in Block |-> IF c \in Extent(d, b) THEN Empty ELSE d[c]] ELSE d

\* buInit: blocks that no file, erased or not, refers to are free.
Collect(d) ==
  LET kept == UNION {Extent(d, b) : b \in {c \in Block : d[c].state \in {"first", "gone1"}}}
  IN [b \in Block |-> IF b \in kept THEN d[b] ELSE Empty]

\* buInit.
Read(c) == Collect(FoldLeft(Validate, c, [i \in 1 .. Blocks |-> i - 1]))

-----------------------------------------------------------------------------
(* The calls.                                                               *)

Rank(S) == SetToSortSeq(S, <)
Find(name) == {b \in Block : dir[b].state = "first" /\ dir[b].name = name}

\* Mutant of Order: the bit of the first block is not set.
OrderOthers(first, others) == Rank(others)

\* buWriteTOC: all entries of the bitmap but the first of the file, then that one.
Order(first, others) == Rank(others) \o <<first>>

\* Mutant of Allocate: erased files keep their blocks, used ones do not.
AllocateUsed(n) == {b \in Block : b < n}

\* The lowest n free blocks.
Allocate(n) ==
  LET free == {b \in Block : dir[b].state \in Unused}
  IN {b \in free : Cardinality({c \in free : c < b}) < n}

\* The entries of a new file, dev_bu_open; the name and size of the others are not read.
Linked(seq, size, name) ==
  [b \in Block |->
     LET k == IndexFirstSubSeq(<<b>>, seq) IN
     IF b \notin Range(seq) THEN dir[b]
     ELSE [state |-> IF k = 1 THEN "first" ELSE IF k = Len(seq) THEN "last" ELSE "inner",
           size |-> IF k = 1 THEN size ELSE 0,
           next |-> IF k = Len(seq) THEN End ELSE seq[k + 1],
           name |-> IF k = 1 THEN name ELSE NoName]]

Create(name, n) ==
  /\ call = None /\ Find(name) = {}
  /\ LET blocks == Rank(Allocate(n)) IN
     /\ Len(blocks) = n
     /\ dir' = Linked(blocks, n, name)
     /\ call' = [kind |-> "create", names |-> {name}, first |-> blocks[1], all |-> Range(blocks),
                 todo |-> Order(blocks[1], Range(blocks) \ {blocks[1]})]
  /\ UNCHANGED <<card, failed, mishaps>>

\* dev_bu_erase: the states only, so that the file could be found again.
Erase(name) ==
  /\ call = None
  /\ \E b \in Find(name) :
       LET extent == Extent(dir, b) IN
       /\ dir' = [c \in Block |->
            IF c \notin extent THEN dir[c]
            ELSE [dir[c] EXCEPT !.state = CASE @ = "first" -> "gone1" [] @ = "inner" -> "gone2" [] OTHER -> "gone3"]]
       /\ call' = [kind |-> "erase", names |-> {name}, first |-> b, all |-> extent,
                   todo |-> Order(b, extent \ {b})]
  /\ UNCHANGED <<card, failed, mishaps>>

\* dev_bu_rename.
Rename(old, new) ==
  /\ call = None /\ Find(new) = {}
  /\ \E b \in Find(old) :
       /\ dir' = [dir EXCEPT ![b].name = new]
       /\ call' = [kind |-> "rename", names |-> {old, new}, first |-> b, all |-> {b}, old |-> old, todo |-> <<b>>]
  /\ UNCHANGED <<card, failed, mishaps>>

\* dev_bu_format: buFormat clears an entry just before it writes it.
Format ==
  /\ call = None
  /\ dir' = [dir EXCEPT ![0] = Empty]
  /\ call' = [kind |-> "format", names |-> Name, first |-> 0, all |-> Block, todo |-> Rank(Block)]
  /\ UNCHANGED <<card, failed, mishaps>>

\* The entry buFormat clears after the one it has just written, or failed to write.
Cleared(b) == IF call.kind = "format" /\ b + 1 \in Block THEN [dir EXCEPT ![b + 1] = Empty] ELSE dir

Writing == call.kind \notin {"none", "hung"}

Write ==
  /\ Writing /\ call.todo # <<>>
  /\ card' = [card EXCEPT ![Head(call.todo)] = dir[Head(call.todo)]]
  /\ dir' = Cleared(Head(call.todo))
  /\ call' = [call EXCEPT !.todo = Tail(@)]
  /\ UNCHANGED <<failed, mishaps>>

\* The card confirms, and the call returns.
Return ==
  /\ Writing /\ call.todo = <<>>
  /\ call' = None
  /\ UNCHANGED <<dir, card, failed, mishaps>>

\* A sector is not written, or the card does not confirm the last ones.
FailErase ==
  /\ call.kind = "erase"
  /\ dir' = [b \in Block |-> IF b \in call.all THEN Empty ELSE dir[b]]
  /\ call' = None

FailRename ==
  /\ call.kind = "rename"
  /\ dir' = [dir EXCEPT ![call.first].name = call.old]
  /\ call' = None

\* buFormat does not look at the status of its writes.
FailFormat ==
  /\ call.kind = "format" /\ call.todo # <<>>
  /\ dir' = Cleared(Head(call.todo))
  /\ call' = [call EXCEPT !.todo = Tail(@)]

\* The loop that is to free the blocks does not end, unless the file starts at block 0; then
\* it is not entered, and the file is given one more block, behind one that stays marked as
\* its last, and written again.
FailCreate ==
  /\ call.kind = "create"
  /\ LET after == {b \in Block : dir[b].state \in Unused /\ \A c \in call.all : c < b}
         all == call.all \union {Min(after)}
     IN \/ call.first # 0 /\ call' = [kind |-> "hung", names |-> call.names] /\ UNCHANGED dir
        \/ call.first = 0 /\ after = {} /\ call' = None /\ UNCHANGED dir
        \/ /\ call.first = 0 /\ after # {}
           /\ dir' = [dir EXCEPT ![Max(call.all)].next = Min(after), ![Min(after)] = [Empty EXCEPT !.state = "last"]]
           /\ call' = [call EXCEPT !.all = all, !.todo = Order(0, all \ {0})]

\* A failed creation can leave a file with more blocks than its size, which makes the
\* next reading take it for broken; it counts for two mishaps.
Weight == IF call.kind = "create" THEN 2 ELSE 1

Fail ==
  /\ FailErase \/ FailRename \/ FailFormat \/ FailCreate
  /\ failed' = failed \union call.names
  /\ mishaps + Weight <= MaxMishaps /\ mishaps' = mishaps + Weight
  /\ UNCHANGED card

\* The machine is reset, or the card pulled and put back: the next call reads it again.
Reset ==
  /\ IF call.kind \in {"none", "hung"} THEN UNCHANGED mishaps ELSE mishaps < MaxMishaps /\ mishaps' = mishaps + 1
  /\ dir' = Read(card) /\ call' = None /\ failed' = {}
  /\ UNCHANGED card

Next ==
  \/ \E n \in Name :
       \/ \E s \in Sizes : Create(n, s)
       \/ Erase(n)
       \/ \E m \in Name : Rename(n, m)
  \/ Format \/ Write \/ Return \/ Fail \/ Reset

Spec == Init /\ [][Next]_vars

-----------------------------------------------------------------------------
(* Properties.                                                              *)

\* The files a directory shows, each with its blocks in order.
Files(d) ==
  {[name |-> d[b].name, blocks |-> [k \in 1 .. d[b].size |-> Hop(d, b, k - 1)]] :
     b \in {c \in Block : d[c].state = "first"}}

\* No block is of two files, however often a change of the directory was cut short or
\* failed; and a file is as long as its size says, unless that happened twice (buInit and
\* buValidateEntryAndCorrect, backupunit.c:145-280).
FilesSound ==
  /\ TypeOK
  /\ \A f, g \in Files(dir) : f # g => Range(f.blocks) \intersect Range(g.blocks) = {}
  /\ mishaps < 2 => \A f \in Files(dir) : End \notin Range(f.blocks)

\* Between calls, what is in memory is what would be read from the card, unless a call
\* failed since: nothing that was reported done is undone by a reset (buWriteTOC, backupunit.c:523-551).
ListingTrue ==
  call.kind = "none" /\ failed = {} /\ mishaps < 2 => Files(dir) = Files(Read(card))

\* A call, cut short or not, changes no file but its own (dev_bu_open and dev_bu_erase,
\* device.c:103-183, 435-498).
OthersKept ==
  [][mishaps' < 2 => \A f \in Files(dir) : f \in Files(dir') \/ f.name \in call.names \union call'.names \union failed]_vars
=============================================================================
