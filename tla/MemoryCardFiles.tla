---------------------------- MODULE MemoryCardFiles ----------------------------
(***************************************************************************)
(* The file system of psyqo (memory-card-filesystem.cpp): one operation at a time,  *)
(* a machine that goes from one sector transfer of the memory card driver to the    *)
(* next, and that can be cut short at any of them, by an error or because the         *)
(* console is switched off.  A sector is written whole or not at all, and an error      *)
(* may be reported of a sector that was written.                                      *)
(*                                                                                  *)
(* A frame holds <<v, k>>, the k-th frame of what the v-th call of writeFile was        *)
(* given, the zeroes it is padded with included.  The frames of the icon are part of   *)
(* the title frame.  The fifteen frames of the directory are read in one step, which   *)
(* fails if any of them does: nothing but the operation changes them.  A card may        *)
(* ignore the top bits of an address, so that block b is block b % real.             *)
(***************************************************************************)
EXTENDS Integers, Sequences, FiniteSets, SequencesExt

CONSTANTS
  Blocks,       \* c_blockCount (16)
  Probes,       \* the blocks of the size probe, in order (8, 4, 2)
  Reals,        \* how many blocks cards really have
  Frames,       \* frames in a block (64)
  Name,         \* names of files
  NoName,
  Sizes,        \* sizes of files, in blocks
  Lengths,      \* maxLen of readFile, in frames
  MaxWrites,    \* calls of writeFile
  MaxMishaps    \* operations cut short

ASSUME FilesAssumption ==
  /\ {Blocks, Frames} \subseteq Nat \ {0, 1} /\ {MaxWrites, MaxMishaps} \subseteq Nat
  /\ Probes \in Seq(1 .. Blocks - 1)
  /\ Reals \subseteq {Blocks} \union Range(Probes)
  /\ Sizes \subseteq Nat \ {0} /\ Lengths \subseteq Nat /\ NoName \notin Name

VARIABLES
  card,         \* header: sector 0 is that of a formatted card; dir; data
  real,         \* blocks the card has
  op,           \* m_op and its arguments
  phase,        \* m_phase; "idle" when not m_busy, "done" when m_callback is due
  idx,          \* m_idx; for data, m_blockIdx and m_frameInBlock
  dir,          \* m_dir
  dirty,        \* m_dirty, as blocks
  chain,        \* m_chain
  order,        \* m_writeOrder, as blocks
  blocks,       \* m_cardBlocks
  result, got,  \* m_result, what m_readBuffer and the other results received
  writes, mishaps,
  saved,        \* of each name, the versions it may have after the calls made so far, 0 if none
  torn          \* files whose replacement in place, or whose erasure by a format, was cut short

engine == <<op, phase, idx, dir, dirty, chain, order, blocks, result, got>>
filesVars == <<card, real, engine, writes, mishaps, saved, torn>>

Block == 1 .. Blocks - 1
End == 0                                \* 0xffff
Free == [state |-> "free", size |-> 0, next |-> End, name |-> NoName]
Zero == <<0, 0>>
Copy == <<0, 1>>                        \* the same as sector 0
Blank == [b \in Block |-> Free]
None == [kind |-> "none"]

\* "rest" is 0x52, 0x53 and the states of deleted blocks: they are never told apart.
FilesTypeOK ==
  /\ {card.dir, dir} \subseteq [Block -> [state : {"first", "free", "rest"}, size : 0 .. Blocks,
                                         next : Block \union {End}, name : Name \union {NoName}]]
  /\ card.header \in BOOLEAN /\ real \in Reals
  /\ blocks \in {Blocks} \union Range(Probes)
  /\ Range(chain) \union Range(order) \union dirty \subseteq Block
  /\ saved \in [Name -> SUBSET (0 .. MaxWrites)] /\ torn \subseteq Name

Idle ==
  /\ op' = None /\ phase' = "idle" /\ idx' = 0 /\ dir' = Blank /\ dirty' = {}
  /\ chain' = <<>> /\ order' = <<>> /\ blocks' = Blocks /\ result' = "ok" /\ got' = <<>>

\* A card that is formatted or not, of which a block may begin with a copy of sector 0.
FilesInit ==
  /\ real \in Reals
  /\ \E header \in BOOLEAN, copies \in SUBSET Range(Probes) :
       card = [header |-> header, dir |-> Blank,
               data |-> [b \in 1 .. real - 1 |-> [f \in 0 .. Frames - 1 |->
                           IF f = 0 /\ b \in copies THEN Copy ELSE Zero]]]
  /\ op = None /\ phase = "idle" /\ idx = 0 /\ dir = Blank /\ dirty = {}
  /\ chain = <<>> /\ order = <<>> /\ blocks = Blocks /\ result = "ok" /\ got = <<>>
  /\ writes = 0 /\ mishaps = 0
  /\ saved = [n \in Name |-> {0}] /\ torn = {}

-----------------------------------------------------------------------------
(* The directory.                                                           *)

\* findFirstBlock, as a set of at most one block.
First(d, name) ==
  LET heads == {b \in Block : d[b].state = "first" /\ d[b].name = name}
  IN {b \in heads : \A c \in heads : b <= c}

Hop(d, b, k) ==
  LET h[i \in 0 .. k] == IF i = 0 THEN b ELSE IF h[i - 1] = End THEN End ELSE d[h[i - 1]].next
  IN h[k]

\* The blocks of a chain, which ends where it meets itself.
Walk(d, b) == {Hop(d, b, k) : k \in 0 .. Blocks} \ {End}
Sound(d, b) == Hop(d, b, Cardinality(Walk(d, b))) = End
Chain(d, b) == [k \in 1 .. Cardinality(Walk(d, b)) |-> Hop(d, b, k - 1)]

\* reachableBlocks.
InUse(d) == UNION {Walk(d, b) : b \in {c \in Block : d[c].state = "first"}}

Deleted(d, S) == [b \in Block |-> IF b \in S THEN [d[b] EXCEPT !.state = "rest"] ELSE d[b]]

Ascending(S) == SetToSortSeq(S, <)

\* The blocks a new file may have, those that were never used first.
Available(d) ==
  LET spare == (1 .. blocks - 1) \ InUse(d)
      never == {b \in spare : d[b].state = "free"}
  IN Ascending(never) \o Ascending(spare \ never)

\* The entries of a new file.
Entries(d) ==
  [b \in Block |->
     IF b \notin Range(chain) THEN d[b]
     ELSE LET k == CHOOSE i \in DOMAIN chain : chain[i] = b IN
          [state |-> IF k = 1 THEN "first" ELSE "rest",
           size |-> IF k = 1 THEN op.size ELSE 0,
           next |-> IF k = Len(chain) THEN End ELSE chain[k + 1],
           name |-> IF k = 1 THEN op.name ELSE NoName]]

\* Mutant of CommitOrder: the chain is written from its head on.
CommitOrderHeadFirst == Ascending(dirty \ Range(chain)) \o chain

\* What is left of a replaced file, then the chain from its tail to its head.
CommitOrder == Ascending(dirty \ Range(chain)) \o Reverse(chain)

-----------------------------------------------------------------------------
(* The sector that the current phase transfers.                             *)

Frame(k) == <<chain[k \div Frames + 1], k % Frames>>

Fetch(b, f) == IF b % real = 0 THEN Copy ELSE card.data[b % real][f]

\* Sector 0 stands for all that a write to the aliases of block 0 can destroy.
Store(b, f, content) ==
  IF b % real = 0 THEN [card EXCEPT !.header = FALSE]
  ELSE [card EXCEPT !.data[b % real][f] = content]

\* Mutant of Formatted: the probe sectors are left alone.
FormattedNoProbes ==
  CASE idx < Len(Probes) -> card
    [] idx = Len(Probes) -> [card EXCEPT !.header = TRUE]
    [] OTHER -> [card EXCEPT !.dir[idx - Len(Probes)] = Free]

\* The probe sectors, the header, the directory; the rest of block 0 is not looked at.
Formatted ==
  CASE idx < Len(Probes) -> Store(Probes[idx + 1], 0, Zero)
    [] idx = Len(Probes) -> [card EXCEPT !.header = TRUE]
    [] OTHER -> [card EXCEPT !.dir[idx - Len(Probes)] = Free]

Written ==
  CASE phase = "writeData" -> Store(Frame(idx)[1], Frame(idx)[2], <<op.version, idx>>)
    [] phase = "writeDir" -> [card EXCEPT !.dir[order[idx + 1]] = dir[order[idx + 1]]]
    [] phase = "format" -> Formatted
    [] OTHER -> card

-----------------------------------------------------------------------------
(* Operations.                                                              *)

\* The versions a file may have while an operation is under way.
Accepted(n) ==
  saved[n] \union
    CASE op.kind = "write" /\ op.name = n -> {0, op.version}
      [] op.kind = "delete" /\ op.name = n -> {0}
      [] OTHER -> {}

TornNow ==
  torn \union
    CASE phase \in {"writeData", "writeDir"} /\ op.kind = "write" /\ dirty \intersect Range(chain) # {} -> {op.name}
      [] phase = "format" -> Name
      [] OTHER -> {}

\* begin.
Begin(o) ==
  /\ phase = "idle"
  /\ op' = o
  /\ phase' = IF o.kind = "format" THEN "format" ELSE "header"
  /\ UNCHANGED <<card, real, idx, dir, dirty, chain, order, blocks, result, got, mishaps, saved, torn>>

Look(kind) == Begin([kind |-> kind]) /\ UNCHANGED writes
OnFile(kind, n) == Begin([kind |-> kind, name |-> n]) /\ UNCHANGED writes
Read(n, max) == Begin([kind |-> "read", name |-> n, max |-> max]) /\ UNCHANGED writes
Write(n, size) ==
  /\ writes < MaxWrites /\ writes' = writes + 1
  /\ size < Blocks      \* FileTooLarge otherwise
  /\ Begin([kind |-> "write", name |-> n, size |-> size, version |-> writes + 1])

\* finish, up to the callback.
Finished(why) ==
  /\ phase' = "done" /\ result' = why
  /\ UNCHANGED <<op, idx, dir, dirty, chain, order, blocks>>

Done(kinds) ==
  /\ saved' = IF op.kind \in kinds
              THEN [n \in Name |-> IF op.kind = "format" THEN {0}
                                   ELSE IF n # op.name THEN saved[n]
                                   ELSE IF op.kind = "write" THEN {op.version} ELSE {0}]
              ELSE saved
  /\ torn' = CASE op.kind \notin kinds -> torn [] op.kind = "format" -> {} [] OTHER -> torn \ {op.name}

Steps(p, k) == phase' = p /\ idx' = k

Header ==
  /\ phase = "header"
  /\ IF ~card.header THEN Finished("notFormatted")
     ELSE IF op.kind = "state" THEN Finished("ok")
     ELSE /\ Steps(IF op.kind \in {"write", "free"} THEN "probe" ELSE "readDir", 0)
          /\ UNCHANGED <<op, dir, dirty, chain, order, blocks, result>>
  /\ UNCHANGED <<got, saved, torn>>

Probe ==
  /\ phase = "probe"
  /\ LET b == Probes[idx + 1] IN
     IF Fetch(b, 0) = Copy
     THEN blocks' = b /\ (IF idx + 1 < Len(Probes) THEN Steps("probe", idx + 1) ELSE Steps("readDir", 0))
     ELSE Steps("readDir", 0) /\ UNCHANGED blocks
  /\ UNCHANGED <<op, dir, dirty, chain, order, result, got, saved, torn>>

\* afterReadDir for readFile and readFileInfo.
Seek(b) ==
  IF op.kind = "read" /\ ~Sound(card.dir, b) THEN Finished("badData") /\ UNCHANGED got
  ELSE /\ chain' = Chain(card.dir, b)
       /\ Steps(IF op.kind = "read" THEN "readTitle" ELSE "readInfo", 0)
       /\ UNCHANGED <<op, dir, dirty, order, blocks, result, got>>

\* afterReadDir for deleteFile.
Cut(b) ==
  /\ dir' = Deleted(card.dir, Walk(card.dir, b))
  /\ order' = Chain(card.dir, b)
  /\ Steps("writeDir", 0)
  /\ UNCHANGED <<op, dirty, chain, blocks, result, got>>

\* afterReadDir for writeFile.
Allocate ==
  LET old == UNION {Walk(card.dir, b) : b \in First(card.dir, op.name)}
      d == Deleted(card.dir, old)
      free == Available(d)
  IN IF Len(free) < op.size THEN Finished("outOfSpace") /\ UNCHANGED got
     ELSE /\ dir' = d /\ dirty' = old
          /\ chain' = SubSeq(free, 1, op.size)
          /\ Steps("writeData", 0)
          /\ UNCHANGED <<op, order, blocks, result, got>>

Heads == {b \in Block : card.dir[b].state = "first"}

ReadDir ==
  /\ phase = "readDir"
  /\ \/ op.kind = "free" /\ Finished("ok") /\ got' = <<Cardinality((1 .. blocks - 1) \ InUse(card.dir))>>
     \/ op.kind = "list" /\ Finished("ok") /\ got' = [b \in Heads |-> card.dir[b].name]
     \/ op.kind = "exists" /\ Finished("ok") /\ got' = <<First(card.dir, op.name) # {}>>
     \/ op.kind = "write" /\ Allocate
     \/ /\ op.kind \in {"read", "info", "delete"} /\ First(card.dir, op.name) = {}
        /\ Finished("notFound") /\ UNCHANGED got
     \/ op.kind \in {"read", "info"} /\ \E b \in First(card.dir, op.name) : Seek(b)
     \/ op.kind = "delete" /\ \E b \in First(card.dir, op.name) : Cut(b)
  /\ UNCHANGED <<saved, torn>>

\* Mutant of HeaderFrames: the data is taken to begin with the file.
HeaderFramesNone == 0

\* How many frames come before the data: none if the first one is no title.
HeaderFrames == LET first == Fetch(chain[1], 0) IN IF first # Zero /\ first[2] = 0 THEN 1 ELSE 0

ReadTitle ==
  /\ phase = "readTitle"
  /\ Steps("readData", HeaderFrames)
  /\ UNCHANGED <<op, dir, dirty, chain, order, blocks, result, got, saved, torn>>

ReadData ==
  /\ phase = "readData"
  /\ got' = IF Len(got) < op.max THEN Append(got, Fetch(Frame(idx)[1], Frame(idx)[2])) ELSE got
  /\ IF idx + 1 = Len(chain) * Frames \/ Len(got') >= op.max
     THEN Finished("ok")
     ELSE Steps("readData", idx + 1) /\ UNCHANGED <<op, dir, dirty, chain, order, blocks, result>>
  /\ UNCHANGED <<saved, torn>>

ReadInfo ==
  /\ phase = "readInfo"
  /\ got' = <<Fetch(chain[1], 0)>> /\ Finished("ok")
  /\ UNCHANGED <<saved, torn>>

WriteData ==
  /\ phase = "writeData"
  /\ IF idx + 1 < op.size * Frames
     THEN Steps("writeData", idx + 1) /\ UNCHANGED <<dir, order>>
     ELSE Steps("writeDir", 0) /\ dir' = Entries(dir) /\ order' = CommitOrder
  /\ UNCHANGED <<op, dirty, chain, blocks, result, got, saved, torn>>

WriteDir ==
  /\ phase = "writeDir"
  /\ IF idx + 1 < Len(order)
     THEN Steps("writeDir", idx + 1) /\ UNCHANGED <<op, dir, dirty, chain, order, blocks, result, saved, torn>>
     ELSE Finished("ok") /\ Done({"write", "delete"})
  /\ UNCHANGED got

Format ==
  /\ phase = "format"
  /\ IF idx < Len(Probes) + Blocks - 1
     THEN Steps("format", idx + 1) /\ UNCHANGED <<op, dir, dirty, chain, order, blocks, result, saved, torn>>
     ELSE Finished("ok") /\ Done({"format"})
  /\ UNCHANGED got

\* onSectorDone, after a transfer that went well, and issueOrFinish.
SectorDone ==
  /\ Header \/ Probe \/ ReadDir \/ ReadTitle \/ ReadData \/ ReadInfo \/ WriteData \/ WriteDir \/ Format
  /\ card' = Written
  /\ UNCHANGED <<real, writes, mishaps>>

\* The transfer fails, or the console is switched off.
CutShort ==
  /\ phase \notin {"idle", "done"}
  /\ mishaps < MaxMishaps /\ mishaps' = mishaps + 1
  /\ card' \in {card, Written}
  /\ saved' = [n \in Name |-> Accepted(n)] /\ torn' = TornNow
  /\ Idle
  /\ UNCHANGED <<real, writes>>

\* The callback, or the return of a blocking call.
Return ==
  /\ phase = "done"
  /\ Idle
  /\ UNCHANGED <<card, real, writes, mishaps, saved, torn>>

FilesNext ==
  \/ \E k \in {"state", "free", "list", "format"} : Look(k)
  \/ \E n \in Name :
       \/ \E k \in {"exists", "info", "delete"} : OnFile(k, n)
       \/ \E m \in Lengths : Read(n, m)
       \/ \E s \in Sizes : Write(n, s)
  \/ SectorDone \/ CutShort \/ Return

FilesSpec == FilesInit /\ [][FilesNext]_filesVars

-----------------------------------------------------------------------------
(* Properties.                                                              *)

Corrupt == -1

\* The version of a file that the card holds: its only head, a chain as long as its size, each
\* frame of that version.
Version(n) ==
  LET heads == {b \in Heads : card.dir[b].name = n} IN
  IF heads = {} THEN 0
  ELSE LET b == CHOOSE c \in heads : TRUE
           c == Chain(card.dir, b)
           v == Fetch(b, 0)[1]
       IN IF /\ heads = {b} /\ Sound(card.dir, b) /\ Len(c) = card.dir[b].size
             /\ \A k \in 0 .. Len(c) * Frames - 1 : Fetch(c[k \div Frames + 1], k % Frames) = <<v, k>>
          THEN v ELSE Corrupt

\* Every file is whole, and is what the last call on it left, or what that call was to
\* replace if it was cut short; the one exception is the file that was being replaced in its own
\* blocks, for lack of others (afterReadDir, memory-card-filesystem.cpp:596-644).
FilesIntact ==
  /\ FilesTypeOK
  /\ \A n \in Name \ TornNow : Version(n) \in Accepted(n)

\* "An interrupted write never leaves a referenced but corrupt file"
\* (memory-card-filesystem.hh:226-227): wherever writeFile is, if it is cut short there, the card
\* has the file whole or not at all.
InterruptedWriteLeavesNoCorruptFile ==
  op.kind = "write" /\ phase \in {"writeData", "writeDir"} /\ torn = {} => Version(op.name) # Corrupt

\* What readFile and readFileInfo hand out with success is what was given to writeFile, as
\* much of it as was asked for, and a file is not missed (memory-card-filesystem.cpp:379-411, 548-594).
ReadExact ==
  phase = "done" /\ op.kind \in {"read", "info"} /\ op.name \notin torn /\ card.header =>
    CASE result = "ok" /\ op.kind = "info" -> got = <<<<Version(op.name), 0>>>>
      [] result = "ok" /\ op.kind = "read" ->
           LET held == Len(Chain(card.dir, CHOOSE b \in First(card.dir, op.name) : TRUE)) * Frames - 1 IN
           got = [i \in 1 .. (IF op.max < held THEN op.max ELSE held) |-> <<Version(op.name), i>>]
      [] OTHER -> result = "notFound" /\ Version(op.name) = 0

\* The blocks that getFreeBlockCount promises, measured as writeFile measures them.
Measured ==
  LET same == {i \in DOMAIN Probes : \A j \in 1 .. i : Fetch(Probes[j], 0) = Copy}
  IN IF same = {} THEN Blocks ELSE Probes[Cardinality(same)]

\* Formatting makes a card read as what it is, whatever was on it
\* (memory-card-filesystem.cpp:273-303).
SizeRestored == [][op.kind = "format" /\ phase = "format" /\ phase' = "done" => Measured' = real']_filesVars
=============================================================================
