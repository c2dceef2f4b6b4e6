--------------------------- MODULE OpenbiosCards ---------------------------
(***************************************************************************)
(* The memory cards of openbios: the driver that the vertical blank starts     *)
(* and the controller's interrupt advances (openbios/sio0), and the backup       *)
(* unit above it, whose transfers go on from one sector to the next inside the    *)
(* interrupt (openbios/card).  The two ports take turns on one bus and share      *)
(* g_mcOperation, the status flags of the blocking calls and their events.        *)
(*                                                                                *)
(* The exchanges of the middle of a command are one step, which fails if any of   *)
(* them does.  A sector is its number on the card.  status stands for              *)
(* g_mcOverallSuccess and g_mcErrors.  How a command failed (an error, no answer in  *)
(* time, a new card) makes no difference to what is modelled, and is left out;     *)
(* g_skipErrorOnNewCard could only take outcomes away, and g_mcGotError only keeps  *)
(* the driver from reporting a failure that its handler has reported already.      *)
(***************************************************************************)
EXTENDS Integers, Sequences, FiniteSets

CONSTANTS
  Port,         \* the two ports
  Transfers,    \* <<first sector, number>> of the asynchronous reads and writes of a file
  BlockTransfers,       \* of the blocking ones
  Entries,      \* sectors of the directory (15)
  Brokens,      \* sectors of the list of broken ones (20)
  Broken,       \* that list, -1 where there is none
  BlockSectors, \* sectors in a block (64)
  Chain,        \* the blocks of the file
  Habits        \* what else the program does: see MayCall

ASSUME CardsAssumption ==
  /\ IsFiniteSet(Port) /\ Cardinality(Port) = 2
  /\ Transfers \union BlockTransfers \subseteq Nat \X Nat
  /\ {Entries, Brokens, BlockSectors} \subseteq Nat \ {0}
  /\ Broken \in [1 .. Brokens -> Int]
  /\ Chain \in Seq(0 .. 14) /\ Chain # <<>>
  /\ Habits \subseteq {"overlap", "busy"}

VARIABLES
  flags,        \* g_mcFlags: the command asked for, or none
  request,      \* g_mcHandlers, g_mcSector, g_mcUserBuffers, while they are in use
  operation, inProgress,        \* g_mcOperation, g_mcActionInProgress
  flipping,     \* g_mcPortFlipping
  listening,    \* g_mcHandlerInfo is in the chain, its interrupt unmasked
  synced,       \* the card and the driver agree on which byte is exchanged
  op, state, current,           \* g_buOperation, s_buCurrentState, s_buCurrentSector
  job,          \* g_buOpSectorStart, g_buOpSectorCount, g_buOpBuffer, while they are in use
  status,
  main,         \* the call the main thread is in
  asked, moved, answer  \* of each port: the last call, the sectors moved, EVENT_BU

driver == <<flags, request, operation, inProgress, flipping, listening, synced>>
unit == <<op, state, current, job>>
ghosts == <<asked, moved, answer>>
vars == <<driver, unit, status, main, ghosts>>

Reasons == {"done", "failed"}
Commands == {"read", "write", "info"}
None == [at |-> "idle"]
NoJob == [start |-> 0, count |-> 0, slot |-> 0]

Other(p) == CHOOSE q \in Port : q # p
Free(p) == flags[p] = "free"    \* bit 0 of g_mcFlags

HeadSector == 0
NoRequest == [sector |-> HeadSector, slot |-> 0]
DirSector(i) == HeadSector + i
BrokenSector(i) == Entries + i
SpareSector(i) == Entries + Brokens + i
DataSector(b, s) == Entries + 2 * Brokens + 1 + b * BlockSectors + s
CardSectors == 0 .. DataSector(15, 0) - 1

\* buRelativeToAbsoluteSector: -1 past the end of the chain.
Absolute(s) ==
  IF s \div BlockSectors < Len(Chain)
  THEN DataSector(Chain[s \div BlockSectors + 1], s % BlockSectors)
  ELSE -1

\* Where a sector really is.
Actual(s) ==
  LET spare == {i \in 1 .. Brokens : Broken[i] = s} IN
  IF spare = {} THEN s ELSE SpareSector(CHOOSE i \in spare : \A j \in spare : i <= j)

FileSector(s) == Actual(Absolute(s))

TypeOK ==
  /\ flags \in [Port -> Commands \union {"free"}]
  /\ operation \in 0 .. 4 /\ flipping \in Port
  /\ {inProgress, listening, synced} \subseteq BOOLEAN
  /\ op \in [Port -> {0, 1, 2, 3, 4, 7}] /\ state \in [Port -> 0 .. 3]
  /\ status \subseteq Reasons
  /\ answer \in [Port -> Reasons \union {"none", "busy"}]

Init ==
  /\ flags = [p \in Port |-> "free"]
  /\ request = [p \in Port |-> NoRequest]
  /\ operation = 0 /\ inProgress = FALSE
  /\ flipping \in Port /\ listening = FALSE /\ synced = TRUE
  /\ op = [p \in Port |-> 0] /\ state = op /\ current = op
  /\ job = [p \in Port |-> NoJob]
  /\ status = {} /\ main = None
  /\ asked = [p \in Port |-> <<"none">>]
  /\ moved = [p \in Port |-> <<>>]
  /\ answer = [p \in Port |-> "none"]

-----------------------------------------------------------------------------
(* The backup unit, called in the interrupt by the driver.                  *)

\* buFinishAndTrigger.
Finish(p, why) ==
  /\ op' = [op EXCEPT ![p] = 0]
  /\ state' = [state EXCEPT ![p] = 0]
  /\ current' = [current EXCEPT ![p] = 0]
  /\ job' = [job EXCEPT ![p] = NoJob]
  /\ answer' = [answer EXCEPT ![p] = why]

\* mcReadSector, mcWriteSector and cardInfoInternal where nothing can interrupt.
Issue(p, command, sector, s) ==
  /\ flags' = [flags EXCEPT ![p] = command]
  /\ request' = [request EXCEPT ![p] = [sector |-> sector, slot |-> s]]
  /\ operation' = 0

\* The driver has nothing more to do for a port.
Release(p) ==
  /\ flags' = [flags EXCEPT ![p] = "free"]
  /\ request' = [request EXCEPT ![p] = NoRequest]
  /\ operation' = 0

Failed(p) ==
  /\ status' = (status \ {"done"}) \union {"failed"}
  /\ Finish(p, "failed") /\ Release(p)

Succeeded(p) ==
  /\ status' = status \union {"done"}
  /\ Finish(p, "done") /\ Release(p)

Fetch(p, sector) ==
  /\ Issue(p, "read", sector, 0)
  /\ UNCHANGED <<op, job, answer>>
  /\ status' = status \union {"done"}

\* The part of cases 2 and 3 that goes on to the next sector of the file.
NextSector(p, command) ==
  LET j == job[p]  sector == FileSector(j.start + 1) IN
  IF sector = -1
  THEN Failed(p)
  ELSE /\ Issue(p, command, sector, j.slot + 1)
       /\ job' = [job EXCEPT ![p] = [start |-> j.start + 1, count |-> j.count - 1, slot |-> j.slot + 1]]
       /\ status' = status \union {"done"}
       /\ UNCHANGED <<op, state, current, answer>>

\* Case 4: the header, the directory, the list of broken sectors.
LoadHeader(p) ==
  /\ state[p] = 1
  /\ \/ Fetch(p, DirSector(1)) /\ current' = [current EXCEPT ![p] = 0] /\ state' = [state EXCEPT ![p] = 2]
     \/ Failed(p)      \* the card is not formatted

LoadDirectory(p) ==
  /\ state[p] = 2
  /\ IF current[p] + 1 < Entries
     THEN /\ Fetch(p, DirSector(current[p] + 2))
          /\ current' = [current EXCEPT ![p] = @ + 1] /\ UNCHANGED state
     ELSE /\ Fetch(p, BrokenSector(1))
          /\ current' = [current EXCEPT ![p] = 0] /\ state' = [state EXCEPT ![p] = 3]

LoadBroken(p) ==
  /\ state[p] = 3
  /\ IF current[p] + 1 < Brokens
     THEN /\ Fetch(p, BrokenSector(current[p] + 2))
          /\ current' = [current EXCEPT ![p] = @ + 1] /\ UNCHANGED state
     ELSE Succeeded(p)

\* buLowLevelOpCompleted.
Completed(p) ==
  LET last == job[p].count = 1 IN
  \/ op[p] = 0 /\ status' = status \union {"done"} /\ Release(p) /\ UNCHANGED <<unit, answer>>
  \/ (op[p] \in {1, 7} \/ (op[p] = 2 /\ last)) /\ Succeeded(p)
  \/ op[p] = 2 /\ ~last /\ NextSector(p, "read")
  \/ op[p] = 3 /\ ~last /\ NextSector(p, "write")
  \/ \* The card is asked whether the last write went well.
     /\ op[p] = 3 /\ last
     /\ Issue(p, "info", HeadSector, 0)
     /\ op' = [op EXCEPT ![p] = 7]
     /\ status' = status \ {"done"}
     /\ UNCHANGED <<state, current, job, answer>>
  \/ op[p] = 4 /\ (LoadHeader(p) \/ LoadDirectory(p) \/ LoadBroken(p))

\* buLowLevelOpError1 to 3.
Failure(p) ==
  /\ status' = status \union {"failed"}
  /\ IF op[p] # 0 THEN Finish(p, "failed") ELSE UNCHANGED <<unit, answer>>
  /\ Release(p)
  /\ moved' = [moved EXCEPT ![p] = <<>>]

-----------------------------------------------------------------------------
(* The driver.                                                              *)

Idle == inProgress' = FALSE /\ listening' = FALSE

\* Mutant of Abort: a transfer still going at the next vertical blank is only stopped.
AbortUntold(p) ==
  /\ Idle /\ operation' = 0
  /\ UNCHANGED <<flags, request, flipping, synced, unit, status, ghosts>>

\* firstStageCardAction: the card did not answer in time.
Abort(p) ==
  /\ Idle
  /\ Failure(p)
  /\ UNCHANGED <<flipping, synced, asked>>

\* firstStageCardAction: the other port's turn, if it has something to do.
Turn(p) ==
  /\ flipping' = p
  /\ IF Free(p)
     THEN UNCHANGED <<flags, request, operation, inProgress, listening, synced>>
     ELSE /\ operation' = 1 /\ inProgress' = TRUE /\ listening' = TRUE
          /\ synced' = TRUE /\ UNCHANGED <<flags, request>>
  /\ UNCHANGED <<unit, status, ghosts>>

\* sio0Handler, on the vertical blank.
VBlank ==
  /\ IF inProgress THEN Abort(flipping) ELSE Turn(Other(flipping))
  /\ UNCHANGED main

\* mcHandler, result 1.
Succeeds(p) ==
  /\ Idle
  /\ moved' = IF flags[p] = "info" THEN moved ELSE [moved EXCEPT ![p] = Append(@, request[p])]
  /\ Completed(p)

\* mcHandler, result -1, and the failures that the handlers report themselves.
Fails(p) == Idle /\ Failure(p)

\* The steps of mcReadHandler, mcWriteHandler and mcInfoHandler, with the result 0.
Advance ==
  /\ operation' = operation + 1 /\ inProgress' = TRUE
  /\ UNCHANGED <<flags, request, listening, unit, status, moved, answer>>

Flag == operation = 2 /\ (Advance \/ Fails(flipping))

Middle ==
  /\ operation = 3 /\ flags[flipping] # "info"
  /\ \/ synced /\ Advance
     \/ Fails(flipping)

Conclude ==
  /\ operation = IF flags[flipping] = "info" THEN 3 ELSE 4
  /\ \/ synced /\ Succeeds(flipping)
     \/ Fails(flipping)

\* mcHandler, on the controller's interrupt.
Interrupt ==
  /\ listening
  /\ (operation <= 1 /\ Advance) \/ Flag \/ Middle \/ Conclude
  /\ UNCHANGED <<main, flipping, synced, asked>>

-----------------------------------------------------------------------------
(* The main thread.                                                         *)

\* A blocking call uses the one set of status flags: a careful program keeps the
\* other port idle, and leaves a port alone while its unit is busy.
Quiet(p) == Free(p) /\ op[p] = 0
MayCall(p, blocking) ==
  /\ main = None
  /\ "busy" \in Habits \/ op[p] = 0
  /\ "overlap" \in Habits \/ ~blocking \/ (Quiet(p) /\ Quiet(Other(p)))

\* A call of the low level; the fields from left on are those of the blocking calls.
Call(p, kind, sector, call) ==
  [at |-> "claim", port |-> p, kind |-> kind, sector |-> sector, slot |-> 0, call |-> call,
   blocking |-> FALSE, owed |-> answer[p] = "busy", left |-> 0, next |-> 0, more |-> 0]

Asks(p, call) ==
  /\ asked' = [asked EXCEPT ![p] = call]
  /\ moved' = [moved EXCEPT ![p] = <<>>]
  /\ answer' = [answer EXCEPT ![p] = "busy"]

\* dev_bu_read and dev_bu_write of a file open with PSXF_ASYNC.
Transfer(p, kind, t) ==
  /\ MayCall(p, FALSE) /\ op[p] = 0
  /\ asked' = [asked EXCEPT ![p] = <<kind, t>>]
  /\ moved' = [moved EXCEPT ![p] = <<>>]
  /\ IF t[2] = 0
     THEN Finish(p, "done") /\ status' = {"done"} /\ UNCHANGED main
     ELSE /\ op' = [op EXCEPT ![p] = IF kind = "read" THEN 2 ELSE 3]
          /\ job' = [job EXCEPT ![p] = [start |-> t[1], count |-> t[2], slot |-> 0]]
          /\ answer' = [answer EXCEPT ![p] = "busy"]
          /\ status' = {}
          /\ main' = Call(p, kind, FileSector(t[1]), "unit")
          /\ UNCHANGED <<state, current>>
  /\ UNCHANGED driver

\* buReadTOC.
ReadToc(p) ==
  /\ MayCall(p, FALSE)
  /\ Asks(p, <<"toc">>)
  /\ op' = [op EXCEPT ![p] = 4]
  /\ main' = Call(p, "read", HeadSector, "toc")
  /\ UNCHANGED <<driver, status, state, current, job>>

\* cardInfo.
CardInfo(p) ==
  /\ MayCall(p, FALSE)
  /\ Asks(p, <<"info">>)
  /\ op' = [op EXCEPT ![p] = 1]
  /\ main' = Call(p, "info", HeadSector, "info")
  /\ UNCHANGED <<driver, status, state, current, job>>

\* How far dev_bu_read and dev_bu_write go in one loop of a blocking call.
Limit(s) == BlockSectors - (IF s % BlockSectors = 0 THEN 0 ELSE (s % BlockSectors) - BlockSectors)

Stretch(c, kind, s, n) ==
  LET len == IF n > Limit(s) THEN Limit(s) ELSE n IN
  [c EXCEPT !.at = "claim", !.blocking = TRUE, !.kind = kind, !.sector = Absolute(s), !.left = len, !.next = s + len, !.more = n - len]

\* dev_bu_read and dev_bu_write of a file open without PSXF_ASYNC.
Block(p, kind, t) ==
  /\ MayCall(p, TRUE) /\ op[p] = 0 /\ t[2] > 0
  /\ asked' = [asked EXCEPT ![p] = <<"none">>]
  /\ moved' = [moved EXCEPT ![p] = <<>>]
  /\ answer' = [answer EXCEPT ![p] = "none"]
  /\ status' = {}
  /\ main' = Stretch(Call(p, kind, HeadSector, <<kind, t>>), kind, t[1], t[2])
  /\ UNCHANGED <<driver, unit>>

\* Where the unit is freed again if the driver refuses: cardInfo and buReadTOC.
Resets == main.kind = "info" \/ (~main.blocking /\ main.call = "toc")

\* Mutant of Claim: the flags are set with the rest.
ClaimFlagsFirst ==
  /\ main # None /\ main.at = "claim" /\ Free(main.port)
  /\ operation' = 0 /\ synced' = (synced /\ ~inProgress)
  /\ flags' = [flags EXCEPT ![main.port] = main.kind]
  /\ main' = [main EXCEPT !.at = "arm"]
  /\ UNCHANGED <<request, inProgress, flipping, listening, unit, status, ghosts>>

\* mcReadSector, mcWriteSector and cardInfoInternal up to the flags.
Claim ==
  /\ main # None /\ main.at = "claim"
  /\ LET p == main.port
         sector == IF main.blocking THEN Actual(main.sector) ELSE main.sector IN
     IF Free(p) /\ sector >= 0
     THEN /\ operation' = 0 /\ synced' = (synced /\ ~inProgress)
          /\ request' = [request EXCEPT ![p] = [sector |-> sector, slot |-> main.slot]]
          /\ main' = [main EXCEPT !.at = "arm"]
          /\ UNCHANGED <<op, answer>>
     ELSE \* They return 0: an asynchronous transfer leaves the unit as it is.
          /\ op' = IF Resets THEN [op EXCEPT ![p] = 0] ELSE op
          /\ answer' = IF Resets THEN [answer EXCEPT ![p] = IF main.owed THEN "busy" ELSE "none"] ELSE answer
          /\ main' = None
          /\ UNCHANGED <<operation, synced, request>>
  /\ UNCHANGED <<flags, inProgress, flipping, listening, asked, moved>>
  /\ UNCHANGED <<state, current, job, status>>

\* The flags come last; buReadTOC sets its state after them, in less time than a byte
\* takes to be exchanged.
Arm ==
  /\ main # None /\ main.at = "arm"
  /\ flags' = [flags EXCEPT ![main.port] = main.kind]
  /\ state' = IF ~main.blocking /\ main.call = "toc" THEN [state EXCEPT ![main.port] = 1] ELSE state
  /\ main' = IF main.blocking THEN [main EXCEPT !.at = "wait"] ELSE None
  /\ UNCHANGED <<request, operation, inProgress, flipping, listening, synced>>
  /\ UNCHANGED <<op, current, job, status, ghosts>>

\* buReadBuffer and buWriteBuffer after a sector.
SameStretch ==
  /\ main.left > 1
  /\ main' = [main EXCEPT !.at = "claim", !.left = @ - 1, !.sector = @ + 1, !.slot = @ + 1]
  /\ UNCHANGED <<op, asked, answer>>

\* buWriteBuffer after its last sector.
AskCard ==
  /\ main.left = 1 /\ main.kind = "write"
  /\ main' = [main EXCEPT !.at = "claim", !.kind = "info", !.sector = HeadSector, !.slot = @ + 1, !.left = 0]
  /\ op' = [op EXCEPT ![main.port] = 1]
  /\ answer' = [answer EXCEPT ![main.port] = "busy"]
  /\ UNCHANGED asked

\* The loop of dev_bu_read and dev_bu_write.
NextStretch ==
  /\ main.left = 0 \/ (main.left = 1 /\ main.kind = "read")
  /\ IF main.more > 0
     THEN /\ main' = Stretch([main EXCEPT !.slot = IF main.kind = "read" THEN @ + 1 ELSE @], main.call[1], main.next, main.more)
          /\ UNCHANGED <<asked, answer>>
     ELSE /\ main' = None
          /\ asked' = [asked EXCEPT ![main.port] = main.call]
          /\ answer' = [answer EXCEPT ![main.port] = "done"]
  /\ UNCHANGED op

\* mcWaitForStatusAndReturnIndex: success is looked at first.
Wait ==
  /\ main # None /\ main.at = "wait" /\ status # {}
  /\ status' = {}
  /\ IF "done" \in status
     THEN SameStretch \/ AskCard \/ NextStretch
     ELSE main' = None /\ UNCHANGED <<op, asked, answer>>
  /\ UNCHANGED <<driver, state, current, job, moved>>

Next ==
  \/ VBlank \/ Interrupt \/ Claim \/ Arm \/ Wait
  \/ \E p \in Port :
       \/ ReadToc(p) \/ CardInfo(p)
       \/ \E k \in {"read", "write"} :
            \/ \E t \in Transfers : Transfer(p, k, t)
            \/ \E t \in BlockTransfers : Block(p, k, t)

Spec == Init /\ [][Next]_vars

\* The vertical blank does not stop; calls return once what they wait for is there.
Fairness == WF_vars(VBlank) /\ WF_vars(Claim \/ Arm \/ Wait)
FairSpec == Spec /\ Fairness

-----------------------------------------------------------------------------
(* Properties.                                                              *)

\* Where the sectors of the file are, and where a transfer is to move them.
Place(s) ==
  CHOOSE d \in CardSectors : \E b \in DOMAIN Chain, k \in 0 .. BlockSectors - 1 :
    s = (b - 1) * BlockSectors + k /\ d = Actual(DataSector(Chain[b], k))
Expected(t) ==
  IF t[1] + t[2] <= Len(Chain) * BlockSectors
  THEN [i \in 1 .. t[2] |-> [sector |-> Place(t[1] + i - 1), slot |-> i - 1]]
  ELSE <<>>     \* past the end of the file
TocSectors ==
  [i \in 1 .. 1 + Entries + Brokens |-> [sector |-> i - 1, slot |-> 0]]

\* Outside the calls of its port, a unit is busy exactly when an answer is owed, and then
\* a command is asked of the driver, the one the bus serves if it serves any: otherwise
\* nothing would ever free the unit, or an interrupt would find the handler of a command
\* that was answered (backupunit.c:291-305, driver.c:465-513).
UnitHasCommand ==
  /\ TypeOK
  /\ \A p \in Port :
       /\ op[p] # 0 <=> answer[p] = "busy"
       /\ op[p] # 0 => ~Free(p) \/ (main # None /\ main.port = p)
  /\ inProgress => listening /\ ~Free(flipping)

\* A transfer that is answered by success, by EVENT_BU (backupunit.c:307-477) or by the
\* value of a blocking call (device.c:297-364), has moved each sector of the file once, in
\* order, to its own place in the buffer, whatever the other port did meanwhile; a
\* table of contents that is answered so has been read whole.
TransfersExact ==
  /\ UnitHasCommand
  /\ \A p \in Port : answer[p] = "done" =>
       /\ asked[p][1] \in {"read", "write"} => moved[p] = Expected(asked[p][2])
       /\ asked[p][1] = "toc" => moved[p] = TocSectors

\* What is asked of a unit is answered, even by a card that is pulled, and a blocking call
\* returns (driver.c:300-338, card.c:59-92).
Answered ==
  /\ \A p \in Port : op[p] # 0 ~> op[p] = 0
  /\ main # None ~> main = None
=============================================================================
