# A verification project for nugget

nugget is the bare-metal software of the PlayStation (PSX) in PCSX-Redux: `psyqo`, a C++ framework
for games; `openbios`, a replacement of the console's BIOS; `monitor`, a debug monitor; and the libc,
decoders and players they share. There is one processor and no operating system. What makes the code
hard is what interrupts it: handlers that run between any two instructions of the main thread, DMA,
CD-ROM and serial controllers that run on their own, callbacks that call back into what called them,
and cards that can be pulled and consoles that can be switched off at any moment.

This directory holds TLA+ modules that model the core of `psyqo`, its memory cards, the memory cards
of `openbios`, the monitor's transport and the shared heap, the TLC configurations that check them on
small instances, and proofs that TLAPS checks for every instance.

## 1. Inventory

### The parts modelled

| Component | State it keeps | Operations | Interacts with | What makes it correct |
|---|---|---|---|---|
| Deferred callbacks, `psyqo/src/kernel.cpp` 403-443 | `s_flag`, the ring `s_callbacks`; the count of each activation of the pump | `queueCallback`, `queueCallbackFromISR`, `pumpCallbacks` | every driver (queues), the frame loop and every blocking call (pumps), callbacks (both) | no entry waits behind a clear flag; entries start in order, once; the pump ends; no entry waits for ever |
| DMA dispatch and slots, `kernel.cpp` 213-233, 266-327 | DICR, the latched bit of I_STAT, the pass counter; `s_dmaCallbacks` | `dmaIRQ`, `dmaIRQOnce`, `registerDmaEvent`, `unregisterDmaEvent` | the DMA controller; the callbacks of the GPU, which start the next transfer; drivers | each completion is called once, by the functions of its channel; bit 31 is never left high with its edge consumed |
| Task queues, `psyqo/task.hh`, `src/task.cpp` | index, running, parent, the two handlers; the C stack of completions | `startWith`, `then`, `butCatch`, `finally`, `run`, `schedule`, `resolve`, `reject` | tasks of any driver; a queue may be a task of another | a parent waits for its child; a rejection cascades; `finally` is called once |
| GPU transfers, `psyqo/src/gpu.cpp` 180-340, 397-580 | the chain being built, the chain under way, the ordering tables of two parities, the pending callback | `chain`, `sendChain`, `sendFragment`, `uploadToVRAM`, `flip`, the interrupt handlers | DMA controller, DMA dispatch, kernel callbacks, the frame loop | all that was chained is sent, in order, once, by an engine that can; tables are cleared afterwards and never before; frames go on |
| GPU clock and timers, `gpu.cpp` 597-691 | the 16-bit counter last read, the clock, the list of timers | `armTimer`, `armPeriodicTimer`, `changeTimerPeriod`, `pauseTimer`, `resumeTimer`, `cancelTimer`, `pumpCallbacks` | callbacks of timers, which do any of these | the clock loses no scanline; timers are called when due, single-use ones once; no erased node is used |
| CD-ROM driver, `psyqo/src/cdrom-device*.cpp` | the action and its state, the callback, success, blocking; the pending location; the track counters, the size and the caller's buffer of a table of contents | the `reset`, `test`, `getTN`, `readSectors`, `playCDDA*` starts, `pauseCDDA`, `stopCDDA`, `getPlaybackLocation`, `irq`; `getTOCSize`, `readTOC`, `scheduleReadTOC` | the drive, which may fail any command and speaks BCD; the kernel's callbacks; blocking calls that poll | replies meet the state that waits for them; a read stores exactly what was asked; the table is the disc's, within the buffer; callbacks are called as documented; everything ends |
| Card sectors, `psyqo/src/memory-card.cpp` | `m_action`, the step, the result; the stamp of the last deselect; the two callbacks and the attempts | `readSector`, `writeSector`, their blocking variants, `irq`, `finishTransfer`, the watchdog | the controller's interrupt; the line counter; the kernel's callbacks | no card is selected before it recovered; retries are spent before a failure is told; no callback is lost; operations end |
| Card file system, `psyqo/src/memory-card-filesystem.cpp` | the phase of its machine, `m_dir`, `m_dirty`, `m_chain`, `m_writeOrder`, `m_cardBlocks` | `getCardState`, `format`, `getFreeBlockCount`, `listFiles`, `fileExists`, `readFile`, `readFileInfo`, `writeFile`, `deleteFile`, the size probe | the sector driver, one callback a sector; cards whose addresses wrap | a file is whole or absent wherever power fails; reads hand out what was written; the size is the card's |
| openbios cards, `openbios/sio0/`, `openbios/card/` | `g_mcFlags`, `g_mcOperation`, `g_mcPortFlipping`, the handler in the chain; `g_buOperation` and its progress for each port | the vertical blank, the card interrupt, `buRead`, `buWrite`, the table of contents, the questions, the blocking calls of the device | two ports on one bus; the events the main thread waits for | an answer of success moved each sector once; whatever is asked is answered |
| openbios directory, `openbios/card/backupunit.c`, `device.c` | the entries in memory, those on the card | open with creation, erase, rename, format, `buInit` | the backup unit, sector by sector; resets | no block is of two files; what was reported done survives; other files are left alone |
| Monitor, `monitor/monitor.c`, `transport.c`, `lz4stream.c` | halted or running, the context, `memWritten`, the LZ4 stream, the rate | framing, memory loading, raw and LZ4, RUN, CONT, STOP, SET_BAUD with its two windows | a host that keeps to `PROTOCOL.md` over a line that loses and damages; the target and its instruction cache | an acknowledged program is in memory; no stale code runs; the two ends agree on the rate; a host that lost the monitor finds it |
| Heap, `common/libc/alloc.c` | the list of empty blocks; the header of each allocated one | `libc_malloc`, `libc_free`, `libc_realloc` | everyone, the main thread only | blocks tile the heap; what `alloc.h` promises; empty blocks are merged |

### What is hard to test here

`PROJECT.json` "hazards" has each at its line. By kind:

- **Interleaving**: an interrupt between the test of `s_flag` and the critical section; a channel that
  finishes between the read of DICR and its acknowledgement; the end of a track, the reply to a pause
  and the reply to a location crossing in any order; two ports that ask while the other transfers.
- **Re-entrance**: a callback that pumps, a timer that cancels timers, a task that completes while
  it is being started, a handler of a queue that runs a queue.
- **Stale state**: the node of a timer while its callback runs; the scanline counter read before the
  callbacks and written after; the parity by which tables are cleared; handlers moved to the stack;
  an instruction cache that holds what a rejected frame overwrote; the measured size of a card.
- **Limits**: the ring of 32, sixteen passes of the DMA handler, four DMA slots, the 16-bit counter,
  BCD track numbers, the byte that keeps the size of a scheduled read, the list of broken sectors.
- **Partial failure and power loss**: any CD-ROM command may fail, whatever else is under way;
  `realloc` may fail; a card may be pulled, and the console switched off, between any two sectors.
- **Unreliable delivery**: a frame, a slice or an answer of the monitor is lost or damaged, at one
  rate or at two.
- **Timeouts**: the watchdog of a transfer against a late acknowledge; the vertical blank that stops
  a transfer; windows that close on a host that is still trying.
- **Liveness**: `flip` waits for a status only a handler sets; blocking calls poll with the interrupt
  masked; callbacks that queue themselves; timers that arm timers; questions nobody answers.

## 2. Modules and their correspondence to the code

`PROJECT.json` "map" gives the source lines of every definition. Definitions keep the names of the
code where TLA+ allows. Next to an operation stand its *mutants* (`PushGrowing`, `AckEverything`, ...):
the same operation with a plausible bug, which nothing uses in the specification; each property is
known to fail on the mutant that `PROJECT.json` "mutants" pairs it with.

### KernelCallbacks, refined to CallbackQueue

`flag` and `queue` are `s_flag` and the ring; `depth`, `count` and `active` are the activations of
`pumpCallbacks` on the C stack with their locals. With one processor an interrupt runs between any two
steps of the main thread and never in a critical section, so `QueueCallbackFromISR` is enabled in
every state and a critical section is one step; the test of `s_flag` (`PumpCall`) and the critical
section after it (`PumpEnter`) are two. A full ring loses its oldest entry, as EASTL's does.
`CallbackQueue` is what the users rely on: entries start in order, once, and never while the code a
callback called into still runs; only a full queue loses one.

### DmaInterrupt, composed with the table of callbacks in DmaEvents

`DmaInterrupt` has one action for each register access of `dmaIRQ` and `dmaIRQOnce` (`Test`,
`ReadDicr`, `AckDicr`), one for each callback (`Call`), and `Complete`, the controller finishing a
channel, at any moment in between. `owed` is a history variable: the completions without a callback.
`DmaEvents` EXTENDS it with what `Call` looks up: `table` is `s_dmaCallbacks`, whose rows are laid out
one after the other, so that the slot after the last of a channel is the first of the next; it has a row
for each of the seven channels of the console, and an address past the last row is none of its slots.
Functions are registered and unregistered on the main thread; a call walks the row slot by slot.

### TaskQueue

`resolve` and `reject` call `runNext` or `runCatch`, which call handlers, which may run queues and
complete tasks. `stack` is the C stack of these calls; a frame is a function at the point where it
was left. Actions are the straight-line pieces between two calls. `wanted`, `fresh`, `finals` and `ended`
are history: the handler asked for, whether it was set since the last run, its calls in this run, and how the
last run ended. Queues may be embedded at any number of levels: a run starts only when everything `Under` its
queue is idle. A queue may be run again once it no longer runs (`m_running`), so also from its own handlers,
which are called after that was cleared; as it is, or with new handlers, unless a rejection has moved its
finally handler out and nobody set another (`Ready`, which `Reuse` lifts).

### GpuChain

The chain being built (`head`, `tail`, `header`), the interrupt handlers' cursor (`next`, `nextOver`),
the tables by parity (`otcs`), the status `flip` waits for, and the engine: `normal` for a block,
`linked` for a walk that the controller makes by itself, stopping on a marked link. `recorded`,
`sending` and `sent` are history. Sizes are real: the header has eight bits, nodes over 255 words are
stored in units of 16, the FIFO takes 14 words; `Chainable` has the asserts of `chain` about them. A table
is one node here and its clearing one DMA.

### GpuTimers

Time is in scanlines; `real` is the truth and `now` the clock of the code, `last` the 16-bit member.
An activation of `pumpCallbacks` is a record in `pump`; between its steps application code runs and
may do everything the interface offers. The walk over the list may meet any of the due timers next; a node
is erased by its place. `broken` records the use of an iterator to an erased node.

### CDRomDevice and CDRomToc, composed in CDRomDriver

`Replies` is the union of the switches in the `acknowledge` and `complete` functions of the actions, a set
of rows: in which state (`key`), to which state (`to`), with which command (`send`). `Irq` is one pass of
`irq()`, for one cause. The drive is external: it answers commands in order, may fail any and then does
nothing more by itself, ends a track at any time and delivers sectors until its pause is complete. `queue` is
what the driver has put in the kernel's callback queue. `overlapped` is history: two commands, or a command and the end of an action, were
under way at once. `CDRomToc` has the data of the table of contents, which `CDRomDevice` leaves out: BCD,
indices and sizes. `CDRomDriver` gives both to one drive: reading the table is an action too, and starts
only where the assert of `cdrom-device.cpp` 61 allows.

### MemoryCard

The sector driver. A transfer is `Last` interrupts; what distinguishes its bytes is left out. `stamped`,
`phase` and `since` are the stamp of `stampDeselect`: whether it was taken, where in a frame, and the
lines since, from which `Recovered` reads the frame counter and the line counter that wraps, as
`recovered` does. `gap` is the truth: the lines since the bus was left. A blocking call is the main
thread going from `recover` to `ack` to `watch`; `abort` is the watchdog between the deselect and the
mask of the interrupt. A callback variant queues itself with the kernel until the window is over
(`Recheck`), and its result as well (`AttemptDone`). The card is external: it acknowledges, falls
silent, or answers what ends the transfer.

### MemoryCardFiles

The file system, one action for each phase of its machine: from one sector to the next, with what the
callback of each does. A frame of data is the version of a file it belongs to and its place in it, so
that a file mixed from two writes is told from a whole one. `card` is what is on it, `real` the blocks
it has, whatever it says; `CutShort` ends the operation at any sector, that one
written or not. `saved` has the versions a name may have after the calls made so far; `torn` the files
replaced in their own blocks when cut short.

### OpenbiosCards and CardDirectory

`OpenbiosCards` is the driver that the vertical blank starts and the interrupt advances, and the
backup unit above it. `flags`, `request`, `operation` and `flipping` are what the two ports share;
`op`, `state` and `job` the transfer of each. The middle of a command is one step. `asked`, `moved`
and `answer` are history. The blocking calls are three steps of the main thread (`Claim`, `Arm`,
`Wait`), since interrupts fall between them. `CardDirectory` has what these transfers write when the
directory changes: `dir` in memory, `card` on the card, `call` the sectors a call has yet to write, in
the order of the code, the first block of a file last. A reset forgets `dir`; `Read` is `buInit` with
`buValidateEntryAndCorrect`, a fold over the entries.

### Monitor

The line carries units: a head, pieces of payload, a checksum, zeros, noise. `wire` is what is on its
way to the monitor, `up` its answers. `Drop` is the hunt for a frame, `StreamWriteMem` and
`StreamWriteMemLz4` store as the bytes come and judge the checksum afterwards, `Resume` flushes the
instruction cache if memory was written, `SetBaud`, `Window` and `Expire` are the two windows of a
change of rate, `Interrupt` the poll for a STOP while the target runs. The host is external and does
what `PROTOCOL.md` tells it to: one command at a time, a load from the start after any failure, zeros
and a PING when it is lost. `line` says what ails the line besides: one side is deaf at the new rate, or it
`garbles`. Any line may lose a unit, or damage it (`Damage`): another LEN, noise in the place of any unit but
the checksum of a STOP. On a line that garbles that one is damaged too, and a TYPE becomes another: `Retyped`
has a command that waits for its checksum, `set` or `regs` for all of them, and those that store before it has
come, `write` and `slice`.

### HeapAlloc, refined to PosixHeap

The list of empty blocks is a sequence in the order of addresses, in units of one header. `PosixHeap`
is what `alloc.h` promises, by pointers and bytes: blocks do not overlap, `realloc` to less stays in
place and does not fail, a failure leaves all as it was.

## 3. Runs

Every run checks its module's type invariant, as a conjunct of the property the table names first
(of `IInv` in `kernel_callbacks`, of `TransfersExact` through `UnitHasCommand`, and so on). Some properties are
conjunctions of parts that have names of their own: `CallbackProtocol` contains `ReadExact`, `TablesCleared`
contains `ClearedAfterSending`, `StaysCoalesced` contains `Tiles`, `Ends` contains `RetriesSpent`,
`TransfersExact` contains `UnitHasCommand`, `RatesAgree` contains `RepliesMatch` and `ResyncWorks`,
`OneTransfer` contains `ControllerFits`.

| Run | Instance | What it shows |
|---|---|---|
| `kernel_callbacks` | 2 callbacks, ring of 3, 3 nested pumps | `IInv`: the flag covers the queue. `NoLostWakeup`. `NoStarvation`: the oldest entry leaves the ring although others keep queueing themselves, and every pump ends. `ImplementsQueue`: the ring is a `CallbackQueue` |
| `dma_interrupt` (`MCDmaEvents`) | 3 channels, 5 passes; one callback restarts its own channel or another; 2 functions, rows of 2, 4 slots searched | `CompletionsAccounted`: a completion is flagged or about to be called, never both or neither. `CalledForOwnChannel`: it calls each function of its channel once and no other, holes in the row included. `Delivered`: completions are called in the end, so that bit 31 is never left high with its edge consumed |
| `task_queue` | three queues: one embedded between two tasks of another, and one in the embedded one; stack of 3 runs | `ParentWaits`, `FinallyOnce`, `RunEnds`. `RejectionCascades`: who waits for a queue hears of its end when it ends, and how it ended; what resolved had all it scheduled resolve |
| `gpu_chain` | two tables, a fragment of 15 words, one of 320; any order over successive frames, transfers by hand in between | `SentAsChained`: sent is what was chained, in order, once, and all before tables are cleared. `TablesCleared`: afterwards, never before, all. `OneTransfer`: the assert is not reached, and each engine can do what it is given. `FramesGoOn` |
| `gpu_timers` | 2 timers, a counter modulo 3, delays 1 and 2, time to 4 | `ClockTracks` across wraps, `SingleUseOnce`, `OverdueCalled`: overdue timers are called and pumps end |
| `cdrom_driver` | all actions, reads of 1 and 2 sectors, at most 2 unanswered commands; discs of 2 and 12 tracks, six buffer sizes | `FieldsAgree`, `CallbackProtocol`, `ActionEnds`; `NoAbort`: an assert is reached only where commands overlapped; `TocComplete` for the tables that are read |
| `heap` | 8 units, 5 sizes | `ImplementsPosix`, `StaysCoalesced`: the blocks tile the heap, and only one kind of `realloc` leaves touching empty blocks |
| `openbios_cards` | 2 ports; a file of two blocks of two sectors, out of order on the card, one sector reallocated | `TransfersExact`, `Answered` |
| `card_directory` | 4 blocks, 2 names, files of 1 to 3 blocks, two mishaps | `FilesSound`, `ListingTrue`, `OthersKept` |
| `memory_card` | transfers of 4 steps, a window of 2 lines, frames of 2, a counter modulo 7 | `TrueData`, `Driven`, `Ends` |
| `memory_card_files` | cards of 4 and 8 blocks of 2 frames, 2 names, files of 1 and 2 blocks, 3 writes, one operation cut short | `FilesIntact`, `ReadExact`, `SizeRestored` |
| `monitor` | a program of 2 slices, a FIFO of one unit, two mishaps; a good line, one with either side deaf at the new rate, one that garbles | `FreshCode` and `Regained` on all of them; `LoadedExact` and `RatesAgree` on all but the last |

### Bounds, and why they are enough

- `kernel_callbacks`: the ring must overflow, hold another entry besides the one that is lost, and be
  popped by two nested pumps under a third. Theorems cover every other size.
- `dma_interrupt`: with three channels one finishes before, between and after the two register
  accesses while another's callback restarts it. Five passes suffice for one restarting channel;
  sixteen are in the code. With two restarting channels the number of passes needed depends on how
  fast they transfer, and `Delivered` is not claimed. Two functions leave a hole in a row of two
  when the first goes; four slots searched are more than a row has, as sixteen are more than four.
- `task_queue`: a task before and after the embedded queue, and one inside that is not the last, are the
  positions `runNext` distinguishes. Three levels have a queue that is both a parent and a child. Depth 3
  has a handler that runs a queue whose handler runs one. A queue that embeds itself is not legal.
- `gpu_chain`: the sizes are on both sides of the threshold (14) and of the eight-bit count (255);
  two tables make one be cleared after the other; frames follow one another without bound.
- `gpu_timers`: a modulus of 3 makes the counter wrap within the run, in one pump and between two;
  `MaxTime` 4 lets a periodic timer miss a deadline and catch up. `Tick` assumes that the program
  pumps once in each turn of the counter, 65536 scanlines or four seconds in the code. `MaxDepth` 1
  leaves out callbacks that pump (see section 5).
- `cdrom_driver`: two sectors have a first that is not the last; two unanswered commands are a pause
  and a location. 12 is past the first number of tracks whose BCD differs; the sizes cut each
  table short, by more than one, or not at all, and 120 exceeds 99 tracks. Deadlock is not checked: an
  abort is an end.
- `heap`: eight units hold four blocks with empty ones between them; sizes are 0, one byte over a
  header, and exact multiples. All positions of a block relative to the head occur.
- `openbios_cards`: the asynchronous transfers cross from one block to the other and include the empty
  one; the blocking ones cross as well and start in the last block. The list of broken sectors has one
  entry in use and one that is not.
- `card_directory`: a file of three blocks has a first, an inner and a last; four blocks leave room for
  a file between the parts of another. Two mishaps are a call cut short and the one that repairs it cut
  short as well. A creation that fails counts for two: see the divergence in section 5.
- `memory_card`: four steps are a first, two in the middle and a last. The window is shorter than the
  counter and as long as a frame, the counter longer than three frames, as in the code, so that either
  reading of the time may be the one that ends the wait. Lines are counted up to a wrap and a window. Deadlock
  is not checked: a callback variant whose card falls silent really stops.
- `memory_card_files`: the larger card answers at both probes or at one; two frames a block are a title and
  data; three writes replace a file and fill the card, so that a file is replaced in its own blocks.
- `monitor`: two slices are a first, which opens the stream, and a last, which ends it; three pass too, on the
  lines that do not garble, and the theorems cover every number. Two mishaps lose an answer and damage
  what is sent because of it. A FIFO of one unit keeps the head of a frame and drops the rest.

### Fairness

Never is anyone obliged to queue a callback, start a transfer, arm a timer, run a queue or send a command.

- The frame loop (`application.cpp` 53-59) pumps for ever: weak fairness of a pump with nothing on the
  stack, and of each step of the pump. Callbacks return after pumping any finite number of times:
  strong fairness of the return at each level (`KernelCallbacks`), of `EndFrame` (`GpuChain`).
- Interrupts are taken when they are pending, since nothing masks them for ever: weak fairness of the
  handlers (`Dispatch` in `DmaEvents`, `Interrupt` in `MemoryCard` and `Monitor`).
- Hardware finishes what it was given: weak fairness of the DMA controller, the vertical blank, the
  counters of scanlines and lines, and sectors. The drive interleaves sectors and answers, so its
  answers are *strongly* fair: they are enabled again and again, not always.
- Tasks complete (`TaskQueue`): the contract of whoever starts them.
- Memory cards are not obliged to anything once they fell silent: `MemoryCard` makes an acknowledge
  fair only of a card that has not, and `OpenbiosCards` has no fairness of the card at all. There the
  vertical blank and the main thread (`Claim`, `Arm`, `Wait`) suffice: it is the blank that stops a
  transfer left hanging.
- The monitor polls its link and counts its windows in polls, so that its steps and the end of a window
  are fair; the host reads, gives up waiting and resynchronises, and nothing else it does is fair.
  Losses need no fairness: there are at most `Mishaps` of them.

## 4. Proofs

Eight modules hold the theorems: `PsyqoProofs` (of `KernelCallbacks`, `DmaInterrupt`, `DmaEvents` and
`MemoryCardFiles`),
`TaskQueueProofs`, `GpuProofs` (of `GpuChain` and `GpuTimers`), `CDRomDriverProofs`, `MemoryCardProofs`,
`OpenbiosCardsProofs`, `HeapAllocProofs` and `MonitorProofs`. They hold for every value of the constants under the
named assumptions of the modules, which only give the constants their kinds and the limits of the code:
`NoCallback` is not a callback, the ring and the nesting are positive; channels are numbered 0 to 6, so that
bit 31 is none of them, and there is at least one pass; the fragments have the sizes that `chain` asserts;
the counters go round; a disc has at most 99 tracks; the window is positive and no longer than a frame, and
three frames are less than a turn of the line counter; openbios has two ports, and a file has
blocks with numbers from 0 to 14; the heap has at least one unit, and a unit at least
one byte; a program has at least two slices, and the monitor's link keeps at least one unit. Some theorems have a hypothesis besides, about what the application
or the line does. A row of section 5 shows what happens without it, except `OneParent` and `OnePlace`: a task has room for one parent (`m_parent`), and
a queue in two places runs twice as it is, as with `Reuse`.

| Theorem | Property | Hypothesis |
|---|---|---|
| `PsyqoProofs!Invariance`, `WakeupKept`, `Refinement` | `IInv`, `NoLostWakeup`, the safety of `ImplementsQueue` | |
| `PsyqoProofs!EventsAccounted`, `EventsImplement` | `CompletionsAccounted`, `DmaInterrupt` | |
| `PsyqoProofs!OwnChannel`, `FewFunctions` | `CalledForOwnChannel` | `[]RowsFit`, or no more functions than a row has slots |
| `TaskQueueProofs!NeverOrphaned`, `Cascades` | `ParentWaits`, `RejectionCascades` | `OneParent`: no queue is scheduled by two |
| `TaskQueueProofs!HandlersCalledOnce` | `FinallyOnce` | `OnePlace`: nor twice by one; `~Reuse` |
| `GpuProofs!ChainSent` | `SentAsChained` | |
| `GpuProofs!OneAtATime`, `TablesReady` | `OneTransfer`, `TablesCleared` | `"across" \notin Habits`; `Habits = {}` |
| `GpuProofs!ClockKept`, `SingleUse` | `ClockTracks`, `SingleUseOnce` | `MaxDepth = 1`; and `~CancelsItself` |
| `CDRomDriverProofs!Consistent`, `NoAborts`, `Protocol` | `FieldsAgree`, `NoAbort`, `CallbackProtocol` | |
| `CDRomDriverProofs!TocRead` | `TocComplete` | `1 \notin Sizes` |
| `HeapAllocProofs!HeapStaysCoalesced`, `PosixKept` | `StaysCoalesced`, `ImplementsPosix` | |
| `MemoryCardProofs!TruthKept`, `CallbacksDriven` | `TrueData`, `Driven` | `Habits = {}` |
| `PsyqoProofs!FormatRestores` | `SizeRestored` | `Halves`: the blocks of the size probe are halves of one another, in order, as 8, 4 and 2 are |
| `OpenbiosCardsProofs!CardTransfersAreExact` | `TransfersExact` | `Careful`: `Habits = {}`, no sector past the end of the file, and a blocking transfer starts with a block or ends in the one it starts in |
| `MonitorProofs!NoStaleCode` | `FreshCode` | |
| `MonitorProofs!ProgramLoaded`, `RatesSettle` | `LoadedExact`, `RatesAgree` | `line # "garbles"` |

**KernelCallbacks.** `NoLostWakeup` says that with the frame loop running, a ring that is not empty
has its flag set. It is not inductive: while a pump runs the flag is clear and the ring is not empty.
`FlagCoversQueue` strengthens it: a clear flag promises that the innermost activation still has a pass
for every entry, and an activation that has seen the flag and not taken the critical section still
finds it set. `StackShape` (activations below the innermost are all inside a callback) is what makes
the return to an outer activation safe. `IInv` is these two with the types. One lemma, `LoopKeepsIInv`,
serves both places that run the loop. `Invariance`, `TypeCorrect` and `WakeupKept` follow;
`Refinement` proves the safety part of `ImplementsQueue`: each step is a step of `CallbackQueue` or
leaves its variables alone.

**DmaInterrupt and DmaEvents.** `CompletionsAccounted` says that the completions without a callback are
exactly those flagged or about to be called. The argument is about the window between the read of DICR and
its acknowledgement: what was read is still flagged when it is acknowledged, because only the handler
clears flags, and what was raised since is not among the bits written. `PassCounted` keeps the pass
counter in its type. `EventsImplement`: each step of `DmaEvents` is a step of `DmaInterrupt` or leaves its
variables alone, so that the invariant carries over (`EventsAccounted`). `CalledForOwnChannel` needs two facts
besides: a slot holds the function that was given it (`Placed`), and the walk has called exactly what it
passed, once each (`CalledSoFar`). Both hold while the rows fit. `FewFunctions` discharges that: if no slot of
a row is empty, the row is an injection into the functions other than the one to register, and there are too
few of those.

**TaskQueue.** A parent that waits and the child it waits for are found in different places: the index of the
one, the stack, and the state of the other. `StackSound` describes the stack: a frame about to go on is of a
queue that runs and waits for nothing, under the innermost frame there are only handlers, and a queue has two
frames only where a handler of it ran it again. `TreeSound` says that a queue that runs for another is the
task its parent stands behind. For `RejectionCascades`, `EndSound` has what each frame says of the end of its
run: one on the way from `runNext` to the parent is of a queue that resolved, one from `runCatch` of a queue
that rejected, and who waits for an idle queue is about to hear of it. `Passed` keeps this for the rest of the
parent's run: every queue it is past has resolved, so that it resolves only if all did.
For the finally handlers, `Hold` follows the handler from where it was set to its call, through the move to the
stack that a rejection makes; a queue whose handler is on the stack is not `Ready`, so that this is its
innermost run (`MovedAlone`). `NextAtRest` says that what a run has not come to yet, at any level below, has not
been used by it: this is where a queue in two places would find its handler gone.

**GpuChain.** Three parts for three views of one list. `BuildSound`: the header of each fragment in the chain
being built points at the one chained after it, with its size and marks. `FlightSound`: the same of
the chain under way, which shares no fragment with the other. `EngineSound`: the engine is at the fragment
behind those sent, and the cursor of the handlers at the one after, where the engine needs it; a linked walk never
reaches a fragment over the threshold, since its predecessor is marked. The lemma that the stored count of
eight bits gives the size back (`SizeKept`) is arithmetic over `Chainable`. `OrderInv` adds who waits for the
transfer, and `TablesInv` relates the tables of either parity to the chain they are in: tables of the
parity being built are those recorded, those of the other are in flight or being cleared, and a table is dirty only if
it is among these.

**GpuTimers.** The types hold at any nesting; they include that the list has each node once and that erasing
by place keeps this. `ClockInv` relates the copy of the counter in each activation to the clock, modulo the
wrap. `OnceInv`: a timer has been called since it was armed only while its callback runs, and its node is then
still in the list.

**CDRomDriver.** `QueueSound` says what the kernel's queue holds for each value of the fields: each entry once,
the end of an action behind its first call, and the function that each entry calls still there. `ActionSound`,
`ToldSound` and `ReadSound` relate the state to what the callback was told and to the sectors stored. `InStep`
is the handshake: where no two commands overlapped, the drive owes exactly the answer that the state waits
for (`Waits`, `Finishes`), which makes every assert hold. `TableInv` follows the table entry by entry; its
lemmas are about BCD: `btoi` inverts `itob`, whose bytes are never below the number.

**HeapAlloc.** `Tiles` counts the blocks that cover each unit; what the steps keep is `Tiling`, the same as an
equation: the units of the empty blocks are those the allocated ones leave. All the lists the code makes are
the old list with the blocks between two places replaced by one (`Spliced`), or without one block, or with one
cut short, and the lemmas `SplicedSorted`, `RemovedBlock` and `CutBlock` say what each of these does to the
order, to the units and to blocks that touch. `Between` places the block of `free` and `realloc` among its
neighbours: it has no empty unit, so that the walk stops just behind it. The walk itself counts blocks
(`Before`) and the search takes a least one (`BestFits`); both come from the cardinality of a set without gaps
(`NoGaps`, `LeastNumber`), and need no induction. `AllotTiles`, `GiveTiles`, `ShrinkTiles` and `GrowTiles` keep
the equation, one for each thing that can happen to an allocated block; moving it is the first after which
comes the second. `HeapInv` adds `Sizing`: a block has the units for the bytes that were asked. From it,
`BlockFits` says that the bytes of each block are in its units, behind the header and before the next block,
which is what `PosixHeap` asks of a pointer; `Resized` maps every way `realloc` succeeds to the one step of
`PosixHeap`, in which only a block that grows moves, because `UnitsForSize` is monotone.

**Monitor.** `FreshCode` is not inductive: `CodeInv` adds that memory not written since the last flush is what
the cache holds, if it holds anything, and that nothing runs before a flush.

`LoadedExact` and `RatesAgree` are about what is on the line, which has to be known in every state, and so they
are proved for a line that does not garble: a lost unit turns a frame into console text, a damaged LEN makes it
take in the frame behind it. `MonitorInv` has five parts. `Shapes` has the types, and those of the units. `Phase` says, for each thing the host waits for,
which frames may begin on the wire and which answers may be on their way: while a command waits (`Asking`) its
frame is the last, and a STOP in front of it is whole or takes the command's head for a piece of itself (`Posed`); once it is answered (`Awake`)
no frame is left, so that one question never has two answers; during a change of rate (`Trying`, `Confirming`)
the second PING is on the wire only when the first was answered; a host that lost the monitor (`Lost`) has
behind it at most a frame that was cut, which the zeros end, and a PING at the end (`Flushed`). `Rated`
relates the two rates to the window and to what either side can read. `Resynced` is why two attempts are
enough: the first one to find the target running stops it, and behind one that arrived at a halted monitor
the PING will be read (`PingDue`). `Stocked` says that the slices in memory are those the stream has consumed,
or that the host has had the ACK for, and that no frame still on the wire can change a program that is loaded.
Each action keeps `MonitorInv` by a lemma of its own. What the line does to a frame is in `Sent` (and `Flushing`
for a resynchronisation), what the link keeps of it in `Kept`, and what is left when the monitor has read in
`Behind`; `Received` is the one place where a frame the monitor takes is matched to what the host waits for.

**MemoryCard.** `TruthKept` proves `TrueData`, and `CallbacksDriven` proves `Driven`, for programs with
`Habits = {}`: one operation at a time, and no card that answers after the watchdog gave up. Neither is
inductive. `TrueData` needs `StampTrue`: while the bus is not selected the true gap is the time since the
stamp; then the lemma `RecoveredIsLong`, which says that both readings of the time (three frames, or the
line counter modulo its wrap) imply the window, makes every selection late enough. That needs in turn
that the bus is released and stamped in one step for everyone else, `BusHeld`. `Driven` needs
`OneOperation`: an operation is idle, or blocks the main thread, or is a callback variant that waits,
moves or has ended, or was refused, and each of these shapes says what is in the queue. `IInv` is these with the
types of the flags; `Step` has one case for each action.

**MemoryCardFiles.** A format writes the probe sectors one after the other, and on a card that ignores the top
bits of an address some of these writes land on sector 0, or on a sector another probe has cleared. `FormatInv`
follows it: the probe sectors passed so far are clear unless they are block 0 by another number (`Cleared`),
and the card keeps its shape whatever is written to it (`CardHeld`). When the format has written sector 0
again, `FormatClears` has them all clear; `MeasuredIsReal` then says that the size probe stops at the blocks the
card has, neither before, because what is not block 0 is clear, nor after, because what is block 0 reads as
it does. That is where `Halves` is needed.

**OpenbiosCards.** `TransfersExact` says of an answer that every sector was moved once, in order and to its
place, which is about the end of a transfer; `CardsInv` says how far each one is. `PortInv` relates the
operation of a unit to what its command is about: an inquiry (`Informing`), the sector after those moved
(`Streaming`), the inquiry that ends a write (`Checking`), the next place of the table of contents
(`Listing`), and what was moved when the answer is good (`Delivered`). The command may not have been given
yet: the main thread claims the port, sets up the request and only then the flag, and the vertical blank and
the card interrupt fall between these (`Asking`, then `Asked`). `Blocking` is the other half: a blocking call
has its unit and the status flags, which both ports share, to itself (`Alone`), and is at the sector its
counters say (`Stage`), with the command under way (`Doing`) or over (`Over`). `Bus` says that the
bus only serves a port that has a command. The lemma `FileSectorIsPlace` says that the sector computed along the
chain is the place the property speaks of, and `NextInBlock` that the sectors of one block follow each other
on the card, which a blocking transfer counts on until it asks the chain for the next block. `AllPieces` then
says that what was moved one sector at a time is the sequence that was asked for. Every action keeps
`CardsInv` by a lemma of its own.

**Only model-checked**: all liveness (`NoStarvation`, `Delivered`, `RunEnds`, `FramesGoOn`,
`OverdueCalled`, `ActionEnds`, `Answered`, `Ends`, `Regained` and the fairness of `CallbackQueue`): tlapm
proves neither liveness under fairness nor anything about ENABLED. Of safety: the types of `Monitor` on a line
that garbles; `FilesSound`, `ListingTrue` and
`OthersKept` (`CardDirectory` validates with a fold over the entries, whose facts need an induction over data
that the provers cannot make), and `FilesIntact` and `ReadExact` of `MemoryCardFiles`, which are about the
blocks of a chain: where a chain leads (`Hop`) is a recursive function over the directory, and that a chain keeps
its blocks while others are allocated and deleted is an induction over its length.

## 5. Disagreements between the code and what it says of itself

Each was met while modelling, and is reproduced by changing one line of a configuration and checking one
property; "(there)" says that the configuration has the property already.

| In | Change | Property | What happens |
|---|---|---|---|
| `MCKernelCallbacks.cfg` | none | `NothingLost` | a full ring drops its oldest callback; `kernel.hh` 316 sets no limit |
| `MCDmaEvents.cfg` | `RowSize = 1` | `CalledForOwnChannel` (there) | with more functions than a row has slots, the search (`kernel.cpp` 224, 16 slots of a row of 4) puts a function in the row of the next channel; `kernel.hh` 259-263 promise any number of calls for its own |
| `MCTaskQueue.cfg` | `Reuse = TRUE` | `FinallyOnce` (there) | a queue that runs again as it is after a rejection has lost its finally handler, moved to the stack (`task.cpp` 91; `task.hh` 96, 110) |
| `MCGpuTimers.cfg` | `MaxDepth = 2` | `SingleUseOnce` (there) | the callback of a single-use timer that pumps is called again (`gpu.cpp` 674; `gpu.hh` 471), and the node erased twice |
| | `MaxDepth = 2` | `ClockNotAhead` | the scanlines since the last pump are counted by both pumps (`gpu.cpp` 683) |
| `MCGpuTimers.cfg` | `CancelsItself = TRUE` | `SingleUseOnce` (there) | a callback that cancels its own timer has it erased twice |
| `MCGpuChain.cfg` | `Habits = {"across"}` | `OneTransfer` (there) | an upload still under way when the frame ends meets the assert of `sendChain` in `flip` (`gpu.cpp` 547; `gpu.hh` 233) |
| | `Habits = {"byHand"}` | `TablesCleared` (there) | tables sent with `sendChain` in the frame that built them are not cleared after it (`gpu.cpp` 265; `gpu.hh` 373) |
| | `Habits = {"event"}` | `TablesCleared` (there) | a blocking transfer in the event callback of the pads clears the tables that `flip` is about to send (`gpu.cpp` 321; `simplepad.cpp` 38) |
| `MCCDRomDriver.cfg` | `Races = {"location"}` | `NoSpuriousInterrupt` | the track ends before the location is answered, and the answer finds no action (`cdrom-device.cpp` 81; the race is meant to be handled, `cdrom-device-cdda.cpp` 150) |
| | `Races = {"error"}` | `NoSpuriousInterrupt` | the same for an error that crosses a pause (`cdrom-device.cpp` 132); with `Races = {}` it holds |
| | none | `CountsTracks` | `getTOCSize` returns the BCD byte: 16 for ten tracks (`cdrom-device-toc.cpp` 55) |
| | `Discs = {10}` | `EveryDiscReads` | a disc of ten tracks is never read: the entry count is compared with a BCD number (`cdrom-device-toc.cpp` 116; `cdrom-device.hh` 286) |
| | `Sizes = {1}` | `TocComplete` (there) | a buffer of one entry, which has no room for track 1, gets it (`cdrom-device-toc.cpp` 120) |
| `MCHeapAlloc.cfg` | none | `Coalesced` | shrinking the block below the first empty one leaves two that touch: the wrong end is compared (`alloc.c` 535, against the comment at 534) |
| `MCMemoryCard.cfg` | `Habits = {"overlap"}` | `Driven` (there) | a second operation overwrites the callback of the first, which is never called (`memory-card.cpp` 792; `memory-card.hh` 72: "There are never any silent failures") |
| | `Habits = {"late"}` | `TrueData` (there) | an acknowledge that comes while the watchdog finishes the transfer on the main thread selects the port again behind the stamp (`memory-card.cpp` 467) |
| `MCMemoryCardFiles.cfg` | none | `InterruptedWriteLeavesNoCorruptFile` | a file that is replaced while too few other blocks are free is written over its own blocks (`memory-card-filesystem.cpp` 618; the header, 226-227, excludes a referenced but corrupt file) |
| `MCOpenbiosCards.cfg` | `Habits = {"overlap"}` | `TransfersExact` (there) | two calls share the status flags, and one takes the other's success for its own |
| | `Habits = {"busy"}` | `TransfersExact` (there) | a call on a unit that is busy takes its operation away (`UnitHasCommand`) |
| `MCOpenbiosCards.tla` | `MCBlockTransfers == {<<1, 2>>}` | `TransfersExact` (there) | a blocking transfer that does not start with a block runs over its end: the limit is `0x40 + (0x40 - s)` |
| | `MCTransfers == {<<3, 2>>}` | `TransfersExact` (there) | past the end of a file the sector is -1, which the search for reallocated sectors finds in an unused entry of `g_buBroken` |
| `MCMonitor.cfg` | none | `LoadedExact` without `line # "garbles"` | one damaged bit makes a RUN a LOAD, which stores at its pc, over a program that was acknowledged, before its checksum fails (`monitor.c` 264-278, 495-498) |
| | none | `RatesAgree` without `line # "garbles"` | a STOP that crosses a stop of the target, its TYPE or its checksum damaged, is answered ECKSUM by the monitor that has halted, an answer the host cannot match to a command (`monitor.c` 473-478) |
| | none | `RatesAgree` without `\/ secondLost` | when the last PONG of SET_BAUD is lost the monitor keeps the new rate and the host goes back, for good |

Three more, seen in the same models, are not repeated by a change of one line:

- A callback variant of the memory card has no watchdog: a card that falls silent after the first byte
  leaves its callback uncalled (`memory-card.hh` 72 again). `Ends` states this exception.
- A creation that fails in `dev_bu_open` does not return: the loop that is to free the blocks never
  advances. For a file at block 0 the loop is not entered, and the file is given one more block and
  written again. `CardDirectory` models both (`FailCreate`), and `FilesSound`, `ListingTrue` and
  `OthersKept` claim their last parts for fewer than two mishaps: after two, an erased file may come back
  or be cut short, since the validation looks one block past a file. A failed rename leaves the old name in memory only, and
  `buFormat` ignores the status of its writes.
- On SIO1, whose FIFO keeps eight bytes, a STOP that crosses a break leaves its first bytes behind, which
  swallow the next command: the host gets an ECKSUM with nothing lost on the line, against
  `monitor.c` 473-478. `RepliesMatch` therefore allows an error in answer to any command.

The configurations of the passing runs therefore say what an application must not do: pump in the
callback of a timer, cancel a timer in its own callback, leave a transfer across frames, send tables
by hand, transfer in the callback of the pads, start a second operation on a card before the first is
called back.

## 6. Limits of the models

- `KernelCallbacks`: one push into the ring is one step. `queueCallbackFromISR` is called with interrupts
  on by the main thread when the first byte to a card is not acknowledged (`memory-card.cpp` 248), and
  with only the CD-ROM interrupt masked (`cdrom-device-cdda.cpp` 225, 240): the two stores of EASTL's
  ring could then be interrupted.
- `DmaEvents`: functions are registered on the main thread, not by callbacks. Past the last row the
  program reads what follows the table; the model stops there.
- `TaskQueue`: lambdas and what they capture; destruction of a queue while it runs. The handlers of a queue are
  not replaced while one of them is being called; a queue that another schedules is not also run directly.
- `GpuChain`: interlaced fields, GP0 primitives, the contents of tables; callbacks that the application
  asks for from the interrupt handler. The clearing of a table is one step of the controller.
- `GpuTimers`: the field tracking at the end of `pumpCallbacks`; the 32-bit wrap of the clock after 71
  minutes; a period changed while the timer is paused.
- `CDRomDriver`: a drive that refuses PAUSE, STOP or GETLOCP and reads or plays on: its next sector or the end of
  its track would find no action, as in `Races`. A GETLOCP that fails ends the action and leaves
  `m_locationCallback` set (`cdrom-device.cpp` 132-146): the application is not told before the end of a later
  track, and the model has it wait (`asked`), since another request would meet the assert. `mute` and
  `unmute` (what the drive answers them with is not in the repository),
  volume, `prepare`. Commands the application sends out of turn, which the asserts of the start
  functions refuse. The times in a table; a scheduled read that runs twice; and `scheduleReadSectors`,
  which keeps its parameters in one `m_readRequest` (`cdrom.cpp` 30) for all the tasks it makes, so that
  two in one queue read the same sectors.
- `HeapAlloc`: the contents that `realloc` copies; sizes near 2^32; the BIOS heap of openbios.
- `MemoryCard`: the polled path (`c_useIrq` is true), the bytes of a transfer, the mapping of errors by
  `probeBlocking`, the flag of a new card.
- `MemoryCardFiles`: a sector is written whole or not at all, and the fifteen frames of the directory
  are read in one step. A card changed for another in the middle of an operation is not noticed by the
  code; directory checksums are never verified; a driver that never answers leaves the lock and `m_busy`
  taken; `runBlocking` may return the result of an operation that a callback started in the same pump.
  An interrupted format marks all files as torn.
- `OpenbiosCards`: the events of the cards themselves (EVENT_CARD), the undelivering of the other port's
  event by `mcResetStatus`, `initCard`, the pads, the reallocation of a broken sector; the fast track is
  merged with the step it replaces. How a command failed is left out.
- `CardDirectory`: sectors are written whole; names are single values; sizes are in blocks.
- `Monitor`: breakpoints and the coprocessor's registers, the watchdog timer, the chunks of READ_MEM, the
  values of registers, bytes inside a unit, console text, the decoding of LZ4 matches, the rates that are
  refused, commands sent before the answer to the one before; that the monitor is entered with
  `break 4, 1` (HELLO, `monitor.c` 569-573) is only where it starts. Raw writes are stored before their
  checksum is known, which `FreshCode` takes into account on every line, `LoadedExact` where no TYPE is
  damaged. Damage that the checksum does not show (another sum of the same value) is left out.

## 7. What is not modelled, and the plan

`PROJECT.json` lists every part with its reason.

Concurrent or stateful, and next in this order if the project goes on:

1. the state machine of the openbios CD-ROM and the events it delivers, over the external drive of
   `CDRomDevice`; events and threads of the openbios kernel (an event delivered between a test and a wait);
2. `TaskQueue` over `CDRomDriver`, for `scheduleReadSectors` and a scheduled `readTOC` that runs twice;
   the stream player's buffers and the archive manager above it;
3. the monitor's breakpoints and its watchdog; SPU transfers; coroutines over `KernelCallbacks`.

Out of scope: pure data (mathematics, primitives, fonts, checksums, decoders) and the music players,
sequential code over tables whose states are those of their data; glue (Lua, syscalls, headers); assembly
(boot, exception vectors, context switches); examples, shells, test programs and vendored code, which are
most of the repository's lines.
