----------------------------- MODULE MemoryCard -----------------------------
(***************************************************************************)
(* The sector driver of psyqo's memory cards (psyqo/src/memory-card.cpp): a *)
(* transfer is started from the main thread and goes on from the interrupt *)
(* of the controller, one step an acknowledge.  A blocking call waits for  *)
(* its end under a watchdog; a callback variant goes through the queue of  *)
(* the kernel, for its result and while the card recovers from the         *)
(* transfer before.  Both try a sector again.  A transfer has Last steps   *)
(* here; the bus is deselected between two transfers.                      *)
(***************************************************************************)
EXTENDS Naturals, Sequences

CONSTANTS
  Last,         \* the step that ends a transfer
  Frame,        \* lines of a frame
  Wrap,         \* the root counter wraps there
  Window,       \* c_recoveryHblanks
  Habits        \* what goes wrong: see Free and Watchdog

ASSUME MemoryCardAssumption ==
  /\ Last \in Nat /\ Last > 2 /\ Frame \in Nat /\ Wrap \in Nat /\ Window \in Nat
  /\ 0 < Window /\ Window <= Frame /\ 3 * Frame < Wrap
  /\ Habits \subseteq {"overlap", "late"}

Attempts == 3           \* c_maxAttempts
Long == Wrap + Window   \* bound on the lines that are counted
Ids == {1, 2}           \* callbacks of the application

VARIABLES
  main,         \* where the main thread is
  action, step, blocking, done, result,         \* m_action, ...
  callback, userCallback, attempt,              \* m_callback is set; whose is m_userCallback
  stamped, phase, since,        \* the stamp: set; where in the frame; lines since
  imask, ireg,  \* the controller interrupt
  selected, gap, early,         \* the bus; lines since it was deselected; selected too soon
  silent,       \* the card does not answer any more
  queue,        \* what the driver has on the kernel's queue
  pending,      \* callbacks not called yet
  transfers, told               \* of the last operation: its transfers, what it returned

engine == <<action, step, done, result>>
clock == <<stamped, phase, since, gap>>
asking == <<callback, userCallback, attempt>>
bus == <<imask, ireg, selected, early, silent>>
history == <<pending, transfers, told>>
vars == <<main, engine, blocking, asking, clock, bus, queue, history>>

Transient == {"NoCard", "Timeout", "BadChecksum", "ProtocolError"}
Errors == Transient \union {"BadSector"}

TypeOK ==
  /\ main \in {"free", "recover", "ack", "watch", "abort"}
  /\ action \in BOOLEAN /\ step \in 1 .. Last
  /\ {blocking, done, callback, stamped, imask, ireg, selected, early, silent} \subseteq BOOLEAN
  /\ {result, told} \subseteq Errors \union {"OK", "none"}
  /\ userCallback \in Ids \union {0} /\ pending \subseteq Ids
  /\ attempt \in 0 .. Attempts /\ transfers \in 0 .. Attempts
  /\ phase \in 0 .. Frame - 1 /\ since \in 0 .. Long /\ gap \in 0 .. Long

Init ==
  /\ main = "free" /\ action = FALSE /\ step = 1 /\ done = FALSE /\ result = "OK"
  /\ blocking = FALSE /\ callback = FALSE /\ userCallback = 0 /\ attempt = 0
  /\ stamped = FALSE /\ phase = 0 /\ since = 0 /\ gap = 0
  /\ imask = FALSE /\ ireg = FALSE /\ selected = FALSE /\ early = FALSE /\ silent = FALSE
  /\ queue = << >> /\ pending = {} /\ transfers = 0 /\ told = "none"

(***************************************************************************)
(* Recovery.                                                                *)
(***************************************************************************)
\* stampDeselect, as the bus is deselected.
Deselect ==
  /\ selected' = FALSE /\ gap' = 0 /\ since' = 0
  /\ stamped' = TRUE /\ phase' \in 0 .. Frame - 1

Frames == (phase + since) \div Frame
\* Mutant of Recovered: a vertical blank is taken for a frame.
RecoveredByBlank == stamped /\ (Frames >= 1 \/ since % Wrap >= Window)
Recovered == stamped /\ (Frames >= 3 \/ since % Wrap >= Window)

\* A line goes by.
Tick ==
  /\ since < Long
  /\ since' = since + 1 /\ gap' = IF selected \/ gap = Long THEN gap ELSE gap + 1
  /\ UNCHANGED <<main, engine, blocking, asking, stamped, phase, bus, queue, history>>

\* The first transfer counts its window from when it is asked for.
StampFirst ==
  IF stamped THEN UNCHANGED <<clock, selected>> ELSE Deselect

(***************************************************************************)
(* A transfer, from the main thread.                                         *)
(***************************************************************************)
\* startTransfer, up to recoverBeforeSelect: the n-th of its operation.
StartTransfer(n) ==
  /\ action' = TRUE /\ step' = 1 /\ done' = FALSE /\ result' = "OK"
  /\ main' = "recover"
  /\ transfers' = n

\* Its other half: the port is selected, and the first byte sent.
Select ==
  /\ main = "recover" /\ Recovered
  /\ selected' = TRUE /\ early' = (gap < Window) /\ ireg' = FALSE /\ silent' = FALSE
  /\ main' = "ack"
  /\ UNCHANGED <<engine, blocking, asking, clock, imask, queue, history>>

\* finishTransfer.
FinishTransfer(outcome) ==
  /\ Deselect
  /\ imask' = FALSE
  /\ action' = FALSE /\ result' = outcome /\ done' = TRUE
  /\ IF ~blocking /\ callback
       THEN callback' = FALSE /\ queue' = Append(queue, <<"attempt", outcome>>)
       ELSE UNCHANGED <<callback, queue>>

\* No acknowledge of the first byte within the bound of the poll.
AckMissed ==
  /\ main = "ack" /\ ~ireg
  /\ FinishTransfer("NoCard")
  /\ main' = IF blocking THEN "watch" ELSE "free"
  /\ UNCHANGED <<step, blocking, userCallback, attempt, ireg, early, silent, history>>

AckSeen ==
  /\ main = "ack" /\ ireg
  /\ imask' = TRUE
  /\ main' = IF blocking THEN "watch" ELSE "free"
  /\ UNCHANGED <<engine, blocking, asking, clock, ireg, selected, early, silent, queue, history>>

(***************************************************************************)
(* The card, and the interrupt.                                              *)
(***************************************************************************)
Acknowledge ==
  /\ selected /\ ~ireg /\ ~silent
  /\ main # "ack" => imask
  /\ ireg' = TRUE
  /\ UNCHANGED <<main, engine, blocking, asking, clock, imask, selected, early, silent, queue, history>>

\* The card stops, for good or until it is selected again.
FallSilent ==
  /\ selected /\ imask /\ ~ireg /\ ~silent
  /\ silent' = TRUE
  /\ UNCHANGED <<main, engine, blocking, asking, clock, imask, ireg, selected, early, queue, history>>

\* irq: another step, or the last; an answer that is not the expected one ends it too.
Interrupt ==
  /\ imask /\ ireg
  /\ ireg' = FALSE
  /\ IF action
       THEN /\ step' = IF step < Last THEN step + 1 ELSE step
            /\ \/ /\ step + 1 < Last
                  /\ selected' = TRUE
                  /\ UNCHANGED <<imask, action, result, done, callback, queue, clock>>
               \/ \E outcome \in (Errors \ {"NoCard", "Timeout"}) \union (IF step + 1 >= Last THEN {"OK"} ELSE {}) :
                    FinishTransfer(outcome)
       ELSE UNCHANGED <<engine, selected, imask, callback, queue, clock>>
  /\ UNCHANGED <<main, blocking, userCallback, attempt, early, silent, history>>

(***************************************************************************)
(* Blocking calls.                                                          *)
(***************************************************************************)
\* The application runs, and has no operation under way.
Free == main = "free" /\ ("overlap" \in Habits \/ (pending = {} /\ queue = << >>))

\* readSectorBlocking, writeSectorBlocking and probeBlocking: irqTransferBlocking.
Block ==
  /\ Free
  /\ blocking' = TRUE /\ callback' = FALSE
  /\ StampFirst
  /\ StartTransfer(1) /\ told' = "none"
  /\ UNCHANGED <<userCallback, attempt, imask, ireg, early, silent, queue, pending>>

\* The wait ends: another attempt, or the result.
Blocked ==
  /\ main = "watch" /\ done
  /\ IF result \in Transient /\ transfers < Attempts
       THEN StartTransfer(transfers + 1) /\ UNCHANGED <<blocking, told>>
       ELSE /\ main' = "free" /\ blocking' = FALSE /\ told' = result
            /\ UNCHANGED <<engine, transfers>>
  /\ UNCHANGED <<asking, clock, bus, queue, pending>>

\* The watchdog expires: finishTransfer, on the main thread with interrupts on. Its first
\* half is over before the interrupt is masked.
Watchdog ==
  /\ main = "watch" /\ ~done /\ (silent \/ "late" \in Habits)
  /\ Deselect
  /\ main' = "abort"
  /\ UNCHANGED <<engine, blocking, asking, imask, ireg, early, silent, queue, history>>

WatchdogEnds ==
  /\ main = "abort"
  /\ imask' = FALSE /\ action' = FALSE /\ done' = TRUE
  /\ result' = IF step <= 1 THEN "NoCard" ELSE "Timeout"
  /\ main' = "watch"
  /\ UNCHANGED <<step, blocking, asking, clock, ireg, selected, early, silent, queue, history>>

(***************************************************************************)
(* Callback variants.                                                       *)
(***************************************************************************)
\* Mutant of WhenRecovered: the wait is left to a retry that nobody makes.
WhenRecoveredDropped(entries) ==
  /\ StampFirst
  /\ IF Recovered THEN StartTransfer(transfers + 1) /\ queue' = entries
     ELSE queue' = entries /\ UNCHANGED <<main, engine, transfers>>
\* startAsyncWhenRecovered, with what is left of the queue.
WhenRecovered(entries) ==
  /\ StampFirst
  /\ IF Recovered THEN StartTransfer(transfers + 1) /\ queue' = entries
     ELSE queue' = Append(entries, <<"recheck", "OK">>) /\ UNCHANGED <<main, engine, transfers>>

\* readSector and writeSector: startAsyncAttempt. A first look that finds the card
\* recovered is left to the first pump.
Ask(id) ==
  /\ Free /\ id \notin pending
  /\ pending' = pending \union {id} /\ told' = "none"
  /\ blocking' = FALSE /\ callback' = TRUE /\ userCallback' = id /\ attempt' = 0
  /\ transfers' = 0
  /\ StampFirst
  /\ queue' = Append(queue, <<"recheck", "OK">>)
  /\ UNCHANGED <<main, engine, imask, ireg, early, silent>>

\* The same with a sector the card has not.
AskBeyond(id) ==
  /\ Free /\ id \notin pending
  /\ pending' = pending \union {id} /\ told' = "none" /\ transfers' = 0
  /\ queue' = Append(queue, <<"beyond", id>>)
  /\ UNCHANGED <<main, engine, blocking, asking, clock, bus>>

Pump == main = "free" /\ queue # << >>
Entry == Head(queue)

Recheck ==
  /\ Pump /\ Entry[1] = "recheck"
  /\ WhenRecovered(Tail(queue))
  /\ UNCHANGED <<blocking, asking, imask, ireg, early, silent, pending, told>>

\* onAsyncAttemptDone: again, or the callback of the application.
AttemptDone ==
  /\ Pump /\ Entry[1] = "attempt"
  /\ IF Entry[2] \in Transient /\ attempt + 1 < Attempts
       THEN /\ attempt' = attempt + 1 /\ callback' = TRUE
            /\ WhenRecovered(Tail(queue))
            /\ UNCHANGED <<userCallback, pending, told>>
       ELSE /\ attempt' = IF Entry[2] \in Transient THEN attempt + 1 ELSE attempt
            /\ userCallback' = 0 /\ pending' = pending \ {userCallback} /\ told' = Entry[2]
            /\ queue' = Tail(queue)
            /\ UNCHANGED <<main, engine, callback, clock, selected, transfers>>
  /\ UNCHANGED <<blocking, imask, ireg, early, silent>>

Beyond ==
  /\ Pump /\ Entry[1] = "beyond"
  /\ pending' = pending \ {Entry[2]} /\ told' = "BadSector"
  /\ queue' = Tail(queue)
  /\ UNCHANGED <<main, engine, blocking, asking, clock, bus, transfers>>

Next ==
  \/ Tick \/ Select \/ AckMissed \/ AckSeen \/ Acknowledge \/ FallSilent \/ Interrupt
  \/ Block \/ Blocked \/ Watchdog \/ WatchdogEnds
  \/ \E id \in Ids : Ask(id) \/ AskBeyond(id)
  \/ Recheck \/ AttemptDone \/ Beyond

Spec == Init /\ [][Next]_vars

\* Lines go by; the main thread runs and pumps; interrupts are taken; a card that has
\* not fallen silent answers.
Fairness ==
  /\ WF_vars(Tick) /\ WF_vars(Select) /\ WF_vars(AckMissed \/ AckSeen) /\ WF_vars(Acknowledge)
  /\ WF_vars(Interrupt) /\ WF_vars(Blocked) /\ WF_vars(Watchdog) /\ WF_vars(WatchdogEnds)
  /\ WF_vars(Recheck) /\ WF_vars(AttemptDone) /\ WF_vars(Beyond)

FairSpec == Spec /\ Fairness
-----------------------------------------------------------------------------
\* A sector that is said to be read or written was not asked from a card that still
\* recovered, which "serves stale (valid-checksum but wrong) sector data"
\* (memory-card.cpp 134-140): whatever the counters say, the window was held.
TrueData == done /\ result = "OK" => ~early

\* A failure that another attempt may cure is reported after three of them, one that
\* it cannot cure at once; nothing is tried more often (717-750, 824-835).
RetriesSpent == told \in Transient => transfers = Attempts

\* A callback that was not called is on its way: in the queue, or held by the driver,
\* with an attempt queued or under way that holds the driver's own (770-835); and the
\* interrupt is unmasked only while a transfer is under way, as the polled reads of the
\* pads need (175-178).
Driven ==
  /\ imask => action
  /\ \A id \in pending :
       \/ \E i \in DOMAIN queue : queue[i] = <<"beyond", id>>
       \/ /\ userCallback = id
          /\ \/ \E i \in DOMAIN queue : queue[i][1] = "attempt"
             \/ callback /\ (action \/ \E i \in DOMAIN queue : queue[i][1] = "recheck")

\* Every operation ends, with its retries spent if it failed for want of luck, but a
\* callback variant whose card falls silent, which has no watchdog (456-473, 770-835).
Ends ==
  /\ [](TypeOK /\ RetriesSpent)
  /\ (pending # {} \/ blocking) ~> ((pending = {} /\ ~blocking) \/ (silent /\ ~blocking))
=============================================================================
