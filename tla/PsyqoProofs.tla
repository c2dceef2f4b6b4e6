---------------------------- MODULE PsyqoProofs ----------------------------
(***************************************************************************)
(* Theorems about psyqo.  Its kernel: the deferred callbacks, for every ring  *)
(* size, nesting depth and set of callbacks, and the DMA interrupts with       *)
(* their callbacks, for every set of channels and of functions, passes and      *)
(* slots of a row.  The file system of its memory cards: for cards of every      *)
(* number of blocks, a format restores the size that is measured.                *)
(***************************************************************************)
EXTENDS KernelCallbacks, DmaEvents, MemoryCardFiles, FiniteSetTheorems, SequenceTheorems, TLAPS
----------------------------------------------------------------------------
(***************************************************************************)
(* Deferred callbacks.                                                        *)
(***************************************************************************)
\* A queued entry leaves a ring of callbacks that is not over its capacity and
\* not empty, whether or not the oldest had to make room (EASTL push_back).
LEMMA PushType ==
  ASSUME NEW q \in Seq(Callback), Len(q) <= Capacity, NEW c \in Callback
  PROVE  /\ Push(q, c) \in Seq(Callback)
         /\ Len(Push(q, c)) <= Capacity
         /\ Len(Push(q, c)) > 0
<1>1. CASE Len(q) = Capacity
  <2>1. q # << >> /\ Tail(q) \in Seq(Callback) /\ Len(Tail(q)) = Capacity - 1
    BY <1>1, CapacityAssumption
  <2>2. QED
    BY <1>1, <2>1, CapacityAssumption DEF Push
<1>2. CASE Len(q) # Capacity
  BY <1>2, CapacityAssumption DEF Push
<1>3. QED
  BY <1>1, <1>2

\* Before anything is queued or pumped the invariant holds (kernel.cpp 406-407).
LEMMA InitIInv == Init => IInv
  BY CapacityAssumption, MaxDepthAssumption
     DEF Init, IInv, TypeOK, StackShape, FlagCoversQueue, Running, Level

\* Queueing from the main thread or from an interrupt raises the flag with the
\* entry, which is all the invariant asks of it (kernel.cpp 410-421).
LEMMA QueueingKeepsIInv ==
  ASSUME IInv, NEW c \in Callback, QueueCallback(c) \/ QueueCallbackFromISR(c)
  PROVE  IInv'
<1>1. flag' = 1 /\ queue' = Push(queue, c) /\ UNCHANGED <<depth, count, active>>
  BY DEF QueueCallback, QueueCallbackFromISR
<1>2. TypeOK'
  BY <1>1, PushType DEF IInv, TypeOK
<1>3. StackShape'
  BY <1>1 DEF IInv, StackShape
<1>4. FlagCoversQueue'
  BY <1>1 DEF FlagCoversQueue
<1>5. QED
  BY <1>2, <1>3, <1>4 DEF IInv

\* An activation that starts has seen the flag set (kernel.cpp 425).
LEMMA PumpCallKeepsIInv ==
  ASSUME IInv, PumpCall
  PROVE  IInv'
<1> USE DEF IInv
<1>1. TypeOK'
  BY MaxDepthAssumption DEF TypeOK, PumpCall
<1>2. StackShape'
  <2>1. \A l \in Level : l < depth + 1 => active[l] # NoCallback
    BY DEF TypeOK, StackShape, PumpCall, Running, Level
  <2>2. QED
    BY <2>1 DEF TypeOK, StackShape, PumpCall, Level
<1>3. FlagCoversQueue'
  BY DEF TypeOK, FlagCoversQueue, PumpCall
<1>4. QED
  BY <1>1, <1>2, <1>3

\* One turn of the while loop with n passes left. What it needs of n is that a
\* clear flag leaves no more entries than passes (kernel.cpp 435-442).
LEMMA LoopKeepsIInv ==
  ASSUME TypeOK, StackShape, depth > 0, flag' \in {0, 1},
         NEW n \in 0 .. Capacity, Loop(n),
         flag' = 0 => Len(queue) <= n
  PROVE  IInv'
<1>0. depth \in Level
  BY DEF TypeOK, Level
<1>1. CASE n > 0 /\ queue # << >> /\ active' = [active EXCEPT ![depth] = Head(queue)]
           /\ queue' = Tail(queue) /\ count' = [count EXCEPT ![depth] = n - 1]
           /\ depth' = depth
  <2>1. /\ Head(queue) \in Callback
        /\ Tail(queue) \in Seq(Callback)
        /\ Len(Tail(queue)) = Len(queue) - 1
    BY <1>1 DEF TypeOK
  <2>2. n - 1 \in 0 .. Capacity
    BY <1>1, CapacityAssumption
  <2>3. TypeOK'
    BY <1>0, <1>1, <2>1, <2>2, CapacityAssumption DEF TypeOK
  <2>4. StackShape'
    BY <1>0, <1>1, <2>1, CallbackAssumption DEF TypeOK, StackShape, Level
  <2>5. active'[depth'] # NoCallback /\ count'[depth'] = n - 1
    BY <1>0, <1>1, <2>1, CallbackAssumption DEF TypeOK
  <2>6. FlagCoversQueue'
    BY <1>0, <1>1, <2>1, <2>3, <2>5 DEF FlagCoversQueue, Running, TypeOK, Level
  <2>7. QED
    BY <2>3, <2>4, <2>6 DEF IInv
<1>2. CASE (n = 0 \/ queue = << >>) /\ active' = [active EXCEPT ![depth] = NoCallback]
           /\ count' = [count EXCEPT ![depth] = 0] /\ depth' = depth - 1
           /\ queue' = queue
  <2>1. TypeOK'
    BY <1>0, <1>2, CapacityAssumption, MaxDepthAssumption DEF TypeOK
  <2>2. StackShape'
    BY <1>0, <1>2 DEF TypeOK, StackShape, Level
  <2>3. flag' = 0 => Len(queue') = 0
    BY <1>2 DEF TypeOK
  <2>4. depth' = 0 \/ active'[depth'] # NoCallback
    <3>1. SUFFICES ASSUME depth' # 0 PROVE active'[depth'] # NoCallback
      OBVIOUS
    <3>2. depth' \in Level /\ depth' < depth
      BY <1>0, <1>2, <3>1, MaxDepthAssumption DEF Level
    <3>3. active[depth'] # NoCallback
      BY <3>2 DEF StackShape
    <3>4. active'[depth'] = active[depth']
      BY <1>0, <1>2, <3>2, MaxDepthAssumption DEF TypeOK, Level
    <3>5. QED
      BY <3>3, <3>4
  <2>5. FlagCoversQueue'
    BY <2>1, <2>3, <2>4 DEF FlagCoversQueue, Running, TypeOK, Level
  <2>6. QED
    BY <2>1, <2>2, <2>5 DEF IInv
<1>3. QED
  BY <1>1, <1>2 DEF Loop

\* Clearing the flag is covered by the count taken with it (kernel.cpp 426-434).
LEMMA PumpEnterKeepsIInv ==
  ASSUME IInv, PumpEnter
  PROVE  IInv'
<1>1. Len(queue) \in 0 .. Capacity
  BY CapacityAssumption DEF IInv, TypeOK
<1>2. QED
  BY <1>1, LoopKeepsIInv DEF IInv, PumpEnter

\* The innermost activation still has a pass for every entry that was there
\* when the flag was cleared (kernel.cpp 435-441).
LEMMA CallbackReturnKeepsIInv ==
  ASSUME IInv, CallbackReturn
  PROVE  IInv'
<1>1. count[depth] \in 0 .. Capacity
  BY DEF IInv, TypeOK, CallbackReturn, Level
<1>2. flag' \in {0, 1} /\ (flag' = 0 => Len(queue) <= count[depth])
  BY DEF IInv, TypeOK, FlagCoversQueue, CallbackReturn
<1>3. QED
  BY <1>1, <1>2, LoopKeepsIInv DEF IInv, CallbackReturn

\* The invariant of the ring, the flag and the stack of activations.
THEOREM Invariance == Spec => []IInv
<1>1. IInv /\ [Next]_vars => IInv'
  <2> SUFFICES ASSUME IInv, [Next]_vars PROVE IInv'
    OBVIOUS
  <2>1. ASSUME NEW c \in Callback, QueueCallback(c) \/ QueueCallbackFromISR(c) PROVE IInv'
    BY <2>1, QueueingKeepsIInv
  <2>2. CASE PumpCall
    BY <2>2, PumpCallKeepsIInv
  <2>3. CASE PumpEnter
    BY <2>3, PumpEnterKeepsIInv
  <2>4. CASE CallbackReturn
    BY <2>4, CallbackReturnKeepsIInv
  <2>5. CASE UNCHANGED vars
    BY <2>5 DEF vars, IInv, TypeOK, StackShape, FlagCoversQueue, Running
  <2>6. QED
    BY <2>1, <2>2, <2>3, <2>4, <2>5 DEF Next
<1>2. QED
  BY InitIInv, <1>1, PTL DEF Spec

\* Type correctness: the ring never holds more than its capacity.
THEOREM TypeCorrect == Spec => []TypeOK
<1>1. IInv => TypeOK
  BY DEF IInv
<1>2. QED
  BY <1>1, Invariance, PTL

\* The flag never hides an entry from the frame loop, whatever the interrupts,
\* the nesting of pumps and the losses at capacity (kernel.cpp 410-443).
THEOREM WakeupKept == Spec => []NoLostWakeup
<1>1. IInv => NoLostWakeup
  BY DEF IInv, TypeOK, FlagCoversQueue, NoLostWakeup
<1>2. QED
  BY <1>1, Invariance, PTL

\* One turn of the loop starts the oldest entry at the innermost level, or
\* finishes that level, or, before anything started there, changes nothing the
\* promise speaks of (kernel.cpp 435-442).
LEMMA LoopImplementsQueue ==
  ASSUME TypeOK, StackShape, depth > 0, NEW n \in Nat, Loop(n)
  PROVE  [Promised!Next]_(Promised!vars)
<1>0. depth \in Level /\ Level = Promised!Level
  BY DEF TypeOK, Level, Promised!Level
<1>1. Promised!Innermost(depth)
  BY <1>0 DEF StackShape, Promised!Innermost
<1>2. CASE queue # << >> /\ active' = [active EXCEPT ![depth] = Head(queue)]
           /\ queue' = Tail(queue)
  BY <1>0, <1>1, <1>2 DEF Promised!Next, Promised!Start
<1>3. CASE active' = [active EXCEPT ![depth] = NoCallback] /\ queue' = queue
  <2>1. CASE active[depth] = NoCallback
    BY <1>0, <1>3, <2>1 DEF TypeOK, Promised!vars
  <2>2. CASE active[depth] # NoCallback
    BY <1>0, <1>1, <1>3, <2>2 DEF Promised!Next, Promised!Finish
  <2>3. QED
    BY <2>1, <2>2
<1>4. QED
  BY <1>2, <1>3 DEF Loop

\* Entries start in the order they were queued and at most once, and only a
\* full ring loses one: the kernel's ring implements CallbackQueue. Its
\* fairness is checked by TLC only.
THEOREM Refinement == Spec => Promised!Spec
<1>1. Init => Promised!Init
  BY DEF Init, Promised!Init, Level, Promised!Level
<1>2. IInv /\ [Next]_vars => [Promised!Next]_(Promised!vars)
  <2> SUFFICES ASSUME IInv, [Next]_vars PROVE [Promised!Next]_(Promised!vars)
    OBVIOUS
  <2>1. ASSUME NEW c \in Callback, QueueCallback(c) \/ QueueCallbackFromISR(c)
        PROVE  Promised!Next
    <3>1. Promised!Submit(c)
      BY <2>1 DEF QueueCallback, QueueCallbackFromISR, Push, Promised!Submit
    <3>2. QED
      BY <3>1 DEF Promised!Next
  <2>2. CASE PumpCall
    BY <2>2 DEF PumpCall, Promised!vars
  <2>3. CASE PumpEnter
    <3>1. Len(queue) \in Nat
      BY DEF IInv, TypeOK
    <3>2. QED
      BY <2>3, <3>1, LoopImplementsQueue DEF IInv, PumpEnter
  <2>4. CASE CallbackReturn
    <3>1. count[depth] \in Nat
      BY <2>4, CapacityAssumption DEF IInv, TypeOK, CallbackReturn, Level
    <3>2. QED
      BY <2>4, <3>1, LoopImplementsQueue DEF IInv, CallbackReturn
  <2>5. CASE UNCHANGED vars
    BY <2>5 DEF vars, Promised!vars
  <2>6. QED
    BY <2>1, <2>2, <2>3, <2>4, <2>5 DEF Next
<1>3. QED
  BY <1>1, <1>2, Invariance, PTL DEF Spec, Promised!Spec
----------------------------------------------------------------------------
(***************************************************************************)
(* DMA interrupts.  First the dispatch alone; then the callbacks: the detailed *)
(* dispatch of DmaEvents implements DmaInterrupt, and a completion calls what  *)
(* its channel has while no row is given more functions than it has slots.     *)
(***************************************************************************)
\* A pass only starts while the loop of dmaIRQ has some left (kernel.cpp 295).
PassCounted == pc \in {"read", "ack", "call"} => pass < MaxPasses

\* The inductive invariant: CompletionsAccounted carries what the handler knows
\* at each point of a pass; the types need the pass to be counted.
Inv == DmaTypeOK /\ PassCounted /\ CompletionsAccounted

\* Bit 31 of DICR is no channel.
LEMMA MasterIsNoChannel == Master \notin Channel
  BY ChannelAssumption DEF Master

\* At reset no channel is busy, flagged or owed a call.
LEMMA InitInv == DmaInit => Inv
<1>1. DmaInit => DmaTypeOK
  <2>1. 0 \in 0 .. MaxPasses
    BY MaxPassesAssumption
  <2>2. QED
    BY <2>1, Zenon DEF DmaInit, DmaTypeOK
<1>2. DmaInit => PassCounted
  BY DEF DmaInit, PassCounted
<1>3. DmaInit => CompletionsAccounted
  BY DEF DmaInit, CompletionsAccounted
<1>4. QED
  BY <1>1, <1>2, <1>3 DEF Inv

\* A transfer may start only where no completion is owed; the controller moves
\* a channel from busy to flagged, and never clears a flag.
LEMMA ControllerKeepsInv ==
  ASSUME Inv, NEW c \in Channel, StartTransfer(c) \/ Complete(c)
  PROVE  Inv'
<1> USE DEF Inv, PassCounted
<1>1. CASE StartTransfer(c)
  <2>1. DmaTypeOK'
    BY <1>1 DEF StartTransfer, DmaTypeOK
  <2>2. CompletionsAccounted'
    BY <1>1 DEF StartTransfer, DmaTypeOK, CompletionsAccounted
  <2>3. PassCounted'
    BY <1>1 DEF StartTransfer
  <2>4. QED
    BY <2>1, <2>2, <2>3
<1>2. CASE Complete(c)
  <2>1. DmaTypeOK'
    BY <1>2 DEF Complete, DmaTypeOK
  <2>2. CompletionsAccounted'
    BY <1>2 DEF Complete, DmaTypeOK, CompletionsAccounted
  <2>3. PassCounted'
    BY <1>2 DEF Complete
  <2>4. QED
    BY <2>1, <2>2, <2>3
<1>3. QED
  BY <1>1, <1>2

\* The read of DICR sees flags that only the handler clears (kernel.cpp 302).
LEMMA ReadKeepsInv ==
  ASSUME Inv, ReadDicr
  PROVE  Inv'
<1> USE DEF Inv, PassCounted
<1>1. dirqs' \intersect Channel = flags
  BY MasterIsNoChannel DEF ReadDicr, DmaTypeOK
<1>2. dirqs' \subseteq Channel \union {Master}
  BY DEF ReadDicr, DmaTypeOK
<1>3. QED
  BY <1>1, <1>2 DEF ReadDicr, DmaTypeOK, CompletionsAccounted

\* The acknowledgement clears the flags that were read, which become the calls
\* to make; a flag raised since the read stays (kernel.cpp 304-317).
LEMMA AckKeepsInv ==
  ASSUME Inv, AckDicr
  PROVE  Inv'
<1> USE DEF Inv, PassCounted
<1>1. todo = {} /\ dirqs \intersect Channel \subseteq flags /\ owed = flags
  BY DEF AckDicr, CompletionsAccounted
<1>2. flags' = flags \ (dirqs \intersect Channel) /\ todo' = dirqs \intersect Channel
  BY DEF AckDicr, DmaTypeOK
<1>3. DmaTypeOK'
  BY <1>2 DEF AckDicr, DmaTypeOK
<1>4. CompletionsAccounted'
  BY <1>1, <1>2 DEF AckDicr, CompletionsAccounted
<1>5. PassCounted'
  BY DEF AckDicr
<1>6. QED
  BY <1>3, <1>4, <1>5

\* A call settles its channel, and what it starts is neither busy nor owed
\* anything (kernel.cpp 319-327).
LEMMA CallKeepsInv ==
  ASSUME Inv, NEW c \in Channel, Call(c)
  PROVE  Inv'
<1> USE DEF Inv, PassCounted
<1>1. c \in todo /\ todo' = todo \ {c} /\ owed' = owed \ {c} /\ c \notin flags
  BY DEF Call, CompletionsAccounted
<1>2. UNCHANGED <<flags, istat, pc, pass, dirqs>>
  BY DEF Call
<1>3. PICK started \in SUBSET Channel :
        busy' = busy \union started /\ started \intersect owed' = {}
  <2>1. CASE UNCHANGED busy
    <3>1. busy' = busy \union {} /\ {} \intersect owed' = {} /\ {} \in SUBSET Channel
      BY <2>1
    <3>2. QED
      BY <3>1, Zenon
  <2>2. CASE \E d \in Channel \ (busy \union owed') :
               <<c, d>> \in Starts /\ busy' = busy \union {d}
    <3>1. PICK d \in Channel \ (busy \union owed') : busy' = busy \union {d}
      BY <2>2
    <3>2. {d} \intersect owed' = {} /\ {d} \in SUBSET Channel
      BY <3>1
    <3>3. QED
      BY <3>1, <3>2, Zenon
  <2>3. QED
    BY <2>1, <2>2 DEF Call
<1>4. DmaTypeOK'
  BY <1>1, <1>2, <1>3 DEF DmaTypeOK
<1>5. CompletionsAccounted'
  BY <1>1, <1>2, <1>3 DEF Call, CompletionsAccounted
<1>6. PassCounted'
  BY <1>2
<1>7. QED
  BY <1>4, <1>5, <1>6

\* The steps of the handler that touch neither flags nor calls.
LEMMA LoopKeepsInv ==
  ASSUME Inv, Enter \/ Test \/ NextPass
  PROVE  Inv'
<1> USE DEF Inv, PassCounted
<1>1. CASE Enter
  <2>1. 0 \in 0 .. MaxPasses
    BY MaxPassesAssumption
  <2>2. DmaTypeOK' /\ CompletionsAccounted'
    BY <1>1, <2>1 DEF Enter, DmaTypeOK, CompletionsAccounted
  <2>3. PassCounted'
    BY <1>1 DEF Enter
  <2>4. QED
    BY <2>2, <2>3
<1>2. CASE Test
  BY <1>2 DEF Test, DmaTypeOK, CompletionsAccounted
<1>3. CASE NextPass
  <2>1. pass + 1 \in 0 .. MaxPasses
    BY <1>3, MaxPassesAssumption DEF NextPass, DmaTypeOK
  <2>2. QED
    BY <1>3, <2>1 DEF NextPass, DmaTypeOK, CompletionsAccounted
<1>4. QED
  BY <1>1, <1>2, <1>3

\* Every step, of the handler, of a driver or of the controller, keeps it.
LEMMA StepKeepsInv == Inv /\ [DmaNext]_dmaVars => Inv'
<1> SUFFICES ASSUME Inv, [DmaNext]_dmaVars PROVE Inv'
  OBVIOUS
<1>1. ASSUME NEW c \in Channel, StartTransfer(c) \/ Complete(c) PROVE Inv'
  BY <1>1, ControllerKeepsInv
<1>2. CASE Enter \/ Test \/ NextPass
  BY <1>2, LoopKeepsInv
<1>3. CASE ReadDicr
  BY <1>3, ReadKeepsInv
<1>4. CASE AckDicr
  BY <1>4, AckKeepsInv
<1>5. ASSUME NEW c \in Channel, Call(c) PROVE Inv'
  BY <1>5, CallKeepsInv
<1>6. CASE UNCHANGED dmaVars
  BY <1>6 DEF dmaVars, Inv, DmaTypeOK, PassCounted, CompletionsAccounted
<1>7. QED
  BY <1>1, <1>2, <1>3, <1>4, <1>5, <1>6 DEF DmaNext, Handler

\* The invariant of the handler and the controller.
THEOREM DmaInvariance == DmaSpec => []Inv
  BY InitInv, StepKeepsInv, PTL DEF DmaSpec

\* Type correctness; the pass counter of dmaIRQ never exceeds its bound.
THEOREM DmaTypeCorrect == DmaSpec => []DmaTypeOK
<1>1. Inv => DmaTypeOK
  BY DEF Inv
<1>2. QED
  BY <1>1, DmaInvariance, PTL

\* No completion is lost and none is called twice, for any number of channels
\* and whatever transfers the callbacks start (kernel.cpp 288-327).
THEOREM Accounted == DmaSpec => []CompletionsAccounted
<1>1. Inv => CompletionsAccounted
  BY DEF Inv
<1>2. QED
  BY <1>1, DmaInvariance, PTL

----------------------------------------------------------------------------
\* The table and the slots are below DmaInterrupt: a step that registers,
\* unregisters or calls one function stutters there, the end of a row is Call.
LEMMA EventsStepImplements == [EventsNext]_allVars => [DmaNext]_dmaVars
<1> SUFFICES ASSUME [EventsNext]_allVars PROVE [DmaNext]_dmaVars
  OBVIOUS
<1>1. ASSUME NEW f \in Function,
             UnregisterDmaEvent(f) \/ \E c \in Channel : RegisterDmaEvent(f, c)
      PROVE  UNCHANGED dmaVars
  BY <1>1 DEF UnregisterDmaEvent, RegisterDmaEvent
<1>2. CASE Dispatch
  <2>1. CASE Enter \/ Test \/ ReadDicr \/ AckDicr \/ NextPass
    BY <2>1 DEF DmaNext, Handler
  <2>2. CASE CallSlot
    BY <2>2 DEF CallSlot
  <2>3. CASE RowEnds
    BY <2>3 DEF RowEnds, DmaNext, Handler
  <2>4. QED
    BY <1>2, <2>1, <2>2, <2>3 DEF Dispatch
<1>3. ASSUME NEW c \in Channel, Start(c) \/ Finish(c) PROVE DmaNext
  BY <1>3 DEF Start, Finish, DmaNext
<1>4. CASE UNCHANGED allVars
  BY <1>4 DEF allVars
<1>5. QED
  BY <1>1, <1>2, <1>3, <1>4 DEF EventsNext

\* The table of callbacks and the loop over a row implement the dispatch of
\* DmaInterrupt, in which a channel's callbacks are one step (kernel.cpp 319-327).
THEOREM EventsImplement == EventsSpec => DmaInit /\ [][DmaNext]_dmaVars
<1>1. EventsInit => DmaInit
  BY DEF EventsInit
<1>2. QED
  BY <1>1, EventsStepImplements, PTL DEF EventsSpec

\* Completions are accounted for with functions that come and go between the
\* interrupts, and rows of which any slot may be empty (kernel.cpp 217-327).
THEOREM EventsAccounted == EventsSpec => [](Inv /\ CompletionsAccounted)
<1>1. Inv => CompletionsAccounted
  BY DEF Inv
<1>2. QED
  BY <1>1, EventsImplement, InitInv, StepKeepsInv, PTL
----------------------------------------------------------------------------
\* Every function is in a slot of its own channel's row, the use kernel.hh
\* documents: registerDmaEvent never had to look past the row (kernel.cpp 223-228).
RowsFit == \A f \in Function : ids[f] # NoId => ids[f][2] < RowSize

\* A slot holds the function that was given it.
Placed ==
  \A f \in Function, c \in Channel, s \in 0 .. RowSize - 1 :
    table[At(c, s)] = f <=> ids[f] = <<c, s>>

\* The loop over the row under way has gone past the slot of f.
Passed(f) == slot > 0 /\ ids[f] # NoId /\ ids[f][1] = Current /\ ids[f][2] < slot

\* What the loop has called so far, once each.
CalledSoFar ==
  /\ called \in Seq(Function)
  /\ slot > 0 => pc = "call" /\ todo # {}
  /\ \A i, j \in 1 .. Len(called) : called[i] = called[j] => i = j
  /\ \A f \in Function : (\E i \in 1 .. Len(called) : called[i] = f) <=> Passed(f)

\* The inductive invariant while the rows are long enough.
EventsInv == Inv /\ EventsTypeOK /\ Placed /\ CalledSoFar

\* Two slots of the flattened rows are the same only when row and slot are.
LEMMA Addresses ==
  ASSUME NEW c \in Channel, NEW d \in Channel,
         NEW s \in 0 .. RowSize - 1, NEW t \in 0 .. RowSize - 1
  PROVE  /\ At(c, s) \in Address
         /\ At(c, s) = At(d, t) => c = d /\ s = t
<1> USE RowAssumption
<1>1. c \in 0 .. 6 /\ d \in 0 .. 6
  BY ChannelAssumption
<1>2. At(c, s) \in Address
  BY <1>1 DEF At, Address, Rows
<1>3. ASSUME NEW a \in 0 .. 6, NEW b \in 0 .. 6, a < b
      PROVE  a * RowSize + RowSize <= b * RowSize
  BY <1>3
<1>4. At(c, s) = At(d, t) => c = d
  BY <1>1, <1>3 DEF At
<1>5. At(c, s) = At(d, t) /\ c = d => s = t
  BY <1>1 DEF At
<1>6. QED
  BY <1>2, <1>4, <1>5

\* The channel under way is the lowest one that is left.
LEMMA CurrentIsLowest ==
  ASSUME DmaTypeOK, todo # {}
  PROVE  Current \in todo /\ \A d \in todo : Current <= d
<1>1. todo \subseteq 0 .. 6
  BY ChannelAssumption DEF DmaTypeOK
<1>2. \E c \in todo : \A d \in todo : c <= d
  <2> SUFFICES ASSUME \A c \in todo : \E d \in todo : ~(c <= d) PROVE FALSE
    OBVIOUS
  <2>1. \A c \in todo : \E d \in todo : d < c
    BY <1>1
  <2>2. 0 \notin todo /\ 1 \notin todo
    BY <1>1, <2>1
  <2>3. 2 \notin todo /\ 3 \notin todo
    BY <1>1, <2>1, <2>2
  <2>4. 4 \notin todo /\ 5 \notin todo
    BY <1>1, <2>1, <2>2, <2>3
  <2>5. 6 \notin todo
    BY <1>1, <2>1, <2>2, <2>3, <2>4
  <2>6. PICK c \in todo : TRUE
    OBVIOUS
  <2>7. QED
    BY <1>1, <2>2, <2>3, <2>4, <2>5, <2>6
<1>3. QED
  BY <1>2 DEF Current

\* A completed row has called every function of its channel, and no other.
LEMMA InvGivesCalled == EventsInv /\ RowsFit => CalledForOwnChannel
<1> SUFFICES ASSUME EventsInv, RowsFit, slot = RowSize, NEW f \in Function
             PROVE  Cardinality({i \in DOMAIN called : called[i] = f}) =
                      IF ids[f] # NoId /\ ids[f][1] = Current THEN 1 ELSE 0
  BY DEF EventsInv, CalledForOwnChannel
<1> DEFINE places == {i \in DOMAIN called : called[i] = f}
<1>1. DOMAIN called = 1 .. Len(called)
  BY DEF EventsInv, CalledSoFar
<1>2. CASE ids[f] # NoId /\ ids[f][1] = Current
  <2>1. Passed(f)
    BY <1>2, RowAssumption DEF Passed, RowsFit
  <2>2. PICK i \in 1 .. Len(called) : called[i] = f
    BY <2>1 DEF EventsInv, CalledSoFar
  <2>3. places = {i}
    BY <1>1, <2>2 DEF EventsInv, CalledSoFar
  <2>4. QED
    BY <1>2, <2>3, FS_Singleton, Zenon
<1>3. CASE ~(ids[f] # NoId /\ ids[f][1] = Current)
  <2>1. ~Passed(f)
    BY <1>3 DEF Passed
  <2>2. places = {}
    BY <1>1, <2>1 DEF EventsInv, CalledSoFar
  <2>3. QED
    BY <1>3, <2>2, FS_EmptySet, Zenon
<1>4. QED
  BY <1>2, <1>3

\* At reset no function is registered.
LEMMA EventsInitInv == EventsInit => EventsInv
<1> SUFFICES ASSUME EventsInit PROVE EventsInv
  OBVIOUS
<1>1. DmaInit /\ Inv
  BY InitInv DEF EventsInit
<1>2. EventsTypeOK
  BY <1>1, RowAssumption DEF EventsInit, EventsTypeOK, Inv
<1>3. Placed
  <2> SUFFICES ASSUME NEW f \in Function, NEW c \in Channel, NEW s \in 0 .. RowSize - 1
               PROVE  table[At(c, s)] = f <=> ids[f] = <<c, s>>
    BY DEF Placed
  <2>1. table[At(c, s)] = NoFunction
    BY Addresses DEF EventsInit
  <2>2. ids[f] = NoId /\ c # Rows
    BY ChannelAssumption DEF EventsInit, Rows
  <2>3. QED
    BY <2>1, <2>2, FunctionAssumption DEF NoId
<1>4. CalledSoFar
  BY <1>1 DEF EventsInit, CalledSoFar, Passed
<1>5. QED
  BY <1>1, <1>2, <1>3, <1>4 DEF EventsInv

\* What the loop has called depends on the table and on the row under way only.
LEMMA RowUntouched ==
  ASSUME EventsInv, Inv', UNCHANGED <<table, ids, slot, called>>,
         slot = 0 \/ UNCHANGED <<todo, pc>>
  PROVE  EventsInv'
<1>1. EventsTypeOK' /\ Placed'
  BY DEF EventsInv, Inv, EventsTypeOK, Placed, Address, NoId
<1>2. CalledSoFar'
  <2>1. CASE slot = 0
    BY <2>1 DEF EventsInv, CalledSoFar, Passed
  <2>2. CASE UNCHANGED <<todo, pc>>
    BY <2>2 DEF EventsInv, CalledSoFar, Passed, Current
  <2>3. QED
    BY <2>1, <2>2
<1>3. QED
  BY <1>1, <1>2 DEF EventsInv

\* A function is registered in its own row, at a slot nothing is in.
LEMMA RegisterKeepsInv ==
  ASSUME EventsInv, RowsFit', Inv',
         NEW f \in Function, NEW c \in Channel, RegisterDmaEvent(f, c)
  PROVE  EventsInv'
<1> USE RowAssumption
<1>1. UNCHANGED <<slot, called>> /\ slot = 0 /\ ids[f] = NoId
  BY DEF RegisterDmaEvent, dmaVars, row, EventsInv, EventsTypeOK, CalledSoFar
<1>2. PICK s \in 0 .. Slots - 1 :
        /\ table[At(c, s)] = NoFunction
        /\ table' = [table EXCEPT ![At(c, s)] = f]
        /\ ids' = [ids EXCEPT ![f] = <<c, s>>]
  BY DEF RegisterDmaEvent
<1>3. s \in 0 .. RowSize - 1
  <2>1. ids'[f] = <<c, s>>
    BY <1>2 DEF EventsInv, EventsTypeOK
  <2>2. <<c, s>> # NoId
    BY DEF NoId
  <2>3. QED
    BY <2>1, <2>2 DEF RowsFit, NoId
<1>4. EventsTypeOK'
  <2>1. At(c, s) \in Address
    BY <1>3, Addresses
  <2>2. QED
    BY <1>1, <1>2, <2>1 DEF EventsInv, EventsTypeOK, Inv, Address, NoId
<1>5. Placed'
  <2> SUFFICES ASSUME NEW g \in Function, NEW d \in Channel, NEW t \in 0 .. RowSize - 1
               PROVE  table'[At(d, t)] = g <=> ids'[g] = <<d, t>>
    BY DEF Placed, At
  <2>1. At(d, t) \in Address /\ (At(d, t) = At(c, s) <=> d = c /\ t = s)
    BY <1>3, Addresses
  <2>2. CASE d = c /\ t = s
    BY <1>1, <1>2, <2>1, <2>2, FunctionAssumption DEF EventsInv, EventsTypeOK, Placed
  <2>3. CASE ~(d = c /\ t = s)
    BY <1>1, <1>2, <2>1, <2>3 DEF EventsInv, EventsTypeOK, Placed, NoId
  <2>4. QED
    BY <2>2, <2>3
<1>6. CalledSoFar'
  BY <1>1 DEF EventsInv, CalledSoFar, Passed
<1>7. QED
  BY <1>4, <1>5, <1>6 DEF EventsInv

\* Unregistering empties the slot of the function and no other.
LEMMA UnregisterKeepsInv ==
  ASSUME EventsInv, RowsFit, Inv', NEW f \in Function, UnregisterDmaEvent(f)
  PROVE  EventsInv'
<1> USE RowAssumption
<1>1. UNCHANGED <<slot, called>> /\ slot = 0 /\ ids[f] # NoId
  BY DEF UnregisterDmaEvent, dmaVars, row, EventsInv, EventsTypeOK, CalledSoFar
<1>2. PICK c \in Channel, s \in 0 .. RowSize - 1 : ids[f] = <<c, s>>
  BY <1>1 DEF EventsInv, EventsTypeOK, RowsFit
<1>3. /\ table' = [table EXCEPT ![At(c, s)] = NoFunction]
      /\ ids' = [ids EXCEPT ![f] = NoId]
  BY <1>2 DEF UnregisterDmaEvent
<1>4. EventsTypeOK'
  <2>1. At(c, s) \in Address
    BY Addresses
  <2>2. QED
    BY <1>1, <1>3, <2>1 DEF EventsInv, EventsTypeOK, Inv, Address, NoId
<1>5. Placed'
  <2> SUFFICES ASSUME NEW g \in Function, NEW d \in Channel, NEW t \in 0 .. RowSize - 1
               PROVE  table'[At(d, t)] = g <=> ids'[g] = <<d, t>>
    BY DEF Placed, At
  <2>1. At(d, t) \in Address /\ (At(d, t) = At(c, s) <=> d = c /\ t = s)
    BY Addresses
  <2>2. NoId # <<d, t>>
    BY ChannelAssumption DEF NoId, Rows
  <2>3. CASE d = c /\ t = s
    <3>1. table'[At(d, t)] # g
      BY <1>3, <2>1, <2>3, FunctionAssumption DEF EventsInv, EventsTypeOK
    <3>2. table[At(c, s)] = f
      BY <1>2 DEF EventsInv, Placed
    <3>3. g # f => ids[g] # <<c, s>>
      BY <3>2 DEF EventsInv, Placed
    <3>4. ids'[g] # <<d, t>>
      BY <1>3, <2>2, <2>3, <3>3 DEF EventsInv, EventsTypeOK
    <3>5. QED
      BY <3>1, <3>4
  <2>4. CASE ~(d = c /\ t = s)
    BY <1>2, <1>3, <2>1, <2>2, <2>4 DEF EventsInv, EventsTypeOK, Placed
  <2>5. QED
    BY <2>3, <2>4
<1>6. CalledSoFar'
  BY <1>1 DEF EventsInv, CalledSoFar, Passed
<1>7. QED
  BY <1>4, <1>5, <1>6 DEF EventsInv

\* The slot the loop is at calls its function, which no slot before it held.
LEMMA CallSlotKeepsInv ==
  ASSUME EventsInv, RowsFit, Inv', CallSlot
  PROVE  EventsInv'
<1> USE RowAssumption
<1>1. /\ pc = "call" /\ todo # {} /\ slot \in 0 .. RowSize - 1
      /\ UNCHANGED <<pc, todo, table, ids>> /\ slot' = slot + 1
  BY DEF CallSlot, dmaVars, table_, EventsInv, EventsTypeOK
<1>2. Current \in Channel /\ Current' = Current
  <2>1. Current \in todo
    BY <1>1, CurrentIsLowest DEF EventsInv, Inv
  <2>2. QED
    BY <1>1, <2>1 DEF EventsInv, Inv, DmaTypeOK, Current
<1>3. EventsTypeOK' /\ Placed'
  BY <1>1 DEF EventsInv, Inv, EventsTypeOK, Placed, Address, NoId
<1> DEFINE g == table[At(Current, slot)]
<1>4. called' = IF g = NoFunction THEN called ELSE Append(called, g)
  BY DEF CallSlot
<1>5. g \in Function \union {NoFunction}
  BY <1>1, <1>2, Addresses DEF EventsInv, EventsTypeOK
<1>6. \A f \in Function : f = g <=> ids[f] = <<Current, slot>>
  BY <1>1, <1>2 DEF EventsInv, Placed
<1>7. \A f \in Function : Passed(f)' <=> Passed(f) \/ f = g
  <2> SUFFICES ASSUME NEW f \in Function PROVE Passed(f)' <=> Passed(f) \/ f = g
    OBVIOUS
  <2>1. Passed(f)' <=> /\ ids[f] # NoId /\ ids[f][1] = Current /\ ids[f][2] < slot + 1
    BY <1>1, <1>2 DEF Passed
  <2>2. CASE ids[f] = NoId
    BY <1>2, <1>6, <2>1, <2>2, ChannelAssumption DEF Passed, NoId, Rows
  <2>3. CASE ids[f] # NoId
    <3>1. PICK d \in Channel, t \in 0 .. RowSize - 1 : ids[f] = <<d, t>>
      BY <2>3 DEF EventsInv, EventsTypeOK, RowsFit
    <3>2. Passed(f)' <=> d = Current /\ t < slot + 1
      BY <2>1, <2>3, <3>1
    <3>3. Passed(f) <=> d = Current /\ t < slot
      BY <1>1, <2>3, <3>1 DEF Passed
    <3>4. f = g <=> d = Current /\ t = slot
      BY <1>6, <3>1
    <3>5. QED
      BY <1>1, <3>2, <3>3, <3>4
  <2>4. QED
    BY <2>2, <2>3
<1>8. g \in Function => ~Passed(g)
  BY <1>1, <1>2, <1>6, FunctionAssumption DEF Passed
<1>9. CalledSoFar'
  <2>1. called \in Seq(Function)
    BY DEF EventsInv, CalledSoFar
  <2>2. CASE g = NoFunction
    BY <1>1, <1>4, <1>7, <2>2, FunctionAssumption DEF EventsInv, CalledSoFar
  <2>3. CASE g # NoFunction
    <3> DEFINE n == Len(called)
    <3>1. g \in Function /\ called' = Append(called, g) /\ n \in Nat
      BY <1>4, <1>5, <2>1, <2>3, LenProperties
    <3>2. /\ called' \in Seq(Function) /\ Len(called') = n + 1
          /\ \A i \in 1 .. n : called'[i] = called[i]
          /\ called'[n + 1] = g
      BY <2>1, <3>1, AppendProperties
    <3>3. \A i \in 1 .. n : called[i] # g
      BY <1>8, <3>1 DEF EventsInv, CalledSoFar
    <3>4. \A i, j \in 1 .. n + 1 : called'[i] = called'[j] => i = j
      BY <3>1, <3>2, <3>3 DEF EventsInv, CalledSoFar
    <3>5. \A f \in Function : (\E i \in 1 .. n + 1 : called'[i] = f) <=> Passed(f)'
      <4> SUFFICES ASSUME NEW f \in Function
                   PROVE  (\E i \in 1 .. n + 1 : called'[i] = f) <=> Passed(f)'
        OBVIOUS
      <4>1. (\E i \in 1 .. n + 1 : called'[i] = f) <=> (\E i \in 1 .. n : called[i] = f) \/ f = g
        BY <3>1, <3>2
      <4>2. QED
        BY <1>7, <4>1 DEF EventsInv, CalledSoFar
    <3>6. QED
      BY <1>1, <3>2, <3>4, <3>5 DEF CalledSoFar
  <2>4. QED
    BY <2>2, <2>3
<1>10. QED
  BY <1>3, <1>9 DEF EventsInv

\* The next row starts from its first slot.
LEMMA RowEndsKeepsInv ==
  ASSUME EventsInv, Inv', RowEnds
  PROVE  EventsInv'
<1> USE RowAssumption
<1>1. slot' = 0 /\ called' = << >> /\ UNCHANGED <<table, ids>>
  BY DEF RowEnds, table_
<1>2. EventsTypeOK' /\ Placed'
  BY <1>1 DEF EventsInv, Inv, EventsTypeOK, Placed, Address, NoId
<1>3. CalledSoFar'
  BY <1>1 DEF CalledSoFar, Passed
<1>4. QED
  BY <1>2, <1>3 DEF EventsInv

\* Nothing but a row under way stays between two slots.
LEMMA RestKeepsInv ==
  ASSUME EventsInv, Inv', Enter \/ Test \/ ReadDicr \/ AckDicr \/ NextPass, UNCHANGED <<table_, row>>
  PROVE  EventsInv'
<1>1. slot = 0
  BY RowAssumption DEF Enter, Test, ReadDicr, AckDicr, NextPass, EventsInv, EventsTypeOK, CalledSoFar
<1>2. QED
  BY <1>1, RowUntouched DEF table_, row

\* Every step keeps the invariant, as long as the function it registers fits.
LEMMA EventsStepKeepsInv == EventsInv /\ RowsFit /\ RowsFit' /\ [EventsNext]_allVars => EventsInv'
<1> SUFFICES ASSUME EventsInv, RowsFit, RowsFit', [EventsNext]_allVars PROVE EventsInv'
  OBVIOUS
<1>1. Inv'
  BY EventsStepImplements, StepKeepsInv DEF EventsInv
<1>2. ASSUME NEW f \in Function, UnregisterDmaEvent(f) PROVE EventsInv'
  BY <1>1, <1>2, UnregisterKeepsInv
<1>3. ASSUME NEW f \in Function, NEW c \in Channel, RegisterDmaEvent(f, c) PROVE EventsInv'
  BY <1>1, <1>3, RegisterKeepsInv
<1>4. CASE (Enter \/ Test \/ ReadDicr \/ AckDicr \/ NextPass) /\ UNCHANGED <<table_, row>>
  BY <1>1, <1>4, RestKeepsInv
<1>5. CASE CallSlot
  BY <1>1, <1>5, CallSlotKeepsInv
<1>6. CASE RowEnds
  BY <1>1, <1>6, RowEndsKeepsInv
<1>7. ASSUME NEW c \in Channel, Start(c) \/ Finish(c) PROVE EventsInv'
  <2>1. UNCHANGED <<table, ids, slot, called, todo, pc>>
    BY <1>7 DEF Start, Finish, StartTransfer, Complete, table_, row
  <2>2. QED
    BY <1>1, <2>1, RowUntouched
<1>8. CASE UNCHANGED allVars
  <2>1. UNCHANGED <<table, ids, slot, called, todo, pc>>
    BY <1>8 DEF allVars, dmaVars, table_, row
  <2>2. QED
    BY <1>1, <2>1, RowUntouched
<1>9. QED
  BY <1>2, <1>3, <1>4, <1>5, <1>6, <1>7, <1>8 DEF EventsNext, Dispatch

\* While no channel is given more functions than its row holds, a completion
\* calls each function of its channel once and none of another, whatever was
\* unregistered before it (kernel.cpp 217-233, 266-275, 319-327).
THEOREM OwnChannel == EventsSpec /\ []RowsFit => []CalledForOwnChannel
<1>1. EventsSpec /\ []RowsFit => []EventsInv
  BY EventsInitInv, EventsStepKeepsInv, PTL DEF EventsSpec
<1>2. QED
  BY <1>1, InvGivesCalled, PTL

\* With no more functions than a row has slots, the first empty slot of a row is
\* in the row: the others would otherwise hold one function twice.
LEMMA FirstEmptyInRow ==
  ASSUME EventsInv, IsFiniteSet(Function), Cardinality(Function) <= RowSize,
         NEW f \in Function, ids[f] = NoId, NEW c \in Channel
  PROVE  \E r \in 0 .. RowSize - 1 : table[At(c, r)] = NoFunction
<1> USE RowAssumption
<1> SUFFICES ASSUME \A r \in 0 .. RowSize - 1 : table[At(c, r)] # NoFunction PROVE FALSE
  OBVIOUS
<1> DEFINE S == 0 .. RowSize - 1
           T == Function \ {f}
           held == [r \in S |-> table[At(c, r)]]
<1>1. \A r \in S : table[At(c, r)] \in Function /\ ids[table[At(c, r)]] = <<c, r>>
  <2> SUFFICES ASSUME NEW r \in S
               PROVE  table[At(c, r)] \in Function /\ ids[table[At(c, r)]] = <<c, r>>
    OBVIOUS
  <2>1. table[At(c, r)] \in Function
    BY Addresses DEF EventsInv, EventsTypeOK
  <2>2. QED
    BY <2>1 DEF EventsInv, Placed
<1>2. <<c, 0>> # NoId /\ \A r \in S : <<c, r>> # NoId
  BY ChannelAssumption DEF NoId, Rows
<1>3. held \in [S -> T]
  BY <1>1, <1>2
<1>4. IsFiniteSet(S) /\ Cardinality(S) = RowSize
  BY FS_Interval
<1>5. IsFiniteSet(T) /\ Cardinality(T) = Cardinality(Function) - 1
  BY FS_RemoveElement
<1>6. Cardinality(Function) \in Nat
  BY FS_CardinalityType
<1>7. Cardinality(T) < Cardinality(S)
  BY <1>4, <1>5, <1>6
<1> HIDE DEF S, T, held
<1>8. PICK x \in S, y \in S : x # y /\ held[x] = held[y]
  BY <1>3, <1>4, <1>5, <1>7, FS_PigeonHole
<1>9. QED
  BY <1>1, <1>8 DEF held

\* As many functions as a row has slots, four, may come and go in any order between
\* the interrupts, for any channels: the documented dispatch is what they get
\* (kernel.cpp 213-233, 266-275, 319-327).
THEOREM FewFunctions ==
  ASSUME IsFiniteSet(Function), Cardinality(Function) <= RowSize
  PROVE  EventsSpec => [](RowsFit /\ CalledForOwnChannel)
<1>1. EventsInit => RowsFit
  BY DEF EventsInit, RowsFit
<1>2. EventsInv /\ RowsFit /\ [EventsNext]_allVars => RowsFit'
  <2> SUFFICES ASSUME EventsInv, RowsFit, [EventsNext]_allVars PROVE RowsFit'
    OBVIOUS
  <2>1. ASSUME NEW f \in Function, NEW c \in Channel, RegisterDmaEvent(f, c) PROVE RowsFit'
    <3>1. PICK s \in 0 .. Slots - 1 :
            /\ \A r \in 0 .. s - 1 : table[At(c, r)] # NoFunction
            /\ ids' = [ids EXCEPT ![f] = <<c, s>>]
      BY <2>1 DEF RegisterDmaEvent
    <3>2. ids[f] = NoId
      BY <2>1 DEF RegisterDmaEvent
    <3>3. PICK r \in 0 .. RowSize - 1 : table[At(c, r)] = NoFunction
      BY <3>2, FirstEmptyInRow
    <3>4. s < RowSize
      BY <3>1, <3>3, RowAssumption
    <3>5. QED
      BY <3>1, <3>4 DEF RowsFit, EventsInv, EventsTypeOK, NoId
  <2>2. ASSUME NEW f \in Function, UnregisterDmaEvent(f) PROVE RowsFit'
    BY <2>2 DEF UnregisterDmaEvent, RowsFit, EventsInv, EventsTypeOK, NoId
  <2>3. CASE Dispatch
    BY <2>3 DEF Dispatch, CallSlot, RowEnds, table_, RowsFit, NoId
  <2>4. ASSUME NEW c \in Channel, Start(c) \/ Finish(c) PROVE RowsFit'
    BY <2>4 DEF Start, Finish, table_, RowsFit, NoId
  <2>5. CASE UNCHANGED allVars
    BY <2>5 DEF allVars, table_, RowsFit, NoId
  <2>6. QED
    BY <2>1, <2>2, <2>3, <2>4, <2>5 DEF EventsNext
<1>3. EventsSpec => [](EventsInv /\ RowsFit)
  BY <1>1, <1>2, EventsInitInv, EventsStepKeepsInv, PTL DEF EventsSpec
<1>4. QED
  BY <1>3, InvGivesCalled, PTL
----------------------------------------------------------------------------
(***************************************************************************)
(* The file system of memory cards.                                           *)
(***************************************************************************)
\* The blocks of the probe are halves of one another, in order.
Halves == \A i, j \in DOMAIN Probes : Probes[i] % Probes[j] = 0 <=> i <= j

\* The data of a card has frames for the blocks the card has.
CardHeld == /\ "data" \in DOMAIN card /\ DOMAIN card.data = 1 .. real - 1
        /\ \A b \in 1 .. real - 1 : DOMAIN card.data[b] = 0 .. Frames - 1

\* A block of the probe that is not block 0 by another number does not read as sector 0.
Cleared(j) == Probes[j] % real # 0 => card.data[Probes[j] % real][0] = Zero

\* While a card is formatted, what was probed so far is cleared.
FormatInv ==
  /\ real \in Reals /\ CardHeld
  /\ phase = "idle" => idx = 0
  /\ phase = "format" => idx \in Nat /\ \A j \in DOMAIN Probes : j <= idx => Cleared(j)

\* The probe, the frames and the sizes of cards.
LEMMA ProbeFacts ==
  /\ Blocks \in Nat /\ Blocks >= 2 /\ Frames \in Nat /\ Frames >= 2
  /\ Len(Probes) \in Nat /\ DOMAIN Probes = 1 .. Len(Probes)
  /\ \A j \in DOMAIN Probes : Probes[j] \in 1 .. Blocks - 1
  /\ \A r \in Reals : r = Blocks \/ \E k \in DOMAIN Probes : r = Probes[k]
<1>1. Blocks \in Nat /\ Blocks >= 2 /\ Frames \in Nat /\ Frames >= 2
  BY FilesAssumption
<1>2. Probes \in Seq(1 .. Blocks - 1)
  BY FilesAssumption
<1>3. Range(Probes) = {Probes[k] : k \in DOMAIN Probes}
  BY DEF Range
<1>4. \A r \in Reals : r = Blocks \/ \E k \in DOMAIN Probes : r = Probes[k]
  BY <1>3, FilesAssumption
<1> QED BY <1>1, <1>2, <1>4

\* A cleared sector stays cleared.
LEMMA StoreHolds ==
  ASSUME CardHeld, real \in Nat \ {0}, NEW b \in Nat, NEW f \in 0 .. Frames - 1, NEW content, card' = Store(b, f, content), real' = real
  PROVE  /\ CardHeld'
         /\ \A j \in DOMAIN Probes : Cleared(j) /\ content = Zero => Cleared(j)'
         /\ b % real # 0 => card'.data[b % real][f] = content
<1>1. b % real \in 0 .. real - 1
  OBVIOUS
<1>2. CASE b % real = 0
  <2>1. card' = [card EXCEPT !.header = FALSE]
    BY <1>2 DEF Store
  <2>2. card'.data = card.data /\ DOMAIN card' = DOMAIN card
    BY <2>1 DEF CardHeld
  <2> QED BY <1>2, <2>2 DEF CardHeld, Cleared
<1>3. CASE b % real # 0
  <2> DEFINE c == b % real
  <2>1. card' = [card EXCEPT !.data[c][f] = content]
    BY <1>3 DEF Store
  <2>2. c \in 1 .. real - 1
    BY <1>1, <1>3
  <2> HIDE DEF c
  <2>3. /\ DOMAIN card' = DOMAIN card /\ DOMAIN card'.data = DOMAIN card.data
        /\ card'.data = [card.data EXCEPT ![c] = [card.data[c] EXCEPT ![f] = content]]
    BY <2>1 DEF CardHeld
  <2>4. /\ \A d \in 1 .. real - 1 : d # c => card'.data[d] = card.data[d]
        /\ card'.data[c] = [card.data[c] EXCEPT ![f] = content]
    BY <2>2, <2>3 DEF CardHeld
  <2>5. /\ DOMAIN card'.data[c] = 0 .. Frames - 1 /\ card'.data[c][f] = content
        /\ \A g \in 0 .. Frames - 1 : g # f => card'.data[c][g] = card.data[c][g]
    BY <2>2, <2>4 DEF CardHeld
  <2>6. CardHeld'
    BY <2>3, <2>4, <2>5 DEF CardHeld
  <2>7. ASSUME NEW j \in DOMAIN Probes, Cleared(j), content = Zero, Probes[j] % real # 0
        PROVE  card'.data[Probes[j] % real][0] = Zero
    <3> DEFINE p == Probes[j] % real
    <3>1. Probes[j] \in Nat
      BY ProbeFacts
    <3>2. p \in 0 .. real - 1
      BY <3>1
    <3>3. p \in 1 .. real - 1
      BY <2>7, <3>2
    <3>4. card.data[p][0] = Zero
      BY <2>7 DEF Cleared
    <3> HIDE DEF p
    <3>5. 0 \in 0 .. Frames - 1
      BY ProbeFacts
    <3>6. card'.data[p][0] = Zero
      BY <2>4, <2>5, <2>7, <3>3, <3>4, <3>5
    <3> QED BY <3>6 DEF p
  <2>8. \A j \in DOMAIN Probes : Cleared(j) /\ content = Zero => Cleared(j)'
    BY <2>7 DEF Cleared
  <2> QED BY <2>5, <2>6, <2>8 DEF c
<1> QED BY <1>2, <1>3

\* A sector that is written, wherever it is, leaves the card its shape.
LEMMA StoreHeld ==
  ASSUME CardHeld, NEW b, NEW f, NEW content, card' = Store(b, f, content), real' = real
  PROVE  CardHeld'
<1>1. CASE b % real = 0
  <2>1. card' = [card EXCEPT !.header = FALSE]
    BY <1>1 DEF Store
  <2>2. card'.data = card.data /\ DOMAIN card' = DOMAIN card
    BY <2>1 DEF CardHeld
  <2> QED BY <2>2 DEF CardHeld
<1>2. CASE b % real # 0
  <2> DEFINE c == b % real
  <2>1. card' = [card EXCEPT !.data[c][f] = content]
    BY <1>2 DEF Store
  <2> HIDE DEF c
  <2>2. /\ DOMAIN card' = DOMAIN card /\ DOMAIN card'.data = DOMAIN card.data
        /\ card'.data = [card.data EXCEPT ![c] = [card.data[c] EXCEPT ![f] = content]]
    BY <2>1 DEF CardHeld
  <2>3. ASSUME NEW d \in 1 .. real - 1 PROVE DOMAIN card'.data[d] = 0 .. Frames - 1
    <3>1. CASE d = c
      <4>1. card'.data[d] = [card.data[d] EXCEPT ![f] = content]
        BY <2>2, <3>1 DEF CardHeld
      <4> QED BY <4>1 DEF CardHeld
    <3>2. CASE d # c
      <4>1. card'.data[d] = card.data[d]
        BY <2>2, <3>2 DEF CardHeld
      <4> QED BY <4>1 DEF CardHeld
    <3> QED BY <3>1, <3>2
  <2> QED BY <2>2, <2>3 DEF CardHeld
<1> QED BY <1>1, <1>2

\* The sector of any phase leaves the card its shape.
LEMMA WrittenHeld ==
  ASSUME CardHeld, card' = card \/ card' = Written, real' = real
  PROVE  CardHeld'
<1>1. CASE card' = card
  BY <1>1 DEF CardHeld
<1>2. CASE card' = Written /\ phase = "writeData"
  <2>1. card' = Store(Frame(idx)[1], Frame(idx)[2], <<op.version, idx>>)
    BY <1>2 DEF Written
  <2> QED BY <2>1, StoreHeld
<1>3. CASE card' = Written /\ phase = "writeDir"
  <2>1. card' = [card EXCEPT !.dir[order[idx + 1]] = dir[order[idx + 1]]]
    BY <1>3 DEF Written
  <2>2. card'.data = card.data /\ DOMAIN card' = DOMAIN card
    BY <2>1 DEF CardHeld
  <2> QED BY <2>2 DEF CardHeld
<1>4. CASE card' = Written /\ phase = "format"
  <2>1. card' = Formatted
    BY <1>4 DEF Written
  <2>2. CASE idx < Len(Probes)
    <3>1. card' = Store(Probes[idx + 1], 0, Zero)
      BY <2>1, <2>2 DEF Formatted
    <3> QED BY <3>1, StoreHeld
  <2>3. CASE ~(idx < Len(Probes))
    <3>1. \/ card' = [card EXCEPT !.header = TRUE]
          \/ card' = [card EXCEPT !.dir[idx - Len(Probes)] = Free]
      BY <2>1, <2>3 DEF Formatted
    <3>2. card'.data = card.data /\ DOMAIN card' = DOMAIN card
      BY <3>1 DEF CardHeld
    <3> QED BY <3>2 DEF CardHeld
  <2> QED BY <2>2, <2>3
<1>5. CASE card' = Written /\ phase \notin {"writeData", "writeDir", "format"}
  <2>1. card' = card
    BY <1>5 DEF Written
  <2> QED BY <1>1, <2>1
<1> QED BY <1>1, <1>2, <1>3, <1>4, <1>5

\* A sector of the probe is cleared, and those before it stay so.
LEMMA FormatClears ==
  ASSUME FormatInv, phase = "format", Format, card' = Written, real' = real
  PROVE  /\ \A j \in DOMAIN Probes : j <= idx + 1 => Cleared(j)'
         /\ phase' = "format" => idx' = idx + 1
         /\ phase' = "done" => \A j \in DOMAIN Probes : Cleared(j)'
         /\ phase' \in {"format", "done"}
<1>1. /\ idx \in Nat /\ \A j \in DOMAIN Probes : j <= idx => Cleared(j)
      /\ CardHeld /\ real \in Reals
  BY DEF FormatInv
<1>2. card' = Formatted
  BY DEF Written
<1>3. real \in Nat \ {0}
  BY <1>1, ProbeFacts
<1>4. Len(Probes) \in Nat /\ DOMAIN Probes = 1 .. Len(Probes) /\ Blocks \in Nat /\ Blocks >= 2 /\ 0 \in 0 .. Frames - 1
  BY ProbeFacts
<1>5. \A j \in DOMAIN Probes : j <= idx + 1 => Cleared(j)'
  <2>1. CASE idx < Len(Probes)
    <3> DEFINE b == Probes[idx + 1]
    <3>1. card' = Store(b, 0, Zero)
      BY <1>2, <2>1 DEF Formatted
    <3>2. idx + 1 \in DOMAIN Probes
      BY <1>1, <1>4, <2>1
    <3>3. b \in Nat
      BY <3>2, ProbeFacts
    <3> HIDE DEF b
    <3>4. /\ \A j \in DOMAIN Probes : Cleared(j) => Cleared(j)'
          /\ b % real # 0 => card'.data[b % real][0] = Zero
      BY <1>1, <1>3, <1>4, <3>1, <3>3, StoreHolds
    <3>5. \A j \in DOMAIN Probes : j = idx + 1 => Cleared(j)'
      BY <1>3, <3>4 DEF Cleared, b
    <3>6. \A j \in DOMAIN Probes : j <= idx + 1 => j <= idx \/ j = idx + 1
      BY <1>1, <1>4
    <3> QED BY <1>1, <3>4, <3>5, <3>6
  <2>2. CASE ~(idx < Len(Probes))
    <3>1. \/ card' = [card EXCEPT !.header = TRUE]
          \/ card' = [card EXCEPT !.dir[idx - Len(Probes)] = Free]
      BY <1>2, <2>2 DEF Formatted
    <3>2. card'.data = card.data
      BY <1>1, <3>1 DEF CardHeld
    <3>3. \A j \in DOMAIN Probes : j <= idx
      BY <1>1, <1>4, <2>2
    <3> QED BY <1>1, <3>2, <3>3 DEF Cleared
  <2> QED BY <2>1, <2>2
<1>6. CASE idx < Len(Probes) + Blocks - 1
  <2>1. phase' = "format" /\ idx' = idx + 1
    BY <1>6 DEF Format, Steps
  <2> QED BY <1>5, <2>1
<1>7. CASE ~(idx < Len(Probes) + Blocks - 1)
  <2>1. phase' = "done"
    BY <1>7 DEF Format, Finished
  <2>2. \A j \in DOMAIN Probes : j <= idx + 1
    BY <1>1, <1>4, <1>7
  <2> QED BY <1>5, <2>1, <2>2
<1> QED BY <1>5, <1>6, <1>7

\* The sectors of the other operations lead to none of formatting.
LEMMA OtherSectors ==
  ASSUME SectorDone, phase # "format"
  PROVE  phase' \notin {"idle", "format"}
<1>1. CASE Header
  BY <1>1 DEF Header, Steps, Finished
<1>2. CASE Probe
  BY <1>2 DEF Probe, Steps
<1>3. CASE ReadDir
  <2>1. CASE \E b \in First(card.dir, op.name) : Seek(b)
    BY <2>1 DEF Seek, Steps, Finished
  <2>2. CASE \E b \in First(card.dir, op.name) : Cut(b)
    BY <2>2 DEF Cut, Steps
  <2>3. CASE Allocate
    BY <2>3, Zenon DEF Allocate, Steps, Finished
  <2>4. CASE \E why : Finished(why)
    BY <2>4 DEF Finished
  <2> QED BY <1>3, <2>1, <2>2, <2>3, <2>4, Zenon DEF ReadDir
<1>4. CASE ReadTitle
  BY <1>4 DEF ReadTitle, Steps
<1>5. CASE ReadData
  BY <1>5 DEF ReadData, Steps, Finished
<1>6. CASE ReadInfo
  BY <1>6 DEF ReadInfo, Finished
<1>7. CASE WriteData
  BY <1>7 DEF WriteData, Steps
<1>8. CASE WriteDir
  BY <1>8 DEF WriteDir, Steps, Finished
<1>9. ~Format
  BY DEF Format
<1> QED BY <1>1, <1>2, <1>3, <1>4, <1>5, <1>6, <1>7, <1>8, <1>9 DEF SectorDone

\* Each step keeps the invariant.
LEMMA FormatStep ==
  ASSUME FormatInv, [FilesNext]_filesVars
  PROVE  FormatInv'
<1>1. CardHeld /\ real \in Reals /\ (phase = "idle" => idx = 0)
  BY DEF FormatInv
<1>2. ASSUME NEW o, Begin(o) PROVE FormatInv'
  <2>1. /\ phase = "idle" /\ card' = card /\ real' = real /\ idx' = idx /\ phase' # "idle"
    BY <1>2 DEF Begin
  <2>2. idx' = 0 /\ \A j \in DOMAIN Probes : ~(j <= 0)
    BY <1>1, <2>1, ProbeFacts
  <2>3. CardHeld'
    BY <1>1, <2>1, WrittenHeld
  <2> QED BY <1>1, <2>1, <2>2, <2>3 DEF FormatInv
<1>3. CASE SectorDone
  <2>1. card' = Written /\ real' = real
    BY <1>3 DEF SectorDone
  <2>2. CardHeld'
    BY <1>1, <2>1, WrittenHeld
  <2>3. CASE phase = "format"
    <3>1. Format
      BY <1>3, <2>3 DEF SectorDone, Header, Probe, ReadDir, ReadTitle, ReadData, ReadInfo, WriteData, WriteDir
    <3>2. /\ \A j \in DOMAIN Probes : j <= idx + 1 => Cleared(j)'
          /\ phase' = "format" => idx' = idx + 1
          /\ phase' \in {"format", "done"}
      BY <2>1, <2>3, <3>1, FormatClears
    <3>3. idx \in Nat
      BY <2>3 DEF FormatInv
    <3> QED BY <1>1, <2>1, <2>2, <3>2, <3>3 DEF FormatInv
  <2>4. CASE phase # "format"
    <3>1. phase' \notin {"idle", "format"}
      BY <1>3, <2>4, OtherSectors
    <3> QED BY <1>1, <2>1, <2>2, <3>1 DEF FormatInv
  <2> QED BY <2>3, <2>4
<1>4. CASE CutShort \/ Return
  <2>1. /\ card' = card \/ card' = Written
        /\ real' = real /\ phase' = "idle" /\ idx' = 0
    BY <1>4 DEF CutShort, Return, Idle
  <2>2. CardHeld'
    BY <1>1, <2>1, WrittenHeld
  <2> QED BY <1>1, <2>1, <2>2 DEF FormatInv
<1>5. CASE UNCHANGED filesVars
  <2>1. card' = card /\ real' = real /\ phase' = phase /\ idx' = idx
    BY <1>5 DEF filesVars, engine
  <2>2. CardHeld'
    BY <1>1, <2>1, WrittenHeld
  <2> QED BY <1>1, <2>1, <2>2 DEF FormatInv, Cleared
<1> QED BY <1>2, <1>3, <1>4, <1>5 DEF FilesNext, Look, OnFile, Read, Write

\* Any card that has been left anywhere has frames for its blocks.
LEMMA FormatInit ==
  ASSUME FilesInit
  PROVE  FormatInv
<1>1. real \in Reals /\ idx = 0 /\ phase = "idle"
  BY DEF FilesInit
<1>2. PICK header \in BOOLEAN, copies \in SUBSET Range(Probes) :
        card = [header |-> header, dir |-> Blank,
                data |-> [b \in 1 .. real - 1 |-> [f \in 0 .. Frames - 1 |->
                            IF f = 0 /\ b \in copies THEN Copy ELSE Zero]]]
  BY DEF FilesInit
<1>3. CardHeld
  BY <1>2 DEF CardHeld
<1> QED BY <1>1, <1>3 DEF FormatInv

\* A card on which every block of the probe is cleared is measured for what it is.
LEMMA MeasuredIsReal ==
  ASSUME Halves, real \in Reals, \A j \in DOMAIN Probes : Cleared(j)
  PROVE  Measured = real
<1>1. /\ Blocks \in Nat /\ Len(Probes) \in Nat /\ DOMAIN Probes = 1 .. Len(Probes)
      /\ \A j \in DOMAIN Probes : Probes[j] \in 1 .. Blocks - 1
  BY ProbeFacts
<1>2. Zero # Copy
  BY DEF Zero, Copy
<1>3. \A j \in DOMAIN Probes : Fetch(Probes[j], 0) = Copy <=> Probes[j] % real = 0
  BY <1>2 DEF Fetch, Cleared
<1> DEFINE same == {i \in DOMAIN Probes : \A j \in 1 .. i : Fetch(Probes[j], 0) = Copy}
<1>4. \A i \in DOMAIN Probes : \A j \in 1 .. i : j \in DOMAIN Probes
  BY <1>1
<1>5. same = {i \in DOMAIN Probes : \A j \in 1 .. i : Probes[j] % real = 0}
  BY <1>3, <1>4
<1>6. CASE real = Blocks
  <2>1. \A j \in DOMAIN Probes : Probes[j] % Blocks # 0
    BY <1>1
  <2>2. ASSUME NEW i \in DOMAIN Probes PROVE i \notin same
    <3>1. i \in 1 .. i
      BY <1>1
    <3> QED BY <1>5, <1>6, <2>1, <3>1
  <2>3. same = {}
    BY <2>2
  <2> QED BY <1>6, <2>3, Zenon DEF Measured
<1>7. ASSUME NEW k \in DOMAIN Probes, real = Probes[k] PROVE Measured = real
  <2>1. \A j \in DOMAIN Probes : Probes[j] % real = 0 <=> j <= k
    BY <1>7 DEF Halves
  <2>2. ASSUME NEW i \in DOMAIN Probes PROVE i \in same <=> i <= k
    <3>1. i <= k => \A j \in 1 .. i : Probes[j] % real = 0
      BY <1>1, <1>4, <2>1
    <3>2. i \in 1 .. i
      BY <1>1
    <3> QED BY <1>5, <2>1, <3>1, <3>2
  <2>3. same = 1 .. k
    BY <1>1, <2>2
  <2>4. k \in Nat /\ k >= 1
    BY <1>1, <1>7
  <2>5. Cardinality(1 .. k) = k
    BY <2>4, FS_Interval
  <2>6. same # {} /\ Cardinality(same) = k
    BY <2>3, <2>4, <2>5
  <2>7. Measured = Probes[Cardinality(same)]
    BY <2>6, Zenon DEF Measured
  <2> QED BY <1>7, <2>6, <2>7
<1> QED BY <1>6, <1>7, ProbeFacts

\* Whatever was on a card, and whatever was cut short on it before, a format that ends makes it
\* measured for the blocks it has, if the blocks of the probe are halves of one another
\* (memory-card-filesystem.cpp 273-303).
THEOREM FormatRestores ==
  ASSUME Halves
  PROVE  FilesSpec => SizeRestored
<1>1. FilesInit => FormatInv
  BY FormatInit
<1>2. FormatInv /\ [FilesNext]_filesVars => FormatInv'
  BY FormatStep
<1>3. real \in Reals /\ (\A j \in DOMAIN Probes : Cleared(j)) => Measured = real
  BY MeasuredIsReal
<1>4. (real \in Reals /\ (\A j \in DOMAIN Probes : Cleared(j)) => Measured = real)'
  BY <1>3, PTL
<1>5. FormatInv /\ [FilesNext]_filesVars =>
        [op.kind = "format" /\ phase = "format" /\ phase' = "done" => Measured' = real']_filesVars
  <2> SUFFICES ASSUME FormatInv, FilesNext, phase = "format", phase' = "done"
               PROVE  Measured' = real'
    OBVIOUS
  <2>1. SectorDone
    BY DEF FilesNext, Look, OnFile, Read, Write, Begin, CutShort, Return, Idle
  <2>2. Format /\ card' = Written /\ real' = real
    BY <2>1 DEF SectorDone, Header, Probe, ReadDir, ReadTitle, ReadData, ReadInfo, WriteData, WriteDir
  <2>3. \A j \in DOMAIN Probes : Cleared(j)'
    BY <2>2, FormatClears
  <2>4. real' \in Reals
    BY <2>2 DEF FormatInv
  <2> QED BY <1>4, <2>3, <2>4
<1> QED BY <1>1, <1>2, <1>5, PTL DEF FilesSpec, SizeRestored
=============================================================================
