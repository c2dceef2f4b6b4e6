----------------------------- MODULE DmaEvents -----------------------------
(***************************************************************************)
(* The callbacks of DMA interrupts (psyqo/src/kernel.cpp 213-233, 266-275, *)
(* 319-327) over the dispatch: s_dmaCallbacks has a row for each channel,  *)
(* laid out one after the other, and registerDmaEvent searches more slots  *)
(* than a row has.  Reading a slot past the row is undefined for the       *)
(* language; the build reads the next row, which is what is modelled.      *)
(* Past the last row it reads whatever follows, and the model stops there. *)
(***************************************************************************)
EXTENDS DmaInterrupt, Sequences, FiniteSets

CONSTANTS
  Function,     \* the functions that drivers register
  NoFunction,   \* an empty eastl::function, none of them
  RowSize,      \* 4
  Slots         \* SLOTS, 16

ASSUME RowAssumption == RowSize \in Nat \ {0} /\ Slots \in Nat /\ RowSize <= Slots
ASSUME FunctionAssumption == NoFunction \notin Function

VARIABLES
  table,        \* s_dmaCallbacks, flattened
  ids,          \* the (channel, slot) each registered function was given
  slot,         \* the next slot of the row under way
  called        \* the functions that were called for it

table_ == <<table, ids>>
row == <<slot, called>>
allVars == <<dmaVars, table_, row>>

Rows == 7    \* DMA::Max: a row for each channel, used or not
Address == 0 .. Rows * RowSize - 1
NoId == <<Rows, Slots>>

At(channel, s) == channel * RowSize + s

EventsTypeOK ==
  /\ DmaTypeOK
  /\ table \in [Address -> Function \union {NoFunction}]
  /\ ids \in [Function -> (Channel \X (0 .. Slots - 1)) \union {NoId}]
  /\ slot \in 0 .. RowSize

EventsInit ==
  /\ DmaInit
  /\ table = [a \in Address |-> NoFunction]
  /\ ids = [f \in Function |-> NoId]
  /\ slot = 0 /\ called = << >>

\* The first of the sixteen slots that is empty; none, and the program aborts.
RegisterDmaEvent(f, channel) ==
  /\ pc = "main"
  /\ ids[f] = NoId
  /\ \E s \in 0 .. Slots - 1 :
       /\ At(channel, s) \in Address
       /\ table[At(channel, s)] = NoFunction
       /\ \A r \in 0 .. s - 1 : table[At(channel, r)] # NoFunction
       /\ table' = [table EXCEPT ![At(channel, s)] = f]
       /\ ids' = [ids EXCEPT ![f] = <<channel, s>>]
  /\ UNCHANGED <<dmaVars, row>>

\* The program aborts on a slot that is empty.
UnregisterDmaEvent(f) ==
  /\ pc = "main"
  /\ ids[f] # NoId
  /\ LET a == At(ids[f][1], ids[f][2])
     IN  table[a] # NoFunction /\ table' = [table EXCEPT ![a] = NoFunction]
  /\ ids' = [ids EXCEPT ![f] = NoId]
  /\ UNCHANGED <<dmaVars, row>>

Current == CHOOSE c \in todo : \A d \in todo : c <= d

\* Mutant of CallSlot: the first empty slot ends the row.
CallSlotUpToEmpty ==
  /\ pc = "call" /\ todo # {} /\ slot < RowSize
  /\ LET f == table[At(Current, slot)]
     IN  IF f = NoFunction THEN slot' = RowSize /\ UNCHANGED called
         ELSE slot' = slot + 1 /\ called' = Append(called, f)
  /\ UNCHANGED <<dmaVars, table_>>

\* The inner loop of dmaIRQOnce.
CallSlot ==
  /\ pc = "call" /\ todo # {} /\ slot < RowSize
  /\ LET f == table[At(Current, slot)]
     IN  called' = IF f = NoFunction THEN called ELSE Append(called, f)
  /\ slot' = slot + 1
  /\ UNCHANGED <<dmaVars, table_>>

\* The row is over; what a callback starts is in Call.
RowEnds ==
  /\ slot = RowSize
  /\ \E c \in Channel : Call(c)
  /\ slot' = 0 /\ called' = << >>
  /\ UNCHANGED table_

\* The handler, and the rest, as in DmaInterrupt.
Dispatch ==
  \/ (Enter \/ Test \/ ReadDicr \/ AckDicr \/ NextPass) /\ UNCHANGED <<table_, row>>
  \/ CallSlot \/ RowEnds
Start(c) == StartTransfer(c) /\ UNCHANGED <<table_, row>>
Finish(c) == Complete(c) /\ UNCHANGED <<table_, row>>

EventsNext ==
  \/ \E f \in Function : UnregisterDmaEvent(f) \/ \E c \in Channel : RegisterDmaEvent(f, c)
  \/ Dispatch
  \/ \E c \in Channel : Start(c) \/ Finish(c)

\* The processor runs the handler, and the controller finishes what it was given.
EventsSpec ==
  /\ EventsInit /\ [][EventsNext]_allVars
  /\ WF_allVars(Dispatch)
  /\ \A c \in Channel : WF_allVars(Finish(c))
----------------------------------------------------------------------------
\* "Sets an ISR callback for a given DMA channel ... All the callbacks
\* registered will be called" (kernel.hh 259-265): a completion calls each
\* function of its channel once and no other, whatever was unregistered before it.
CalledForOwnChannel ==
  /\ EventsTypeOK
  /\ slot = RowSize =>
       \A f \in Function :
         Cardinality({i \in DOMAIN called : called[i] = f}) =
           IF ids[f] # NoId /\ ids[f][1] = Current THEN 1 ELSE 0
=============================================================================
