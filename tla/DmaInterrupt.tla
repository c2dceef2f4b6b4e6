---------------------------- MODULE DmaInterrupt ----------------------------
(***************************************************************************)
(* The dispatch of DMA interrupts in the psyqo kernel (psyqo/src/kernel.cpp  *)
(* 288-327) against the controller it talks to.  A channel that finishes sets *)
(* its flag in DICR; bit 31 of DICR is the OR of the flags and only its       *)
(* rising edge is latched in I_STAT.  The controller runs at any time, also   *)
(* between two instructions of the handler; the main thread does not.         *)
(***************************************************************************)
EXTENDS Naturals

CONSTANTS
  Channel,      \* the DMA channels, numbered from 0
  MaxPasses,    \* passes of dmaIRQ, 16 in the code
  Starts        \* <<c, d>>: the callback of channel c may start channel d

ASSUME ChannelAssumption == Channel \subseteq 0 .. 6
ASSUME MaxPassesAssumption == MaxPasses \in Nat \ {0}
ASSUME StartsAssumption == Starts \subseteq Channel \X Channel

VARIABLES
  busy,         \* channels transferring: CHCR bit 24
  flags,        \* DICR bits 24 to 30
  istat,        \* the DMA bit of I_STAT
  pc,           \* where the handler is, "main" outside it
  pass,         \* the pass counter of dmaIRQ
  dirqs,        \* DICR >> 24 as dmaIRQOnce read it, bit 31 included
  todo,         \* channels whose callbacks this pass has still to call
  owed          \* completions no callback has been called for

dmaVars == <<busy, flags, istat, pc, pass, dirqs, todo, owed>>

Master == 7    \* bit 31 of DICR is bit 7 of dirqs

DmaTypeOK ==
  /\ busy \subseteq Channel
  /\ flags \subseteq Channel
  /\ istat \in BOOLEAN
  /\ pc \in {"main", "test", "read", "ack", "call"}
  /\ pass \in 0 .. MaxPasses
  /\ dirqs \subseteq Channel \union {Master}
  /\ todo \subseteq Channel
  /\ owed \subseteq Channel

DmaInit ==
  /\ busy = {} /\ flags = {} /\ istat = FALSE
  /\ pc = "main" /\ pass = 0 /\ dirqs = {} /\ todo = {} /\ owed = {}

\* A driver starts a transfer once the previous one has been called back
\* (the asserts of gpu.cpp 422, 480 and 547).
StartTransfer(c) ==
  /\ pc = "main"
  /\ c \notin busy \union owed
  /\ busy' = busy \union {c}
  /\ UNCHANGED <<flags, istat, pc, pass, dirqs, todo, owed>>

\* The controller: the flag is set, and I_STAT when bit 31 rises.
Complete(c) ==
  /\ c \in busy
  /\ busy' = busy \ {c}
  /\ flags' = flags \union {c}
  /\ istat' = (istat \/ flags = {})
  /\ owed' = owed \union {c}
  /\ UNCHANGED <<pc, pass, dirqs, todo>>

Enter ==
  /\ pc = "main" /\ istat
  /\ istat' = FALSE
  /\ pass' = 0
  /\ pc' = "test"
  /\ UNCHANGED <<busy, flags, dirqs, todo, owed>>

\* Mutant of Test: one pass only.
TestOnePass ==
  /\ pc = "test"
  /\ pc' = IF pass < 1 /\ flags # {} THEN "read" ELSE "main"
  /\ UNCHANGED <<busy, flags, istat, pass, dirqs, todo, owed>>

\* The head of the loop of dmaIRQ.
Test ==
  /\ pc = "test"
  /\ pc' = IF pass < MaxPasses /\ flags # {} THEN "read" ELSE "main"
  /\ UNCHANGED <<busy, flags, istat, pass, dirqs, todo, owed>>

ReadDicr ==
  /\ pc = "read"
  /\ dirqs' = flags \union (IF flags = {} THEN {} ELSE {Master})
  /\ pc' = "ack"
  /\ UNCHANGED <<busy, flags, istat, pass, todo, owed>>

\* Mutant of AckDicr: every flag is cleared.
AckEverything ==
  /\ pc = "ack"
  /\ flags' = {}
  /\ todo' = dirqs \intersect Channel
  /\ pc' = "call"
  /\ UNCHANGED <<busy, istat, pass, dirqs, owed>>

\* Writing a flag back as 1 clears it; the others keep their value.
AckDicr ==
  /\ pc = "ack"
  /\ flags' = flags \ dirqs
  /\ todo' = dirqs \intersect Channel
  /\ pc' = "call"
  /\ UNCHANGED <<busy, istat, pass, dirqs, owed>>

\* Callbacks are called in the order of the channels. One may start a transfer:
\* the GPU's does for each fragment of a chain, and for an ordering table.
Call(c) ==
  /\ pc = "call"
  /\ c \in todo /\ \A d \in todo : c <= d
  /\ todo' = todo \ {c}
  /\ owed' = owed \ {c}
  /\ \/ UNCHANGED busy
     \/ \E d \in Channel \ (busy \union owed') :
          <<c, d>> \in Starts /\ busy' = busy \union {d}
  /\ UNCHANGED <<flags, istat, pc, pass, dirqs>>

NextPass ==
  /\ pc = "call" /\ todo = {}
  /\ pass' = pass + 1
  /\ pc' = "test"
  /\ UNCHANGED <<busy, flags, istat, dirqs, todo, owed>>

Handler == Enter \/ Test \/ ReadDicr \/ AckDicr \/ (\E c \in Channel : Call(c)) \/ NextPass

DmaNext ==
  \/ \E c \in Channel : StartTransfer(c) \/ Complete(c)
  \/ Handler

\* The processor takes a pending interrupt and runs its handler, and the
\* controller finishes what it was given.
DmaSpec ==
  /\ DmaInit /\ [][DmaNext]_dmaVars
  /\ WF_dmaVars(Handler)
  /\ \A c \in Channel : WF_dmaVars(Complete(c))
----------------------------------------------------------------------------
\* Each completion is owed exactly one call: it is flagged, or acknowledged and
\* about to be called, never both and never neither, wherever the controller
\* fell between the read of DICR and its acknowledgement (302-316). What was read
\* is still flagged when it is acknowledged, and no call is left for a later pass.
CompletionsAccounted ==
  /\ owed = flags \union todo
  /\ flags \intersect todo = {}
  /\ busy \intersect owed = {}
  /\ pc = "ack" => dirqs \intersect Channel \subseteq flags
  /\ pc # "call" => todo = {}

\* Every finished transfer has its callback called in the end: bit 31 is never left high
\* with its edge already consumed, after which no channel could interrupt again ("loop
\* until it drops", the comment at kernel.cpp 290-292).
Delivered == \A c \in Channel : (c \in owed) ~> (c \notin owed)
============================================================================
