------------------------------ MODULE GpuChain ------------------------------
(***************************************************************************)
(* The transfers of psyqo's GPU (psyqo/src/gpu.cpp): fragments are chained    *)
(* while a frame is built and sent by flip, or by hand; the DMA controller     *)
(* walks a list of small nodes by itself, stops on the link to a big one, and   *)
(* the interrupt handler sends that one and goes on; then the ordering tables    *)
(* that were sent are cleared, one DMA each, and the callback of the transfer    *)
(* is called.  A table stands here for its list of nodes and is one of them.    *)
(***************************************************************************)
EXTENDS Naturals, Sequences, SequencesExt

CONSTANTS
  Node,         \* fragments and tables of the application
  Table,        \* those that are ordering tables
  Words,        \* words in each
  Own,          \* a fragment that is sent on its own
  End,          \* 0xffffff in a link, nullptr in a member
  Habits        \* what the application does besides: see EndFrame, SendChain, SendFragment

MaxNodeWords == 255     \* c_maxNodeWords
Threshold == 14         \* c_chainThreshold / 4
Granularity == 16       \* 1 << c_oversizedShift

\* The asserts of chain.
Chainable(words) == words <= MaxNodeWords \/ (words <= 255 * Granularity /\ words % Granularity = 0)

ASSUME NodeAssumption ==
  /\ Table \subseteq Node /\ Own \notin Node /\ End \notin Node \union {Own}
  /\ Words \in [Node \union {Own} -> Nat]
  /\ \A n \in Node : Chainable(Words[n])
  /\ Habits \subseteq {"across", "byHand", "event"}

VARIABLES
  head, headOver, tail, tailCount,      \* m_chainHead to m_chainTailCount
  header,       \* the header word of each node
  next, nextOver,       \* m_chainNext, m_chainNextOversized
  status, parity, otcs, \* m_chainStatus, m_parity, m_OTCs
  callback,     \* whom m_dmaCallback is for
  engine,       \* the GPU's DMA channel
  clearing,     \* the table the OTC's channel clears
  pc, waiting,  \* where the main thread is; in a blocking call
  queued,       \* the callback of an asynchronous transfer is in the kernel's queue
  vblank,       \* psyqoFrameCounter has moved since the last flip
  dirty,        \* tables that are not empty
  recorded,     \* what has been chained
  sending, sent,        \* what the transfer is to send, and what it has sent
  aborted

begun == <<head, headOver, tail, tailCount, recorded>>
building == <<begun, header>>
after == <<next, nextOver, engine, clearing>>
main == <<pc, waiting, vblank>>
vars == <<building, after, status, parity, otcs, callback, main, queued, dirty, sending, sent, aborted>>

Over(n) == Words[n] > MaxNodeWords

\* The size that goes in the header, eight bits wide.
Stored(n) == IF Over(n) THEN Words[n] \div Granularity ELSE Words[n]
Off == [mode |-> "off"]
InFlight == {sending[i][1] : i \in DOMAIN sending}
Blank == [count |-> 0, next |-> End, marked |-> FALSE, over |-> FALSE]

Fragments == (Node \union {Own}) \X Nat

TypeOK ==
  /\ {head, tail, next} \subseteq Node \union {End}
  /\ {headOver, nextOver, waiting, queued, vblank, aborted} \subseteq BOOLEAN
  /\ tailCount \in 0 .. 255
  /\ header \in [Node -> [count : 0 .. 255, next : Node \union {End}, marked : BOOLEAN, over : BOOLEAN]]
  /\ recorded \in Seq(Node) /\ sending \in Seq(Fragments) /\ sent \in Seq(Fragments)
  /\ status \in {"IDLE", "TRANSFERRING", "TRANSFERRED"} /\ parity \in {0, 1}
  /\ otcs \in [{0, 1} -> Seq(Table)]
  /\ callback \in {"none", "flip", "block", "main"}
  /\ engine.mode \in {"off", "normal", "linked"}
  /\ clearing \in Table \union {End} /\ dirty \subseteq Table
  /\ pc \in {"frame", "flip", "swapped"}

Init ==
  /\ head = End /\ headOver = FALSE /\ tail = End /\ tailCount = 0
  /\ header = [n \in Node |-> Blank] /\ recorded = << >>
  /\ next = End /\ nextOver = FALSE
  /\ status = "IDLE" /\ parity = 0 /\ otcs = [p \in {0, 1} |-> << >>]
  /\ callback = "none" /\ engine = Off /\ clearing = End
  /\ pc = "frame" /\ waiting = FALSE /\ queued = FALSE /\ vblank = FALSE
  /\ dirty = {} /\ sending = << >> /\ sent = << >>
  /\ aborted = FALSE

(***************************************************************************)
(* The application and flip, on the main thread.                            *)
(***************************************************************************)
Working == ~aborted /\ ~waiting

\* The application may start a transfer: its last one has been called back and
\* the chain of the frame is not on its way.
MayTransfer == Working /\ ~queued /\ callback = "none" /\ status # "TRANSFERRING"

\* Mutants of Mark: an oversized node is not told from a big one; the threshold
\* is forgotten.
MarkSizeOnly(n) == [marked |-> Stored(n) > Threshold, over |-> FALSE]
MarkOverOnly(n) == [marked |-> Over(n), over |-> Over(n)]

\* Bits 23 and 0 of the link to n.
Mark(n) == [marked |-> Over(n) \/ Stored(n) > Threshold, over |-> Over(n)]

\* chain, and scheduleOTC for a table.
Chain(n) ==
  /\ Working /\ pc = "frame" /\ n \notin ToSet(recorded) \union InFlight
  /\ IF head = End
       THEN head' = n /\ headOver' = Over(n) /\ UNCHANGED header
       ELSE /\ header' = [header EXCEPT ![tail] =
                 [count |-> tailCount, next |-> n, marked |-> Mark(n).marked, over |-> Mark(n).over]]
            /\ UNCHANGED <<head, headOver>>
  /\ tail' = n /\ tailCount' = Stored(n)
  /\ recorded' = Append(recorded, n)
  /\ dirty' = IF n \in Table THEN dirty \union {n} ELSE dirty
  /\ otcs' = IF n \in Table THEN [otcs EXCEPT ![parity] = Append(@, n)] ELSE otcs
  /\ UNCHANGED <<after, status, parity, callback, main, queued, sending, sent, aborted>>

\* scheduleNormalDMA and scheduleChainedDMA.
Normal(n, words) == engine' = [mode |-> "normal", node |-> n, words |-> words]
Linked(n) == engine' = [mode |-> "linked", node |-> n]

\* m_chainNext and m_chainNextOversized, from the link of a header.
Follow(h) == next' = h.next /\ nextOver' = (h.next # End /\ h.over)

CountOf(h, over) == IF over THEN h.count * Granularity ELSE h.count

\* sendChain, for a callback: an assert, or the first DMA.
SendChainFor(whom) ==
  LET closed == [header EXCEPT ![tail] = [Blank EXCEPT !.count = tailCount]]
      count == CountOf(closed[head], headOver)
  IN  /\ header' = closed
      /\ IF callback # "none"
           THEN /\ aborted' = TRUE
                /\ UNCHANGED <<head, tail, recorded, callback, next, nextOver, engine, sending, sent>>
           ELSE /\ head' = End /\ tail' = End /\ recorded' = << >>
                /\ callback' = whom
                /\ sending' = [i \in DOMAIN recorded |-> <<recorded[i], Words[recorded[i]]>>]
                /\ sent' = << >>
                /\ IF headOver \/ count > Threshold
                     THEN Follow(closed[head]) /\ Normal(head, count)
                     ELSE Linked(head) /\ UNCHANGED <<next, nextOver>>
                /\ UNCHANGED aborted
      /\ UNCHANGED <<headOver, tailCount, clearing>>

\* sendChain by the application: it returns when all is sent, or calls back.
SendChain(whom) ==
  /\ MayTransfer /\ pc = "frame" /\ head # End
  /\ "byHand" \in Habits \/ Table \intersect ToSet(recorded) = {}
  /\ SendChainFor(whom)
  /\ waiting' = (whom = "block")
  /\ UNCHANGED <<status, parity, otcs, pc, vblank, queued, dirty>>

\* sendFragment and uploadToVRAM: in a frame, or in the event callback of the
\* pads, which flip calls before it sends the chain (simplepad.cpp 38).
SendFragment(whom) ==
  /\ MayTransfer
  /\ pc = "frame" \/ (pc = "swapped" /\ whom = "block" /\ "event" \in Habits)
  /\ callback' = whom
  /\ sending' = <<<<Own, Words[Own]>>>> /\ sent' = << >>
  /\ Normal(Own, Words[Own])
  /\ waiting' = (whom = "block")
  /\ UNCHANGED <<building, next, nextOver, clearing, status, parity, otcs, pc, vblank, queued, dirty, aborted>>

\* The frame function returns. An upload may go on across frames.
EndFrame ==
  /\ Working /\ pc = "frame"
  /\ "across" \in Habits \/ (~queued /\ callback # "main")
  /\ pc' = "flip"
  /\ UNCHANGED <<building, after, status, parity, otcs, callback, waiting, vblank,
                 queued, dirty, sending, sent, aborted>>

\* Mutant of Flip: the chain of the last frame is not waited for.
FlipAtOnce ==
  /\ Working /\ pc = "flip" /\ vblank
  /\ status' = "IDLE" /\ parity' = 1 - parity
  /\ vblank' = FALSE /\ pc' = "swapped"
  /\ UNCHANGED <<building, after, otcs, callback, waiting, queued, dirty, sending, sent, aborted>>

\* flip up to the callbacks of beginFrame: the tables of the frame are the other
\* ones from here on, and its chain is not sent yet.
Flip ==
  /\ Working /\ pc = "flip" /\ vblank /\ status # "TRANSFERRING"
  /\ status' = "IDLE" /\ parity' = 1 - parity
  /\ vblank' = FALSE /\ pc' = "swapped"
  /\ UNCHANGED <<building, after, otcs, callback, waiting, queued, dirty, sending, sent, aborted>>

\* The end of flip.
FlipSend ==
  /\ Working /\ pc = "swapped"
  /\ pc' = "frame"
  /\ IF head = End
       THEN UNCHANGED <<building, after, callback, sending, sent, status, aborted>>
       ELSE /\ status' = "TRANSFERRING"
            /\ SendChainFor("flip")
  /\ UNCHANGED <<parity, otcs, waiting, vblank, queued, dirty>>

\* The main thread pumps, wherever it is, and calls the application back.
Pump ==
  /\ ~aborted /\ queued /\ queued' = FALSE
  /\ UNCHANGED <<building, after, status, parity, otcs, callback, main, dirty, sending, sent, aborted>>

VBlank ==
  /\ ~aborted /\ vblank' = TRUE
  /\ UNCHANGED <<building, after, status, parity, otcs, callback, pc, waiting, queued,
                 dirty, sending, sent, aborted>>

(***************************************************************************)
(* The DMA controller, and the handlers of its interrupts.                  *)
(***************************************************************************)
\* The controller walks over the link of a node to one it may send itself.
Walk ==
  /\ ~aborted /\ engine.mode = "linked"
  /\ LET h == header[engine.node] IN
       /\ h.next # End /\ ~h.marked
       /\ sent' = Append(sent, <<engine.node, h.count>>)
       /\ Linked(h.next)
  /\ UNCHANGED <<building, next, nextOver, clearing, status, parity, otcs, callback, main,
                 queued, dirty, sending, aborted>>

\* Mutant of CheckOTC: the tables of the frame being built are cleared.
CheckOTCSameParity ==
  IF otcs[parity] # << >>
    THEN /\ clearing' = Head(otcs[parity])
         /\ otcs' = [otcs EXCEPT ![parity] = Tail(@)]
         /\ UNCHANGED <<callback, waiting, queued, status, sending, header>>
    ELSE /\ callback' = "none" /\ sending' = << >> /\ clearing' = End
         /\ header' = [n \in Node |-> IF n \in InFlight THEN Blank ELSE header[n]]
         /\ waiting' = (waiting /\ callback # "block")
         /\ queued' = (queued \/ callback = "main")
         /\ status' = IF callback = "flip" THEN "TRANSFERRED" ELSE status
         /\ UNCHANGED otcs

\* Mutant of CheckOTC: flip is not told that its chain has been sent.
CheckOTCUntold ==
  IF otcs[1 - parity] # << >>
    THEN /\ clearing' = Head(otcs[1 - parity])
         /\ otcs' = [otcs EXCEPT ![1 - parity] = Tail(@)]
         /\ UNCHANGED <<callback, waiting, queued, status, sending, header>>
    ELSE /\ callback' = "none" /\ sending' = << >> /\ clearing' = End
         /\ header' = [n \in Node |-> IF n \in InFlight THEN Blank ELSE header[n]]
         /\ waiting' = (waiting /\ callback # "block")
         /\ queued' = (queued \/ callback = "main")
         /\ UNCHANGED <<otcs, status>>

\* checkOTCAndTriggerCallback: the next table is cleared, or the transfer is
\* over. The callback of flip and of a blocking call is called by the handler.
\* The memory of what was sent is the application's again: its headers are blank.
CheckOTC ==
  LET other == 1 - parity IN
  IF otcs[other] # << >>
    THEN /\ clearing' = Head(otcs[other])
         /\ otcs' = [otcs EXCEPT ![other] = Tail(@)]
         /\ UNCHANGED <<callback, waiting, queued, status, sending, header>>
    ELSE /\ callback' = "none" /\ sending' = << >> /\ clearing' = End
         /\ header' = [n \in Node |-> IF n \in InFlight THEN Blank ELSE header[n]]
         /\ waiting' = (waiting /\ callback # "block")
         /\ queued' = (queued \/ callback = "main")
         /\ status' = IF callback = "flip" THEN "TRANSFERRED" ELSE status
         /\ UNCHANGED otcs

Finish == engine' = Off /\ CheckOTC /\ UNCHANGED <<next, nextOver>>
GoOn == UNCHANGED <<clearing, otcs, callback, waiting, queued, status, sending, header>>

\* A block has been sent: it was all, or the chain goes on with m_chainNext.
NormalDone ==
  /\ ~aborted /\ engine.mode = "normal"
  /\ sent' = Append(sent, <<engine.node, engine.words>>)
  /\ IF next = End THEN Finish
     ELSE LET count == CountOf(header[next], nextOver) IN
          /\ GoOn
          /\ IF nextOver \/ count > Threshold
               THEN Follow(header[next]) /\ Normal(next, count)
               ELSE next' = End /\ nextOver' = FALSE /\ Linked(next)
  /\ UNCHANGED <<begun, parity, pc, vblank, dirty, aborted>>

\* The controller stops: at the end, or on the link to a node it may not send.
LinkedDone ==
  /\ ~aborted /\ engine.mode = "linked"
  /\ LET h == header[engine.node] IN
       /\ h.next = End \/ h.marked
       /\ sent' = Append(sent, <<engine.node, h.count>>)
       /\ IF h.next = End THEN Finish
          ELSE /\ Follow(header[h.next])
               /\ Normal(h.next, CountOf(header[h.next], h.over))
               /\ GoOn
  /\ UNCHANGED <<begun, parity, pc, vblank, dirty, aborted>>

\* A table has been cleared.
OtcDone ==
  /\ ~aborted /\ clearing # End
  /\ dirty' = dirty \ {clearing}
  /\ CheckOTC
  /\ UNCHANGED <<begun, next, nextOver, engine, parity, pc, vblank, sent, aborted>>

Next ==
  \/ \E n \in Node : Chain(n)
  \/ \E whom \in {"block", "main"} : SendChain(whom) \/ SendFragment(whom)
  \/ EndFrame \/ Flip \/ FlipSend \/ Pump \/ VBlank
  \/ Walk \/ NormalDone \/ LinkedDone \/ OtcDone

\* The frame function of the application ends, however many transfers it makes
\* (application.cpp 54-59); screens are drawn, transfers end, the main thread pumps.
Spec ==
  /\ Init /\ [][Next]_vars
  /\ SF_vars(EndFrame) /\ WF_vars(Flip) /\ WF_vars(FlipSend) /\ WF_vars(Pump) /\ WF_vars(VBlank)
  /\ WF_vars(Walk) /\ WF_vars(NormalDone) /\ WF_vars(LinkedDone) /\ WF_vars(OtcDone)
----------------------------------------------------------------------------
\* What is sent is a prefix of what was chained, each node once, in order and
\* with its own size, and all of it when tables are cleared or the callback is
\* called (gpu.cpp 185-252, 504-570).
SentAsChained ==
  [][sending # << >> =>
       /\ IsPrefix(sent', sending)
       /\ clearing' # End \/ sending' = << >> => sent' = sending]_vars

\* No table is cleared that is still to be sent: those cleared are never the
\* tables of the chain being built (gpu.cpp 265, 693).
ClearedAfterSending == clearing # End => clearing \notin ToSet(recorded)

\* "The ordering table will be cleared automatically after the transfer is
\* complete" (gpu.hh 373): one that is neither chained nor on its way is empty,
\* and none is cleared that is still to be sent.
TablesCleared ==
  /\ TypeOK
  /\ ClearedAfterSending
  /\ ~aborted => dirty \subseteq ToSet(recorded) \union InFlight

\* The controller is never left to send by itself a node that does not fit in
\* the GPU's FIFO (c_chainThreshold, gpu.cpp 198, 518, 558).
ControllerFits == engine.mode = "linked" => Words[engine.node] <= Threshold

\* "Only one GPU DMA transfer at a time is permitted" (gpu.cpp 547): the assert
\* is never reached by an application that waits for its callbacks, and the one
\* transfer is by an engine that can do it.
OneTransfer == ~aborted /\ ControllerFits

\* Frames follow one another, and whatever was started is called back: flip and
\* the blocking calls never wait for a handler that will not run (288-292, 535-539).
FramesGoOn == []<>(pc = "swapped") /\ []<>(callback = "none" /\ ~queued)
============================================================================
