------------------------------ MODULE Monitor ------------------------------
(***************************************************************************)
(* The resident debug monitor of src/monitor on a byte link, with a host that   *)
(* keeps to PROTOCOL.md (external), a target program, and a line that may lose   *)
(* or damage what is sent.                                                      *)
(*                                                                         *)
(* The line carries units: the head of a frame (0, SYNC, TYPE, LEN), a piece of   *)
(* its payload, its checksum, a run of zeros as long as a piece, or noise.  A      *)
(* checksum is right when it belongs to the head and the pieces in front of it.    *)
(* A unit whose place in a frame is not its own reads as junk.  A program of LZ4    *)
(* slices decodes to one cell a slice.                                            *)
(***************************************************************************)
EXTENDS Naturals, Sequences, SequencesExt

CONSTANTS
  Slices,       \* slices of the program the host loads
  Fifo,         \* units the link keeps while nobody reads it
  Mishaps       \* bound on what the line loses or damages

ASSUME SizeAssumption ==
  /\ Slices \in Nat \ {0, 1} /\ Fifo \in Nat \ {0} /\ Mishaps \in Nat

VARIABLES
  mode,         \* HALTED, RUNNING, or one of the two windows of transportTryRate
  ctx,          \* s_mon.ctx is not NULL
  memWritten,   \* s_mon.memWritten
  lz,           \* s_mon.lzActive, lzConsumed, and how far lz.out is
  rate,         \* the rate of the link
  memory, cached,       \* the target's memory, and its cache of the first cell
  wire, up,     \* units to the monitor, frames to the host
  host,         \* what the host waits for
  slice, loaded,        \* the slice it sends next; it has had the last ACK
  hostRate, line,       \* its rate; who is deaf at the new one, or what else ails the line
  mishaps, resyncs, secondLost

monitor == <<mode, ctx, memWritten, lz, rate>>
target == <<memory, cached>>
hosting == <<host, slice, loaded, hostRate>>
faults == <<line, resyncs, secondLost>>
vars == <<monitor, target, wire, up, hosting, mishaps, faults>>

Cells == 1 .. Slices
Patch == Slices + 1     \* what WRITE_MEM stores
Junk == Slices + 2
NotCached == Slices + 3
MaxLen == 2             \* TRANSPORT_STREAM_MAX_LEN, in pieces
Far == 4 * MaxLen       \* a LEN no frame has
Closed == [active |-> FALSE, consumed |-> 0, out |-> 0]

Commands == {"ping", "regs", "set", "write", "slice", "run", "cont", "baud"}
Errors == {"EBADCMD", "EBADSTATE", "EBADLEN", "ECKSUM", "EDECODE"}
Replies == {"ACK", "REGS", "PONG", "STOPPED"} \union Errors

TypeOK ==
  /\ mode \in {"halted", "running", "window1", "window2"}
  /\ {ctx, memWritten, loaded, secondLost, lz.active} \subseteq BOOLEAN
  /\ lz.consumed <= Slices /\ lz.out <= Slices
  /\ {rate, hostRate} \subseteq {"old", "new"}
  /\ memory \in [Cells -> 0 .. Junk] /\ cached \in 0 .. NotCached
  /\ up \in Seq(Replies)
  /\ host \in Commands \union {"idle", "running", "stopping", "try", "confirm", "lost"}
  /\ slice \in Cells

Init ==
  /\ mode = "halted" /\ ctx = FALSE /\ memWritten = FALSE /\ lz = Closed /\ rate = "old"
  /\ memory = [c \in Cells |-> 0] /\ cached = NotCached
  /\ wire = << >> /\ up = << >>
  /\ host = "idle" /\ slice = 1 /\ loaded = FALSE /\ hostRate = "old"
  /\ line \in {"good", "host deaf", "monitor deaf", "garbles"}
  /\ mishaps = 0 /\ resyncs = 0 /\ secondLost = FALSE

(***************************************************************************)
(* Frames.                                                                  *)
(***************************************************************************)
Frame(type, body) == <<<<"head", type, Len(body)>>>> \o body \o <<<<"sum", type, body>>>>
Zeros(n) == [i \in 1 .. n |-> <<"zero">>]
Noise(n) == [i \in 1 .. n |-> <<"noise">>]

Ping == Frame("ping", << >>)
Confirm == Frame("ping", <<<<"one">>>>)

\* The payload of a command: a header and a byte for WRITE_MEM, LOAD and their LZ4
\* form; RUN has its pc where LOAD has the address.
Payload(command) ==
  CASE command = "slice" -> <<<<"lz4", slice>>, <<"byte", slice>>>>
    [] command = "write" -> <<<<"header", 1>>, <<"byte", Patch>>>>
    [] command = "run" -> <<<<"header", 1>>, <<"byte", Junk>>>>
    [] OTHER -> << >>

\* What one bit makes of a TYPE: a command that fails its checksum, or one that stores
\* before its checksum has come.
Retyped(type) ==
  ({"set", "regs"} \ {type})
    \union (IF type \in {"ping", "run", "cont", "stop", "slice"} THEN {"write"} ELSE {})
    \union (IF type = "write" THEN {"slice"} ELSE {})

\* What may arrive in the place of a unit: another LEN, or noise; where the line garbles, also
\* another TYPE, and noise for the checksum of a STOP.
Damage(unit) ==
  (IF unit[1] = "head" THEN {<<"head", unit[2], n>> : n \in {1, Far}} ELSE {})
    \union (IF unit[1] = "head" /\ line = "garbles" THEN {<<"head", t, unit[3]>> : t \in Retyped(unit[2])} ELSE {})
    \union (IF unit # <<"sum", "stop", << >>>> \/ line = "garbles" THEN {<<"noise">>} ELSE {})

\* The line loses a unit, or damages one.
Damaged(units) ==
  {RemoveAt(units, i) : i \in DOMAIN units}
    \union UNION {{[units EXCEPT ![i] = u] : u \in Damage(units[i])} : i \in DOMAIN units}

\* What the host sends: noise for a monitor at another rate, and no more than the
\* link keeps while the target runs.
Transmit(units) ==
  LET clean == hostRate = rate /\ ~(rate = "new" /\ line = "monitor deaf")
      arrived(sent) == wire \o (IF clean THEN sent ELSE Noise(Len(sent)))
      kept(all) == IF mode = "running" /\ Len(all) > Fifo THEN SubSeq(all, 1, Fifo) ELSE all IN
  \/ wire' = kept(arrived(units)) /\ UNCHANGED mishaps
  \/ /\ mishaps < Mishaps /\ mishaps' = mishaps + 1
     /\ \E sent \in Damaged(units) : wire' = kept(arrived(sent))

\* What the monitor sends at rate r, if the host can read that.
Reply(frames, r) ==
  up' = IF hostRate = r /\ ~(r = "new" /\ line = "host deaf") THEN up \o frames ELSE up
-----------------------------------------------------------------------------
(***************************************************************************)
(* The command loop of the monitor. transportRecvBegin hunts for a head.      *)
(***************************************************************************)
First == Head(wire)
\* A LEN no frame can have is noise.
Fits(n) == n <= MaxLen

Framed == wire # << >> /\ First[1] = "head" /\ Fits(First[3])
Whole == Framed /\ Len(wire) >= First[3] + 2
Body == SubSeq(wire, 2, First[3] + 1)
\* transportRecvEnd: the checksum is mandatory on a byte link.
Valid == wire[First[3] + 2] = <<"sum", First[2], Body>>
Rest == SubSeq(wire, First[3] + 3, Len(wire))
Receive(type) == mode = "halted" /\ Whole /\ First[2] = type /\ wire' = Rest

Value(unit) == IF unit[1] = "byte" THEN unit[2] ELSE Junk
Headed(as) == Body[1][1] = as
Stored(c, v) == IF c \in Cells THEN [memory EXCEPT ![c] = v] ELSE memory

\* Console text, or what is left of a frame.
Drop ==
  /\ mode = "halted" /\ wire # << >> /\ ~Framed
  /\ wire' = Tail(wire)
  /\ UNCHANGED <<monitor, target, up, hosting, mishaps, faults>>

\* Mutant of StreamWriteMem: only a good frame marks memory as written.
StreamWriteMemLate ==
  /\ Receive("write")
  /\ IF Len(Body) < 2
       THEN Reply(<<"EBADLEN">>, rate) /\ UNCHANGED <<memWritten, memory>>
       ELSE /\ memWritten' = (memWritten \/ Valid)
            /\ IF Headed("header") THEN memory' = Stored(Body[1][2], Value(Body[2]))
               ELSE \E c \in Cells \union {0} : memory' = Stored(c, Junk)
            /\ Reply(<<IF Valid THEN "ACK" ELSE "ECKSUM">>, rate)
  /\ UNCHANGED <<mode, ctx, lz, rate, cached, hosting, mishaps, faults>>

\* streamWriteMem: the bytes are stored as they come, wherever the header says.
StreamWriteMem ==
  /\ Receive("write")
  /\ IF Len(Body) < 2
       THEN Reply(<<"EBADLEN">>, rate) /\ UNCHANGED <<memWritten, memory>>
       ELSE /\ memWritten' = TRUE
            /\ IF Headed("header") THEN memory' = Stored(Body[1][2], Value(Body[2]))
               ELSE \E c \in Cells \union {0} : memory' = Stored(c, Junk)
            /\ Reply(<<IF Valid THEN "ACK" ELSE "ECKSUM">>, rate)
  /\ UNCHANGED <<mode, ctx, lz, rate, cached, hosting, mishaps, faults>>

\* Mutant of Continues: whatever is open goes on.
ContinuesAnyway(off) == TRUE
\* A slice starts a stream, or goes on with the one that is open.
Continues(off) == off = 0 \/ (lz.active /\ off = lz.consumed)

\* streamWriteMemLz4: as streamWriteMem, through the decoder; any failure drops the
\* stream, and the last slice is to bring it to its length.
StreamWriteMemLz4 ==
  /\ Receive("slice")
  /\ memWritten' = TRUE
  /\ \/ /\ Len(Body) < 2
        /\ Reply(<<IF Valid THEN "EBADLEN" ELSE "ECKSUM">>, rate)
        /\ lz' = Closed /\ UNCHANGED memory
     \/ /\ Len(Body) >= 2 /\ ~Headed("lz4")
        /\ \E c \in Cells \union {0} : memory' = Stored(c, Junk)
        /\ Reply(<<"ECKSUM">>, rate)
        /\ lz' = Closed
     \/ /\ Len(Body) >= 2 /\ Headed("lz4")
        /\ LET off == Body[1][2] - 1
               from == IF off = 0 THEN Closed ELSE lz
               out == from.out + 1
               consumed == from.consumed + 1 IN
           /\ memory' = IF Continues(off) THEN Stored(out, Value(Body[2])) ELSE memory
           /\ lz' = IF Continues(off) /\ Valid /\ consumed < Slices
                      THEN [active |-> TRUE, consumed |-> consumed, out |-> out] ELSE Closed
           /\ Reply(<<CASE ~Valid -> "ECKSUM"
                        [] Valid /\ ~Continues(off) -> "EBADSTATE"
                        [] Valid /\ Continues(off) /\ consumed = Slices /\ out # Slices -> "EDECODE"
                        [] OTHER -> "ACK">>, rate)
  /\ UNCHANGED <<mode, ctx, rate, cached, hosting, mishaps, faults>>

\* The answers of dispatchCommand to commands that change nothing here.
Answer(type) ==
  CASE type = "ping" -> <<"PONG">>
    [] type = "regs" -> <<"REGS">>
    [] type = "set" -> <<IF ctx THEN "ACK" ELSE "EBADSTATE">>
    [] type = "stop" -> << >>

Inspect(type) ==
  /\ Receive(type)
  /\ Reply(IF Valid THEN Answer(type) ELSE <<"ECKSUM">>, rate)
  /\ UNCHANGED <<monitor, target, hosting, mishaps, faults>>

\* A damaged command: what it says is not looked at.
Refuse ==
  /\ \E type \in {"run", "cont", "baud"} : Receive(type)
  /\ ~Valid
  /\ Reply(<<"ECKSUM">>, rate)
  /\ UNCHANGED <<monitor, target, hosting, mishaps, faults>>

\* cmdRun, and cmdCont with a halted context; monitorResume.
Resume(type) ==
  /\ Receive(type) /\ Valid /\ (type = "cont" => ctx)
  /\ Reply(<<"ACK">>, rate)
  /\ ctx' = FALSE /\ mode' = "running"
  /\ memWritten' = FALSE
  /\ cached' = IF memWritten THEN NotCached ELSE cached
  /\ UNCHANGED <<lz, rate, memory, hosting, mishaps, faults>>

ContRefused ==
  /\ Receive("cont") /\ Valid /\ ~ctx
  /\ Reply(<<"EBADSTATE">>, rate)
  /\ UNCHANGED <<monitor, target, hosting, mishaps, faults>>

\* cmdSetBaud up to its first window: the ACK goes out at the old rate.
SetBaud ==
  /\ Receive("baud") /\ Valid
  /\ Reply(<<"ACK">>, rate)
  /\ rate' = "new" /\ mode' = "window1"
  /\ UNCHANGED <<ctx, memWritten, lz, target, hosting, mishaps, faults>>

\* Mutant of Awaited: another PING confirms.
AwaitedPing == Ping
\* The frame awaitFrame waits for in each window.
Awaited == IF mode = "window1" THEN Ping ELSE Confirm

Window ==
  /\ mode \in {"window1", "window2"} /\ IsPrefix(Awaited, wire)
  /\ wire' = SubSeq(wire, Len(Awaited) + 1, Len(wire))
  /\ Reply(<<"PONG">>, rate)
  /\ mode' = IF mode = "window1" THEN "window2" ELSE "halted"
  /\ UNCHANGED <<ctx, memWritten, lz, rate, target, hosting, mishaps, faults>>

WindowSkip ==
  /\ mode \in {"window1", "window2"}
  /\ ~IsPrefix(Awaited, wire) /\ ~IsPrefix(wire, Awaited)
  /\ wire' = Tail(wire)
  /\ UNCHANGED <<monitor, target, up, hosting, mishaps, faults>>

\* A window ends: what is on its way at the new rate reads as noise.
Expire ==
  /\ mode \in {"window1", "window2"}
  /\ rate' = "old" /\ mode' = "halted" /\ wire' = << >>
  /\ UNCHANGED <<ctx, memWritten, lz, target, up, hosting, mishaps, faults>>

(***************************************************************************)
(* The target runs.                                                         *)
(***************************************************************************)
\* It executes the code of the first cell, through its instruction cache.
Execute ==
  /\ mode = "running" /\ cached = NotCached
  /\ cached' = memory[1]
  /\ UNCHANGED <<monitor, memory, wire, up, hosting, mishaps, faults>>

\* monitorStop: a break, a fault or a breakpoint.
Stopped ==
  /\ mode' = "halted" /\ ctx' = TRUE
  /\ Reply(<<"STOPPED">>, rate)

Break ==
  /\ mode = "running"
  /\ Stopped
  /\ UNCHANGED <<memWritten, lz, rate, target, wire, hosting, mishaps, faults>>

\* Mutant of Asks: the frame has to be a STOP, and whole.
AsksWhole == IsPrefix(Frame("stop", << >>), wire)
\* Any 0 among the bytes is a frame start, which is all a host sends now.
Asks == \E i \in DOMAIN wire : wire[i][1] # "noise"

\* An interrupt with a byte waiting: transportStopPending reads until the line is quiet.
Interrupt ==
  /\ mode = "running" /\ wire # << >>
  /\ wire' = << >>
  /\ IF Asks THEN Stopped ELSE UNCHANGED <<mode, ctx, up>>
  /\ UNCHANGED <<memWritten, lz, rate, target, hosting, mishaps, faults>>
-----------------------------------------------------------------------------
(***************************************************************************)
(* The host (PROTOCOL.md 2.4, 2.5, 5 and 6). It waits longer than an answer    *)
(* takes, and longer than two windows.                                        *)
(***************************************************************************)
Silent == up = << >> /\ mode \in {"halted", "running"} /\ (wire = << >> \/ (mode = "halted" /\ Framed /\ ~Whole))

Command(c) ==
  /\ host = "idle" /\ c \in Commands
  /\ c = "baud" => hostRate = "old"
  /\ host' = c
  /\ loaded' = (loaded /\ c \notin {"write", "slice"})
  /\ slice' = IF c = "write" THEN 1 ELSE slice
  /\ Transmit(Frame(c, Payload(c)))
  /\ UNCHANGED <<monitor, target, up, hostRate, faults>>

AskStop ==
  /\ host = "running" /\ up = << >>
  /\ host' = "stopping"
  /\ Transmit(Frame("stop", << >>))
  /\ UNCHANGED <<monitor, target, up, slice, loaded, hostRate, faults>>

\* The reply to a slice: the next one, or from the start again.
SliceReply(reply) ==
  /\ slice' = IF reply = "ACK" /\ slice < Slices THEN slice + 1 ELSE 1
  /\ loaded' = (reply = "ACK" /\ slice = Slices)

Hear ==
  /\ up # << >>
  /\ up' = Tail(up)
  /\ LET reply == Head(up) IN
       /\ host' = CASE host = "lost" -> IF reply = "PONG" THEN "idle" ELSE "lost"
                    [] host \in {"running", "stopping"} -> IF reply = "STOPPED" THEN "idle" ELSE host
                    [] host \in {"run", "cont"} -> IF reply = "ACK" THEN "running" ELSE "idle"
                    [] host = "baud" -> IF reply = "ACK" THEN "try" ELSE "idle"
                    [] host = "try" -> IF reply = "PONG" THEN "confirm" ELSE "try"
                    [] OTHER -> "idle"
       /\ hostRate' = IF host = "baud" /\ reply = "ACK" THEN "new" ELSE hostRate
       /\ IF host = "slice" THEN SliceReply(reply) ELSE UNCHANGED <<slice, loaded>>
       /\ IF host = "try" /\ reply = "PONG" THEN Transmit(Confirm) ELSE UNCHANGED <<wire, mishaps>>
       /\ resyncs' = IF host = "lost" /\ reply = "PONG" THEN 0 ELSE resyncs
  /\ UNCHANGED <<monitor, target, line, secondLost>>

\* PING at the new rate, again and again.
TryPing ==
  /\ host = "try" /\ up = << >> /\ mode \in {"window1", "window2"} /\ wire \in {<< >>, <<Head(Ping)>>}
  /\ Transmit(Ping)
  /\ UNCHANGED <<monitor, target, up, hosting, faults>>

\* No answer: back to the old rate if it was tried; a load goes on or starts over.
Timeout ==
  /\ host \notin {"idle", "running", "lost"} /\ Silent
  /\ host' = "lost"
  /\ hostRate' = IF host \in {"try", "confirm"} THEN "old" ELSE hostRate
  /\ slice' \in {slice, 1}
  /\ UNCHANGED <<monitor, target, wire, up, loaded, mishaps, faults>>

\* Zeros that end any frame in progress, then PING.
Resync ==
  /\ host = "lost" /\ Silent
  /\ Transmit(Zeros(MaxLen + 1) \o Ping)
  /\ resyncs' = IF mishaps' # mishaps THEN 0 ELSE IF resyncs < 3 THEN resyncs + 1 ELSE 3
  /\ UNCHANGED <<monitor, target, up, hosting, line, secondLost>>

\* An answer is lost on the line.
LoseReply ==
  /\ mishaps < Mishaps /\ mishaps' = mishaps + 1
  /\ up # << >> /\ up' = Tail(up)
  /\ resyncs' = 0
  /\ secondLost' = (secondLost \/ (host = "confirm" /\ Head(up) = "PONG"))
  /\ UNCHANGED <<monitor, target, wire, hosting, line>>

Next ==
  \/ Drop \/ StreamWriteMem \/ StreamWriteMemLz4
  \/ \E type \in {"ping", "regs", "set", "stop"} : Inspect(type)
  \/ Refuse \/ ContRefused \/ SetBaud
  \/ \E type \in {"run", "cont"} : Resume(type)
  \/ Window \/ WindowSkip \/ Expire
  \/ Execute
  \/ Break \/ Interrupt
  \/ \E c \in Commands : Command(c)
  \/ AskStop \/ Hear \/ TryPing \/ Timeout \/ Resync \/ LoseReply

MonitorStep ==
  \/ Drop \/ StreamWriteMem \/ StreamWriteMemLz4
  \/ \E type \in {"ping", "regs", "set", "stop"} : Inspect(type)
  \/ Refuse \/ ContRefused \/ SetBaud
  \/ \E type \in {"run", "cont"} : Resume(type)
  \/ Window \/ WindowSkip

Spec == Init /\ [][Next]_vars

\* The monitor polls, its windows are counted in polls, the target takes interrupts
\* in the end, and the host does not give up.
Fairness ==
  /\ WF_vars(MonitorStep) /\ WF_vars(Expire) /\ WF_vars(Interrupt)
  /\ WF_vars(Hear) /\ WF_vars(Timeout) /\ WF_vars(Resync)

FairSpec == Spec /\ Fairness
-----------------------------------------------------------------------------
\* A host that has had an ACK for the last slice has its program in memory, whatever
\* was resent or started over on the way (monitor.c 281-288: "Any failure drops the
\* stream, and the host starts over from off 0"), unless the line garbles: a RUN read as a
\* LOAD is stored before its checksum fails (264-278).
LoadedExact == TypeOK /\ (loaded /\ line # "garbles" => \A c \in Cells : memory[c] = c)

\* A target never runs code its memory no longer holds: what was written, by a frame
\* that failed as well, is flushed before it runs (monitor.c 159-178).
FreshCode == mode = "running" => cached \in {NotCached, memory[1]}

\* The host never takes an answer for another's: what it hears is for the command it
\* waits for, or an error (monitor.c 473-478: "must not get an ACK it cannot match").
Expected(h) ==
  CASE h \in {"ping", "try", "confirm"} -> {"PONG"}
    [] h = "regs" -> {"REGS"}
    [] h \in {"running", "stopping"} -> {"STOPPED"}
    [] h \in {"run", "cont"} -> {"ACK", "STOPPED"} \union Errors
    [] h = "lost" -> Replies
    [] h = "idle" -> {}
    [] OTHER -> {"ACK"}
RepliesMatch ==
  up # << >> => Head(up) \in Expected(host) \union (IF host \in Commands THEN Errors ELSE {})

\* "A host resyncs by sending 8232 0x00 bytes and then PINGing" (PROTOCOL.md 2.4): it
\* does so once, or twice if the first only stops a running target.
ResyncWorks == hostRate = rate => resyncs <= 2

\* A rate is kept only when the host has read at it, so that the two agree once a
\* switch is over, but where the very last PONG is lost (transport.c 234-236: "The host
\* retries the first freely, so the second has to differ from it"). At one rate, answers
\* are for the command they follow, and a host that lost the thread finds it, unless the
\* line garbles: a STOP of which the TYPE or the checksum is damaged is answered ECKSUM by a
\* monitor that has halted meanwhile.
RatesAgree ==
  line # "garbles" =>
    /\ mode \in {"halted", "running"} /\ host \notin {"try", "confirm"} =>
         hostRate = rate \/ secondLost
    /\ RepliesMatch
    /\ ResyncWorks

\* A host that has lost the monitor finds it again, running target or not.
Regained == (host = "lost") ~> (host # "lost" \/ hostRate # rate)
=============================================================================
