--------------------------- MODULE MonitorProofs ---------------------------
(***************************************************************************)
(* Theorems about the monitor, for programs of any size, every length of the   *)
(* link's buffer and any number of mishaps on the line.                        *)
(***************************************************************************)
EXTENDS Monitor, SequenceTheorems, TLAPS

\* Memory that was not written since the last flush is what the cache holds, and
\* a target runs only behind a flush.
CodeInv ==
  /\ mode = "running" => ~memWritten
  /\ ~memWritten => cached \in {NotCached, memory[1]}

\* What leaves memory and cache alone, and does not start the target.
LEMMA Untouched ==
  ASSUME CodeInv, memWritten' = memWritten, target' = target, mode' # "running" \/ mode' = mode
  PROVE  CodeInv'
BY DEF CodeInv, target

\* The frames the monitor takes while it is halted.
LEMMA CommandKeepsCode ==
  ASSUME CodeInv,
         \/ Drop \/ StreamWriteMem \/ StreamWriteMemLz4
         \/ \E type \in {"ping", "regs", "set", "stop"} : Inspect(type)
         \/ Refuse \/ ContRefused \/ SetBaud
         \/ \E type \in {"run", "cont"} : Resume(type)
  PROVE  CodeInv'
<1>1. CASE Drop
  BY <1>1, Untouched, Zenon DEF Drop, monitor
<1>2. CASE StreamWriteMem
  <2>1. CASE Len(Body) < 2
    <3>1. memWritten' = memWritten /\ target' = target /\ mode' = mode
      BY <1>2, <2>1, Zenon DEF StreamWriteMem, target
    <3> QED BY <3>1, Untouched
  <2>2. CASE ~(Len(Body) < 2)
    <3>1. memWritten' = TRUE /\ mode = "halted" /\ mode' = mode
      BY <1>2, <2>2, Zenon DEF StreamWriteMem, Receive
    <3> QED BY <3>1 DEF CodeInv
  <2> QED BY <2>1, <2>2
<1>3. CASE StreamWriteMemLz4
  <2>1. memWritten' = TRUE /\ mode = "halted" /\ mode' = mode
    BY <1>3, Zenon DEF StreamWriteMemLz4, Receive
  <2> QED BY <2>1 DEF CodeInv
<1>4. CASE \E type \in {"ping", "regs", "set", "stop"} : Inspect(type)
  BY <1>4, Untouched, Zenon DEF Inspect, monitor
<1>5. CASE Refuse
  BY <1>5, Untouched, Zenon DEF Refuse, monitor
<1>6. CASE ContRefused
  BY <1>6, Untouched, Zenon DEF ContRefused, monitor
<1>7. CASE SetBaud
  <2>1. memWritten' = memWritten /\ target' = target /\ mode' = "window1"
    BY <1>7, Zenon DEF SetBaud
  <2> QED BY <2>1, Untouched
<1>8. CASE \E type \in {"run", "cont"} : Resume(type)
  <2>1. /\ memWritten' = FALSE /\ memory' = memory
        /\ cached' = IF memWritten THEN NotCached ELSE cached
    BY <1>8, Zenon DEF Resume
  <2> QED BY <2>1 DEF CodeInv
<1> QED BY <1>1, <1>2, <1>3, <1>4, <1>5, <1>6, <1>7, <1>8

\* The windows of a change of rate.
LEMMA WindowKeepsCode ==
  ASSUME CodeInv, Window \/ WindowSkip \/ Expire
  PROVE  CodeInv'
<1>1. CASE Window
  <2>1. /\ memWritten' = memWritten /\ target' = target
        /\ mode' = IF mode = "window1" THEN "window2" ELSE "halted"
    BY <1>1, Zenon DEF Window
  <2> QED BY <2>1, Untouched
<1>2. CASE WindowSkip
  BY <1>2, Untouched, Zenon DEF WindowSkip, monitor
<1>3. CASE Expire
  <2>1. memWritten' = memWritten /\ target' = target /\ mode' = "halted"
    BY <1>3, Zenon DEF Expire
  <2> QED BY <2>1, Untouched
<1> QED BY <1>1, <1>2, <1>3

\* The target runs.
LEMMA TargetKeepsCode ==
  ASSUME CodeInv, Execute \/ Break \/ Interrupt
  PROVE  CodeInv'
<1>1. CASE Execute
  <2>1. /\ memWritten' = memWritten /\ memory' = memory /\ mode' = mode
        /\ cached' = memory[1]
    BY <1>1, Zenon DEF Execute, monitor
  <2> QED BY <2>1 DEF CodeInv
<1>2. CASE Break
  <2>1. memWritten' = memWritten /\ target' = target /\ mode' = "halted"
    BY <1>2, Zenon DEF Break, Stopped
  <2> QED BY <2>1, Untouched
<1>3. CASE Interrupt
  <2>1. memWritten' = memWritten /\ target' = target /\ (mode' = "halted" \/ mode' = mode)
    BY <1>3, Zenon DEF Interrupt, Stopped
  <2> QED BY <2>1, Untouched
<1> QED BY <1>1, <1>2, <1>3

\* The host has only the line.
LEMMA HostKeepsCode ==
  ASSUME CodeInv,
         (\E c \in Commands : Command(c)) \/ AskStop \/ Hear \/ TryPing \/ Timeout \/ Resync \/ LoseReply
  PROVE  CodeInv'
<1>1. UNCHANGED monitor /\ target' = target
  BY Zenon DEF Command, AskStop, Hear, TryPing, Timeout, Resync, LoseReply
<1> QED BY <1>1, Untouched, Zenon DEF monitor

\* A target never runs code its memory no longer holds, whatever was written by a
\* frame that was damaged, cut or refused (monitor.c 159-178).
THEOREM NoStaleCode == Spec => []FreshCode
<1>1. Init => CodeInv
  BY DEF Init, CodeInv
<1>2. CodeInv /\ [Next]_vars => CodeInv'
  <2> SUFFICES ASSUME CodeInv, [Next]_vars PROVE CodeInv'
    OBVIOUS
  <2>1. CASE Next
    BY <2>1, CommandKeepsCode, WindowKeepsCode, TargetKeepsCode, HostKeepsCode, Zenon DEF Next
  <2>2. CASE UNCHANGED vars
    BY <2>2, Untouched, Zenon DEF vars, monitor
  <2> QED BY <2>1, <2>2
<1>3. CodeInv => FreshCode
  BY DEF CodeInv, FreshCode
<1> QED BY <1>1, <1>2, <1>3, PTL DEF Spec
-----------------------------------------------------------------------------
(* The line.                                                                *)

Types == Commands \union {"stop"}
Bodies ==
  {<< >>, <<<<"one">>>>}
    \union {<<<<b[1], b[2]>>, <<"byte", b[3]>>>> : b \in {"header", "lz4"} \X Cells \X (0 .. Junk)}
Units ==
  ({"head"} \X Types \X Nat) \union ({"sum"} \X Types \X Bodies)
    \union ({"header", "lz4", "byte"} \X (0 .. Junk)) \union {<<"zero">>, <<"one">>, <<"noise">>}

Heads(w) == {i \in DOMAIN w : w[i][1] = "head"}
Headless(w) == Heads(w) = {}
PingHead == <<"head", "ping", 0>>
PingSum == <<"sum", "ping", << >>>>
StopSum == <<"sum", "stop", << >>>>

\* No frame has begun, but for a STOP at the end.
StopLast(w) ==
  \A i \in Heads(w) : w[i][2] = "stop" /\ (i = Len(w) \/ (i = Len(w) - 1 /\ w[i + 1] = StopSum))

\* A command with payload b has been sent: its frame is the last, and a STOP in front of it
\* is whole, or takes the head of the command for its own payload or checksum.
Posed(w, c, b) ==
  /\ \A i \in Heads(w) : w[i][2] \in {c, "stop"}
  /\ \A i, j \in Heads(w) : w[i][2] = w[j][2] => i = j
  /\ \A i, j \in Heads(w) : w[i][2] = "stop" /\ w[j][2] = c =>
       i < j /\ (j <= i + w[i][3] + 1 \/ (w[i][3] = 0 /\ w[i + 1] = StopSum))
  /\ \A i \in Heads(w) : w[i][2] = c =>
       /\ Len(w) <= i + Len(b) + 1
       /\ \A j \in i + 1 .. Len(w) : w[j][1] = "sum" => w[j] = <<"sum", c, b>>

\* The PING of a resynchronisation, with which the wire ends.
LastPing(w, i) == w[i][1] = "head" /\ w[i][2] = "ping" /\ i \in {Len(w) - 1, Len(w)}

\* A frame that was cut short comes first, and takes in all that was left.
Cut(w) == 1 \in Heads(w) /\ Fits(w[1][3])
Flushed(w) ==
  /\ \A i \in Heads(w) : LastPing(w, i) \/ (Cut(w) /\ i <= w[1][3] + 2)
  /\ Cut(w) /\ ~LastPing(w, 1) => w[1][3] + 2 > Len(w) \/ w[w[1][3] + 2][1] # "sum"

\* The PING will be read.
PingDue(w) ==
  /\ Len(w) >= 2 /\ w[Len(w) - 1] = PingHead /\ w[Len(w)] = PingSum
  /\ Cut(w) => Len(w) = 2 \/ w[1][3] + 2 <= Len(w) - 2

-----------------------------------------------------------------------------
(* Who waits for what.                                                      *)

Waits == up = << >>
Told(replies) == up \in {<<r>> : r \in replies}

Awake ==
  /\ Headless(wire)
  /\ CASE host \in {"run", "cont"} ->
            \/ mode = "running" /\ (Waits \/ Told({"ACK"}))
            \/ mode = "halted" /\ (Waits \/ Told({"ACK", "STOPPED"} \union Errors) \/ up = <<"ACK", "STOPPED">>)
       [] host = "baud" ->
            \/ mode = "window1" /\ wire = << >> /\ (Waits \/ Told({"ACK"}))
            \/ mode = "halted" /\ (Waits \/ Told(Errors) \/ (Told({"ACK"}) /\ rate = "old"))
       [] OTHER -> mode = "halted" /\ (Waits \/ Told(Expected(host) \union Errors))

Asking == mode = "halted" /\ Waits /\ Posed(wire, host, Payload(host))

Stopping ==
  /\ StopLast(wire) /\ (host = "running" => Headless(wire))
  /\ \/ mode \in {"running", "halted"} /\ Waits
     \/ mode = "halted" /\ Told({"STOPPED"})

Trying ==
  \/ /\ mode = "window1" /\ Waits
     /\ \A i \in DOMAIN wire : /\ wire[i][1] # "one" /\ (wire[i] = PingSum => i = Len(wire))
                               /\ line = "monitor deaf" => wire[i][1] = "noise"
  \/ mode = "window2" /\ Waits /\ \A i \in DOMAIN wire : wire[i][1] # "one"
  \/ mode = "window2" /\ Told({"PONG"}) /\ wire = << >>
  \/ mode = "halted" /\ (Waits \/ Told({"PONG"})) /\ Headless(wire) /\ rate = "old"

Confirming ==
  \/ mode = "window2" /\ Waits /\ Heads(wire) \subseteq {1}
  \/ /\ mode = "halted" /\ Headless(wire)
     /\ \/ Waits /\ (rate = "old" \/ secondLost)
        \/ Told({"PONG"}) /\ rate = "new"

Lost ==
  /\ Flushed(wire)
  /\ mode = "halted" \/ (mode = "running" /\ Waits)
  /\ \A p \in DOMAIN up : up[p] = "PONG" => p = Len(up) /\ Headless(wire)

\* What may be on the wire and among the answers, for each thing the host waits for.
Phase ==
  /\ host = "idle" => mode = "halted" /\ Waits /\ StopLast(wire)
  /\ host \in Commands => Asking \/ Awake
  /\ host \in {"running", "stopping"} => Stopping
  /\ host = "try" => Trying
  /\ host = "confirm" => Confirming
  /\ host = "lost" => Lost

\* Who reads at which rate, and how the line is then.
Rated ==
  /\ host \in {"try", "confirm"} => hostRate = "new"
  /\ host = "baud" => hostRate = "old"
  /\ mode \in {"window1", "window2"} => rate = "new" /\ host \in {"baud", "try", "confirm"}
  /\ mode \in {"halted", "running"} /\ host \notin {"try", "confirm"} => hostRate = rate \/ secondLost
  /\ rate = "new" /\ mode # "window1" => line # "monitor deaf"
  /\ hostRate = "new" => line # "host deaf" \/ (host = "try" /\ Waits)

\* A host that resynchronises at the right rate is heard the second time at the latest.
Resynced ==
  /\ resyncs \in 0 .. 3 /\ (resyncs # 0 => host = "lost")
  /\ hostRate = rate /\ resyncs # 0 /\ mode = "running" => resyncs = 1 /\ wire # << >> /\ First[1] # "noise"
  /\ hostRate = rate /\ resyncs > 1 =>
       resyncs = 2 /\ mode = "halted" /\ (PingDue(wire) \/ \E p \in DOMAIN up : up[p] = "PONG")

\* What is in memory.
Stocked ==
  /\ lz.out = lz.consumed
  /\ lz.active /\ slice # 1 => \A c \in 1 .. lz.out : memory[c] = c
  /\ loaded => \A c \in Cells : memory[c] = c
  /\ \A i \in Heads(wire) : /\ wire[i][2] \in {"write", "slice"} => ~loaded
                            /\ wire[i][2] = "write" => slice = 1
  /\ host \in {"write", "slice"} => ~loaded
  /\ host = "write" => slice = 1
  /\ host = "slice" /\ up = <<"ACK">> =>
       (\A c \in 1 .. slice : memory[c] = c) /\ (lz.active => lz.out = slice)

\* Types, on a line that damages no TYPE and no checksum of a STOP.
Shapes ==
  /\ TypeOK
  /\ wire \in Seq(Units)
  /\ lz \in [active : BOOLEAN, consumed : 0 .. Slices, out : 0 .. Slices]
  /\ line \in {"good", "host deaf", "monitor deaf"}
  /\ mishaps \in Nat

\* The inductive invariant.
MonitorInv == Shapes /\ Phase /\ Rated /\ Resynced /\ Stocked
-----------------------------------------------------------------------------
(* Units and sequences of them.                                              *)

\* What is left when m units have been read.
Behind(w, m, v) == Len(v) = Len(w) - m /\ \A i \in 1 .. Len(v) : v[i] = w[i + m]

\* The parts of a unit.
LEMMA UnitParts ==
  ASSUME NEW u \in Units
  PROVE  /\ u[1] = "head" => u[2] \in Types /\ u[3] \in Nat /\ u = <<"head", u[2], u[3]>>
         /\ u[1] = "sum" => u[2] \in Types /\ u[3] \in Bodies /\ u = <<"sum", u[2], u[3]>>
         /\ u[1] \in {"byte", "header", "lz4"} => u[2] \in 0 .. Junk
         /\ u[1] \in {"head", "sum", "byte", "header", "lz4", "zero", "one", "noise"}
BY DEF Units

\* What is left of the wire is a wire.
LEMMA RestIsBehind ==
  ASSUME NEW w \in Seq(Units), NEW m \in 0 .. Len(w)
  PROVE  SubSeq(w, m + 1, Len(w)) \in Seq(Units) /\ Behind(w, m, SubSeq(w, m + 1, Len(w)))
BY DEF Behind

\* So is the tail.
LEMMA TailIsBehind ==
  ASSUME NEW w \in Seq(Units), w # << >>
  PROVE  /\ Tail(w) \in Seq(Units) /\ Behind(w, 1, Tail(w))
         /\ Len(w) \in Nat \ {0} /\ Head(w) = w[1] /\ w[1] \in Units
BY DEF Behind

\* A frame that begins in what is left began in the same place before.
LEMMA HeadsBehind ==
  ASSUME NEW w \in Seq(Units), NEW m \in 0 .. Len(w), NEW v \in Seq(Units), Behind(w, m, v)
  PROVE  /\ \A i \in Heads(v) : i \in 1 .. Len(v) /\ i + m \in Heads(w) /\ v[i] = w[i + m]
         /\ \A i \in Heads(w) : i \in 1 .. Len(w)
         /\ Headless(w) => Headless(v)
<1>1. DOMAIN w = 1 .. Len(w) /\ DOMAIN v = 1 .. Len(v) /\ Len(w) \in Nat /\ Len(v) \in Nat
  OBVIOUS
<1>2. ASSUME NEW i \in Heads(v) PROVE i \in 1 .. Len(v) /\ i + m \in Heads(w) /\ v[i] = w[i + m]
  <2>1. i \in 1 .. Len(v) /\ v[i][1] = "head"
    BY <1>1 DEF Heads
  <2>2. v[i] = w[i + m] /\ i + m \in 1 .. Len(w)
    BY <1>1, <2>1 DEF Behind
  <2> QED BY <1>1, <2>1, <2>2 DEF Heads
<1>3. ASSUME NEW i \in Heads(w) PROVE i \in 1 .. Len(w)
  BY <1>1 DEF Heads
<1>4. Headless(w) => Headless(v)
  BY <1>2, Zenon DEF Headless
<1> QED BY <1>2, <1>3, <1>4

\* What ends with a STOP goes on doing so as units are read.
LEMMA StopLastBehind ==
  ASSUME NEW w \in Seq(Units), NEW m \in 0 .. Len(w), NEW v \in Seq(Units), Behind(w, m, v), StopLast(w)
  PROVE  StopLast(v)
<1>1. Len(w) \in Nat /\ Len(v) = Len(w) - m
  BY DEF Behind
<1>2. SUFFICES ASSUME NEW i \in Heads(v)
               PROVE  v[i][2] = "stop" /\ (i = Len(v) \/ (i = Len(v) - 1 /\ v[i + 1] = StopSum))
  BY DEF StopLast
<1>3. i \in 1 .. Len(v) /\ i + m \in Heads(w) /\ v[i] = w[i + m]
  BY HeadsBehind
<1>4. w[i + m][2] = "stop" /\ (i + m = Len(w) \/ (i + m = Len(w) - 1 /\ w[i + m + 1] = StopSum))
  BY <1>3 DEF StopLast
<1>5. i = Len(v) - 1 => v[i + 1] = w[i + m + 1]
  <2> SUFFICES ASSUME i = Len(v) - 1 PROVE v[i + 1] = w[i + m + 1]
    OBVIOUS
  <2>1. i + 1 \in 1 .. Len(v) /\ (i + 1) + m = i + m + 1
    BY <1>1, <1>3
  <2> QED BY <2>1 DEF Behind
<1> QED BY <1>1, <1>3, <1>4, <1>5

\* A command that has been sent is still the last.
LEMMA PosedBehind ==
  ASSUME NEW w \in Seq(Units), NEW m \in 0 .. Len(w), NEW v \in Seq(Units), Behind(w, m, v),
         NEW c, NEW b, Len(b) \in Nat, Posed(w, c, b)
  PROVE  Posed(v, c, b)
<1>1. Len(w) \in Nat /\ Len(v) \in Nat /\ Len(v) = Len(w) - m /\ m \in Nat
  BY DEF Behind
<1>2. \A i \in Heads(v) : i \in 1 .. Len(v) /\ i + m \in Heads(w) /\ v[i] = w[i + m]
  BY HeadsBehind
<1>3. \A i \in 1 .. Len(v) : v[i] = w[i + m] /\ i + m \in 1 .. Len(w)
  BY <1>1 DEF Behind
<1>4. \A i \in Heads(v) : v[i][2] \in {c, "stop"}
  BY <1>2 DEF Posed
<1>5. ASSUME NEW i \in Heads(v), NEW j \in Heads(v), v[i][2] = v[j][2] PROVE i = j
  <2>1. i + m \in Heads(w) /\ j + m \in Heads(w) /\ w[i + m][2] = w[j + m][2]
    BY <1>2, <1>5
  <2>2. i + m = j + m
    BY <2>1 DEF Posed
  <2>3. i \in Nat /\ j \in Nat
    BY <1>1, <1>2
  <2> QED BY <1>1, <2>2, <2>3
<1>6. ASSUME NEW i \in Heads(v), NEW j \in Heads(v), v[i][2] = "stop", v[j][2] = c
      PROVE  i < j /\ (j <= i + v[i][3] + 1 \/ (v[i][3] = 0 /\ v[i + 1] = StopSum))
  <2>1. v[i] = w[i + m] /\ v[j] = w[j + m] /\ i + m \in Heads(w) /\ j + m \in Heads(w)
        /\ i \in 1 .. Len(v) /\ j \in 1 .. Len(v)
    BY <1>2
  <2>2. /\ i + m < j + m
        /\ j + m <= (i + m) + v[i][3] + 1 \/ (v[i][3] = 0 /\ w[(i + m) + 1] = StopSum)
    BY <1>6, <2>1 DEF Posed
  <2>3. v[i][3] \in Nat
    <3>1. v[i] \in Units /\ v[i][1] = "head"
      BY <2>1 DEF Heads
    <3> QED BY <3>1, UnitParts
  <2>4. i < j
    BY <2>1, <2>2
  <2>5. CASE j + m <= (i + m) + v[i][3] + 1
    <3> DEFINE n == v[i][3]
    <3>1. n \in Nat /\ j + m <= (i + m) + n + 1
      BY <2>3, <2>5
    <3> HIDE DEF n
    <3>2. j <= i + n + 1
      BY <1>1, <2>1, <3>1
    <3> QED BY <2>4, <3>2 DEF n
  <2>6. CASE v[i][3] = 0 /\ w[(i + m) + 1] = StopSum
    <3>1. i + 1 \in 1 .. Len(v) /\ (i + 1) + m = (i + m) + 1
      BY <1>1, <2>1, <2>4
    <3> QED BY <1>3, <2>4, <2>6, <3>1
  <2> QED BY <2>2, <2>5, <2>6
<1>7. ASSUME NEW i \in Heads(v), v[i][2] = c
      PROVE  /\ Len(v) <= i + Len(b) + 1
             /\ \A j \in i + 1 .. Len(v) : v[j][1] = "sum" => v[j] = <<"sum", c, b>>
  <2>1. /\ Len(w) <= (i + m) + Len(b) + 1
        /\ \A j \in (i + m) + 1 .. Len(w) : w[j][1] = "sum" => w[j] = <<"sum", c, b>>
    BY <1>2, <1>7 DEF Posed
  <2>2. i \in 1 .. Len(v)
    BY <1>2
  <2>3. ASSUME NEW j \in i + 1 .. Len(v) PROVE j + m \in (i + m) + 1 .. Len(w) /\ v[j] = w[j + m]
    BY <1>1, <1>3, <2>2
  <2>4. Len(v) <= i + Len(b) + 1
    BY <1>1, <2>1, <2>2
  <2>5. ASSUME NEW j \in i + 1 .. Len(v), v[j][1] = "sum" PROVE v[j] = <<"sum", c, b>>
    BY <2>1, <2>3, <2>5
  <2> QED BY <2>4, <2>5
<1> QED BY <1>4, <1>5, <1>6, <1>7 DEF Posed
\* The PING at the end is at the end of what is left.
LEMMA LastPingBehind ==
  ASSUME NEW w \in Seq(Units), NEW m \in 0 .. Len(w), NEW v \in Seq(Units), Behind(w, m, v),
         NEW i \in 1 .. Len(v), LastPing(w, i + m)
  PROVE  LastPing(v, i)
<1>1. Len(w) \in Nat /\ Len(v) \in Nat /\ Len(v) = Len(w) - m /\ m \in Nat
  BY DEF Behind
<1>2. v[i] = w[i + m]
  BY DEF Behind
<1>3. i + m \in {Len(w) - 1, Len(w)}
  BY DEF LastPing
<1>4. i \in {Len(v) - 1, Len(v)}
  BY <1>1, <1>3
<1> QED BY <1>2, <1>4 DEF LastPing

\* Nothing but the PING of a resynchronisation.
LEMMA OnlyLastPings ==
  ASSUME NEW v, \A i \in Heads(v) : LastPing(v, i)
  PROVE  Flushed(v)
BY DEF Flushed, Cut

\* Noise in front of what a host that has lost the monitor sent, and a frame that was cut.
LEMMA FlushedBehind ==
  ASSUME NEW w \in Seq(Units), w # << >>, NEW m \in 1 .. Len(w), NEW v \in Seq(Units), Behind(w, m, v), Flushed(w),
         Cut(w) => m = w[1][3] + 2
  PROVE  \A i \in Heads(v) : LastPing(v, i)
<1> SUFFICES ASSUME NEW i \in Heads(v) PROVE LastPing(v, i)
  OBVIOUS
<1>1. i \in 1 .. Len(v) /\ i + m \in Heads(w) /\ m \in 0 .. Len(w) /\ Len(v) \in Nat
  BY HeadsBehind
<1>2. LastPing(w, i + m) \/ (Cut(w) /\ i + m <= w[1][3] + 2)
  BY <1>1 DEF Flushed
<1>3. CASE Cut(w) /\ i + m <= w[1][3] + 2
  <2>1. i + m <= m
    BY <1>3
  <2> QED BY <1>1, <2>1
<1> QED BY <1>1, <1>2, <1>3, LastPingBehind

\* Reading noise, or a frame that was cut, does not reach the PING: reading the PING does.
LEMMA PingDueBehind ==
  ASSUME NEW w \in Seq(Units), w # << >>, NEW m \in 1 .. Len(w), NEW v \in Seq(Units), Behind(w, m, v), Flushed(w),
         IF Cut(w) THEN m = w[1][3] + 2 ELSE m = 1,
         PingDue(w)
  PROVE  PingDue(v) \/ (Len(w) = 2 /\ w[1] = PingHead /\ w[2] = PingSum)
<1>1. Len(w) \in Nat /\ Len(v) \in Nat /\ Len(v) = Len(w) - m /\ m \in Nat /\ Len(w) >= 2
  BY DEF Behind, PingDue
<1>2. \A i \in 1 .. Len(v) : v[i] = w[i + m]
  BY DEF Behind
<1>3. w[Len(w) - 1] = PingHead /\ w[Len(w)] = PingSum
  BY DEF PingDue
<1>4. CASE Len(w) = 2
  BY <1>3, <1>4
<1>5. CASE Len(w) # 2
  <2>1. Len(v) >= 2
    <3>1. CASE Cut(w)
      <4>1. m <= Len(w) - 2
        BY <1>5, <3>1 DEF PingDue
      <4> QED BY <1>1, <4>1
    <3>2. CASE ~Cut(w)
      <4>1. m = 1
        BY <3>2
      <4> QED BY <1>1, <1>5, <4>1
    <3> QED BY <3>1, <3>2
  <2>2. v[Len(v) - 1] = PingHead /\ v[Len(v)] = PingSum
    <3>1. Len(v) - 1 \in 1 .. Len(v) /\ (Len(v) - 1) + m = Len(w) - 1
      BY <1>1, <2>1
    <3>2. Len(v) \in 1 .. Len(v) /\ Len(v) + m = Len(w)
      BY <1>1, <2>1
    <3> QED BY <1>2, <1>3, <3>1, <3>2
  <2>3. Cut(v) => Len(v) = 2
    <3> SUFFICES ASSUME Cut(v) PROVE Len(v) = 2
      OBVIOUS
    <3>1. LastPing(v, 1)
      BY FlushedBehind DEF Cut
    <3> QED BY <1>1, <2>1, <3>1 DEF LastPing
  <2> QED BY <1>1, <2>1, <2>2, <2>3 DEF PingDue
<1> QED BY <1>4, <1>5

-----------------------------------------------------------------------------
(* Frames that are received.                                                 *)

\* A frame that is received begins the wire; what is left is behind it.
LEMMA ReceiveFacts ==
  ASSUME Shapes, NEW type, Receive(type)
  PROVE  /\ wire \in Seq(Units) /\ wire' \in Seq(Units) /\ wire # << >> /\ mode = "halted"
         /\ First = wire[1] /\ 1 \in Heads(wire) /\ wire[1][2] = type /\ type \in Types
         /\ wire[1][3] \in 0 .. MaxLen /\ wire[1][3] + 2 \in 1 .. Len(wire) /\ Cut(wire)
         /\ Behind(wire, wire[1][3] + 2, wire')
         /\ Body \in Seq(Units) /\ Len(Body) = wire[1][3] /\ \A i \in 1 .. Len(Body) : Body[i] = wire[i + 1]
         /\ Valid <=> wire[wire[1][3] + 2] = <<"sum", type, Body>>
<1>1. /\ wire \in Seq(Units) /\ wire # << >> /\ First[1] = "head" /\ Fits(First[3])
      /\ Len(wire) >= First[3] + 2 /\ First[2] = type /\ wire' = Rest /\ mode = "halted"
  BY DEF Shapes, Receive, Whole, Framed
<1>2. First = wire[1] /\ Len(wire) \in Nat \ {0} /\ wire[1] \in Units
  BY <1>1, TailIsBehind DEF First
<1>3. wire[1][3] \in Nat /\ type \in Types /\ 1 \in Heads(wire)
  <2>1. wire[1][1] = "head" /\ wire[1][2] = type
    BY <1>1, <1>2
  <2>2. 1 \in DOMAIN wire
    BY <1>1, <1>2
  <2> QED BY <1>2, <2>1, <2>2, UnitParts DEF Heads
<1> DEFINE n == wire[1][3]
<1>4. n \in 0 .. MaxLen /\ n + 2 \in 1 .. Len(wire)
  <2>1. n <= MaxLen /\ n \in Nat /\ n + 2 <= Len(wire)
    BY <1>1, <1>2, <1>3 DEF Fits
  <2> HIDE DEF n
  <2> QED BY <1>2, <2>1 DEF MaxLen
<1>5. wire' = SubSeq(wire, (n + 2) + 1, Len(wire))
  <2>1. wire' = SubSeq(wire, n + 3, Len(wire))
    BY <1>1, <1>2 DEF Rest
  <2>2. n + 3 = (n + 2) + 1
    BY <1>3
  <2> QED BY <2>1, <2>2
<1>6. wire' \in Seq(Units) /\ Behind(wire, n + 2, wire')
  <2> HIDE DEF n
  <2>1. n + 2 \in 0 .. Len(wire)
    BY <1>4
  <2> QED BY <1>1, <1>5, <2>1, RestIsBehind
<1>7. Body \in Seq(Units) /\ Len(Body) = n /\ \A i \in 1 .. Len(Body) : Body[i] = wire[i + 1]
  <2>1. Body = SubSeq(wire, 2, n + 1)
    BY <1>2 DEF Body
  <2> HIDE DEF n
  <2>2. n \in Nat /\ n + 2 <= Len(wire)
    BY <1>2, <1>4
  <2> QED BY <1>1, <1>2, <2>1, <2>2
<1>8. Valid <=> wire[n + 2] = <<"sum", type, Body>>
  BY <1>1, <1>2 DEF Valid
<1>9. Cut(wire)
  BY <1>1, <1>2, <1>3 DEF Cut
<1> QED BY <1>1, <1>2, <1>3, <1>4, <1>6, <1>7, <1>8, <1>9
\* What a frame that is received can be, for each thing the host may wait for.
Outcome(type) ==
  \/ host \in {"idle", "stopping"} /\ type = "stop" /\ Valid /\ StopLast(wire')
  \/ host \in Commands /\ Waits /\ type = "stop" /\ Valid /\ Posed(wire', host, Payload(host))
  \/ host \in Commands /\ Waits /\ type = "stop" /\ Headless(wire')
  \/ /\ host \in Commands /\ Waits /\ type = host /\ Headless(wire')
     /\ Valid => Body = Payload(host) /\ wire' = << >>
  \/ /\ host = "lost" /\ Flushed(wire') /\ (Valid => type = "ping" /\ Headless(wire'))
     /\ \A p \in DOMAIN up : up[p] # "PONG"
     /\ PingDue(wire) => PingDue(wire') \/ (type = "ping" /\ Valid)

\* A payload fits in a frame.
LEMMA PayloadLength ==
  ASSUME NEW c
  PROVE  Len(Payload(c)) \in Nat
BY DEF Payload

\* The end of the wire.
LEMMA NoneLeft ==
  ASSUME NEW v \in Seq(Units), Len(v) <= 0
  PROVE  v = << >> /\ Headless(v)
<1>1. v = << >>
  BY EmptySeq
<1> QED BY <1>1 DEF Headless, Heads

\* A STOP of its own is answered by nothing.
LEMMA StopIsValid ==
  ASSUME Shapes, Receive("stop"), wire[1][3] = 0, wire[2] = StopSum
  PROVE  Valid
<1>1. Body \in Seq(Units) /\ Len(Body) = 0
  BY ReceiveFacts
<1>2. Body = << >>
  BY <1>1, EmptySeq
<1> QED BY <1>2, ReceiveFacts DEF StopSum

\* A frame the monitor takes while a command is on its way.
LEMMA ReceivedAsking ==
  ASSUME Shapes, NEW type, Receive(type), host \in Commands, Posed(wire, host, Payload(host))
  PROVE  \/ type = "stop" /\ Valid /\ Posed(wire', host, Payload(host))
         \/ type = "stop" /\ Headless(wire')
         \/ type = host /\ Headless(wire') /\ (Valid => Body = Payload(host) /\ wire' = << >>)
<1> DEFINE n == wire[1][3]
           b == Payload(host)
<1>1. /\ wire \in Seq(Units) /\ wire' \in Seq(Units) /\ 1 \in Heads(wire) /\ wire[1][2] = type
      /\ n \in 0 .. MaxLen /\ n + 2 \in 1 .. Len(wire) /\ Behind(wire, n + 2, wire')
      /\ Len(Body) = n /\ (Valid <=> wire[n + 2] = <<"sum", type, Body>>)
  BY ReceiveFacts
<1>2. n \in Nat /\ Len(wire) \in Nat /\ Len(wire') \in Nat /\ Len(wire') = Len(wire) - (n + 2) /\ n + 2 \in 0 .. Len(wire)
  BY <1>1 DEF Behind, MaxLen
<1>3. \A i \in Heads(wire') : i \in 1 .. Len(wire') /\ i + (n + 2) \in Heads(wire)
  <2> HIDE DEF n
  <2> QED BY <1>1, <1>2, HeadsBehind
<1>4. Len(b) \in Nat
  BY PayloadLength
<1> HIDE DEF n, b
<1>5. type \in {host, "stop"} /\ \A i \in Heads(wire) : wire[i][2] \in {host, "stop"}
  BY <1>1 DEF Posed
<1>6. CASE type = "stop" /\ n = 0 /\ wire[2] = StopSum
  <2>1. Valid
    BY <1>6, StopIsValid DEF n
  <2>2. Posed(wire', host, b)
    BY <1>1, <1>2, <1>4, PosedBehind DEF b
  <2> QED BY <1>6, <2>1, <2>2 DEF b
<1>7. CASE type = "stop" /\ ~(n = 0 /\ wire[2] = StopSum)
  <2>1. ASSUME NEW i \in Heads(wire') PROVE FALSE
    <3>1. i \in Nat \ {0} /\ i + (n + 2) \in Heads(wire)
      BY <1>2, <1>3
    <3>2. wire[i + (n + 2)][2] # "stop"
      <4> SUFFICES ASSUME wire[i + (n + 2)][2] = "stop" PROVE FALSE
        OBVIOUS
      <4>1. i + (n + 2) = 1
        BY <1>1, <1>7, <3>1 DEF Posed
      <4> QED BY <1>2, <3>1, <4>1
    <3>3. wire[i + (n + 2)][2] = host
      BY <1>5, <3>1, <3>2
    <3>4. i + (n + 2) <= 1 + n + 1 \/ (n = 0 /\ wire[1 + 1] = StopSum)
      BY <1>1, <1>7, <3>1, <3>3 DEF Posed, n
    <3>5. i + (n + 2) <= 1 + n + 1
      BY <1>7, <3>4
    <3> QED BY <1>2, <3>1, <3>5
  <2> QED BY <1>7, <2>1 DEF Headless
<1>8. CASE type = host
  <2>0. host # "stop"
    BY DEF Commands
  <2>1. ASSUME NEW i \in Heads(wire') PROVE FALSE
    <3>1. i \in Nat \ {0} /\ i + (n + 2) \in Heads(wire)
      BY <1>2, <1>3
    <3>2. CASE wire[i + (n + 2)][2] = "stop"
      <4>1. i + (n + 2) < 1
        BY <1>1, <1>8, <3>1, <3>2 DEF Posed
      <4> QED BY <1>2, <3>1, <4>1
    <3>3. CASE wire[i + (n + 2)][2] = host
      <4>1. i + (n + 2) = 1
        BY <1>1, <1>8, <3>1, <3>3 DEF Posed
      <4> QED BY <1>2, <3>1, <4>1
    <3> QED BY <1>5, <3>1, <3>2, <3>3
  <2>2. ASSUME Valid PROVE Body = b /\ wire' = << >>
    <3>1. wire[n + 2] = <<"sum", type, Body>>
      BY <1>1, <2>2
    <3>2. /\ Len(wire) <= 1 + Len(b) + 1
          /\ \A j \in 1 + 1 .. Len(wire) : wire[j][1] = "sum" => wire[j] = <<"sum", host, b>>
      BY <1>1, <1>8 DEF Posed, b
    <3>3. n + 2 \in 1 + 1 .. Len(wire)
      BY <1>2
    <3>4. wire[n + 2] = <<"sum", host, b>>
      BY <3>1, <3>2, <3>3
    <3>5. Body = b
      BY <3>1, <3>4
    <3>6. Len(wire') <= 0
      BY <1>1, <1>2, <3>2, <3>5
    <3> QED BY <1>1, <3>5, <3>6, NoneLeft
  <2> QED BY <1>8, <2>1, <2>2 DEF Headless, b
<1> QED BY <1>5, <1>6, <1>7, <1>8

\* A frame the monitor takes from a host that resynchronises: only the PING is good.
LEMMA ReceivedLost ==
  ASSUME Shapes, NEW type, Receive(type), Flushed(wire)
  PROVE  /\ Flushed(wire') /\ (Valid => type = "ping" /\ Headless(wire'))
         /\ PingDue(wire) => PingDue(wire') \/ (type = "ping" /\ Valid)
<1> DEFINE n == wire[1][3]
<1>1. /\ wire \in Seq(Units) /\ wire' \in Seq(Units) /\ 1 \in Heads(wire) /\ wire[1][2] = type /\ wire # << >>
      /\ n \in 0 .. MaxLen /\ n + 2 \in 1 .. Len(wire) /\ Behind(wire, n + 2, wire') /\ Cut(wire)
      /\ Body \in Seq(Units) /\ Len(Body) = n /\ (Valid <=> wire[n + 2] = <<"sum", type, Body>>)
  BY ReceiveFacts
<1>2. n \in Nat /\ Len(wire) \in Nat /\ Len(wire') \in Nat /\ Len(wire') = Len(wire) - (n + 2)
  BY <1>1 DEF Behind, MaxLen
<1>3. Flushed(wire')
  BY <1>1, FlushedBehind, OnlyLastPings
<1>4. ASSUME Valid PROVE type = "ping" /\ Headless(wire')
  <2>1. LastPing(wire, 1)
    <3> SUFFICES ASSUME ~LastPing(wire, 1) PROVE FALSE
      OBVIOUS
    <3>1. n + 2 > Len(wire) \/ wire[n + 2][1] # "sum"
      BY <1>1 DEF Flushed
    <3>2. wire[n + 2][1] = "sum"
      BY <1>1, <1>4
    <3> HIDE DEF n
    <3> QED BY <1>1, <1>2, <3>1, <3>2
  <2>2. type = "ping"
    BY <1>1, <2>1 DEF LastPing
  <2>3. Len(wire') <= 0
    <3>1. 1 \in {Len(wire) - 1, Len(wire)}
      BY <2>1 DEF LastPing
    <3>2. n + 2 \in 1 .. Len(wire)
      BY <1>1
    <3> HIDE DEF n
    <3>3. Len(wire) \in {1, 2}
      BY <1>2, <3>1
    <3> QED BY <1>2, <3>2, <3>3
  <2> QED BY <1>1, <2>2, <2>3, NoneLeft
<1>5. ASSUME PingDue(wire) PROVE PingDue(wire') \/ (type = "ping" /\ Valid)
  <2>1. PingDue(wire') \/ (Len(wire) = 2 /\ wire[1] = PingHead /\ wire[2] = PingSum)
    BY <1>1, <1>5, PingDueBehind
  <2>2. CASE Len(wire) = 2 /\ wire[1] = PingHead /\ wire[2] = PingSum
    <3>1. type = "ping" /\ n = 0
      BY <1>1, <2>2 DEF PingHead
    <3>2. Body = << >>
      BY <1>1, <3>1, EmptySeq
    <3>3. wire[n + 2] = <<"sum", type, Body>>
      BY <2>2, <3>1, <3>2 DEF PingSum
    <3> QED BY <1>1, <3>1, <3>3
  <2> QED BY <2>1, <2>2
<1> QED BY <1>3, <1>4, <1>5

\* A frame the monitor takes, for each thing the host waits for.
LEMMA Received ==
  ASSUME Shapes, Phase, NEW type, Receive(type)
  PROVE  Outcome(type)
<1>1. /\ wire \in Seq(Units) /\ wire' \in Seq(Units) /\ 1 \in Heads(wire) /\ wire[1][2] = type /\ mode = "halted"
      /\ wire[1][3] \in 0 .. MaxLen /\ wire[1][3] + 2 \in 1 .. Len(wire) /\ Behind(wire, wire[1][3] + 2, wire')
  BY ReceiveFacts
<1>2. ~Headless(wire)
  BY <1>1 DEF Headless
<1>3. host \in Commands \union {"idle", "running", "stopping", "try", "confirm", "lost"}
  BY DEF Shapes, TypeOK
<1>4. CASE host \in {"idle", "running", "stopping"}
  <2>1. StopLast(wire) /\ host # "running"
    BY <1>2, <1>4 DEF Phase, Stopping
  <2>2. type = "stop" /\ (1 = Len(wire) \/ (1 = Len(wire) - 1 /\ wire[1 + 1] = StopSum))
    BY <1>1, <2>1 DEF StopLast
  <2>3. PICK n \in 0 .. MaxLen : n = wire[1][3]
    BY <1>1
  <2>7. n \in Nat /\ n + 2 <= Len(wire) /\ Len(wire) \in Nat
    BY <1>1, <2>3 DEF MaxLen
  <2>4. n = 0 /\ wire[2] = StopSum
    <3>1. Len(wire) >= 2
      BY <2>7
    <3>2. Len(wire) = 2 /\ wire[2] = StopSum
      BY <2>2, <2>7, <3>1
    <3>3. n = 0
      BY <2>7, <3>2
    <3> QED BY <3>2, <3>3
  <2>5. Valid
    BY <2>2, <2>3, <2>4, StopIsValid
  <2>6. StopLast(wire')
    <3>1. n + 2 \in 0 .. Len(wire)
      BY <2>7
    <3>2. Behind(wire, n + 2, wire')
      BY <1>1, <2>3
    <3> QED BY <1>1, <2>1, <3>1, <3>2, StopLastBehind
  <2> QED BY <1>4, <2>1, <2>2, <2>5, <2>6 DEF Outcome
<1>5. CASE host \in Commands
  <2>1. Waits /\ Posed(wire, host, Payload(host))
    BY <1>2, <1>5 DEF Phase, Asking, Awake
  <2> QED BY <1>5, <2>1, ReceivedAsking DEF Outcome
<1>6. CASE host \in {"try", "confirm"}
  BY <1>1, <1>2, <1>6 DEF Phase, Trying, Confirming
<1>7. CASE host = "lost"
  <2>1. Flushed(wire) /\ \A p \in DOMAIN up : up[p] # "PONG"
    BY <1>2, <1>7 DEF Phase, Lost
  <2> QED BY <1>7, <2>1, ReceivedLost DEF Outcome
<1> QED BY <1>3, <1>4, <1>5, <1>6, <1>7
-----------------------------------------------------------------------------
(* Answers.                                                                  *)

\* An answer behind the others.
LEMMA OneReply ==
  ASSUME NEW q \in Seq(Replies), NEW r \in Replies
  PROVE  /\ q \o <<r>> \in Seq(Replies) /\ q \o <<r>> # << >>
         /\ q = << >> => q \o <<r>> = <<r>>
         /\ q = <<"ACK">> => q \o <<r>> = <<"ACK", r>>
         /\ \A p \in DOMAIN (q \o <<r>>) :
              p = Len(q \o <<r>>) \/ (p \in DOMAIN q /\ (q \o <<r>>)[p] = q[p])
         /\ (q \o <<r>>)[Len(q \o <<r>>)] = r /\ Len(q \o <<r>>) \in DOMAIN (q \o <<r>>)
<1>1. /\ Len(q) \in Nat /\ Len(<<r>>) = 1 /\ <<r>> \in Seq(Replies) /\ <<r>>[1] = r
      /\ Len(q \o <<r>>) = Len(q) + 1 /\ q \o <<r>> \in Seq(Replies)
  OBVIOUS
<1>2. \A p \in 1 .. Len(q) + 1 : (q \o <<r>>)[p] = IF p <= Len(q) THEN q[p] ELSE r
  OBVIOUS
<1>3. q = << >> => q \o <<r>> = <<r>>
  OBVIOUS
<1>4. q = <<"ACK">> => q \o <<r>> = <<"ACK", r>>
  <2> SUFFICES ASSUME q = <<"ACK">> PROVE q \o <<r>> = <<"ACK", r>>
    OBVIOUS
  <2>1. "ACK" \in Replies /\ <<"ACK", r>> \in Seq(Replies) /\ Len(<<"ACK", r>>) = 2
    BY DEF Replies
  <2>2. Len(q \o <<r>>) = 2 /\ (q \o <<r>>)[1] = "ACK" /\ (q \o <<r>>)[2] = r
    BY <1>1, <1>2
  <2>3. \A i \in 1 .. 2 : (q \o <<r>>)[i] = <<"ACK", r>>[i]
    BY <2>2
  <2> QED BY <1>1, <2>1, <2>2, <2>3, SeqEqual
<1>5. DOMAIN (q \o <<r>>) = 1 .. Len(q) + 1 /\ DOMAIN q = 1 .. Len(q)
  BY <1>1
<1>6. q \o <<r>> # << >>
  <2> SUFFICES ASSUME q \o <<r>> = << >> PROVE FALSE
    OBVIOUS
  <2>1. Len(q \o <<r>>) = 0
    OBVIOUS
  <2> QED BY <1>1, <2>1
<1> QED BY <1>1, <1>2, <1>3, <1>4, <1>5, <1>6

\* What is heard of an answer.
LEMMA ReplyHeard ==
  ASSUME NEW r, NEW s, Reply(<<r>>, s)
  PROVE  /\ up' = up \/ up' = up \o <<r>>
         /\ hostRate = s /\ ~(s = "new" /\ line = "host deaf") => up' = up \o <<r>>
         /\ up' # up => hostRate = s /\ ~(s = "new" /\ line = "host deaf")
BY DEF Reply

\* An answer that says what was asked, or that it failed, is what the host may hear.
LEMMA AnswerPhase ==
  ASSUME Shapes, Phase, NEW type, Receive(type), NEW r \in Replies, up' = up \/ up' = up \o <<r>>,
         host' = host, mode' = mode, rate' = rate, slice' = slice, secondLost' = secondLost,
         type = "stop" /\ Valid => up' = up,
         \/ r \in Errors
         \/ Valid /\ r \in Expected(type) /\ type \in {"ping", "regs", "set", "write", "slice"}
  PROVE  Phase'
<1>1. Outcome(type) /\ mode = "halted" /\ up \in Seq(Replies)
  BY Received, ReceiveFacts DEF Shapes, TypeOK
<1>2. Payload(host)' = Payload(host)
  BY DEF Payload
<1>3. "PONG" \notin Errors /\ "ACK" \notin Errors
  BY DEF Errors
<1>4. Waits => up' = << >> \/ up' = <<r>>
  BY <1>1, OneReply DEF Waits
<1>5. CASE host \in {"idle", "stopping"} /\ type = "stop" /\ Valid /\ StopLast(wire')
  <2>1. up' = up /\ host \notin Commands
    BY <1>5 DEF Commands
  <2>2. CASE host = "idle"
    BY <1>1, <1>5, <2>1, <2>2 DEF Phase, Waits
  <2>3. CASE host = "stopping"
    <3>1. Stopping'
      BY <1>1, <1>5, <2>1, <2>3 DEF Phase, Stopping, Waits, Told
    <3> QED BY <2>1, <2>3, <3>1 DEF Phase
  <2> QED BY <1>5, <2>2, <2>3
<1>6. CASE host \in Commands /\ Waits /\ type = "stop" /\ Valid /\ Posed(wire', host, Payload(host))
  <2>1. Asking'
    BY <1>1, <1>2, <1>6 DEF Asking, Waits
  <2> QED BY <1>6, <2>1 DEF Phase, Commands
<1>7. CASE host \in Commands /\ Waits /\ (type = "stop" \/ type = host) /\ Headless(wire')
  <2>1. mode' = "halted" /\ (Waits' \/ up' = <<r>>)
    BY <1>1, <1>4, <1>7 DEF Waits
  <2>2. r \in Errors \/ (r \in Expected(host) /\ host \in {"ping", "regs", "set", "write", "slice"})
    BY <1>7
  <2>3. Awake'
    <3>1. CASE host \in {"run", "cont"}
      <4>1. r \in Errors
        BY <2>2, <3>1
      <4> QED BY <1>7, <2>1, <3>1, <4>1 DEF Awake, Told
    <3>2. CASE host = "baud"
      <4>1. r \in Errors
        BY <2>2, <3>2
      <4> QED BY <1>7, <2>1, <3>2, <4>1 DEF Awake, Told
    <3>3. CASE host \notin {"run", "cont", "baud"}
      <4>1. r \in Expected(host) \union Errors
        BY <2>2
      <4> QED BY <1>7, <2>1, <3>3, <4>1 DEF Awake, Told
    <3> QED BY <3>1, <3>2, <3>3
  <2> QED BY <1>7, <2>3 DEF Phase, Commands
<1>8. CASE /\ host = "lost" /\ Flushed(wire') /\ (Valid => type = "ping" /\ Headless(wire'))
           /\ \A p \in DOMAIN up : up[p] # "PONG"
  <2>1. ASSUME NEW p \in DOMAIN up', up'[p] = "PONG" PROVE p = Len(up') /\ Headless(wire')
    <3>1. up' = up \o <<r>> /\ r \in Replies
      BY <1>8, <2>1
    <3>2. p = Len(up') /\ up'[Len(up')] = r
      BY <1>1, <1>8, <2>1, <3>1, OneReply
    <3> QED BY <1>3, <1>8, <2>1, <3>2
  <2>2. Lost'
    BY <1>1, <1>8, <2>1 DEF Lost
  <2> QED BY <1>8, <2>2 DEF Phase, Commands
<1> QED BY <1>1, <1>5, <1>6, <1>7, <1>8 DEF Outcome
\* What leaves the rates alone.
LEMMA RatedKept ==
  ASSUME Rated, host' = host, hostRate' = hostRate, mode' = mode, rate' = rate, line' = line,
         secondLost' = secondLost, up' = up \/ host # "try"
  PROVE  Rated'
BY DEF Rated, Waits

\* A host that starts to count again.
LEMMA ZeroResyncs ==
  ASSUME resyncs' = 0
  PROVE  Resynced'
<1>1. ~(resyncs' > 1) /\ resyncs' \in 0 .. 3
  OBVIOUS
<1> QED BY <1>1, Zenon DEF Resynced

\* A second resynchronisation at the monitor's rate.
LEMMA SecondPing ==
  ASSUME Resynced, hostRate = rate, resyncs > 1
  PROVE  /\ resyncs = 2 /\ host = "lost" /\ mode = "halted"
         /\ PingDue(wire) \/ \E p \in DOMAIN up : up[p] = "PONG"
<1>1. resyncs # 0
  BY DEF Resynced
<1> QED BY <1>1, Zenon DEF Resynced

\* The PING of a second resynchronisation is read in the end, and answered.
LEMMA ReceiveResynced ==
  ASSUME Shapes, Phase, Rated, Resynced, NEW type, Receive(type), NEW r \in Replies,
         up' = up \/ up' = up \o <<r>>,
         hostRate = rate /\ ~(rate = "new" /\ line = "host deaf") /\ type = "ping" /\ Valid =>
           up' = up \o <<r>> /\ r = "PONG",
         host' = host, mode' = mode, rate' = rate, hostRate' = hostRate, resyncs' = resyncs
  PROVE  Resynced'
<1>1. Outcome(type) /\ mode = "halted" /\ up \in Seq(Replies)
  BY Received, ReceiveFacts DEF Shapes, TypeOK
<1>2. resyncs' \in 0 .. 3 /\ (resyncs' # 0 => host' = "lost")
  BY DEF Resynced
<1>3. ASSUME hostRate = rate, resyncs > 1
      PROVE  resyncs = 2 /\ (PingDue(wire') \/ \E p \in DOMAIN up' : up'[p] = "PONG")
  <2>1. resyncs = 2 /\ host = "lost" /\ (PingDue(wire) \/ \E p \in DOMAIN up : up[p] = "PONG")
    BY <1>3, SecondPing
  <2>2. PingDue(wire') \/ (type = "ping" /\ Valid)
    BY <1>1, <2>1 DEF Outcome, Commands
  <2>3. ~(rate = "new" /\ line = "host deaf")
    BY <1>3, <2>1 DEF Rated
  <2>4. CASE type = "ping" /\ Valid
    <3>1. up' = up \o <<r>> /\ r = "PONG"
      BY <1>3, <2>3, <2>4
    <3>2. up'[Len(up')] = r /\ Len(up') \in DOMAIN up'
      BY <1>1, <3>1, OneReply
    <3> QED BY <2>1, <3>1, <3>2
  <2> QED BY <2>1, <2>2, <2>4
<1> QED BY <1>1, <1>2, <1>3 DEF Resynced

\* What reads units, and leaves memory alone.
LEMMA StockedKept ==
  ASSUME Shapes, Stocked, NEW m \in 0 .. Len(wire), wire' \in Seq(Units), Behind(wire, m, wire'),
         lz' = lz, memory' = memory, loaded' = loaded, slice' = slice, host' = host,
         host = "slice" /\ up' = <<"ACK">> => up = <<"ACK">>
  PROVE  Stocked'
<1>0. wire \in Seq(Units)
  BY DEF Shapes
<1>1. \A i \in Heads(wire') : i + m \in Heads(wire) /\ wire'[i] = wire[i + m]
  BY <1>0, HeadsBehind
<1>2. \A i \in Heads(wire') : /\ wire'[i][2] \in {"write", "slice"} => ~loaded
                              /\ wire'[i][2] = "write" => slice = 1
  BY <1>1 DEF Stocked
<1>3. /\ lz'.out = lz'.consumed
      /\ lz'.active /\ slice' # 1 => \A c \in 1 .. lz'.out : memory'[c] = c
      /\ loaded' => \A c \in Cells : memory'[c] = c
      /\ host' \in {"write", "slice"} => ~loaded'
      /\ host' = "write" => slice' = 1
  BY DEF Stocked
<1>4. host' = "slice" /\ up' = <<"ACK">> =>
        (\A c \in 1 .. slice' : memory'[c] = c) /\ (lz'.active => lz'.out = slice')
  BY DEF Stocked
<1> QED BY <1>2, <1>3, <1>4 DEF Stocked, Cells

\* Types, where the decoder and memory are left alone.
LEMMA ShapesKept ==
  ASSUME Shapes, wire' \in Seq(Units), up' \in Seq(Replies),
         mode' \in {"halted", "running", "window1", "window2"}, {ctx', memWritten', loaded', secondLost'} \subseteq BOOLEAN,
         lz' = lz, {rate', hostRate'} \subseteq {"old", "new"}, memory' = memory, cached' \in 0 .. NotCached,
         host' \in Commands \union {"idle", "running", "stopping", "try", "confirm", "lost"}, slice' \in Cells,
         line' = line, mishaps' \in Nat
  PROVE  Shapes'
<1>1. lz'.active \in BOOLEAN
  BY DEF Shapes
<1>2. Cells' = Cells /\ Junk' = Junk /\ NotCached' = NotCached /\ Units' = Units
  BY DEF Cells, Junk, NotCached, Units, Bodies, Types, Commands
<1>3. TypeOK'
  <2>1. {ctx', memWritten', loaded', secondLost', lz'.active} \subseteq BOOLEAN
    BY <1>1
  <2>2. lz'.consumed <= Slices /\ lz'.out <= Slices /\ memory' \in [Cells -> 0 .. Junk]
    BY DEF Shapes, TypeOK
  <2> QED BY <1>2, <2>1, <2>2, Zenon DEF TypeOK
<1> QED BY <1>3, Zenon DEF Shapes

\* A frame that is answered and does nothing else.
LEMMA AnswerKeeps ==
  ASSUME MonitorInv, NEW type, Receive(type), NEW r \in Replies,
         IF type = "stop" /\ Valid THEN up' = up ELSE Reply(<<r>>, rate),
         type = "ping" /\ Valid => r = "PONG", type = "slice" => r # "ACK",
         \/ r \in Errors
         \/ Valid /\ r \in Expected(type) /\ type \in {"ping", "regs", "set"},
         UNCHANGED monitor, UNCHANGED target, UNCHANGED hosting, UNCHANGED mishaps, UNCHANGED faults
  PROVE  MonitorInv'
<1>1. Shapes /\ Phase /\ Rated /\ Resynced /\ Stocked
  BY DEF MonitorInv
<1>2. /\ host' = host /\ mode' = mode /\ rate' = rate /\ slice' = slice /\ secondLost' = secondLost
      /\ hostRate' = hostRate /\ line' = line /\ resyncs' = resyncs /\ lz' = lz /\ memory' = memory
      /\ loaded' = loaded /\ ctx' = ctx /\ memWritten' = memWritten /\ cached' = cached /\ mishaps' = mishaps
  BY Zenon DEF monitor, target, hosting, faults
<1>3. /\ up' = up \/ up' = up \o <<r>>
      /\ hostRate = rate /\ ~(rate = "new" /\ line = "host deaf") /\ type = "ping" /\ Valid =>
           up' = up \o <<r>> /\ r = "PONG"
      /\ type = "stop" /\ Valid => up' = up
  <2>1. CASE type = "stop" /\ Valid
    BY <2>1
  <2>2. CASE ~(type = "stop" /\ Valid)
    BY <2>2, ReplyHeard, Zenon
  <2> QED BY <2>1, <2>2
<1>4. Phase'
  BY <1>1, <1>2, <1>3, AnswerPhase
<1>5. Rated'
  <2>1. host # "try"
    BY <1>1, Received DEF Outcome, Commands
  <2> QED BY <1>1, <1>2, <2>1, RatedKept
<1>6. Resynced'
  BY <1>1, <1>2, <1>3, ReceiveResynced
<1>7. Stocked'
  <2>1. wire' \in Seq(Units) /\ Behind(wire, wire[1][3] + 2, wire') /\ wire[1][3] + 2 \in 1 .. Len(wire)
    BY <1>1, ReceiveFacts
  <2>2. ASSUME host = "slice", up' = <<"ACK">> PROVE up = <<"ACK">>
    <3>1. type \in {"slice", "stop"} /\ Waits
      BY <1>1, <2>2, Received DEF Outcome, Commands
    <3>2. r # "ACK"
      BY <3>1 DEF Errors
    <3>3. up' # <<r>>
      BY <2>2, <3>2
    <3>4. up' = up
      BY <1>1, <1>3, <3>1, <3>3, OneReply DEF Waits, Shapes, TypeOK
    <3> QED BY <2>2, <3>4
  <2>3. wire[1][3] + 2 \in 0 .. Len(wire)
    BY <2>1
  <2> QED BY <1>1, <1>2, <2>1, <2>2, <2>3, StockedKept
<1>8. Shapes'
  <2>1. wire' \in Seq(Units)
    BY <1>1, ReceiveFacts
  <2>2. up' \in Seq(Replies)
    <3>1. up \in Seq(Replies)
      BY <1>1 DEF Shapes, TypeOK
    <3>2. up \o <<r>> \in Seq(Replies)
      BY <3>1, OneReply
    <3> QED BY <1>3, <3>1, <3>2
  <2>3. /\ mode \in {"halted", "running", "window1", "window2"} /\ {ctx, memWritten, loaded, secondLost} \subseteq BOOLEAN
        /\ {rate, hostRate} \subseteq {"old", "new"} /\ cached \in 0 .. NotCached
        /\ host \in Commands \union {"idle", "running", "stopping", "try", "confirm", "lost"} /\ slice \in Cells
        /\ mishaps \in Nat
    BY <1>1, Zenon DEF Shapes, TypeOK
  <2> QED BY <1>1, <1>2, <2>1, <2>2, <2>3, ShapesKept
<1> QED BY <1>4, <1>5, <1>6, <1>7, <1>8 DEF MonitorInv
\* Commands that ask or are refused.
LEMMA InspectKeeps ==
  ASSUME MonitorInv, NEW type \in {"ping", "regs", "set", "stop"}, Inspect(type)
  PROVE  MonitorInv'
<1>1. /\ Receive(type) /\ Reply(IF Valid THEN Answer(type) ELSE <<"ECKSUM">>, rate)
      /\ UNCHANGED monitor /\ UNCHANGED target /\ UNCHANGED hosting /\ UNCHANGED mishaps /\ UNCHANGED faults
  BY DEF Inspect
<1>2. "ECKSUM" \in Replies /\ "ECKSUM" \in Errors
  BY DEF Replies, Errors
<1>3. CASE ~Valid
  <2>1. Reply(<<"ECKSUM">>, rate)
    BY <1>1, <1>3
  <2> QED BY <1>1, <1>2, <1>3, <2>1, AnswerKeeps
<1>4. CASE Valid /\ type = "stop"
  <2>1. up' = up
    <3>1. up \in Seq(Replies)
      BY DEF MonitorInv, Shapes, TypeOK
    <3>2. Reply(<< >>, rate)
      BY <1>1, <1>4 DEF Answer
    <3> QED BY <3>1, <3>2, ConcatEmptySeq DEF Reply
  <2> QED BY <1>1, <1>2, <1>4, <2>1, AnswerKeeps
<1>5. CASE Valid /\ type # "stop"
  <2> DEFINE r == CASE type = "ping" -> "PONG" [] type = "regs" -> "REGS"
                    [] type = "set" -> IF ctx THEN "ACK" ELSE "EBADSTATE"
  <2>1. Reply(<<r>>, rate)
    BY <1>1, <1>5 DEF Answer
  <2>2. /\ r \in Replies /\ (type = "ping" => r = "PONG")
        /\ r \in Errors \/ (r \in Expected(type) /\ type \in {"ping", "regs", "set"})
    BY <1>5 DEF Replies, Errors, Expected
  <2> HIDE DEF r
  <2> QED BY <1>1, <1>5, <2>1, <2>2, AnswerKeeps
<1> QED BY <1>3, <1>4, <1>5

\* A refused command changes nothing but what the host hears.
LEMMA RefuseKeeps ==
  ASSUME MonitorInv, Refuse \/ ContRefused
  PROVE  MonitorInv'
<1>1. "ECKSUM" \in Replies /\ "ECKSUM" \in Errors /\ "EBADSTATE" \in Replies /\ "EBADSTATE" \in Errors
  BY DEF Replies, Errors
<1>2. CASE Refuse
  <2>1. PICK type \in {"run", "cont", "baud"} : Receive(type)
    BY <1>2 DEF Refuse
  <2>2. /\ Reply(<<"ECKSUM">>, rate)
        /\ UNCHANGED monitor /\ UNCHANGED target /\ UNCHANGED hosting /\ UNCHANGED mishaps /\ UNCHANGED faults
    BY <1>2 DEF Refuse
  <2> QED BY <1>1, <2>1, <2>2, AnswerKeeps
<1>3. CASE ContRefused
  <2>1. /\ Receive("cont") /\ Reply(<<"EBADSTATE">>, rate)
        /\ UNCHANGED monitor /\ UNCHANGED target /\ UNCHANGED hosting /\ UNCHANGED mishaps /\ UNCHANGED faults
    BY <1>3 DEF ContRefused
  <2> QED BY <1>1, <2>1, AnswerKeeps
<1> QED BY <1>2, <1>3
\* Noise that is skipped.
LEMMA DropKeeps ==
  ASSUME MonitorInv, Drop
  PROVE  MonitorInv'
<1>1. Shapes /\ Phase /\ Rated /\ Resynced /\ Stocked
  BY DEF MonitorInv
<1>2. /\ mode = "halted" /\ wire # << >> /\ ~Framed /\ wire' = Tail(wire)
      /\ up' = up /\ host' = host /\ mode' = mode /\ rate' = rate /\ slice' = slice /\ secondLost' = secondLost
      /\ hostRate' = hostRate /\ line' = line /\ resyncs' = resyncs /\ lz' = lz /\ memory' = memory
      /\ loaded' = loaded /\ ctx' = ctx /\ memWritten' = memWritten /\ cached' = cached /\ mishaps' = mishaps
  BY Zenon DEF Drop, monitor, target, hosting, faults
<1>3. /\ wire \in Seq(Units) /\ wire' \in Seq(Units) /\ Behind(wire, 1, wire')
      /\ 1 \in 0 .. Len(wire) /\ 1 \in 1 .. Len(wire) /\ Head(wire) = wire[1]
  <2>1. wire \in Seq(Units)
    BY <1>1 DEF Shapes
  <2> QED BY <1>2, <2>1, TailIsBehind
<1>4. ~Cut(wire)
  BY <1>2, <1>3 DEF Cut, Heads, Framed, First
<1>5. Headless(wire) => Headless(wire')
  BY <1>3, HeadsBehind
<1>6. StopLast(wire) => StopLast(wire')
  BY <1>3, StopLastBehind
<1>7. Payload(host)' = Payload(host)
  BY <1>2 DEF Payload
<1>8. Phase'
  <2>1. CASE host = "idle"
    BY <1>1, <1>2, <1>6, <2>1 DEF Phase, Waits, Commands
  <2>2. CASE host \in Commands
    <3>1. CASE Asking
      <4>1. Posed(wire', host, Payload(host))
        BY <1>3, <3>1, PayloadLength, PosedBehind DEF Asking
      <4>2. Asking'
        BY <1>2, <1>7, <3>1, <4>1 DEF Asking, Waits
      <4> QED BY <1>2, <2>2, <4>2 DEF Phase, Commands
    <3>2. CASE Awake
      <4>1. Awake'
        BY <1>2, <1>5, <3>2 DEF Awake, Waits, Told, Expected
      <4> QED BY <1>2, <2>2, <4>1 DEF Phase, Commands
    <3> QED BY <1>1, <2>2, <3>1, <3>2 DEF Phase
  <2>3. CASE host \in {"running", "stopping"}
    <3>1. Stopping'
      BY <1>1, <1>2, <1>5, <1>6, <2>3 DEF Phase, Stopping, Waits, Told
    <3> QED BY <1>2, <2>3, <3>1 DEF Phase, Commands
  <2>4. CASE host = "try"
    <3>1. Trying'
      BY <1>1, <1>2, <1>5, <2>4 DEF Phase, Trying, Waits, Told
    <3> QED BY <1>2, <2>4, <3>1 DEF Phase, Commands
  <2>5. CASE host = "confirm"
    <3>1. Confirming'
      BY <1>1, <1>2, <1>5, <2>5 DEF Phase, Confirming, Waits, Told
    <3> QED BY <1>2, <2>5, <3>1 DEF Phase, Commands
  <2>6. CASE host = "lost"
    <3>1. Lost
      BY <1>1, <2>6 DEF Phase
    <3>2. Flushed(wire')
      BY <1>2, <1>3, <1>4, <3>1, FlushedBehind, OnlyLastPings DEF Lost
    <3>3. Lost'
      BY <1>2, <1>5, <3>1, <3>2 DEF Lost, Waits
    <3> QED BY <1>2, <2>6, <3>3 DEF Phase, Commands
  <2> QED BY <1>1, <2>1, <2>2, <2>3, <2>4, <2>5, <2>6 DEF Shapes, TypeOK
<1>9. Rated'
  BY <1>1, <1>2, RatedKept
<1>10. Resynced'
  <2>1. ASSUME hostRate = rate, resyncs > 1
        PROVE  resyncs = 2 /\ (PingDue(wire') \/ \E p \in DOMAIN up : up[p] = "PONG")
    <3>1. resyncs = 2 /\ host = "lost" /\ (PingDue(wire) \/ \E p \in DOMAIN up : up[p] = "PONG")
      BY <1>1, <2>1, SecondPing
    <3>2. Flushed(wire)
      BY <1>1, <3>1 DEF Phase, Lost
    <3>3. PingDue(wire) => PingDue(wire')
      <4> SUFFICES ASSUME PingDue(wire) PROVE PingDue(wire')
        OBVIOUS
      <4>1. PingDue(wire') \/ (Len(wire) = 2 /\ wire[1] = PingHead /\ wire[2] = PingSum)
        BY <1>2, <1>3, <1>4, <3>2, PingDueBehind
      <4>2. wire[1] # PingHead
        <5> SUFFICES ASSUME wire[1] = PingHead PROVE FALSE
          OBVIOUS
        <5>1. wire[1][1] = "head" /\ wire[1][3] = 0 /\ 1 \in DOMAIN wire
          BY <1>3 DEF PingHead
        <5> QED BY <1>4, <5>1 DEF Cut, Heads, Fits, MaxLen
      <4> QED BY <4>1, <4>2
    <3> QED BY <3>1, <3>3
  <2> QED BY <1>1, <1>2, <2>1 DEF Resynced
<1>11. Stocked'
  BY <1>1, <1>2, <1>3, StockedKept
<1>12. Shapes'
  <2>1. /\ mode \in {"halted", "running", "window1", "window2"} /\ {ctx, memWritten, loaded, secondLost} \subseteq BOOLEAN
        /\ {rate, hostRate} \subseteq {"old", "new"} /\ cached \in 0 .. NotCached /\ up \in Seq(Replies)
        /\ host \in Commands \union {"idle", "running", "stopping", "try", "confirm", "lost"} /\ slice \in Cells
        /\ mishaps \in Nat
    BY <1>1, Zenon DEF Shapes, TypeOK
  <2> QED BY <1>1, <1>2, <1>3, <2>1, ShapesKept
<1> QED BY <1>8, <1>9, <1>10, <1>11, <1>12 DEF MonitorInv

-----------------------------------------------------------------------------
(* Commands that store.                                                      *)

\* The types, one by one.
LEMMA ShapesParts ==
  ASSUME Shapes
  PROVE  /\ mode \in {"halted", "running", "window1", "window2"} /\ ctx \in BOOLEAN /\ memWritten \in BOOLEAN
         /\ loaded \in BOOLEAN /\ secondLost \in BOOLEAN
         /\ rate \in {"old", "new"} /\ hostRate \in {"old", "new"} /\ cached \in 0 .. NotCached
         /\ host \in Commands \union {"idle", "running", "stopping", "try", "confirm", "lost"} /\ slice \in Cells
         /\ mishaps \in Nat /\ wire \in Seq(Units) /\ up \in Seq(Replies) /\ memory \in [Cells -> 0 .. Junk]
         /\ lz \in [active : BOOLEAN, consumed : 0 .. Slices, out : 0 .. Slices]
BY Zenon DEF Shapes, TypeOK

\* And the types from each.
LEMMA ShapesMade ==
  ASSUME Shapes, wire' \in Seq(Units), up' \in Seq(Replies),
         mode' \in {"halted", "running", "window1", "window2"}, ctx' \in BOOLEAN, memWritten' \in BOOLEAN,
         loaded' \in BOOLEAN, secondLost' \in BOOLEAN, rate' \in {"old", "new"}, hostRate' \in {"old", "new"},
         lz' \in [active : BOOLEAN, consumed : 0 .. Slices, out : 0 .. Slices],
         memory' \in [Cells -> 0 .. Junk], cached' \in 0 .. NotCached,
         host' \in Commands \union {"idle", "running", "stopping", "try", "confirm", "lost"}, slice' \in Cells,
         line' = line, mishaps' \in Nat
  PROVE  Shapes'
<1>1. lz'.active \in BOOLEAN /\ lz'.consumed \in 0 .. Slices /\ lz'.out \in 0 .. Slices
  OBVIOUS
<1>2. Cells' = Cells /\ Junk' = Junk /\ NotCached' = NotCached /\ Units' = Units
  BY DEF Cells, Junk, NotCached, Units, Bodies, Types, Commands
<1>3. {ctx', memWritten', loaded', secondLost', lz'.active} \subseteq BOOLEAN
  BY <1>1
<1>4. lz'.consumed <= Slices /\ lz'.out <= Slices
  BY <1>1, SizeAssumption
<1>5. {rate', hostRate'} \subseteq {"old", "new"}
  OBVIOUS
<1>6. TypeOK'
  BY <1>2, <1>3, <1>4, <1>5, Zenon DEF TypeOK
<1>7. line' \in {"good", "host deaf", "monitor deaf"}
  BY DEF Shapes
<1> QED BY <1>2, <1>6, <1>7, Zenon DEF Shapes

\* A store in memory.
LEMMA StoredTyped ==
  ASSUME memory \in [Cells -> 0 .. Junk], NEW c, NEW v \in 0 .. Junk
  PROVE  /\ Stored(c, v) \in [Cells -> 0 .. Junk]
         /\ c \in Cells => Stored(c, v)[c] = v
         /\ \A d \in Cells : d # c => Stored(c, v)[d] = memory[d]
<1>1. CASE c \in Cells
  BY <1>1 DEF Stored
<1>2. CASE c \notin Cells
  BY <1>2 DEF Stored
<1> QED BY <1>1, <1>2

\* What is stored for a unit.
LEMMA ValueTyped ==
  ASSUME NEW u \in Units
  PROVE  Value(u) \in 0 .. Junk /\ Junk \in 0 .. Junk
<1>1. Junk \in 0 .. Junk
  BY SizeAssumption DEF Junk
<1>2. CASE u[1] = "byte"
  <2>1. u[2] \in 0 .. Junk
    BY <1>2, UnitParts
  <2> QED BY <1>1, <1>2, <2>1 DEF Value
<1>3. CASE u[1] # "byte"
  BY <1>1, <1>3 DEF Value
<1> QED BY <1>1, <1>2, <1>3

\* All but what is stored.
LEMMA StoreKeeps ==
  ASSUME MonitorInv, NEW type \in {"write", "slice"}, Receive(type), NEW r \in Replies, Reply(<<r>>, rate),
         r \in Errors \/ (Valid /\ r = "ACK"),
         lz' \in [active : BOOLEAN, consumed : 0 .. Slices, out : 0 .. Slices], memory' \in [Cells -> 0 .. Junk],
         memWritten' \in BOOLEAN, mode' = mode, ctx' = ctx, rate' = rate, cached' = cached,
         UNCHANGED hosting, UNCHANGED mishaps, UNCHANGED faults, Stocked'
  PROVE  MonitorInv'
<1>1. Shapes /\ Phase /\ Rated /\ Resynced
  BY DEF MonitorInv
<1>2. /\ host' = host /\ slice' = slice /\ secondLost' = secondLost /\ hostRate' = hostRate /\ line' = line
      /\ resyncs' = resyncs /\ loaded' = loaded /\ mishaps' = mishaps
  BY Zenon DEF hosting, faults
<1>3. up' = up \/ up' = up \o <<r>>
  BY ReplyHeard, Zenon
<1>4. type # "stop" /\ type # "ping"
  OBVIOUS
<1>5. Phase'
  <2>1. r \in Errors \/ (Valid /\ r \in Expected(type) /\ type \in {"ping", "regs", "set", "write", "slice"})
    BY DEF Expected
  <2> QED BY <1>1, <1>2, <1>3, <1>4, <2>1, AnswerPhase
<1>6. Rated'
  <2>1. host # "try"
    BY <1>1, Received DEF Outcome, Commands
  <2> QED BY <1>1, <1>2, <2>1, RatedKept
<1>7. Resynced'
  BY <1>1, <1>2, <1>3, <1>4, ReceiveResynced
<1>8. Shapes'
  <2>1. wire' \in Seq(Units)
    BY <1>1, ReceiveFacts
  <2>2. up' \in Seq(Replies)
    <3>1. up \in Seq(Replies)
      BY <1>1, ShapesParts
    <3>2. up \o <<r>> \in Seq(Replies)
      BY <3>1, OneReply
    <3> QED BY <1>3, <3>1, <3>2
  <2> QED BY <1>1, <1>2, <2>1, <2>2, ShapesParts, ShapesMade
<1> QED BY <1>5, <1>6, <1>7, <1>8 DEF MonitorInv

\* What is stored in memory is no program, and the host knows.
LEMMA WriteKeeps ==
  ASSUME MonitorInv, StreamWriteMem
  PROVE  MonitorInv'
<1>1. Shapes /\ Phase /\ Stocked
  BY DEF MonitorInv
<1>2. /\ Receive("write") /\ mode' = mode /\ ctx' = ctx /\ lz' = lz /\ rate' = rate /\ cached' = cached
      /\ UNCHANGED hosting /\ UNCHANGED mishaps /\ UNCHANGED faults
      /\ host' = host /\ loaded' = loaded /\ slice' = slice
  BY Zenon DEF StreamWriteMem, hosting
<1>3. /\ wire \in Seq(Units) /\ wire' \in Seq(Units) /\ Body \in Seq(Units) /\ 1 \in Heads(wire) /\ wire[1][2] = "write"
      /\ wire[1][3] + 2 \in 0 .. Len(wire) /\ Behind(wire, wire[1][3] + 2, wire')
  <2>1. wire[1][3] + 2 \in 1 .. Len(wire)
    BY <1>1, <1>2, ReceiveFacts
  <2>2. wire[1][3] + 2 \in 0 .. Len(wire)
    BY <2>1
  <2> QED BY <1>1, <1>2, <2>2, ReceiveFacts
<1>4. host # "slice"
  BY <1>1, <1>2, Received DEF Outcome, Commands
<1>5. ~loaded /\ slice = 1
  BY <1>1, <1>3 DEF Stocked
<1>6. Stocked'
  <2>1. \A i \in Heads(wire') : i + (wire[1][3] + 2) \in Heads(wire) /\ wire'[i] = wire[i + (wire[1][3] + 2)]
    BY <1>3, HeadsBehind
  <2>2. \A i \in Heads(wire') : /\ wire'[i][2] \in {"write", "slice"} => ~loaded'
                                /\ wire'[i][2] = "write" => slice' = 1
    BY <1>1, <1>2, <2>1 DEF Stocked
  <2>3. lz'.out = lz'.consumed
    BY <1>1, <1>2 DEF Stocked
  <2> QED BY <1>2, <1>4, <1>5, <2>2, <2>3 DEF Stocked
<1>7. lz \in [active : BOOLEAN, consumed : 0 .. Slices, out : 0 .. Slices] /\ memory \in [Cells -> 0 .. Junk]
      /\ memWritten \in BOOLEAN
  BY <1>1, ShapesParts
<1>8. PICK r \in Replies : /\ Reply(<<r>>, rate) /\ (r \in Errors \/ (Valid /\ r = "ACK"))
                           /\ memWritten' \in BOOLEAN /\ memory' \in [Cells -> 0 .. Junk]
  <2>1. "ACK" \in Replies /\ "ECKSUM" \in Replies /\ "EBADLEN" \in Replies /\ "ECKSUM" \in Errors /\ "EBADLEN" \in Errors
    BY DEF Replies, Errors
  <2>2. CASE Len(Body) < 2
    BY <1>7, <2>1, <2>2 DEF StreamWriteMem
  <2>3. CASE ~(Len(Body) < 2)
    <3>1. memWritten' = TRUE /\ Reply(<<IF Valid THEN "ACK" ELSE "ECKSUM">>, rate)
      BY <2>3 DEF StreamWriteMem
    <3>2. memory' = Stored(Body[1][2], Value(Body[2])) \/ \E c \in Cells \union {0} : memory' = Stored(c, Junk)
      BY <2>3 DEF StreamWriteMem
    <3>3. Body[2] \in Units
      BY <1>3, <2>3
    <3>4. memory' \in [Cells -> 0 .. Junk]
      BY <1>7, <3>2, <3>3, ValueTyped, StoredTyped
    <3> QED BY <2>1, <3>1, <3>4
  <2> QED BY <2>2, <2>3
<1> QED BY <1>2, <1>6, <1>7, <1>8, StoreKeeps

\* A slice that is answered with an ACK is in memory, after those in front of it.
LEMMA SliceKeeps ==
  ASSUME MonitorInv, StreamWriteMemLz4
  PROVE  MonitorInv'
<1>1. Shapes /\ Phase /\ Stocked
  BY DEF MonitorInv
<1>2. /\ Receive("slice") /\ mode' = mode /\ ctx' = ctx /\ memWritten' = TRUE /\ rate' = rate /\ cached' = cached
      /\ UNCHANGED hosting /\ UNCHANGED mishaps /\ UNCHANGED faults
      /\ host' = host /\ loaded' = loaded /\ slice' = slice
  BY Zenon DEF StreamWriteMemLz4, hosting
<1>3. /\ wire \in Seq(Units) /\ wire' \in Seq(Units) /\ Body \in Seq(Units) /\ 1 \in Heads(wire) /\ wire[1][2] = "slice"
      /\ wire[1][3] + 2 \in 0 .. Len(wire) /\ Behind(wire, wire[1][3] + 2, wire')
  <2>1. wire[1][3] + 2 \in 1 .. Len(wire)
    BY <1>1, <1>2, ReceiveFacts
  <2>2. wire[1][3] + 2 \in 0 .. Len(wire)
    BY <2>1
  <2> QED BY <1>1, <1>2, <2>2, ReceiveFacts
<1>4. /\ host # "write" /\ (host = "slice" => Waits)
      /\ Valid => host = "slice" /\ Body = <<<<"lz4", slice>>, <<"byte", slice>>>>
  BY <1>1, <1>2, Received DEF Outcome, Commands, Payload
<1>5. ~loaded
  BY <1>1, <1>3 DEF Stocked
<1>6. /\ lz \in [active : BOOLEAN, consumed : 0 .. Slices, out : 0 .. Slices] /\ memory \in [Cells -> 0 .. Junk]
      /\ up \in Seq(Replies) /\ slice \in Cells /\ slice \in 1 .. Slices /\ slice \in 0 .. Junk
      /\ Slices \in Nat \ {0, 1}
  <2>1. slice \in Cells
    BY <1>1, ShapesParts
  <2> QED BY <1>1, <2>1, ShapesParts, SizeAssumption DEF Cells, Junk
<1>7. Closed \in [active : BOOLEAN, consumed : 0 .. Slices, out : 0 .. Slices] /\ ~Closed.active
      /\ Closed.out = 0 /\ Closed.consumed = 0
  BY SizeAssumption DEF Closed
<1> DEFINE Sound(r) ==
      /\ lz'.out = lz'.consumed
      /\ lz'.active /\ slice # 1 => \A c \in 1 .. lz'.out : memory'[c] = c
      /\ r = "ACK" => (\A c \in 1 .. slice : memory'[c] = c) /\ (lz'.active => lz'.out = slice)
<1>8. PICK r \in Replies : /\ Reply(<<r>>, rate) /\ (r \in Errors \/ (Valid /\ r = "ACK"))
                           /\ lz' \in [active : BOOLEAN, consumed : 0 .. Slices, out : 0 .. Slices]
                           /\ memory' \in [Cells -> 0 .. Junk] /\ Sound(r)
  <2>0. /\ {"ACK", "ECKSUM", "EBADLEN", "EBADSTATE", "EDECODE"} \subseteq Replies
        /\ {"ECKSUM", "EBADLEN", "EBADSTATE", "EDECODE"} \subseteq Errors /\ "ACK" \notin Errors
    BY DEF Replies, Errors
  <2>1. CASE /\ Len(Body) < 2
             /\ Reply(<<IF Valid THEN "EBADLEN" ELSE "ECKSUM">>, rate)
             /\ lz' = Closed /\ UNCHANGED memory
    <3> DEFINE r == IF Valid THEN "EBADLEN" ELSE "ECKSUM"
    <3>1. r \in Replies /\ r \in Errors /\ r # "ACK"
      BY <2>0
    <3>2. Reply(<<r>>, rate)
      BY <2>1
    <3> HIDE DEF r
    <3>3. Sound(r)
      BY <1>7, <2>1, <3>1
    <3> QED BY <1>6, <1>7, <2>1, <3>1, <3>2, <3>3
  <2>2. CASE /\ Len(Body) >= 2 /\ ~Headed("lz4")
             /\ \E c \in Cells \union {0} : memory' = Stored(c, Junk)
             /\ Reply(<<"ECKSUM">>, rate)
             /\ lz' = Closed
    <3>1. memory' \in [Cells -> 0 .. Junk]
      <4>1. Body[2] \in Units
        BY <1>3, <2>2
      <4> QED BY <1>6, <2>2, <4>1, ValueTyped, StoredTyped
    <3>2. Sound("ECKSUM")
      BY <1>7, <2>2
    <3> QED BY <1>7, <2>0, <2>2, <3>1, <3>2
  <2>3. CASE /\ Len(Body) >= 2 /\ Headed("lz4")
             /\ LET off == Body[1][2] - 1
                    from == IF off = 0 THEN Closed ELSE lz
                    out == from.out + 1
                    consumed == from.consumed + 1 IN
                /\ memory' = IF Continues(off) THEN Stored(out, Value(Body[2])) ELSE memory
                /\ lz' = IF Continues(off) /\ Valid /\ consumed < Slices
                           THEN [active |-> TRUE, consumed |-> consumed, out |-> out] ELSE Closed
                /\ Reply(<<CASE ~Valid -> "ECKSUM"
                             [] Valid /\ ~Continues(off) -> "EBADSTATE"
                             [] Valid /\ Continues(off) /\ consumed = Slices /\ out # Slices -> "EDECODE"
                             [] OTHER -> "ACK">>, rate)
    <3> DEFINE off == Body[1][2] - 1
               from == IF off = 0 THEN Closed ELSE lz
               out == from.out + 1
               consumed == from.consumed + 1
               r == CASE ~Valid -> "ECKSUM"
                      [] Valid /\ ~Continues(off) -> "EBADSTATE"
                      [] Valid /\ Continues(off) /\ consumed = Slices /\ out # Slices -> "EDECODE"
                      [] OTHER -> "ACK"
    <3>1. /\ memory' = IF Continues(off) THEN Stored(out, Value(Body[2])) ELSE memory
          /\ lz' = IF Continues(off) /\ Valid /\ consumed < Slices
                     THEN [active |-> TRUE, consumed |-> consumed, out |-> out] ELSE Closed
          /\ Reply(<<r>>, rate)
      BY <2>3
    <3>2. r \in Replies /\ (r \in Errors \/ (Valid /\ r = "ACK")) /\ (r = "ACK" => Valid /\ Continues(off))
      BY <2>0
    <3>3. from.out = from.consumed /\ from.out \in 0 .. Slices
      BY <1>1, <1>6, <1>7 DEF Stocked
    <3>4. out = consumed /\ out \in Nat
      BY <3>3
    <3>5. Body[2] \in Units
      BY <1>3, <2>3
    <3>6. ASSUME Valid, Continues(off)
          PROVE  out = slice /\ memory' = Stored(slice, slice) /\ (slice # 1 => lz.active /\ lz.out + 1 = slice)
      <4>1. Body[1][2] = slice /\ Body[2] = <<"byte", slice>>
        BY <1>4, <3>6
      <4>2. Value(Body[2]) = slice
        BY <4>1 DEF Value
      <4>3. off = slice - 1
        BY <4>1
      <4>4. CASE slice = 1
        <5>1. from = Closed
          BY <4>3, <4>4
        <5>2. out = slice
          BY <1>7, <4>4, <5>1
        <5> HIDE DEF out, off
        <5> QED BY <3>1, <3>6, <4>2, <4>4, <5>2
      <4>5. CASE slice # 1
        <5>1. off # 0
          BY <1>6, <4>3, <4>5
        <5>2. lz.active /\ off = lz.consumed
          BY <3>6, <5>1 DEF Continues
        <5>3. from = lz
          BY <5>1
        <5>4. lz.out = lz.consumed
          BY <1>1 DEF Stocked
        <5>5. lz.out + 1 = slice /\ out = slice
          BY <1>6, <4>3, <5>2, <5>3, <5>4
        <5> HIDE DEF out, off
        <5> QED BY <3>1, <3>6, <4>2, <5>2, <5>5
      <4> QED BY <4>4, <4>5
    <3> HIDE DEF off, from, out, consumed, r
    <3>7. memory' \in [Cells -> 0 .. Junk]
      BY <1>6, <3>1, <3>5, ValueTyped, StoredTyped
    <3>8. /\ lz' \in [active : BOOLEAN, consumed : 0 .. Slices, out : 0 .. Slices] /\ lz'.out = lz'.consumed
          /\ lz'.active => Continues(off) /\ Valid /\ lz'.out = out
      <4>1. CASE Continues(off) /\ Valid /\ consumed < Slices
        <5>1. consumed \in 0 .. Slices /\ out \in 0 .. Slices
          BY <1>6, <3>4, <4>1
        <5>2. lz' = [active |-> TRUE, consumed |-> consumed, out |-> out]
          BY <3>1, <4>1
        <5> QED BY <3>4, <4>1, <5>1, <5>2
      <4>2. CASE ~(Continues(off) /\ Valid /\ consumed < Slices)
        BY <1>7, <3>1, <4>2
      <4> QED BY <4>1, <4>2
    <3>9. ASSUME Valid, Continues(off) PROVE \A c \in 1 .. slice : memory'[c] = c
      <4> SUFFICES ASSUME NEW c \in 1 .. slice PROVE memory'[c] = c
        OBVIOUS
      <4>1. c \in Cells
        BY <1>6 DEF Cells
      <4>2. CASE c = slice
        BY <1>6, <3>6, <3>9, <4>1, <4>2, StoredTyped
      <4>3. CASE c # slice
        <5>1. slice # 1 /\ c \in 1 .. lz.out
          BY <1>6, <3>6, <3>9, <4>3
        <5>2. memory[c] = c
          BY <1>1, <3>6, <3>9, <5>1 DEF Stocked
        <5> QED BY <1>6, <3>6, <3>9, <4>1, <4>3, <5>2, StoredTyped
      <4> QED BY <4>2, <4>3
    <3>10. lz'.active => lz'.out = slice
      BY <3>6, <3>8
    <3>11. Sound(r)
      BY <3>2, <3>8, <3>9, <3>10
    <3> QED BY <3>1, <3>2, <3>7, <3>8, <3>11
  <2> HIDE DEF Sound
  <2> QED BY <2>1, <2>2, <2>3 DEF StreamWriteMemLz4
<1>9. Stocked'
  <2>1. \A i \in Heads(wire') : i + (wire[1][3] + 2) \in Heads(wire) /\ wire'[i] = wire[i + (wire[1][3] + 2)]
    BY <1>3, HeadsBehind
  <2>2. \A i \in Heads(wire') : /\ wire'[i][2] \in {"write", "slice"} => ~loaded'
                                /\ wire'[i][2] = "write" => slice' = 1
    BY <1>1, <1>2, <2>1 DEF Stocked
  <2>3. host' = "slice" /\ up' = <<"ACK">> => r = "ACK"
    <3> SUFFICES ASSUME host' = "slice", up' = <<"ACK">> PROVE r = "ACK"
      OBVIOUS
    <3>1. up = << >> /\ (up' = up \/ up' = up \o <<r>>)
      BY <1>2, <1>4, <1>8, ReplyHeard, Zenon DEF Waits
    <3>2. up' = <<r>>
      BY <1>6, <3>1, OneReply
    <3> QED BY <3>2
  <2> QED BY <1>2, <1>4, <1>5, <1>8, <2>2, <2>3 DEF Stocked
<1>10. memWritten' \in BOOLEAN
  BY <1>2
<1> HIDE DEF Sound
<1> QED BY <1>2, <1>8, <1>9, <1>10, StoreKeeps

-----------------------------------------------------------------------------
(* Commands that change the mode.                                            *)

\* A good RUN, CONT or SET_BAUD is the one the host waits for, and the last on the wire.
LEMMA HeardCommand ==
  ASSUME MonitorInv, NEW type \in {"run", "cont", "baud"}, Receive(type), Valid, Reply(<<"ACK">>, rate),
         resyncs' = resyncs, lz' = lz, memory' = memory, loaded' = loaded, slice' = slice, host' = host
  PROVE  /\ host = type /\ wire' = << >> /\ wire' \in Seq(Units) /\ mode = "halted"
         /\ up' \in {<< >>, <<"ACK">>} /\ up' \in Seq(Replies) /\ Resynced' /\ Stocked'
<1>1. Shapes /\ Phase /\ Resynced /\ Stocked
  BY DEF MonitorInv
<1>2. host = type /\ Waits /\ wire' = << >>
  BY <1>1, Received DEF Outcome, Commands
<1>3. mode = "halted" /\ wire' \in Seq(Units)
  BY <1>1, ReceiveFacts
<1>4. up' \in {<< >>, <<"ACK">>} /\ up' \in Seq(Replies)
  <2>1. "ACK" \in Replies /\ << >> \in Seq(Replies) /\ <<"ACK">> \in Seq(Replies)
    BY DEF Replies
  <2>2. up = << >> /\ (up' = up \/ up' = up \o <<"ACK">>)
    BY <1>2, ReplyHeard, Zenon DEF Waits
  <2>3. up \o <<"ACK">> = <<"ACK">>
    BY <2>1, <2>2, OneReply
  <2> QED BY <2>1, <2>2, <2>3
<1>5. Resynced'
  <2>1. resyncs = 0 /\ host # "lost"
    BY <1>1, <1>2 DEF Resynced
  <2> QED BY <2>1 DEF Resynced
<1>6. Stocked'
  <2>1. wire[1][3] + 2 \in 1 .. Len(wire) /\ Behind(wire, wire[1][3] + 2, wire') /\ wire' \in Seq(Units)
    BY <1>1, ReceiveFacts
  <2>2. wire[1][3] + 2 \in 0 .. Len(wire) /\ host # "slice"
    BY <1>2, <2>1
  <2> QED BY <1>1, <2>1, <2>2, StockedKept
<1> QED BY <1>2, <1>3, <1>4, <1>5, <1>6

\* The target is let go when the host knows no more than that it asked.
LEMMA ResumeKeeps ==
  ASSUME MonitorInv, NEW type \in {"run", "cont"}, Resume(type)
  PROVE  MonitorInv'
<1>1. Shapes /\ Rated
  BY DEF MonitorInv
<1>2. /\ Receive(type) /\ Valid /\ Reply(<<"ACK">>, rate) /\ ctx' = FALSE /\ mode' = "running" /\ memWritten' = FALSE
      /\ cached' = (IF memWritten THEN NotCached ELSE cached) /\ lz' = lz /\ rate' = rate /\ memory' = memory
      /\ host' = host /\ slice' = slice /\ loaded' = loaded /\ hostRate' = hostRate /\ mishaps' = mishaps
      /\ line' = line /\ resyncs' = resyncs /\ secondLost' = secondLost
  BY Zenon DEF Resume, hosting, faults
<1>3. /\ host = type /\ wire' = << >> /\ wire' \in Seq(Units) /\ mode = "halted"
      /\ up' \in {<< >>, <<"ACK">>} /\ up' \in Seq(Replies) /\ Resynced' /\ Stocked'
  BY <1>2, HeardCommand
<1>4. Phase'
  <2>1. Headless(wire')
    BY <1>3 DEF Headless, Heads
  <2>2. Awake'
    BY <1>2, <1>3, <2>1 DEF Awake, Waits, Told
  <2> QED BY <1>2, <1>3, <2>2 DEF Phase, Commands
<1>5. Rated'
  BY <1>1, <1>2, <1>3 DEF Rated
<1>6. Shapes'
  <2>1. cached' \in 0 .. NotCached
    <3>1. NotCached \in 0 .. NotCached
      BY SizeAssumption DEF NotCached
    <3> QED BY <1>1, <1>2, <3>1, ShapesParts
  <2> QED BY <1>1, <1>2, <1>3, <2>1, ShapesParts, ShapesMade
<1> QED BY <1>3, <1>4, <1>5, <1>6 DEF MonitorInv

\* SET_BAUD opens the first window, behind its ACK.
LEMMA SetBaudKeeps ==
  ASSUME MonitorInv, SetBaud
  PROVE  MonitorInv'
<1>1. Shapes /\ Rated
  BY DEF MonitorInv
<1>2. /\ Receive("baud") /\ Valid /\ Reply(<<"ACK">>, rate) /\ mode' = "window1" /\ rate' = "new"
      /\ ctx' = ctx /\ memWritten' = memWritten /\ cached' = cached /\ lz' = lz /\ memory' = memory
      /\ host' = host /\ slice' = slice /\ loaded' = loaded /\ hostRate' = hostRate /\ mishaps' = mishaps
      /\ line' = line /\ resyncs' = resyncs /\ secondLost' = secondLost
  BY Zenon DEF SetBaud, hosting, faults, target
<1>3. /\ host = "baud" /\ wire' = << >> /\ wire' \in Seq(Units) /\ mode = "halted"
      /\ up' \in {<< >>, <<"ACK">>} /\ up' \in Seq(Replies) /\ Resynced' /\ Stocked'
  BY <1>2, HeardCommand
<1>4. Phase'
  <2>1. Headless(wire')
    BY <1>3 DEF Headless, Heads
  <2>2. Awake'
    BY <1>2, <1>3, <2>1 DEF Awake, Waits, Told
  <2> QED BY <1>2, <1>3, <2>2 DEF Phase, Commands
<1>5. Rated'
  BY <1>1, <1>2, <1>3 DEF Rated
<1>6. Shapes'
  BY <1>1, <1>2, <1>3, ShapesParts, ShapesMade
<1> QED BY <1>3, <1>4, <1>5, <1>6 DEF MonitorInv

-----------------------------------------------------------------------------
(* Frames that are sent.                                                     *)

\* A payload, piece by piece.
LEMMA BodyParts ==
  ASSUME NEW b \in Bodies
  PROVE  /\ b \in Seq(Units) /\ Len(b) \in 0 .. MaxLen
         /\ \A i \in 1 .. Len(b) : b[i][1] \in {"header", "lz4", "byte", "one"}
<1> DEFINE Good ==
      /\ b \in Seq(Units) /\ Len(b) \in 0 .. MaxLen
      /\ \A i \in 1 .. Len(b) : b[i][1] \in {"header", "lz4", "byte", "one"}
<1>0. 0 \in 0 .. MaxLen /\ 1 \in 0 .. MaxLen /\ 2 \in 0 .. MaxLen
  BY DEF MaxLen
<1>1. CASE b = << >>
  BY <1>0, <1>1
<1>2. CASE b = <<<<"one">>>>
  <2>1. <<"one">> \in Units
    BY DEF Units
  <2>2. b \in Seq(Units) /\ Len(b) = 1 /\ b[1][1] = "one"
    BY <1>2, <2>1
  <2> QED BY <1>0, <2>2
<1>3. ASSUME NEW p \in {"header", "lz4"} \X Cells \X (0 .. Junk), b = <<<<p[1], p[2]>>, <<"byte", p[3]>>>>
      PROVE  Good
  <2>1. p[1] \in {"header", "lz4"} /\ p[2] \in 0 .. Junk /\ p[3] \in 0 .. Junk
    BY SizeAssumption DEF Cells, Junk
  <2>2. <<p[1], p[2]>> \in Units /\ <<"byte", p[3]>> \in Units
    BY <2>1 DEF Units
  <2>3. b \in Seq(Units) /\ Len(b) = 2 /\ b[1][1] \in {"header", "lz4"} /\ b[2][1] = "byte"
    BY <1>3, <2>1, <2>2
  <2>4. \A i \in 1 .. Len(b) : i = 1 \/ i = 2
    BY <2>3
  <2> QED BY <1>0, <2>3, <2>4
<1>4. \/ b = << >> \/ b = <<<<"one">>>>
      \/ \E p \in {"header", "lz4"} \X Cells \X (0 .. Junk) : b = <<<<p[1], p[2]>>, <<"byte", p[3]>>>>
  BY DEF Bodies
<1> QED BY <1>1, <1>2, <1>3, <1>4

\* A frame, unit by unit.
LEMMA FrameParts ==
  ASSUME NEW type \in Types, NEW b \in Bodies
  PROVE  /\ Frame(type, b) \in Seq(Units) /\ Len(b) \in Nat /\ Len(Frame(type, b)) = Len(b) + 2
         /\ Frame(type, b)[1] = <<"head", type, Len(b)>>
         /\ \A i \in 1 .. Len(b) : Frame(type, b)[i + 1] = b[i]
         /\ Frame(type, b)[Len(b) + 2] = <<"sum", type, b>>
<1> DEFINE h == <<"head", type, Len(b)>>
           s == <<"sum", type, b>>
<1>1. b \in Seq(Units) /\ Len(b) \in Nat
  BY BodyParts
<1>2. h \in Units /\ s \in Units
  BY <1>1 DEF Units
<1>3. Frame(type, b) = <<h>> \o b \o <<s>>
  BY DEF Frame
<1> HIDE DEF h, s
<1>4. <<h>> \in Seq(Units) /\ Len(<<h>>) = 1 /\ <<h>>[1] = h /\ <<s>> \in Seq(Units) /\ Len(<<s>>) = 1 /\ <<s>>[1] = s
  BY <1>2
<1>5. PICK f \in Seq(Units) : f = <<h>> \o b /\ Len(f) = Len(b) + 1 /\ f[1] = h /\ \A i \in 1 .. Len(b) : f[i + 1] = b[i]
  <2> DEFINE g == <<h>> \o b
  <2>1. /\ g \in Seq(Units) /\ Len(g) = 1 + Len(b)
        /\ \A i \in 1 .. 1 + Len(b) : g[i] = IF i <= 1 THEN <<h>>[i] ELSE b[i - 1]
    BY <1>1, <1>4
  <2>2. g[1] = h
    BY <1>1, <1>4, <2>1
  <2>3. ASSUME NEW i \in 1 .. Len(b) PROVE g[i + 1] = b[i]
    <3>1. i + 1 \in 1 .. 1 + Len(b) /\ ~(i + 1 <= 1) /\ (i + 1) - 1 = i
      BY <1>1
    <3> QED BY <2>1, <3>1
  <2>4. g = <<h>> \o b
    OBVIOUS
  <2>5. Len(g) = Len(b) + 1
    BY <1>1, <2>1
  <2> HIDE DEF g
  <2> QED BY <2>1, <2>2, <2>3, <2>4, <2>5
<1>6. Frame(type, b) = f \o <<s>>
  BY <1>3, <1>5
<1>7. /\ f \o <<s>> \in Seq(Units) /\ Len(f \o <<s>>) = Len(b) + 2
      /\ \A i \in 1 .. Len(b) + 1 : (f \o <<s>>)[i] = f[i]
      /\ (f \o <<s>>)[Len(b) + 2] = s
  BY <1>1, <1>4, <1>5
<1>8. \A i \in 1 .. Len(b) : i + 1 \in 1 .. Len(b) + 1
  BY <1>1
<1>9. 1 \in 1 .. Len(b) + 1
  BY <1>1
<1> QED BY <1>1, <1>5, <1>6, <1>7, <1>8, <1>9 DEF h, s

\* The two frames a window waits for.
LEMMA WindowFrames ==
  /\ Ping \in Seq(Units) /\ Len(Ping) = 2 /\ Ping[1] = PingHead /\ Ping[2] = PingSum
  /\ Confirm \in Seq(Units) /\ Len(Confirm) = 3 /\ Confirm[1] = <<"head", "ping", 1>> /\ Confirm[2] = <<"one">>
  /\ Confirm[3] = <<"sum", "ping", <<<<"one">>>>>>
<1>1. "ping" \in Types /\ << >> \in Bodies /\ <<<<"one">>>> \in Bodies
  BY DEF Types, Commands, Bodies
<1>2. Len(<< >>) = 0 /\ Len(<<<<"one">>>>) = 1 /\ <<<<"one">>>>[1] = <<"one">>
  OBVIOUS
<1>3. Ping \in Seq(Units) /\ Len(Ping) = 2 /\ Ping[1] = PingHead /\ Ping[2] = PingSum
  <2>1. Frame("ping", << >>) \in Seq(Units) /\ Len(Frame("ping", << >>)) = 0 + 2
        /\ Frame("ping", << >>)[1] = <<"head", "ping", 0>> /\ Frame("ping", << >>)[0 + 2] = <<"sum", "ping", << >>>>
    BY <1>1, <1>2, FrameParts
  <2> QED BY <2>1 DEF Ping, PingHead, PingSum
<1>4. /\ Confirm \in Seq(Units) /\ Len(Confirm) = 3 /\ Confirm[1] = <<"head", "ping", 1>> /\ Confirm[2] = <<"one">>
      /\ Confirm[3] = <<"sum", "ping", <<<<"one">>>>>>
  <2> DEFINE b == <<<<"one">>>>
  <2>1. /\ b \in Bodies /\ Len(b) = 1 /\ b[1] = <<"one">> /\ Confirm = Frame("ping", b)
    BY <1>1, <1>2 DEF Confirm
  <2> HIDE DEF b
  <2>2. /\ Confirm \in Seq(Units) /\ Len(Confirm) = 1 + 2 /\ Confirm[1] = <<"head", "ping", 1>>
        /\ Confirm[1 + 1] = b[1] /\ Confirm[1 + 2] = <<"sum", "ping", b>>
    <3>1. 1 \in 1 .. Len(b)
      BY <2>1
    <3>2. /\ Frame("ping", b) \in Seq(Units) /\ Len(Frame("ping", b)) = Len(b) + 2
          /\ Frame("ping", b)[1] = <<"head", "ping", Len(b)>>
          /\ Frame("ping", b)[1 + 1] = b[1]
          /\ Frame("ping", b)[Len(b) + 2] = <<"sum", "ping", b>>
      BY <1>1, <2>1, <3>1, FrameParts
    <3> QED BY <2>1, <3>2
  <2> QED BY <2>1, <2>2 DEF b
<1> QED BY <1>3, <1>4

-----------------------------------------------------------------------------
(* The windows.                                                              *)

\* Who waits, and what is on the wire, during a window.
LEMMA InWindow ==
  ASSUME MonitorInv, mode \in {"window1", "window2"}
  PROVE  /\ rate = "new" /\ resyncs = 0 /\ host \notin {"lost", "slice", "write"}
         /\ \/ host = "baud" /\ mode = "window1" /\ wire = << >> /\ (Waits \/ Told({"ACK"}))
            \/ /\ host = "try" /\ mode = "window1" /\ Waits
               /\ \A i \in DOMAIN wire : /\ wire[i][1] # "one" /\ (wire[i] = PingSum => i = Len(wire))
                                         /\ line = "monitor deaf" => wire[i][1] = "noise"
            \/ host = "try" /\ mode = "window2" /\ Waits /\ \A i \in DOMAIN wire : wire[i][1] # "one"
            \/ host = "try" /\ mode = "window2" /\ Told({"PONG"}) /\ wire = << >>
            \/ host = "confirm" /\ mode = "window2" /\ Waits /\ Heads(wire) \subseteq {1}
<1>1. Shapes /\ Phase /\ Rated /\ Resynced
  BY DEF MonitorInv
<1>2. rate = "new" /\ host \in {"baud", "try", "confirm"}
  BY <1>1 DEF Rated
<1>3. resyncs = 0
  BY <1>1, <1>2 DEF Resynced
<1>4. CASE host = "baud"
  <2>1. Asking \/ Awake
    BY <1>1, <1>4 DEF Phase, Commands
  <2>2. host = "baud" /\ mode = "window1" /\ wire = << >> /\ (Waits \/ Told({"ACK"}))
    BY <1>4, <2>1 DEF Asking, Awake
  <2> QED BY <1>2, <1>3, <1>4, <2>2
<1>5. CASE host = "try"
  <2>1. Trying
    BY <1>1, <1>5 DEF Phase
  <2> QED BY <1>2, <1>3, <1>5, <2>1, Zenon DEF Trying
<1>6. CASE host = "confirm"
  <2>1. Confirming
    BY <1>1, <1>6 DEF Phase
  <2> QED BY <1>2, <1>3, <1>6, <2>1, Zenon DEF Confirming
<1> QED BY <1>2, <1>4, <1>5, <1>6

\* A window that ends leaves the monitor at the old rate, and the host to find that out.
LEMMA ExpireKeeps ==
  ASSUME MonitorInv, Expire
  PROVE  MonitorInv'
<1>1. Shapes /\ Rated /\ Stocked
  BY DEF MonitorInv
<1>2. /\ mode \in {"window1", "window2"} /\ rate' = "old" /\ mode' = "halted" /\ wire' = << >> /\ up' = up
      /\ ctx' = ctx /\ memWritten' = memWritten /\ cached' = cached /\ lz' = lz /\ memory' = memory
      /\ host' = host /\ slice' = slice /\ loaded' = loaded /\ hostRate' = hostRate /\ mishaps' = mishaps
      /\ line' = line /\ resyncs' = resyncs /\ secondLost' = secondLost
  BY Zenon DEF Expire, hosting, faults, target
<1>3. /\ rate = "new" /\ resyncs = 0 /\ host \notin {"lost", "slice", "write"} /\ host \in {"baud", "try", "confirm"}
      /\ host = "baud" => Waits \/ Told({"ACK"})
      /\ host = "try" => Waits \/ Told({"PONG"})
      /\ host = "confirm" => Waits
  BY <1>2, InWindow
<1>4. Headless(wire')
  BY <1>2 DEF Headless, Heads
<1>5. Phase'
  <2>1. CASE host = "baud"
    <3>1. Awake'
      BY <1>2, <1>3, <1>4, <2>1 DEF Awake, Waits, Told
    <3> QED BY <1>2, <2>1, <3>1 DEF Phase, Commands
  <2>2. CASE host = "try"
    <3>1. Trying'
      BY <1>2, <1>3, <1>4, <2>2 DEF Trying, Waits, Told
    <3> QED BY <1>2, <2>2, <3>1 DEF Phase, Commands
  <2>3. CASE host = "confirm"
    <3>1. Confirming'
      BY <1>2, <1>3, <1>4, <2>3 DEF Confirming, Waits, Told
    <3> QED BY <1>2, <2>3, <3>1 DEF Phase, Commands
  <2> QED BY <1>3, <2>1, <2>2, <2>3
<1>6. Rated'
  BY <1>1, <1>2, <1>3 DEF Rated, Waits
<1>7. Resynced'
  BY <1>2, <1>3 DEF Resynced
<1>8. wire' \in Seq(Units) /\ Behind(wire, Len(wire), wire') /\ Len(wire) \in 0 .. Len(wire)
  BY <1>1, <1>2, ShapesParts DEF Behind
<1>9. Stocked'
  BY <1>1, <1>2, <1>3, <1>8, StockedKept
<1>10. Shapes'
  BY <1>1, <1>2, <1>8, ShapesParts, ShapesMade
<1> QED BY <1>5, <1>6, <1>7, <1>9, <1>10 DEF MonitorInv

\* A window reads past what is not its PING.
LEMMA WindowSkipKeeps ==
  ASSUME MonitorInv, WindowSkip
  PROVE  MonitorInv'
<1>1. Shapes /\ Rated /\ Stocked
  BY DEF MonitorInv
<1>2. /\ mode \in {"window1", "window2"} /\ wire' = Tail(wire) /\ up' = up /\ rate' = rate /\ mode' = mode
      /\ ctx' = ctx /\ memWritten' = memWritten /\ cached' = cached /\ lz' = lz /\ memory' = memory
      /\ host' = host /\ slice' = slice /\ loaded' = loaded /\ hostRate' = hostRate /\ mishaps' = mishaps
      /\ line' = line /\ resyncs' = resyncs /\ secondLost' = secondLost /\ ~IsPrefix(wire, Awaited)
  BY Zenon DEF WindowSkip, hosting, faults, target, monitor
<1>3. wire # << >>
  <2> SUFFICES ASSUME wire = << >> PROVE FALSE
    OBVIOUS
  <2>1. Awaited \in Seq(Units)
    BY WindowFrames DEF Awaited
  <2>2. Len(wire) = 0 /\ Len(wire) <= Len(Awaited) /\ SubSeq(wire, 1, 0) = << >> /\ SubSeq(Awaited, 1, 0) = << >>
    BY <2>1
  <2>3. IsPrefix(wire, Awaited)
    BY <2>2 DEF IsPrefix
  <2> QED BY <1>2, <2>3
<1>4. /\ wire \in Seq(Units) /\ wire' \in Seq(Units) /\ Behind(wire, 1, wire') /\ 1 \in 0 .. Len(wire)
      /\ Len(wire) \in Nat \ {0} /\ Len(wire') = Len(wire) - 1
  <2>1. wire \in Seq(Units)
    BY <1>1, ShapesParts
  <2> QED BY <1>2, <1>3, <2>1, TailIsBehind DEF Behind
<1>5. \A i \in DOMAIN wire' : i + 1 \in DOMAIN wire /\ wire'[i] = wire[i + 1] /\ (i + 1 = Len(wire) => i = Len(wire'))
  BY <1>4 DEF Behind
<1>6. \A i \in Heads(wire') : i \in 1 .. Len(wire') /\ i + 1 \in Heads(wire)
  BY <1>4, HeadsBehind
<1>7. /\ resyncs = 0 /\ host \notin {"lost", "slice", "write"} /\ Waits
      /\ \/ /\ host = "try" /\ mode = "window1"
            /\ \A i \in DOMAIN wire : /\ wire[i][1] # "one" /\ (wire[i] = PingSum => i = Len(wire))
                                      /\ line = "monitor deaf" => wire[i][1] = "noise"
         \/ host = "try" /\ mode = "window2" /\ \A i \in DOMAIN wire : wire[i][1] # "one"
         \/ host = "confirm" /\ mode = "window2" /\ Heads(wire) \subseteq {1}
  BY <1>2, <1>3, InWindow, Zenon
<1>8. Phase'
  <2>1. CASE host = "try" /\ mode = "window1"
    <3>1. ASSUME NEW i \in DOMAIN wire'
          PROVE  /\ wire'[i][1] # "one" /\ (wire'[i] = PingSum => i = Len(wire'))
                 /\ line = "monitor deaf" => wire'[i][1] = "noise"
      <4>1. i + 1 \in DOMAIN wire /\ wire'[i] = wire[i + 1] /\ (i + 1 = Len(wire) => i = Len(wire'))
        BY <1>5, <3>1
      <4> QED BY <1>7, <2>1, <4>1
    <3>2. Trying'
      BY <1>2, <1>7, <2>1, <3>1 DEF Trying, Waits
    <3> QED BY <1>2, <2>1, <3>2 DEF Phase, Commands
  <2>2. CASE host = "try" /\ mode = "window2"
    <3>1. \A i \in DOMAIN wire' : wire'[i][1] # "one"
      BY <1>5, <1>7, <2>2
    <3>2. Trying'
      BY <1>2, <1>7, <2>2, <3>1 DEF Trying, Waits
    <3> QED BY <1>2, <2>2, <3>2 DEF Phase, Commands
  <2>3. CASE host = "confirm"
    <3>1. Heads(wire') \subseteq {1}
      BY <1>6, <1>7, <2>3
    <3>2. Confirming'
      BY <1>2, <1>7, <2>3, <3>1 DEF Confirming, Waits
    <3> QED BY <1>2, <2>3, <3>2 DEF Phase, Commands
  <2> QED BY <1>7, <2>1, <2>2, <2>3
<1>9. Rated'
  BY <1>1, <1>2, RatedKept
<1>10. Resynced'
  <2>1. resyncs = 0
    BY <1>2, InWindow
  <2> QED BY <1>2, <2>1 DEF Resynced
<1>11. Stocked'
  BY <1>1, <1>2, <1>4, <1>7, StockedKept
<1>12. Shapes'
  BY <1>1, <1>2, <1>4, ShapesParts, ShapesMade
<1> QED BY <1>8, <1>9, <1>10, <1>11, <1>12 DEF MonitorInv

\* A prefix, unit by unit.
LEMMA PrefixFacts ==
  ASSUME NEW s \in Seq(Units), NEW w \in Seq(Units), IsPrefix(s, w)
  PROVE  Len(s) \in 0 .. Len(w) /\ \A i \in 1 .. Len(s) : w[i] = s[i] /\ i \in DOMAIN w
<1>1. Len(s) <= Len(w) /\ SubSeq(s, 1, Len(s)) = SubSeq(w, 1, Len(s)) /\ Len(s) \in Nat /\ Len(w) \in Nat
  BY DEF IsPrefix
<1>2. Len(s) \in 0 .. Len(w) /\ \A i \in 1 .. Len(s) : i \in DOMAIN w
  BY <1>1
<1>3. ASSUME NEW i \in 1 .. Len(s) PROVE w[i] = s[i]
  <2>1. SubSeq(s, 1, Len(s))[i] = s[i]
    BY <1>1
  <2>2. SubSeq(w, 1, Len(s))[i] = w[i]
    BY <1>1
  <2> QED BY <1>1, <2>1, <2>2
<1> QED BY <1>2, <1>3

\* Only a PING opens the second window, and only the other PING, which the host sends when it
\* has heard of the first, closes it.
LEMMA WindowKeeps ==
  ASSUME MonitorInv, Window
  PROVE  MonitorInv'
<1>1. Shapes /\ Rated /\ Stocked
  BY DEF MonitorInv
<1>0. /\ Reply(<<"PONG">>, rate) /\ IsPrefix(Awaited, wire)
      /\ wire' = SubSeq(wire, Len(Awaited) + 1, Len(wire))
      /\ mode = "window1" => mode' = "window2"
      /\ mode = "window2" => mode' = "halted"
  BY Zenon DEF Window
<1>2. /\ mode \in {"window1", "window2"} /\ rate' = rate
      /\ ctx' = ctx /\ memWritten' = memWritten /\ cached' = cached /\ lz' = lz /\ memory' = memory
      /\ host' = host /\ slice' = slice /\ loaded' = loaded /\ hostRate' = hostRate /\ mishaps' = mishaps
      /\ line' = line /\ resyncs' = resyncs /\ secondLost' = secondLost
  BY Zenon DEF Window, hosting, faults, target
<1>3. rate = "new" /\ resyncs = 0 /\ host \notin {"lost", "slice", "write"}
  BY <1>2, InWindow
<1>4. Awaited \in Seq(Units) /\ wire \in Seq(Units) /\ up \in Seq(Replies)
  BY <1>1, WindowFrames, ShapesParts DEF Awaited
<1>5. Len(Awaited) \in 0 .. Len(wire) /\ \A i \in 1 .. Len(Awaited) : wire[i] = Awaited[i] /\ i \in DOMAIN wire
  BY <1>0, <1>4, PrefixFacts
<1>6. wire' \in Seq(Units) /\ Behind(wire, Len(Awaited), wire')
  BY <1>0, <1>4, <1>5, RestIsBehind
<1>7. /\ "PONG" \in Replies /\ (up' = up \/ up' = up \o <<"PONG">>)
      /\ hostRate = rate /\ ~(rate = "new" /\ line = "host deaf") => up' = up \o <<"PONG">>
      /\ up' # up => ~(rate = "new" /\ line = "host deaf")
  <2>1. "PONG" \in Replies
    BY DEF Replies
  <2> QED BY <1>0, <2>1, ReplyHeard, Zenon
<1>8. ASSUME mode = "window1" PROVE Phase' /\ Rated'
  <2>1. Len(Awaited) = 2 /\ Awaited[1] = PingHead /\ Awaited[2] = PingSum
    BY <1>8, WindowFrames DEF Awaited
  <2>2. 1 \in DOMAIN wire /\ 2 \in DOMAIN wire /\ wire[1] = PingHead /\ wire[2] = PingSum /\ wire # << >>
    BY <1>4, <1>5, <2>1
  <2>3. /\ host = "try" /\ Waits /\ (wire[2] = PingSum => 2 = Len(wire))
        /\ line = "monitor deaf" => wire[1][1] = "noise"
    BY <1>2, <1>8, <2>2, InWindow
  <2>4. wire' = << >>
    <3>1. Len(wire) = 2 /\ Len(wire') = Len(wire) - Len(Awaited)
      BY <1>6, <2>2, <2>3 DEF Behind
    <3>2. Len(wire') <= 0
      BY <2>1, <3>1
    <3> QED BY <1>6, <3>2, NoneLeft
  <2>5. line # "monitor deaf"
    <3>1. wire[1][1] = "head"
      BY <2>2 DEF PingHead
    <3> QED BY <2>3, <3>1
  <2>6. up' = << >> \/ up' = <<"PONG">>
    BY <1>4, <1>7, <2>3, OneReply DEF Waits
  <2>7. Phase'
    <3>1. DOMAIN wire' = {}
      BY <2>4
    <3>2. \A i \in DOMAIN wire' : wire'[i][1] # "one"
      BY <3>1
    <3>3. mode' = "window2"
      BY <1>0, <1>8
    <3>4. Trying'
      BY <2>4, <2>6, <3>2, <3>3 DEF Trying, Waits, Told
    <3> QED BY <1>2, <2>3, <3>4 DEF Phase, Commands
  <2>8. Rated'
    <3>1. up' # << >> => line # "host deaf"
      BY <1>3, <1>7, <2>3 DEF Waits
    <3>2. mode' = "window2"
      BY <1>0, <1>8
    <3>3. hostRate = "new"
      BY <1>1, <2>3 DEF Rated
    <3> QED BY <1>2, <1>3, <2>3, <2>5, <3>1, <3>2, <3>3 DEF Rated, Waits
  <2> QED BY <2>7, <2>8
<1>9. ASSUME mode = "window2" PROVE Phase' /\ Rated'
  <2>1. Len(Awaited) = 3 /\ Awaited[2] = <<"one">>
    BY <1>9, WindowFrames DEF Awaited
  <2>2. 2 \in DOMAIN wire /\ wire[2] = <<"one">> /\ wire # << >>
    <3>1. 2 \in 1 .. Len(Awaited)
      BY <2>1
    <3>2. 2 \in DOMAIN wire /\ wire[2] = <<"one">>
      BY <1>5, <2>1, <3>1
    <3>3. wire # << >>
      BY <3>2
    <3> QED BY <3>2, <3>3
  <2>3. host = "confirm" /\ Waits /\ Heads(wire) \subseteq {1}
    <3>1. wire[2][1] = "one"
      BY <2>2
    <3> QED BY <1>2, <1>9, <2>2, <3>1, InWindow
  <2>4. Headless(wire')
    <3>1. \A i \in Heads(wire') : i \in 1 .. Len(wire') /\ i + 3 \in Heads(wire)
      BY <1>4, <1>5, <1>6, <2>1, HeadsBehind
    <3>2. ASSUME NEW i \in Heads(wire') PROVE FALSE
      <4>1. i \in 1 .. Len(wire') /\ i + 3 = 1
        BY <2>3, <3>1
      <4> QED BY <1>6, <4>1
    <3> QED BY <3>2 DEF Headless
  <2>5. hostRate = "new" /\ line # "host deaf" /\ line # "monitor deaf"
    BY <1>1, <1>3, <1>9, <2>3 DEF Rated
  <2>6. up' = <<"PONG">>
    BY <1>3, <1>4, <1>7, <2>3, <2>5, OneReply DEF Waits
  <2>7. Phase'
    <3>1. Confirming'
      BY <1>0, <1>2, <1>3, <1>9, <2>4, <2>6 DEF Confirming, Waits, Told
    <3> QED BY <1>2, <2>3, <3>1 DEF Phase, Commands
  <2>8. Rated'
    <3>1. mode' = "halted"
      BY <1>0, <1>9
    <3> QED BY <1>2, <1>3, <2>3, <2>5, <3>1 DEF Rated
  <2> QED BY <2>7, <2>8
<1>10. Resynced'
  <2>1. resyncs' = 0
    BY <1>2, <1>3, Zenon
  <2> QED BY <2>1, ZeroResyncs
<1>11. Stocked'
  BY <1>1, <1>2, <1>3, <1>5, <1>6, StockedKept
<1>12. Shapes'
  <2>1. up' \in Seq(Replies)
    <3>1. up \o <<"PONG">> \in Seq(Replies)
      BY <1>4, <1>7, OneReply
    <3> QED BY <1>4, <1>7, <3>1, Zenon
  <2>2. mode' \in {"halted", "running", "window1", "window2"}
    BY <1>0, <1>2
  <2> QED BY <1>1, <1>2, <1>6, <2>1, <2>2, ShapesParts, ShapesMade
<1> QED BY <1>2, <1>8, <1>9, <1>10, <1>11, <1>12 DEF MonitorInv

-----------------------------------------------------------------------------
(* The target runs.                                                          *)

\* The target's own execution changes only what is cached.
LEMMA ExecuteKeeps ==
  ASSUME MonitorInv, Execute
  PROVE  MonitorInv'
<1>1. Shapes /\ Phase /\ Rated /\ Resynced /\ Stocked
  BY DEF MonitorInv
<1>2. /\ mode = "running" /\ cached' = memory[1] /\ wire' = wire /\ up' = up /\ rate' = rate /\ mode' = mode
      /\ ctx' = ctx /\ memWritten' = memWritten /\ lz' = lz /\ memory' = memory
      /\ host' = host /\ slice' = slice /\ loaded' = loaded /\ hostRate' = hostRate /\ mishaps' = mishaps
      /\ line' = line /\ resyncs' = resyncs /\ secondLost' = secondLost
  BY Zenon DEF Execute, hosting, faults, monitor
<1>3. Phase'
  <2>1. Payload(host)' = Payload(host) /\ Expected(host)' = Expected(host)
    BY <1>2 DEF Payload, Expected
  <2>2. /\ Asking' <=> Asking
        /\ Stopping' <=> Stopping
        /\ Lost' <=> Lost
    BY <1>2, <2>1 DEF Asking, Stopping, Lost, Waits, Told
  <2>3. Trying' <=> Trying
    BY <1>2 DEF Trying, Waits, Told
  <2>4. Confirming' <=> Confirming
    BY <1>2 DEF Confirming, Waits, Told
  <2>5. Awake' <=> Awake
    BY <1>2, <2>1 DEF Awake, Waits, Told
  <2> QED BY <1>1, <1>2, <2>2, <2>3, <2>4, <2>5, Zenon DEF Phase, Waits
<1>4. Rated'
  BY <1>1, <1>2, RatedKept
<1>5. Resynced'
  BY <1>1, <1>2 DEF Resynced, First
<1>6. Stocked'
  BY <1>1, <1>2 DEF Stocked, Cells
<1>7. Shapes'
  <2>1. cached' \in 0 .. NotCached
    <3>1. memory[1] \in 0 .. Junk
      BY <1>1, ShapesParts, SizeAssumption DEF Cells
    <3> QED BY <1>2, <3>1, SizeAssumption DEF Junk, NotCached
  <2> QED BY <1>1, <1>2, <2>1, ShapesParts, ShapesMade
<1> QED BY <1>3, <1>4, <1>5, <1>6, <1>7 DEF MonitorInv

\* A resynchronisation that finds the target running is the first.
LEMMA RunningResync ==
  ASSUME Resynced, mode = "running", hostRate = rate
  PROVE  /\ ~(resyncs > 1)
         /\ resyncs # 0 => resyncs = 1 /\ wire # << >> /\ First[1] # "noise"
<1>1. resyncs # 0 => resyncs = 1 /\ wire # << >> /\ First[1] # "noise"
  BY Zenon DEF Resynced
<1>2. resyncs = 1 => ~(resyncs > 1)
  OBVIOUS
<1>3. resyncs = 0 => ~(resyncs > 1)
  OBVIOUS
<1> QED BY <1>1, <1>2, <1>3

\* Who may wait while the target runs.
LEMMA InRun ==
  ASSUME Shapes, Phase, Rated, mode = "running"
  PROVE  \/ host \in {"run", "cont"} /\ Headless(wire) /\ (Waits \/ Told({"ACK"}))
         \/ host \in {"running", "stopping"} /\ Stopping /\ Waits
         \/ host = "lost" /\ Flushed(wire) /\ Waits
<1>1. host \in Commands \union {"idle", "running", "stopping", "try", "confirm", "lost"}
  BY ShapesParts
<1>2. CASE host \in Commands
  <2>1. Awake
    BY <1>2 DEF Phase, Asking
  <2>2. host \in {"run", "cont"}
    BY <2>1, Zenon DEF Awake
  <2> QED BY <2>1, <2>2 DEF Awake
<1>3. CASE host \in {"running", "stopping"}
  BY <1>3 DEF Phase, Stopping
<1>4. CASE host \in {"idle", "try", "confirm", "lost"}
  BY <1>4 DEF Phase, Trying, Confirming, Lost
<1> QED BY <1>1, <1>2, <1>3, <1>4

\* Nothing on the wire.
LEMMA EmptyWire ==
  /\ Headless(<< >>) /\ StopLast(<< >>) /\ Flushed(<< >>) /\ << >> \in Seq(Units)
  /\ \A w \in Seq(Units) : Behind(w, Len(w), << >>) /\ Behind(w, 0, w) /\ Len(w) \in 0 .. Len(w) /\ 0 \in 0 .. Len(w)
<1>1. Heads(<< >>) = {}
  BY DEF Heads
<1>2. Headless(<< >>) /\ StopLast(<< >>) /\ Flushed(<< >>)
  BY <1>1 DEF Headless, StopLast, Flushed, Cut
<1> QED BY <1>2 DEF Behind

\* The target stops, or takes an interrupt that asks nothing.
LEMMA StopKeeps ==
  ASSUME MonitorInv, mode = "running", wire' = wire \/ wire' = << >>,
         \/ mode' = "halted" /\ ctx' = TRUE /\ Reply(<<"STOPPED">>, rate)
         \/ mode' = "running" /\ ctx' = ctx /\ up' = up /\ (hostRate = rate => resyncs = 0),
         UNCHANGED memWritten, UNCHANGED lz, UNCHANGED rate, UNCHANGED target, UNCHANGED hosting,
         UNCHANGED mishaps, UNCHANGED faults
  PROVE  MonitorInv'
<1>1. Shapes /\ Phase /\ Rated /\ Resynced /\ Stocked
  BY DEF MonitorInv
<1>2. /\ rate' = rate /\ memWritten' = memWritten /\ lz' = lz /\ memory' = memory /\ cached' = cached
      /\ host' = host /\ slice' = slice /\ loaded' = loaded /\ hostRate' = hostRate /\ mishaps' = mishaps
      /\ line' = line /\ resyncs' = resyncs /\ secondLost' = secondLost
  BY Zenon DEF hosting, faults, target
<1>3. \/ host \in {"run", "cont"} /\ Headless(wire) /\ (up = << >> \/ up = <<"ACK">>)
      \/ host \in {"running", "stopping"} /\ Stopping /\ up = << >>
      \/ host = "lost" /\ Flushed(wire) /\ up = << >>
  BY <1>1, InRun DEF Waits, Told
<1>4. /\ "STOPPED" \in Replies /\ "ACK" \in Replies /\ up \in Seq(Replies)
      /\ up \o <<"STOPPED">> \in Seq(Replies)
      /\ up = << >> => up \o <<"STOPPED">> = <<"STOPPED">>
      /\ up = <<"ACK">> => up \o <<"STOPPED">> = <<"ACK", "STOPPED">>
  <2>1. "STOPPED" \in Replies /\ "ACK" \in Replies /\ up \in Seq(Replies)
    BY <1>1, ShapesParts DEF Replies
  <2> QED BY <2>1, OneReply
<1>5. mode' \in {"halted", "running"} /\ (up' = up \/ (mode' = "halted" /\ up' = up \o <<"STOPPED">>))
      /\ ctx' \in {ctx, TRUE}
  BY ReplyHeard, Zenon
<1>6. /\ wire' \in Seq(Units)
      /\ Headless(wire) => Headless(wire')
      /\ StopLast(wire) => StopLast(wire')
      /\ Flushed(wire) => Flushed(wire')
      /\ \E m \in 0 .. Len(wire) : Behind(wire, m, wire')
  <2>1. wire \in Seq(Units)
    BY <1>1, ShapesParts
  <2> QED BY <2>1, EmptyWire
<1>7. Phase'
  <2>1. CASE host \in {"run", "cont"}
    <3>1. Awake'
      <4>1. CASE mode' = "running"
        <5>1. up' = << >> \/ up' = <<"ACK">>
          BY <1>3, <1>5, <2>1, <4>1
        <5> QED BY <1>2, <1>3, <1>6, <2>1, <4>1, <5>1 DEF Awake, Waits, Told
      <4>2. CASE mode' = "halted"
        <5>1. up' \in {<< >>, <<"ACK">>, <<"STOPPED">>, <<"ACK", "STOPPED">>}
          BY <1>3, <1>4, <1>5, <2>1
        <5> QED BY <1>2, <1>3, <1>6, <2>1, <4>2, <5>1 DEF Awake, Waits, Told
      <4> QED BY <1>5, <4>1, <4>2
    <3> QED BY <1>2, <2>1, <3>1 DEF Phase, Commands
  <2>2. CASE host \in {"running", "stopping"}
    <3>1. Stopping'
      <4>1. Stopping /\ up = << >>
        BY <1>3, <2>2
      <4>2. up' = << >> \/ (mode' = "halted" /\ up' = <<"STOPPED">>)
        BY <1>4, <1>5, <4>1
      <4> QED BY <1>2, <1>5, <1>6, <4>1, <4>2 DEF Stopping, Waits, Told
    <3> QED BY <1>2, <2>2, <3>1 DEF Phase, Commands
  <2>3. CASE host = "lost"
    <3>1. up' = << >> \/ (mode' = "halted" /\ up' = <<"STOPPED">>)
      BY <1>3, <1>4, <1>5, <2>3
    <3>2. \A p \in DOMAIN up' : up'[p] # "PONG"
      BY <3>1
    <3>3. Lost'
      BY <1>3, <1>5, <1>6, <2>3, <3>1, <3>2 DEF Lost, Waits
    <3> QED BY <1>2, <2>3, <3>3 DEF Phase, Commands
  <2> QED BY <1>3, <2>1, <2>2, <2>3
<1>8. Rated'
  <2>1. host \notin {"baud", "try", "confirm"}
    BY <1>3
  <2>2. mode' \in {"halted", "running"}
    BY <1>5
  <2> QED BY <1>1, <1>2, <2>1, <2>2 DEF Rated
<1>9. Resynced'
  <2>1. hostRate = rate => ~(resyncs > 1)
    BY <1>1, RunningResync
  <2>2. mode' = "running" /\ hostRate = rate => resyncs = 0
    BY Zenon
  <2>3. resyncs \in 0 .. 3 /\ (resyncs # 0 => host = "lost")
    BY <1>1 DEF Resynced
  <2> QED BY <1>2, <2>1, <2>2, <2>3, Zenon DEF Resynced
<1>10. Stocked'
  <2>1. host # "slice"
    BY <1>3
  <2> QED BY <1>1, <1>2, <1>6, <2>1, StockedKept
<1>11. Shapes'
  <2>1. up' \in Seq(Replies)
    BY <1>4, <1>5
  <2>2. mode' \in {"halted", "running", "window1", "window2"} /\ ctx' \in BOOLEAN
    BY <1>1, <1>5, ShapesParts
  <2> QED BY <1>1, <1>2, <1>6, <2>1, <2>2, ShapesParts, ShapesMade
<1> QED BY <1>7, <1>8, <1>9, <1>10, <1>11 DEF MonitorInv

\* A break, and an interrupt with a byte waiting.
LEMMA InterruptKeeps ==
  ASSUME MonitorInv, Break \/ Interrupt
  PROVE  MonitorInv'
<1>1. CASE Break
  <2>1. /\ mode = "running" /\ wire' = wire /\ mode' = "halted" /\ ctx' = TRUE /\ Reply(<<"STOPPED">>, rate)
        /\ UNCHANGED memWritten /\ UNCHANGED lz /\ UNCHANGED rate /\ UNCHANGED target /\ UNCHANGED hosting
        /\ UNCHANGED mishaps /\ UNCHANGED faults
    BY <1>1, Zenon DEF Break, Stopped
  <2> QED BY <2>1, StopKeeps
<1>2. CASE Interrupt
  <2>1. /\ mode = "running" /\ wire # << >> /\ wire' = << >>
        /\ UNCHANGED memWritten /\ UNCHANGED lz /\ UNCHANGED rate /\ UNCHANGED target /\ UNCHANGED hosting
        /\ UNCHANGED mishaps /\ UNCHANGED faults
    BY <1>2, Zenon DEF Interrupt
  <2>2. CASE Asks
    <3>1. mode' = "halted" /\ ctx' = TRUE /\ Reply(<<"STOPPED">>, rate)
      BY <1>2, <2>2, Zenon DEF Interrupt, Stopped
    <3> QED BY <2>1, <3>1, StopKeeps
  <2>3. CASE ~Asks
    <3>1. mode' = "running" /\ ctx' = ctx /\ up' = up
      BY <1>2, <2>1, <2>3, Zenon DEF Interrupt
    <3>2. First[1] = "noise"
      <4>1. wire \in Seq(Units)
        BY ShapesParts DEF MonitorInv
      <4>2. First = wire[1] /\ 1 \in DOMAIN wire
        BY <2>1, <4>1, TailIsBehind DEF First
      <4> QED BY <2>3, <4>2 DEF Asks
    <3>3. hostRate = rate => resyncs = 0
      BY <2>1, <3>2, RunningResync, Zenon DEF MonitorInv
    <3> QED BY <2>1, <3>1, <3>3, StopKeeps
  <2> QED BY <2>2, <2>3
<1> QED BY <1>1, <1>2

-----------------------------------------------------------------------------
(* What the line makes of a frame.                                           *)

\* Noise and zeros, unit by unit.
LEMMA NoiseParts ==
  ASSUME NEW n \in Nat
  PROVE  /\ Noise(n) \in Seq(Units) /\ Len(Noise(n)) = n /\ \A i \in 1 .. n : Noise(n)[i] = <<"noise">>
         /\ Zeros(n) \in Seq(Units) /\ Len(Zeros(n)) = n /\ \A i \in 1 .. n : Zeros(n)[i] = <<"zero">>
<1>1. <<"noise">> \in Units /\ <<"zero">> \in Units
  BY DEF Units
<1> QED BY <1>1 DEF Noise, Zeros

\* A unit is lost.
LEMMA RemovedParts ==
  ASSUME NEW w \in Seq(Units), NEW k \in DOMAIN w
  PROVE  /\ RemoveAt(w, k) \in Seq(Units) /\ Len(RemoveAt(w, k)) = Len(w) - 1
         /\ \A i \in 1 .. Len(w) - 1 : RemoveAt(w, k)[i] = IF i < k THEN w[i] ELSE w[i + 1]
<1> DEFINE f == SubSeq(w, 1, k - 1)
           g == SubSeq(w, k + 1, Len(w))
<1>1. Len(w) \in Nat /\ k \in 1 .. Len(w)
  OBVIOUS
<1>2. f \in Seq(Units) /\ Len(f) = k - 1 /\ \A i \in 1 .. k - 1 : f[i] = w[i]
  BY <1>1
<1>3. g \in Seq(Units) /\ Len(g) = Len(w) - k /\ \A i \in 1 .. Len(w) - k : g[i] = w[i + k]
  BY <1>1
<1>4. RemoveAt(w, k) = f \o g
  BY DEF RemoveAt
<1> HIDE DEF f, g
<1>5. /\ f \o g \in Seq(Units) /\ Len(f \o g) = Len(w) - 1
      /\ \A i \in 1 .. Len(w) - 1 : (f \o g)[i] = IF i <= k - 1 THEN f[i] ELSE g[i - (k - 1)]
  <2>1. /\ f \o g \in Seq(Units) /\ Len(f \o g) = Len(f) + Len(g)
        /\ \A i \in 1 .. Len(f) + Len(g) : (f \o g)[i] = IF i <= Len(f) THEN f[i] ELSE g[i - Len(f)]
    <3>1. f \in Seq(Units) /\ g \in Seq(Units)
      BY <1>2, <1>3
    <3>2. f \o g \in Seq(Units)
      BY <3>1
    <3>3. Len(f \o g) = Len(f) + Len(g)
      BY <3>1
    <3>4. \A i \in 1 .. Len(f) + Len(g) : (f \o g)[i] = IF i <= Len(f) THEN f[i] ELSE g[i - Len(f)]
      BY <3>1
    <3> QED BY <3>2, <3>3, <3>4
  <2>2. Len(f) + Len(g) = Len(w) - 1
    BY <1>1, <1>2, <1>3
  <2> QED BY <1>2, <2>1, <2>2
<1>6. ASSUME NEW i \in 1 .. Len(w) - 1 PROVE (f \o g)[i] = IF i < k THEN w[i] ELSE w[i + 1]
  <2>1. CASE i < k
    <3>1. i <= k - 1 /\ i \in 1 .. k - 1
      BY <1>1, <2>1
    <3> QED BY <1>2, <1>5, <2>1, <3>1
  <2>2. CASE ~(i < k)
    <3>1. ~(i <= k - 1) /\ i - (k - 1) \in 1 .. Len(w) - k /\ (i - (k - 1)) + k = i + 1
      BY <1>1, <2>2
    <3> QED BY <1>3, <1>5, <2>2, <3>1
  <2> QED BY <2>1, <2>2
<1> QED BY <1>4, <1>5, <1>6

\* A unit is replaced.
LEMMA ReplacedParts ==
  ASSUME NEW w \in Seq(Units), NEW k \in DOMAIN w, NEW u \in Units
  PROVE  /\ [w EXCEPT ![k] = u] \in Seq(Units) /\ Len([w EXCEPT ![k] = u]) = Len(w)
         /\ k \in 1 .. Len(w) /\ [w EXCEPT ![k] = u][k] = u
         /\ \A i \in 1 .. Len(w) : i # k => [w EXCEPT ![k] = u][i] = w[i]
OBVIOUS

\* Units that may come of a frame: its head is the first if any, its checksum the last.
Sent(s, c, b) ==
  /\ s \in Seq(Units) /\ Len(s) <= Len(b) + 2
  /\ \A i \in DOMAIN s : /\ s[i][1] = "head" => i = 1 /\ s[i][2] = c
                         /\ s[i][1] = "sum" => i = Len(s) /\ s[i] = <<"sum", c, b>>
                         /\ b = << >> => s[i][1] # "one"
  /\ c = "stop" /\ b = << >> /\ 1 \in Heads(s) /\ Len(s) = Len(b) + 2 => s[Len(s)] = <<"sum", c, b>>

\* A whole frame, one without a unit, and noise are what may come of a frame.
LEMMA FrameIsSent ==
  ASSUME NEW c \in Types, NEW b \in Bodies
  PROVE  /\ Sent(Frame(c, b), c, b)
         /\ \A k \in DOMAIN Frame(c, b) : Sent(RemoveAt(Frame(c, b), k), c, b)
         /\ \A n \in Nat : n <= Len(b) + 2 => Sent(Noise(n), c, b)
<1> DEFINE f == Frame(c, b)
           m == Len(b)
<1>1. /\ f \in Seq(Units) /\ m \in Nat /\ Len(f) = m + 2 /\ f[1] = <<"head", c, m>>
      /\ f[m + 2] = <<"sum", c, b>> /\ \A i \in 1 .. m : f[i + 1] = b[i]
  BY FrameParts
<1>2. /\ \A i \in 1 .. m : b[i][1] \in {"header", "lz4", "byte", "one"}
      /\ b = << >> => m = 0
  BY BodyParts
<1> HIDE DEF f
<1>3. ASSUME NEW i \in 2 .. m + 1 PROVE f[i][1] \in {"header", "lz4", "byte", "one"} /\ b # << >>
  <2>1. i - 1 \in 1 .. m /\ (i - 1) + 1 = i
    BY <1>1
  <2>2. f[i] = b[i - 1]
    <3>1. f[(i - 1) + 1] = b[i - 1]
      BY <1>1, <2>1
    <3> QED BY <2>1, <3>1
  <2>3. m # 0
    BY <1>1
  <2> QED BY <1>2, <2>1, <2>2, <2>3
<1>4. f[1][1] = "head" /\ f[1][2] = c /\ f[m + 2][1] = "sum"
  BY <1>1
<1> HIDE DEF m
<1>5. \A i \in 1 .. m + 2 : i = 1 \/ i = m + 2 \/ i \in 2 .. m + 1
  BY <1>1
<1>6. ASSUME NEW i \in 1 .. m + 2
      PROVE  /\ f[i][1] = "head" => i = 1 /\ f[i][2] = c
             /\ f[i][1] = "sum" => i = m + 2 /\ f[i] = <<"sum", c, b>>
             /\ b = << >> => f[i][1] # "one"
  BY <1>1, <1>3, <1>4, <1>5
<1>7. Sent(f, c, b)
  <2>1. DOMAIN f = 1 .. m + 2 /\ Len(f) <= m + 2
    BY <1>1
  <2>2. \A i \in DOMAIN f : /\ f[i][1] = "head" => i = 1 /\ f[i][2] = c
                            /\ f[i][1] = "sum" => i = Len(f) /\ f[i] = <<"sum", c, b>>
                            /\ b = << >> => f[i][1] # "one"
    BY <1>1, <1>6, <2>1
  <2>3. f[Len(f)] = <<"sum", c, b>>
    BY <1>1
  <2> QED BY <1>1, <2>1, <2>2, <2>3 DEF Sent, m
<1>8. ASSUME NEW k \in DOMAIN f PROVE Sent(RemoveAt(f, k), c, b)
  <2> DEFINE g == RemoveAt(f, k)
  <2>1. /\ g \in Seq(Units) /\ Len(g) = m + 1 /\ k \in 1 .. m + 2
        /\ \A i \in 1 .. m + 1 : g[i] = IF i < k THEN f[i] ELSE f[i + 1]
    <3>1. Len(f) - 1 = m + 1 /\ k \in 1 .. m + 2
      BY <1>1, <1>8
    <3>2. /\ g \in Seq(Units) /\ Len(g) = Len(f) - 1
          /\ \A i \in 1 .. Len(f) - 1 : g[i] = IF i < k THEN f[i] ELSE f[i + 1]
      BY <1>1, <1>8, RemovedParts
    <3> HIDE DEF g
    <3> QED BY <3>1, <3>2
  <2> HIDE DEF g
  <2>2. ASSUME NEW i \in 1 .. m + 1
        PROVE  /\ g[i][1] = "head" => i = 1 /\ g[i][2] = c
               /\ g[i][1] = "sum" => i = m + 1 /\ g[i] = <<"sum", c, b>>
               /\ b = << >> => g[i][1] # "one"
    <3>1. CASE i < k
      <4>1. g[i] = f[i] /\ i \in 1 .. m + 2 /\ i # m + 2
        BY <1>1, <2>1, <3>1
      <4> QED BY <1>6, <4>1
    <3>2. CASE ~(i < k)
      <4>1. g[i] = f[i + 1] /\ i + 1 \in 1 .. m + 2 /\ i + 1 # 1 /\ (i + 1 = m + 2 => i = m + 1)
        BY <1>1, <2>1, <3>2
      <4> QED BY <1>6, <4>1
    <3> QED BY <3>1, <3>2
  <2>3. DOMAIN g = 1 .. m + 1 /\ Len(g) # m + 2 /\ Len(g) <= m + 2
    BY <1>1, <2>1
  <2>4. Sent(g, c, b)
    BY <2>1, <2>2, <2>3 DEF Sent, m
  <2> QED BY <2>4 DEF g
<1>9. ASSUME NEW n \in Nat, n <= m + 2 PROVE Sent(Noise(n), c, b)
  <2>1. Noise(n) \in Seq(Units) /\ Len(Noise(n)) = n /\ \A i \in DOMAIN Noise(n) : Noise(n)[i][1] = "noise"
    BY NoiseParts
  <2>2. 1 \notin Heads(Noise(n))
    BY <2>1 DEF Heads
  <2> QED BY <1>9, <2>1, <2>2 DEF Sent, m
<1> QED BY <1>7, <1>8, <1>9 DEF f, m

\* So is one with another LEN.
LEMMA HeadDamaged ==
  ASSUME NEW c \in Types, NEW b \in Bodies, NEW n \in Nat
  PROVE  Sent([Frame(c, b) EXCEPT ![1] = <<"head", c, n>>], c, b)
<1> DEFINE f == Frame(c, b)
           m == Len(b)
           g == [f EXCEPT ![1] = <<"head", c, n>>]
<1>1. /\ f \in Seq(Units) /\ m \in Nat /\ Len(f) = m + 2 /\ f[1] = <<"head", c, m>> /\ Sent(f, c, b)
      /\ f[m + 2] = <<"sum", c, b>>
  BY FrameParts, FrameIsSent
<1> HIDE DEF f, m
<1>2. <<"head", c, n>> \in Units
  BY DEF Units
<1>3. g \in Seq(Units) /\ Len(g) = m + 2 /\ g[1] = <<"head", c, n>> /\ \A i \in 2 .. m + 2 : g[i] = f[i]
  BY <1>1, <1>2
<1> HIDE DEF g
<1>4. ASSUME NEW i \in 1 .. m + 2
      PROVE  /\ g[i][1] = "head" => i = 1 /\ g[i][2] = c
             /\ g[i][1] = "sum" => i = m + 2 /\ g[i] = <<"sum", c, b>>
             /\ b = << >> => g[i][1] # "one"
  <2>1. CASE i = 1
    <3>1. g[i][1] = "head" /\ g[i][2] = c
      BY <1>3, <2>1
    <3> QED BY <2>1, <3>1
  <2>2. CASE i # 1
    <3>1. g[i] = f[i] /\ i \in DOMAIN f
      BY <1>1, <1>3, <2>2
    <3> QED BY <1>1, <3>1 DEF Sent
  <2> QED BY <2>1, <2>2
<1>5. g[Len(g)] = <<"sum", c, b>>
  <2>1. m + 2 \in 2 .. m + 2
    BY <1>1
  <2> QED BY <1>1, <1>3, <2>1
<1>6. Sent(g, c, b)
  BY <1>1, <1>3, <1>4, <1>5 DEF Sent, m
<1> QED BY <1>6 DEF g, f

\* So is one with another unit damaged, the checksum of a STOP apart.
LEMMA UnitDamaged ==
  ASSUME NEW c \in Types, NEW b \in Bodies, NEW k \in DOMAIN Frame(c, b),
         Frame(c, b)[k] # <<"sum", "stop", << >>>>
  PROVE  Sent([Frame(c, b) EXCEPT ![k] = <<"noise">>], c, b)
<1> DEFINE f == Frame(c, b)
           m == Len(b)
           g == [f EXCEPT ![k] = <<"noise">>]
<1>1. /\ f \in Seq(Units) /\ m \in Nat /\ Len(f) = m + 2 /\ Sent(f, c, b)
      /\ f[m + 2] = <<"sum", c, b>> /\ k \in DOMAIN f /\ f[k] # <<"sum", "stop", << >>>>
  BY FrameParts, FrameIsSent
<1> HIDE DEF f, m
<1>2. <<"noise">> \in Units /\ <<"noise">>[1] = "noise"
  BY DEF Units
<1>3. /\ g \in Seq(Units) /\ Len(g) = m + 2 /\ k \in 1 .. m + 2 /\ g[k] = <<"noise">>
      /\ \A i \in 1 .. m + 2 : i # k => g[i] = f[i]
  BY <1>1, <1>2
<1> HIDE DEF g
<1>4. ASSUME NEW i \in 1 .. m + 2
      PROVE  /\ g[i][1] = "head" => i = 1 /\ g[i][2] = c
             /\ g[i][1] = "sum" => i = m + 2 /\ g[i] = <<"sum", c, b>>
             /\ b = << >> => g[i][1] # "one"
  <2>1. CASE i = k
    BY <1>2, <1>3, <2>1
  <2>2. CASE i # k
    <3>1. g[i] = f[i] /\ i \in DOMAIN f
      BY <1>1, <1>3, <2>2
    <3> QED BY <1>1, <3>1 DEF Sent
  <2> QED BY <2>1, <2>2
<1>5. c = "stop" /\ b = << >> => 1 \notin Heads(g)
  <2> SUFFICES ASSUME c = "stop", b = << >> PROVE 1 \notin Heads(g)
    OBVIOUS
  <2>1. m = 0
    BY DEF m
  <2>2. k = 1
    <3>1. k # m + 2
      BY <1>1
    <3> QED BY <1>3, <2>1, <3>1
  <2> QED BY <1>2, <1>3, <2>2 DEF Heads
<1>6. DOMAIN g = 1 .. m + 2 /\ Len(g) <= m + 2
  BY <1>1, <1>3
<1>7. Sent(g, c, b)
  BY <1>1, <1>3, <1>4, <1>5, <1>6 DEF Sent, m
<1> QED BY <1>7 DEF g, f

\* What a unit can become where no TYPE and no checksum of a STOP is damaged.
LEMMA DamageIs ==
  ASSUME line # "garbles", NEW unit, NEW u \in Damage(unit)
  PROVE  \/ unit[1] = "head" /\ \E n \in {1, Far} : u = <<"head", unit[2], n>>
         \/ unit # <<"sum", "stop", << >>>> /\ u = <<"noise">>
<1>1. CASE u \in IF unit[1] = "head" THEN {<<"head", unit[2], n>> : n \in {1, Far}} ELSE {}
  BY <1>1
<1>2. CASE u \in IF unit[1] = "head" /\ line = "garbles" THEN {<<"head", t, unit[3]>> : t \in Retyped(unit[2])} ELSE {}
  BY <1>2
<1>3. CASE u \in IF unit # <<"sum", "stop", << >>>> \/ line = "garbles" THEN {<<"noise">>} ELSE {}
  BY <1>3
<1> QED BY <1>1, <1>2, <1>3, Zenon DEF Damage

Clean == hostRate = rate /\ ~(rate = "new" /\ line = "monitor deaf")
\* What is kept of what arrives.
Kept(w, all) == w = all \/ (mode = "running" /\ Len(all) > Fifo /\ w = SubSeq(all, 1, Fifo))

\* What is sent arrives whole or damaged, or as noise, up to the size of the link's buffer.
LEMMA Transmitting ==
  ASSUME mishaps \in Nat, NEW units, Transmit(units)
  PROVE  \E sent \in {units} \union Damaged(units) :
           /\ Kept(wire', wire \o (IF Clean THEN sent ELSE Noise(Len(sent))))
           /\ mishaps' = mishaps \/ mishaps' = mishaps + 1
           /\ mishaps' = mishaps => sent = units
<1> DEFINE arrived(sent) == wire \o (IF Clean THEN sent ELSE Noise(Len(sent)))
           kept(all) == IF mode = "running" /\ Len(all) > Fifo THEN SubSeq(all, 1, Fifo) ELSE all
<1>1. \/ wire' = kept(arrived(units)) /\ UNCHANGED mishaps
      \/ /\ mishaps < Mishaps /\ mishaps' = mishaps + 1
         /\ \E sent \in Damaged(units) : wire' = kept(arrived(sent))
  BY Zenon DEF Transmit, Clean
<1>2. \A all : wire' = kept(all) => Kept(wire', all)
  BY Zenon DEF Kept
<1> HIDE DEF kept
<1>3. CASE wire' = kept(arrived(units)) /\ UNCHANGED mishaps
  BY <1>2, <1>3
<1>4. CASE /\ mishaps < Mishaps /\ mishaps' = mishaps + 1
           /\ \E sent \in Damaged(units) : wire' = kept(arrived(sent))
  <2>1. PICK sent \in Damaged(units) : wire' = kept(arrived(sent))
    BY <1>4
  <2>2. Kept(wire', arrived(sent))
    BY <1>2, <2>1
  <2>3. mishaps' = mishaps + 1 /\ mishaps' # mishaps
    BY <1>4
  <2> QED BY <2>2, <2>3
<1> QED BY <1>1, <1>3, <1>4

\* So of a frame.
LEMMA Transmitted ==
  ASSUME Shapes, NEW c \in Types, NEW b \in Bodies, Transmit(Frame(c, b))
  PROVE  /\ mishaps' \in Nat
         /\ \E s : /\ Sent(s, c, b) /\ Kept(wire', wire \o s)
                   /\ ~Clean => \A i \in DOMAIN s : s[i] = <<"noise">>
<1> DEFINE f == Frame(c, b)
<1>1. PICK sent \in {f} \union Damaged(f) :
        /\ Kept(wire', wire \o (IF Clean THEN sent ELSE Noise(Len(sent))))
        /\ mishaps' = mishaps \/ mishaps' = mishaps + 1
  BY Transmitting, ShapesParts
<1>2. Sent(sent, c, b)
  <2>1. sent \in {RemoveAt(f, i) : i \in DOMAIN f} => Sent(sent, c, b)
    BY FrameIsSent
  <2>2. ASSUME NEW i \in DOMAIN f, NEW u \in Damage(f[i]) PROVE Sent([f EXCEPT ![i] = u], c, b)
    <3>1. CASE f[i][1] = "head" /\ \E n \in {1, Far} : u = <<"head", f[i][2], n>>
      <4>1. PICK n \in {1, Far} : u = <<"head", f[i][2], n>>
        BY <3>1
      <4>2. i = 1 /\ f[i][2] = c /\ n \in Nat
        BY <3>1, FrameIsSent DEF Sent, Far, MaxLen
      <4>3. Sent([f EXCEPT ![1] = <<"head", c, n>>], c, b)
        BY <4>2, HeadDamaged
      <4> QED BY <4>1, <4>2, <4>3
    <3>2. CASE f[i] # <<"sum", "stop", << >>>> /\ u = <<"noise">>
      BY <3>2, UnitDamaged
    <3>3. line # "garbles"
      BY DEF Shapes
    <3> HIDE DEF f
    <3> QED BY <3>1, <3>2, <3>3, DamageIs, Zenon
  <2>3. CASE sent \in UNION {{[f EXCEPT ![i] = u] : u \in Damage(f[i])} : i \in DOMAIN f}
    <3>1. PICK i \in DOMAIN f : sent \in {[f EXCEPT ![i] = u] : u \in Damage(f[i])}
      BY <2>3
    <3>2. PICK u \in Damage(f[i]) : sent = [f EXCEPT ![i] = u]
      BY <3>1
    <3> HIDE DEF f
    <3> QED BY <2>2, <3>2
  <2> HIDE DEF f
  <2>4. sent = f \/ sent \in {RemoveAt(f, i) : i \in DOMAIN f}
        \/ sent \in UNION {{[f EXCEPT ![i] = u] : u \in Damage(f[i])} : i \in DOMAIN f}
    BY <1>1, Zenon DEF Damaged
  <2>5. Sent(f, c, b)
    BY FrameIsSent DEF f
  <2> QED BY <2>1, <2>3, <2>4, <2>5
<1>3. mishaps' \in Nat
  BY <1>1, ShapesParts
<1>4. CASE Clean
  BY <1>1, <1>2, <1>3, <1>4
<1>5. CASE ~Clean
  <2>1. Len(sent) \in Nat /\ Len(sent) <= Len(b) + 2
    BY <1>2 DEF Sent
  <2>2. Sent(Noise(Len(sent)), c, b)
    BY <2>1, FrameIsSent
  <2>3. \A i \in DOMAIN Noise(Len(sent)) : Noise(Len(sent))[i] = <<"noise">>
    <3>1. DOMAIN Noise(Len(sent)) = 1 .. Len(sent)
      BY <2>1, NoiseParts
    <3> QED BY <2>1, <3>1, NoiseParts
  <2> QED BY <1>1, <1>3, <1>5, <2>2, <2>3
<1> QED BY <1>4, <1>5

\* One behind the other, unit by unit.
LEMMA ConcatParts ==
  ASSUME NEW w \in Seq(Units), NEW s \in Seq(Units)
  PROVE  /\ w \o s \in Seq(Units) /\ Len(w) \in Nat /\ Len(s) \in Nat /\ Len(w \o s) = Len(w) + Len(s)
         /\ \A i \in 1 .. Len(w) : (w \o s)[i] = w[i]
         /\ \A i \in 1 .. Len(s) : (w \o s)[i + Len(w)] = s[i]
         /\ \A i \in Heads(w \o s) : \/ i \in Heads(w) /\ i \in 1 .. Len(w)
                                     \/ \E j \in Heads(s) : j \in 1 .. Len(s) /\ i = j + Len(w)
<1> DEFINE a == w \o s
<1>1. /\ a \in Seq(Units) /\ Len(w) \in Nat /\ Len(s) \in Nat /\ Len(a) = Len(w) + Len(s)
      /\ \A i \in 1 .. Len(w) + Len(s) : a[i] = IF i <= Len(w) THEN w[i] ELSE s[i - Len(w)]
  OBVIOUS
<1> HIDE DEF a
<1>2. \A i \in 1 .. Len(w) : a[i] = w[i]
  BY <1>1
<1>3. ASSUME NEW i \in 1 .. Len(s) PROVE a[i + Len(w)] = s[i]
  <2>1. i + Len(w) \in 1 .. Len(w) + Len(s) /\ ~(i + Len(w) <= Len(w)) /\ (i + Len(w)) - Len(w) = i
    BY <1>1
  <2> QED BY <1>1, <2>1
<1>4. ASSUME NEW i \in Heads(a)
      PROVE  \/ i \in Heads(w) /\ i \in 1 .. Len(w)
             \/ \E j \in Heads(s) : j \in 1 .. Len(s) /\ i = j + Len(w)
  <2>1. i \in 1 .. Len(w) + Len(s) /\ a[i][1] = "head"
    BY <1>1 DEF Heads
  <2>2. CASE i <= Len(w)
    <3>1. i \in 1 .. Len(w) /\ a[i] = w[i]
      BY <1>1, <2>1, <2>2
    <3> QED BY <2>1, <3>1 DEF Heads
  <2>3. CASE ~(i <= Len(w))
    <3>1. i - Len(w) \in 1 .. Len(s) /\ a[i] = s[i - Len(w)] /\ i = (i - Len(w)) + Len(w)
      BY <1>1, <2>1, <2>3
    <3>2. i - Len(w) \in Heads(s)
      BY <2>1, <3>1 DEF Heads
    <3> QED BY <3>1, <3>2
  <2> QED BY <2>2, <2>3
<1> QED BY <1>1, <1>2, <1>3, <1>4 DEF a

\* What is kept is the beginning.
LEMMA KeptParts ==
  ASSUME NEW all \in Seq(Units), NEW w, Kept(w, all)
  PROVE  /\ w \in Seq(Units) /\ Len(w) \in Nat /\ Len(all) \in Nat /\ Len(w) <= Len(all)
         /\ \A i \in 1 .. Len(w) : w[i] = all[i] /\ i \in 1 .. Len(all)
         /\ \A i \in Heads(w) : i \in Heads(all) /\ i \in 1 .. Len(w)
         /\ mode # "running" => w = all
         /\ Len(w) = Len(all) => w = all
         /\ all # << >> => w # << >>
<1>1. Fifo \in Nat \ {0} /\ Len(all) \in Nat
  BY SizeAssumption
<1>2. CASE w = all
  BY <1>1, <1>2 DEF Heads
<1>3. CASE mode = "running" /\ Len(all) > Fifo /\ w = SubSeq(all, 1, Fifo)
  <2>1. /\ w \in Seq(Units) /\ Len(w) = Fifo /\ \A i \in 1 .. Len(w) : w[i] = all[i] /\ i \in 1 .. Len(all)
    BY <1>1, <1>3
  <2>2. Len(w) < Len(all) /\ w # << >>
    BY <1>1, <1>3, <2>1
  <2>3. \A i \in Heads(w) : i \in Heads(all) /\ i \in 1 .. Len(w)
    BY <2>1 DEF Heads
  <2> QED BY <1>1, <1>3, <2>1, <2>2, <2>3
<1> QED BY <1>2, <1>3 DEF Kept

\* The frames that begin on the wire when one has been sent.
LEMMA SentHeads ==
  ASSUME NEW w \in Seq(Units), NEW c, NEW b, NEW s, Sent(s, c, b), NEW v, Kept(v, w \o s)
  PROVE  \A i \in Heads(v) :
           \/ i \in Heads(w) /\ i \in 1 .. Len(w) /\ v[i] = w[i]
           \/ i = Len(w) + 1 /\ v[i][2] = c /\ 1 \in Heads(s) /\ v[i] = s[1]
<1> SUFFICES ASSUME NEW i \in Heads(v)
             PROVE  \/ i \in Heads(w) /\ i \in 1 .. Len(w) /\ v[i] = w[i]
                    \/ i = Len(w) + 1 /\ v[i][2] = c /\ 1 \in Heads(s) /\ v[i] = s[1]
  OBVIOUS
<1>1. s \in Seq(Units) /\ w \o s \in Seq(Units) /\ Len(w) \in Nat
  BY ConcatParts DEF Sent
<1>2. i \in Heads(w \o s) /\ v[i] = (w \o s)[i]
  <2> DEFINE a == w \o s
  <2>1. a \in Seq(Units) /\ Kept(v, a)
    BY <1>1
  <2> HIDE DEF a
  <2>2. i \in Heads(a) /\ v[i] = a[i]
    BY <2>1, KeptParts
  <2> QED BY <2>2 DEF a
<1>3. CASE i \in Heads(w) /\ i \in 1 .. Len(w)
  BY <1>1, <1>2, <1>3, ConcatParts
<1>4. ASSUME NEW j \in Heads(s), j \in 1 .. Len(s), i = j + Len(w)
      PROVE  i = Len(w) + 1 /\ v[i][2] = c /\ 1 \in Heads(s) /\ v[i] = s[1]
  <2>1. s[j][1] = "head" /\ j \in DOMAIN s
    BY DEF Heads
  <2>2. j = 1 /\ s[1][2] = c
    BY <2>1 DEF Sent
  <2>3. (w \o s)[j + Len(w)] = s[j]
    BY <1>1, <1>4, ConcatParts
  <2>4. i = Len(w) + 1
    BY <1>1, <1>4, <2>2
  <2> QED BY <1>2, <1>4, <2>2, <2>3, <2>4
<1> QED BY <1>1, <1>2, <1>3, <1>4, ConcatParts

\* A command, sent behind a STOP at most.
LEMMA PosedSent ==
  ASSUME NEW w \in Seq(Units), StopLast(w), NEW c \in Commands, NEW b \in Bodies, NEW s, Sent(s, c, b)
  PROVE  Posed(w \o s, c, b)
<1> DEFINE a == w \o s
           m == Len(w)
<1>1. /\ s \in Seq(Units) /\ a \in Seq(Units) /\ m \in Nat /\ Len(s) \in Nat /\ Len(a) = m + Len(s)
      /\ \A i \in 1 .. m : a[i] = w[i]
      /\ \A i \in 1 .. Len(s) : a[i + m] = s[i]
  BY ConcatParts DEF Sent
<1>2. \A i \in Heads(a) : \/ i \in Heads(w) /\ i \in 1 .. m /\ a[i] = w[i]
                          \/ i = m + 1 /\ a[i][2] = c /\ 1 \in Heads(s) /\ a[i] = s[1]
  <2>1. Kept(a, a)
    BY DEF Kept
  <2>2. PICK v : v = w \o s
    OBVIOUS
  <2>3. Kept(v, w \o s)
    BY <2>2 DEF Kept
  <2>4. \A i \in Heads(v) :
           \/ i \in Heads(w) /\ i \in 1 .. Len(w) /\ v[i] = w[i]
           \/ i = Len(w) + 1 /\ v[i][2] = c /\ 1 \in Heads(s) /\ v[i] = s[1]
    BY <2>3, SentHeads
  <2> QED BY <2>2, <2>4
<1>3. c # "stop" /\ Len(b) \in Nat /\ Len(s) <= Len(b) + 2
  BY BodyParts DEF Commands, Sent
<1> HIDE DEF a, m
<1>4. \A i \in Heads(w) : w[i][2] = "stop" /\ (i = m \/ (i = m - 1 /\ w[i + 1] = StopSum))
  BY DEF StopLast, m
<1>5. \A i \in Heads(a) : \/ a[i][2] = "stop" /\ i \in Heads(w) /\ i \in 1 .. m /\ a[i] = w[i]
                          \/ a[i][2] = c /\ i = m + 1
  BY <1>2, <1>4
<1>6. ASSUME NEW i \in Heads(a), NEW j \in Heads(a), a[i][2] = a[j][2] PROVE i = j
  <2>1. CASE i = m + 1 /\ j = m + 1
    BY <2>1
  <2>2. CASE i \in Heads(w) /\ j \in Heads(w) /\ i \in 1 .. m /\ j \in 1 .. m
    <3>1. w[m][1] = "head" => w[m] # StopSum
      BY DEF StopSum
    <3>2. w[i][1] = "head" /\ w[j][1] = "head"
      BY <2>2 DEF Heads
    <3>3. \/ i = m /\ j = m
          \/ i = m - 1 /\ j = m - 1
          \/ i = m - 1 /\ w[i + 1] = StopSum /\ j = m
          \/ i = m /\ j = m - 1 /\ w[j + 1] = StopSum
      BY <1>4, <2>2
    <3>4. (m - 1) + 1 = m
      BY <1>1
    <3> QED BY <3>1, <3>2, <3>3, <3>4
  <2> QED BY <1>3, <1>5, <1>6, <2>1, <2>2
<1>7. ASSUME NEW i \in Heads(a), NEW j \in Heads(a), a[i][2] = "stop", a[j][2] = c
      PROVE  i < j /\ (j <= i + a[i][3] + 1 \/ (a[i][3] = 0 /\ a[i + 1] = StopSum))
  <2>1. i \in Heads(w) /\ i \in 1 .. m /\ a[i] = w[i] /\ j = m + 1
    BY <1>3, <1>5, <1>7
  <2>2. PICK n \in Nat : n = a[i][3]
    <3>1. w[i] \in Units /\ w[i][1] = "head"
      BY <1>1, <2>1 DEF Heads, m
    <3> QED BY <2>1, <3>1, UnitParts
  <2>3. i < j
    BY <1>1, <2>1
  <2>4. CASE i = m
    <3>1. j <= i + n + 1
      BY <1>1, <2>1, <2>2, <2>4
    <3> QED BY <2>2, <2>3, <3>1
  <2>5. CASE i = m - 1 /\ w[i + 1] = StopSum
    <3>1. i + 1 \in 1 .. m
      BY <1>1, <2>1, <2>5
    <3>2. a[i + 1] = StopSum
      BY <1>1, <2>5, <3>1
    <3>3. n = 0 \/ j <= i + n + 1
      <4>1. \A p, k \in Nat : k = 0 \/ p + 1 <= (p - 1) + k + 1
        OBVIOUS
      <4>2. m \in Nat
        BY <1>1
      <4> QED BY <2>1, <2>5, <4>1, <4>2
    <3> QED BY <2>2, <2>3, <3>2, <3>3
  <2> QED BY <1>4, <2>1, <2>4, <2>5
<1>8. ASSUME NEW i \in Heads(a), a[i][2] = c
      PROVE  /\ Len(a) <= i + Len(b) + 1
             /\ \A j \in i + 1 .. Len(a) : a[j][1] = "sum" => a[j] = <<"sum", c, b>>
  <2>1. i = m + 1
    BY <1>3, <1>5, <1>8
  <2>2. Len(a) <= i + Len(b) + 1
    BY <1>1, <1>3, <2>1
  <2>3. ASSUME NEW j \in i + 1 .. Len(a), a[j][1] = "sum" PROVE a[j] = <<"sum", c, b>>
    <3>1. j - m \in 1 .. Len(s) /\ (j - m) + m = j
      BY <1>1, <2>1
    <3>2. a[j] = s[j - m] /\ j - m \in DOMAIN s
      <4>1. a[(j - m) + m] = s[j - m]
        BY <1>1, <3>1
      <4> QED BY <1>1, <3>1, <4>1
    <3> QED BY <2>3, <3>2 DEF Sent
  <2> QED BY <2>2, <2>3
<1>9. \A i \in Heads(a) : a[i][2] \in {c, "stop"}
  BY <1>5
<1>10. Posed(a, c, b)
  BY <1>6, <1>7, <1>8, <1>9 DEF Posed
<1> QED BY <1>10 DEF a

\* A STOP, sent where no frame has begun.
LEMMA StopSent ==
  ASSUME NEW w \in Seq(Units), Headless(w), NEW s, Sent(s, "stop", << >>), NEW v, Kept(v, w \o s)
  PROVE  v \in Seq(Units) /\ StopLast(v)
<1>1. /\ s \in Seq(Units) /\ w \o s \in Seq(Units) /\ Len(w) \in Nat /\ Len(s) \in Nat
      /\ Len(w \o s) = Len(w) + Len(s)
      /\ \A i \in 1 .. Len(s) : (w \o s)[i + Len(w)] = s[i]
  BY ConcatParts DEF Sent
<1>2. v \in Seq(Units) /\ Len(v) \in Nat /\ Len(v) <= Len(w) + Len(s) /\ \A i \in 1 .. Len(v) : v[i] = (w \o s)[i]
  <2>1. /\ v \in Seq(Units) /\ Len(v) \in Nat /\ Len(v) <= Len(w \o s)
        /\ \A i \in 1 .. Len(v) : v[i] = (w \o s)[i] /\ i \in 1 .. Len(w \o s)
    BY <1>1, KeptParts
  <2>2. Len(v) <= Len(w) + Len(s)
    BY <1>1, <2>1
  <2> QED BY <2>1, <2>2
<1>3. \A i \in Heads(v) : i \in 1 .. Len(v)
  BY <1>1, KeptParts
<1>4. Len(s) <= 2
  <2>1. Len(<< >>) = 0
    OBVIOUS
  <2> QED BY <1>1, <2>1 DEF Sent
<1>5. SUFFICES ASSUME NEW i \in Heads(v)
               PROVE  v[i][2] = "stop" /\ (i = Len(v) \/ (i = Len(v) - 1 /\ v[i + 1] = StopSum))
  BY <1>2 DEF StopLast
<1>6. i = Len(w) + 1 /\ v[i][2] = "stop" /\ 1 \in Heads(s)
  <2>1. \/ i \in Heads(w) /\ i \in 1 .. Len(w) /\ v[i] = w[i]
        \/ i = Len(w) + 1 /\ v[i][2] = "stop" /\ 1 \in Heads(s) /\ v[i] = s[1]
    BY <1>5, SentHeads
  <2>2. i \notin Heads(w)
    BY DEF Headless
  <2> QED BY <2>1, <2>2
<1>7. i = Len(v) \/ (i = Len(v) - 1 /\ Len(s) = 2 /\ i + 1 = 2 + Len(w))
  <2>1. i <= Len(v) /\ Len(v) <= Len(w) + 2 /\ Len(v) <= Len(w) + Len(s)
    BY <1>1, <1>2, <1>3, <1>4
  <2>2. CASE i = Len(v)
    BY <2>2
  <2>3. CASE i # Len(v)
    <3>1. Len(v) = Len(w) + 2
      BY <1>1, <1>2, <1>6, <2>1, <2>3
    <3>2. i = Len(v) - 1 /\ i + 1 = 2 + Len(w)
      BY <1>1, <1>6, <3>1
    <3>3. Len(s) = 2
      <4>1. Len(w) \in Nat /\ Len(s) \in Nat
        BY <1>1
      <4>2. Len(w) + 2 <= Len(w) + Len(s) /\ Len(s) <= 2
        BY <1>4, <2>1, <3>1
      <4>3. \A x, y \in Nat : x + 2 <= x + y /\ y <= 2 => y = 2
        OBVIOUS
      <4> QED BY <4>1, <4>2, <4>3, Zenon
    <3> QED BY <3>2, <3>3
  <2> QED BY <2>2, <2>3
<1>8. CASE i = Len(v) - 1 /\ Len(s) = 2 /\ i + 1 = 2 + Len(w)
  <2>1. v[i + 1] = (w \o s)[i + 1]
    <3>1. i + 1 \in 1 .. Len(v)
      BY <1>2, <1>3, <1>8
    <3> QED BY <1>2, <3>1
  <2>2. (w \o s)[2 + Len(w)] = s[2]
    BY <1>1, <1>8
  <2>3. s[2] = <<"sum", "stop", << >>>>
    <3>1. Len(<< >>) + 2 = 2
      OBVIOUS
    <3> QED BY <1>6, <1>8, <3>1 DEF Sent
  <2>4. v[i + 1] = StopSum
    BY <1>8, <2>1, <2>2, <2>3 DEF StopSum
  <2> QED BY <1>6, <1>8, <2>4
<1> QED BY <1>6, <1>7, <1>8

-----------------------------------------------------------------------------
(* The host sends.                                                           *)

\* What the host sends is a frame.
LEMMA PayloadBody ==
  ASSUME slice \in Cells, NEW c \in Commands
  PROVE  Payload(c) \in Bodies /\ << >> \in Bodies /\ c \in Types /\ "stop" \in Types /\ "ping" \in Types
<1>1. 1 \in Cells /\ Patch \in 0 .. Junk /\ Junk \in 0 .. Junk /\ slice \in 0 .. Junk
  BY SizeAssumption DEF Cells, Patch, Junk
<1>2. \A k \in {"header", "lz4"}, x \in Cells, y \in 0 .. Junk : <<<<k, x>>, <<"byte", y>>>> \in Bodies
  <2> SUFFICES ASSUME NEW k \in {"header", "lz4"}, NEW x \in Cells, NEW y \in 0 .. Junk
               PROVE  <<<<k, x>>, <<"byte", y>>>> \in Bodies
    OBVIOUS
  <2>1. /\ <<k, x, y>> \in {"header", "lz4"} \X Cells \X (0 .. Junk)
        /\ <<k, x, y>>[1] = k /\ <<k, x, y>>[2] = x /\ <<k, x, y>>[3] = y
    OBVIOUS
  <2>2. <<<<<<k, x, y>>[1], <<k, x, y>>[2]>>, <<"byte", <<k, x, y>>[3]>>>> \in Bodies
    BY <2>1, Zenon DEF Bodies
  <2> QED BY <2>1, <2>2
<1>3. << >> \in Bodies
  BY DEF Bodies
<1>4. Payload(c) \in Bodies
  <2>1. CASE c = "slice"
    <3>1. Payload(c) = <<<<"lz4", slice>>, <<"byte", slice>>>>
      BY <2>1 DEF Payload
    <3> QED BY <1>1, <1>2, <3>1
  <2>2. CASE c = "write"
    <3>1. Payload(c) = <<<<"header", 1>>, <<"byte", Patch>>>>
      BY <2>2 DEF Payload
    <3> QED BY <1>1, <1>2, <3>1
  <2>3. CASE c = "run"
    <3>1. Payload(c) = <<<<"header", 1>>, <<"byte", Junk>>>>
      BY <2>3 DEF Payload
    <3> QED BY <1>1, <1>2, <3>1
  <2>4. CASE c \notin {"slice", "write", "run"}
    BY <1>3, <2>4 DEF Payload
  <2> QED BY <2>1, <2>2, <2>3, <2>4
<1>5. c \in Types /\ "stop" \in Types /\ "ping" \in Types
  BY DEF Types, Commands
<1> QED BY <1>3, <1>4, <1>5

\* A command can be told from what is left of a STOP, wherever that stopped.
LEMMA CommandKeeps ==
  ASSUME MonitorInv, NEW c \in Commands, Command(c)
  PROVE  MonitorInv'
<1>1. Shapes /\ Phase /\ Rated /\ Resynced /\ Stocked
  BY DEF MonitorInv
<1>2. /\ host = "idle" /\ (c = "baud" => hostRate = "old") /\ host' = c /\ loaded' = (loaded /\ c \notin {"write", "slice"})
      /\ slice' = (IF c = "write" THEN 1 ELSE slice) /\ Transmit(Frame(c, Payload(c)))
      /\ up' = up /\ rate' = rate /\ mode' = mode /\ cached' = cached
      /\ ctx' = ctx /\ memWritten' = memWritten /\ lz' = lz /\ memory' = memory /\ hostRate' = hostRate
      /\ line' = line /\ resyncs' = resyncs /\ secondLost' = secondLost
  BY Zenon DEF Command, faults, monitor, target
<1>3. mode = "halted" /\ up = << >> /\ StopLast(wire)
  BY <1>1, <1>2 DEF Phase, Waits
<1>4. /\ slice \in Cells /\ loaded \in BOOLEAN /\ wire \in Seq(Units)
      /\ Payload(c) \in Bodies /\ c \in Types
  <2>1. slice \in Cells /\ loaded \in BOOLEAN /\ wire \in Seq(Units)
    BY <1>1, ShapesParts
  <2> QED BY <2>1, PayloadBody
<1>5. PICK s : Sent(s, c, Payload(c)) /\ Kept(wire', wire \o s)
  BY <1>1, <1>2, <1>4, Transmitted
<1>6. mishaps' \in Nat
  BY <1>1, <1>2, <1>4, Transmitted
<1>7. wire' = wire \o s /\ wire' \in Seq(Units)
  <2>1. s \in Seq(Units) /\ wire \o s \in Seq(Units)
    BY <1>4, <1>5, ConcatParts DEF Sent
  <2> QED BY <1>3, <1>5, <2>1, KeptParts
<1>8. \A i \in Heads(wire') : \/ i \in Heads(wire) /\ wire'[i] = wire[i] /\ wire'[i][2] = "stop"
                              \/ wire'[i][2] = c
  <2>1. \A i \in Heads(wire') : \/ i \in Heads(wire) /\ wire'[i] = wire[i]
                                \/ wire'[i][2] = c
    BY <1>4, <1>5, SentHeads
  <2> QED BY <1>3, <2>1 DEF StopLast
<1>9. Phase'
  <2>1. Payload(host)' = Payload(c)
    BY <1>2 DEF Payload
  <2>2. Posed(wire', host', Payload(host)')
    BY <1>2, <1>3, <1>4, <1>5, <1>7, <2>1, PosedSent
  <2>3. Asking'
    BY <1>2, <1>3, <2>2 DEF Asking, Waits
  <2> QED BY <1>2, <2>3 DEF Phase, Commands
<1>10. Rated'
  <2>1. host' \notin {"try", "confirm"}
    BY <1>2 DEF Commands
  <2> QED BY <1>1, <1>2, <1>3, <2>1 DEF Rated
<1>11. Resynced'
  <2>1. resyncs = 0
    BY <1>1, <1>2 DEF Resynced
  <2> QED BY <1>2, <2>1 DEF Resynced
<1>12. Stocked'
  <2>1. loaded' => loaded /\ c \notin {"write", "slice"}
    BY <1>2
  <2>2. c = "write" => slice' = 1
    BY <1>2
  <2>3. slice' # 1 => slice # 1
    BY <1>2
  <2>4. \A i \in Heads(wire') : /\ wire'[i][2] \in {"write", "slice"} => ~loaded'
                                /\ wire'[i][2] = "write" => slice' = 1
    BY <1>8, <2>1, <2>2
  <2>5. host' \in {"write", "slice"} => ~loaded'
    BY <1>2, <2>1
  <2>6. up' # <<"ACK">>
    BY <1>2, <1>3
  <2>7. lz'.out = lz'.consumed /\ (lz'.active /\ slice' # 1 => \A d \in 1 .. lz'.out : memory'[d] = d)
    BY <1>1, <1>2, <2>3 DEF Stocked
  <2>8. loaded' => \A d \in Cells : memory'[d] = d
    BY <1>1, <1>2, <2>1 DEF Stocked
  <2> QED BY <1>2, <2>2, <2>4, <2>5, <2>6, <2>7, <2>8 DEF Stocked, Cells
<1>13. Shapes'
  <2>1. slice' \in Cells
    BY <1>2, <1>4, SizeAssumption DEF Cells
  <2>2. loaded' \in BOOLEAN
    BY <1>2, <1>4
  <2>3. host' \in Commands \union {"idle", "running", "stopping", "try", "confirm", "lost"}
    BY <1>2
  <2> QED BY <1>1, <1>2, <1>6, <1>7, <2>1, <2>2, <2>3, ShapesParts, ShapesMade
<1> QED BY <1>9, <1>10, <1>11, <1>12, <1>13 DEF MonitorInv

\* What is sent that stores nothing.
LEMMA StockedSent ==
  ASSUME Shapes, Stocked, NEW c, c \notin {"write", "slice"},
         \A i \in Heads(wire') : (i \in Heads(wire) /\ wire'[i] = wire[i]) \/ wire'[i][2] = c,
         lz' = lz, memory' = memory, loaded' = loaded, slice' = slice, host' \notin {"write", "slice"}
  PROVE  Stocked'
<1>1. \A i \in Heads(wire') : /\ wire'[i][2] \in {"write", "slice"} => ~loaded
                              /\ wire'[i][2] = "write" => slice = 1
  BY DEF Stocked
<1> QED BY <1>1 DEF Stocked, Cells

\* The host asks a running target to stop.
LEMMA AskStopKeeps ==
  ASSUME MonitorInv, AskStop
  PROVE  MonitorInv'
<1>1. Shapes /\ Phase /\ Rated /\ Resynced /\ Stocked
  BY DEF MonitorInv
<1>2. /\ host = "running" /\ up = << >> /\ host' = "stopping" /\ Transmit(Frame("stop", << >>))
      /\ slice' = slice /\ loaded' = loaded
      /\ up' = up /\ rate' = rate /\ mode' = mode /\ cached' = cached
      /\ ctx' = ctx /\ memWritten' = memWritten /\ lz' = lz /\ memory' = memory /\ hostRate' = hostRate
      /\ line' = line /\ resyncs' = resyncs /\ secondLost' = secondLost
  BY Zenon DEF AskStop, faults, monitor, target
<1>3. Headless(wire) /\ mode \in {"running", "halted"}
  BY <1>1, <1>2 DEF Phase, Stopping
<1>4. wire \in Seq(Units) /\ << >> \in Bodies /\ "stop" \in Types
  BY <1>1, ShapesParts DEF Bodies, Types
<1>5. PICK s : Sent(s, "stop", << >>) /\ Kept(wire', wire \o s)
  BY <1>1, <1>2, <1>4, Transmitted
<1>6. mishaps' \in Nat
  BY <1>1, <1>2, <1>4, Transmitted
<1>7. wire' \in Seq(Units) /\ StopLast(wire')
  BY <1>3, <1>4, <1>5, StopSent
<1>8. Phase'
  <2>1. Stopping'
    BY <1>2, <1>3, <1>7 DEF Stopping, Waits
  <2> QED BY <1>2, <2>1 DEF Phase, Commands
<1>9. Rated'
  BY <1>1, <1>2 DEF Rated
<1>10. Resynced'
  <2>1. resyncs = 0
    BY <1>1, <1>2 DEF Resynced
  <2> QED BY <1>2, <2>1 DEF Resynced
<1>11. Stocked'
  <2>1. \A i \in Heads(wire') : wire'[i][2] = "stop"
    BY <1>7 DEF StopLast
  <2> QED BY <1>1, <1>2, <2>1, StockedSent
<1>12. Shapes'
  BY <1>1, <1>2, <1>6, <1>7, ShapesParts, ShapesMade
<1> QED BY <1>8, <1>9, <1>10, <1>11, <1>12 DEF MonitorInv

\* A unit is of the one or of the other.
LEMMA ConcatCases ==
  ASSUME NEW w \in Seq(Units), NEW s \in Seq(Units)
  PROVE  \A i \in DOMAIN (w \o s) : \/ i \in 1 .. Len(w) /\ i \in DOMAIN w /\ (w \o s)[i] = w[i]
                                    \/ \E j \in DOMAIN s : i = j + Len(w) /\ (w \o s)[i] = s[j]
<1>1. /\ w \o s \in Seq(Units) /\ Len(w) \in Nat /\ Len(s) \in Nat /\ Len(w \o s) = Len(w) + Len(s)
      /\ \A i \in 1 .. Len(w) : (w \o s)[i] = w[i]
      /\ \A i \in 1 .. Len(s) : (w \o s)[i + Len(w)] = s[i]
  BY ConcatParts
<1> DEFINE a == w \o s
<1> SUFFICES ASSUME NEW i \in DOMAIN a
             PROVE  \/ i \in 1 .. Len(w) /\ i \in DOMAIN w /\ a[i] = w[i]
                    \/ \E j \in DOMAIN s : i = j + Len(w) /\ a[i] = s[j]
  OBVIOUS
<1> HIDE DEF a
<1>2. a \in Seq(Units) /\ Len(a) = Len(w) + Len(s) /\ (\A k \in 1 .. Len(w) : a[k] = w[k])
      /\ \A k \in 1 .. Len(s) : a[k + Len(w)] = s[k]
  BY <1>1 DEF a
<1>3. i \in 1 .. Len(w) + Len(s)
  BY <1>1, <1>2
<1>4. CASE i <= Len(w)
  BY <1>1, <1>2, <1>3, <1>4
<1>5. CASE ~(i <= Len(w))
  <2>1. i - Len(w) \in 1 .. Len(s) /\ i = (i - Len(w)) + Len(w)
    BY <1>1, <1>3, <1>5
  <2>2. a[(i - Len(w)) + Len(w)] = s[i - Len(w)] /\ i - Len(w) \in DOMAIN s
    BY <1>2, <2>1
  <2> QED BY <2>1, <2>2
<1> QED BY <1>4, <1>5

\* No PING can be taken for the one that confirms.
LEMMA TryPingKeeps ==
  ASSUME MonitorInv, TryPing
  PROVE  MonitorInv'
<1>1. Shapes /\ Phase /\ Rated /\ Resynced /\ Stocked
  BY DEF MonitorInv
<1>2. /\ host = "try" /\ up = << >> /\ mode \in {"window1", "window2"} /\ wire \in {<< >>, <<Head(Ping)>>}
      /\ Transmit(Frame("ping", << >>)) /\ host' = host /\ slice' = slice /\ loaded' = loaded
      /\ up' = up /\ rate' = rate /\ mode' = mode /\ cached' = cached
      /\ ctx' = ctx /\ memWritten' = memWritten /\ lz' = lz /\ memory' = memory /\ hostRate' = hostRate
      /\ line' = line /\ resyncs' = resyncs /\ secondLost' = secondLost
  BY Zenon DEF TryPing, faults, monitor, target, hosting, Ping
<1>3. wire \in Seq(Units) /\ << >> \in Bodies /\ "ping" \in Types
  BY <1>1, ShapesParts DEF Bodies, Types, Commands
<1>4. PICK s : Sent(s, "ping", << >>) /\ Kept(wire', wire \o s) /\ (~Clean => \A i \in DOMAIN s : s[i] = <<"noise">>)
  BY <1>1, <1>2, <1>3, Transmitted
<1>5. mishaps' \in Nat
  BY <1>1, <1>2, <1>3, Transmitted
<1>6. /\ s \in Seq(Units) /\ wire' = wire \o s /\ wire' \in Seq(Units) /\ Len(wire) \in Nat /\ Len(s) \in Nat
      /\ Len(wire') = Len(wire) + Len(s)
  <2>1. s \in Seq(Units) /\ wire \o s \in Seq(Units) /\ Len(wire) \in Nat /\ Len(s) \in Nat
        /\ Len(wire \o s) = Len(wire) + Len(s)
    BY <1>3, <1>4, ConcatParts DEF Sent
  <2>2. mode # "running"
    BY <1>2
  <2>3. wire' = wire \o s
    BY <1>4, <2>1, <2>2, KeptParts
  <2> QED BY <2>1, <2>3
<1>7. rate = "new" /\ resyncs = 0
  BY <1>2, InWindow
<1>8. /\ \A i \in DOMAIN wire : wire[i][1] # "one"
      /\ mode = "window1" /\ line = "monitor deaf" => \A i \in DOMAIN wire : wire[i][1] = "noise"
  <2>1. \/ /\ mode = "window1"
           /\ \A i \in DOMAIN wire : /\ wire[i][1] # "one" /\ (wire[i] = PingSum => i = Len(wire))
                                     /\ line = "monitor deaf" => wire[i][1] = "noise"
        \/ mode = "window2" /\ \A i \in DOMAIN wire : wire[i][1] # "one"
        \/ mode = "window2" /\ wire = << >>
    BY <1>2, InWindow
  <2>2. wire = << >> => DOMAIN wire = {}
    OBVIOUS
  <2> QED BY <2>1, <2>2
<1>9. \A i \in DOMAIN wire : wire[i] # PingSum
  <2>1. Head(Ping) = PingHead
    BY WindowFrames
  <2>2. PingHead # PingSum
    <3>1. PingHead[1] = "head" /\ PingSum[1] = "sum"
      BY DEF PingHead, PingSum
    <3> QED BY <3>1
  <2> QED BY <1>2, <2>1, <2>2
<1>10. \A i \in DOMAIN wire' : \/ i \in DOMAIN wire /\ wire'[i] = wire[i]
                               \/ \E j \in DOMAIN s : i = j + Len(wire) /\ wire'[i] = s[j]
  BY <1>3, <1>6, ConcatCases
<1>11. \A j \in DOMAIN s : s[j][1] # "one" /\ (s[j] = PingSum => j = Len(s))
  <2>1. PingSum[1] = "sum"
    BY DEF PingSum
  <2> QED BY <1>4, <2>1 DEF Sent
<1>12. ASSUME NEW i \in DOMAIN wire'
       PROVE  /\ wire'[i][1] # "one" /\ (wire'[i] = PingSum => i = Len(wire'))
              /\ mode = "window1" /\ line = "monitor deaf" => wire'[i][1] = "noise"
  <2>1. CASE i \in DOMAIN wire /\ wire'[i] = wire[i]
    BY <1>8, <1>9, <2>1
  <2>2. ASSUME NEW j \in DOMAIN s, i = j + Len(wire), wire'[i] = s[j]
        PROVE  /\ wire'[i][1] # "one" /\ (wire'[i] = PingSum => i = Len(wire'))
               /\ mode = "window1" /\ line = "monitor deaf" => wire'[i][1] = "noise"
    <3>1. s[j][1] # "one" /\ (s[j] = PingSum => j = Len(s))
      BY <1>11
    <3>2. wire'[i] = PingSum => i = Len(wire')
      BY <1>6, <2>2, <3>1
    <3>3. line = "monitor deaf" => s[j] = <<"noise">>
      <4>1. line = "monitor deaf" => ~Clean
        BY <1>7 DEF Clean
      <4> QED BY <1>4, <2>2, <4>1, Zenon
    <3>4. line = "monitor deaf" => wire'[i][1] = "noise"
      <4>1. <<"noise">>[1] = "noise"
        OBVIOUS
      <4> QED BY <2>2, <3>3, <4>1, Zenon
    <3>5. wire'[i][1] # "one"
      BY <2>2, <3>1, Zenon
    <3> QED BY <3>2, <3>4, <3>5, Zenon
  <2> QED BY <1>10, <2>1, <2>2
<1>13. Phase'
  <2>1. Trying'
    <3>1. CASE mode = "window1"
      <4>1. \A i \in DOMAIN wire' : /\ wire'[i][1] # "one" /\ (wire'[i] = PingSum => i = Len(wire'))
                                    /\ line' = "monitor deaf" => wire'[i][1] = "noise"
        BY <1>2, <1>12, <3>1
      <4> QED BY <1>2, <3>1, <4>1 DEF Trying, Waits
    <3>2. CASE mode = "window2"
      BY <1>2, <1>12, <3>2 DEF Trying, Waits
    <3> QED BY <1>2, <3>1, <3>2
  <2> QED BY <1>2, <2>1 DEF Phase, Commands
<1>14. Rated'
  BY <1>1, <1>2, RatedKept
<1>15. Resynced'
  <2>1. resyncs' = 0
    BY <1>2, InWindow
  <2> QED BY <2>1 DEF Resynced
<1>16. Stocked'
  <2>1. \A i \in Heads(wire') : (i \in Heads(wire) /\ wire'[i] = wire[i]) \/ wire'[i][2] = "ping"
    BY <1>3, <1>4, SentHeads
  <2> QED BY <1>1, <1>2, <2>1, StockedSent
<1>17. Shapes'
  BY <1>1, <1>2, <1>5, <1>6, ShapesParts, ShapesMade
<1> QED BY <1>13, <1>14, <1>15, <1>16, <1>17 DEF MonitorInv

-----------------------------------------------------------------------------
(* The host hears.                                                           *)

\* The first answer, and those behind it.
LEMMA OneHeard ==
  ASSUME up \in Seq(Replies), up # << >>
  PROVE  /\ Head(up) \in Replies /\ Tail(up) \in Seq(Replies)
         /\ \A r : up = <<r>> => Head(up) = r /\ Tail(up) = << >>
         /\ up = <<"ACK", "STOPPED">> => Head(up) = "ACK" /\ Tail(up) = <<"STOPPED">>
         /\ Head(up) = up[1] /\ 1 \in DOMAIN up
         /\ \A p \in DOMAIN Tail(up) : p + 1 \in DOMAIN up /\ Tail(up)[p] = up[p + 1] /\ (p + 1 = Len(up) => p = Len(Tail(up)))
         /\ \A p \in DOMAIN up : p = 1 \/ (p - 1 \in DOMAIN Tail(up) /\ Tail(up)[p - 1] = up[p])
         /\ Len(up) < 2 => Tail(up) = << >>
<1>1. /\ Head(up) \in Replies /\ Tail(up) \in Seq(Replies) /\ Head(up) = up[1] /\ 1 \in DOMAIN up
      /\ Len(up) \in Nat \ {0} /\ Len(Tail(up)) = Len(up) - 1
      /\ \A p \in 1 .. Len(up) - 1 : Tail(up)[p] = up[p + 1]
  OBVIOUS
<1>2. \A r : up = <<r>> => Head(up) = r /\ Tail(up) = << >>
  OBVIOUS
<1>3. up = <<"ACK", "STOPPED">> => Head(up) = "ACK" /\ Tail(up) = <<"STOPPED">>
  <2> SUFFICES ASSUME up = <<"ACK", "STOPPED">> PROVE Head(up) = "ACK" /\ Tail(up) = <<"STOPPED">>
    OBVIOUS
  <2>1. Len(up) = 2 /\ up[1] = "ACK" /\ up[2] = "STOPPED" /\ "STOPPED" \in Replies
    BY DEF Replies
  <2>2. Len(Tail(up)) = 1 /\ Tail(up)[1] = "STOPPED"
    BY <1>1, <2>1
  <2>3. Tail(up) = <<"STOPPED">>
    BY <1>1, <2>2
  <2> QED BY <1>1, <2>1, <2>3
<1>4. \A p \in DOMAIN Tail(up) : p + 1 \in DOMAIN up /\ Tail(up)[p] = up[p + 1] /\ (p + 1 = Len(up) => p = Len(Tail(up)))
  BY <1>1
<1>5. ASSUME NEW p \in DOMAIN up PROVE p = 1 \/ (p - 1 \in DOMAIN Tail(up) /\ Tail(up)[p - 1] = up[p])
  <2>1. CASE p # 1
    <3>1. p - 1 \in 1 .. Len(up) - 1 /\ (p - 1) + 1 = p
      BY <1>1, <2>1
    <3> QED BY <1>1, <3>1
  <2> QED BY <2>1
<1>6. Len(up) < 2 => Tail(up) = << >>
  <2>1. Len(up) < 2 => Len(Tail(up)) = 0
    BY <1>1
  <2> QED BY <1>1, <2>1, EmptySeq
<1> QED BY <1>1, <1>2, <1>3, <1>4, <1>5, <1>6

\* A host that has its answer.
LEMMA HeardIdle ==
  ASSUME Rated, Resynced, mode = "halted", StopLast(wire), host # "idle", hostRate = rate \/ secondLost,
         host = "try" => line # "host deaf",
         host' = "idle", up' = << >>, wire' = wire, mode' = mode, rate' = rate, hostRate' = hostRate, line' = line,
         secondLost' = secondLost, resyncs' = 0
  PROVE  Phase' /\ Rated' /\ Resynced'
<1>1. Phase'
  BY DEF Phase, Waits, Commands
<1>2. Rated'
  <2>1. hostRate' = "new" => line' # "host deaf"
    BY DEF Rated
  <2>2. rate' = "new" /\ mode' # "window1" => line' # "monitor deaf"
    BY DEF Rated
  <2>3. hostRate' = rate' \/ secondLost'
    BY Zenon
  <2> QED BY <2>1, <2>2, <2>3 DEF Rated
<1>3. Resynced'
  BY ZeroResyncs
<1> QED BY <1>1, <1>2, <1>3

\* What the host hears leaves memory alone.
LEMMA StockedHeard ==
  ASSUME Stocked, wire' = wire, lz' = lz, memory' = memory, loaded' = loaded, slice' = slice,
         host' \notin {"write", "slice"}
  PROVE  Stocked'
BY DEF Stocked, Cells

\* Only a host that has lost the monitor resynchronises.
LEMMA NoResync ==
  ASSUME Resynced, host # "lost"
  PROVE  resyncs = 0
BY DEF Resynced

\* What the host hears is what it waits for.
LEMMA Heard ==
  ASSUME MonitorInv, up # << >>
  PROVE  LET r == Head(up) IN
         /\ r \in Replies /\ Tail(up) \in Seq(Replies)
         /\ host \in {"run", "cont"} => Headless(wire) /\
              \/ r = "ACK" /\ Tail(up) = << >> /\ mode \in {"running", "halted"}
              \/ r = "ACK" /\ Tail(up) = <<"STOPPED">> /\ mode = "halted"
              \/ r # "ACK" /\ Tail(up) = << >> /\ mode = "halted"
         /\ host = "baud" => Headless(wire) /\ Tail(up) = << >> /\
              \/ r = "ACK" /\ mode = "window1" /\ wire = << >>
              \/ r = "ACK" /\ mode = "halted" /\ rate = "old"
              \/ r # "ACK" /\ mode = "halted"
         /\ host \in {"ping", "regs", "set", "write", "slice"} =>
              Headless(wire) /\ Tail(up) = << >> /\ mode = "halted" /\ (r = "ACK" => up = <<"ACK">>)
         /\ host \in {"running", "stopping"} => StopLast(wire) /\ r = "STOPPED" /\ Tail(up) = << >> /\ mode = "halted"
         /\ host = "try" => r = "PONG" /\ Tail(up) = << >> /\
              \/ mode = "window2" /\ wire = << >>
              \/ mode = "halted" /\ Headless(wire) /\ rate = "old"
         /\ host = "confirm" => r = "PONG" /\ Tail(up) = << >> /\ mode = "halted" /\ Headless(wire) /\ rate = "new"
         /\ host # "idle"
<1> DEFINE r == Head(up)
<1>1. Phase /\ up \in Seq(Replies) /\ ~Waits
  BY ShapesParts DEF MonitorInv, Waits
<1>2. r \in Replies /\ Tail(up) \in Seq(Replies) /\ (\A x : up = <<x>> => r = x /\ Tail(up) = << >>)
      /\ (up = <<"ACK", "STOPPED">> => r = "ACK" /\ Tail(up) = <<"STOPPED">>)
  BY <1>1, OneHeard
<1>3. \A S : Told(S) => r \in S /\ Tail(up) = << >> /\ up = <<r>>
  BY <1>2 DEF Told
<1> HIDE DEF r
<1>4. "ACK" \notin {"STOPPED"} \union Errors
  BY DEF Errors
<1>5. ASSUME host \in {"run", "cont"}
      PROVE  Headless(wire) /\
              \/ r = "ACK" /\ Tail(up) = << >> /\ mode \in {"running", "halted"}
              \/ r = "ACK" /\ Tail(up) = <<"STOPPED">> /\ mode = "halted"
              \/ r # "ACK" /\ Tail(up) = << >> /\ mode = "halted"
  <2>1. Awake
    BY <1>1, <1>5 DEF Phase, Asking, Commands
  <2>2. \/ mode = "running" /\ Told({"ACK"})
        \/ mode = "halted" /\ (Told({"ACK", "STOPPED"} \union Errors) \/ up = <<"ACK", "STOPPED">>)
    BY <1>1, <1>5, <2>1 DEF Awake
  <2> QED BY <1>2, <1>3, <2>1, <2>2 DEF Awake
<1>6. ASSUME host = "baud"
      PROVE  Headless(wire) /\ Tail(up) = << >> /\
              \/ r = "ACK" /\ mode = "window1" /\ wire = << >>
              \/ r = "ACK" /\ mode = "halted" /\ rate = "old"
              \/ r # "ACK" /\ mode = "halted"
  <2>1. Awake
    BY <1>1, <1>6 DEF Phase, Asking, Commands
  <2>2. \/ mode = "window1" /\ wire = << >> /\ Told({"ACK"})
        \/ mode = "halted" /\ Told(Errors)
        \/ mode = "halted" /\ Told({"ACK"}) /\ rate = "old"
    BY <1>1, <1>6, <2>1 DEF Awake
  <2> QED BY <1>3, <1>4, <2>1, <2>2 DEF Awake
<1>7. ASSUME host \in {"ping", "regs", "set", "write", "slice"}
      PROVE  Headless(wire) /\ Tail(up) = << >> /\ mode = "halted" /\ (r = "ACK" => up = <<"ACK">>)
  <2>1. Awake
    BY <1>1, <1>7 DEF Phase, Asking, Commands
  <2>2. mode = "halted" /\ Told(Expected(host) \union Errors)
    BY <1>1, <1>7, <2>1 DEF Awake
  <2> QED BY <1>3, <2>1, <2>2 DEF Awake
<1>8. ASSUME host \in {"running", "stopping"}
      PROVE  StopLast(wire) /\ r = "STOPPED" /\ Tail(up) = << >> /\ mode = "halted"
  <2>1. StopLast(wire) /\ mode = "halted" /\ Told({"STOPPED"})
    BY <1>1, <1>8 DEF Phase, Stopping
  <2> QED BY <1>3, <2>1
<1>9. ASSUME host = "try"
      PROVE  r = "PONG" /\ Tail(up) = << >> /\
              \/ mode = "window2" /\ wire = << >>
              \/ mode = "halted" /\ Headless(wire) /\ rate = "old"
  <2>1. \/ mode = "window2" /\ Told({"PONG"}) /\ wire = << >>
        \/ mode = "halted" /\ Told({"PONG"}) /\ Headless(wire) /\ rate = "old"
    BY <1>1, <1>9, Zenon DEF Phase, Trying
  <2> QED BY <1>3, <2>1
<1>10. ASSUME host = "confirm"
       PROVE  r = "PONG" /\ Tail(up) = << >> /\ mode = "halted" /\ Headless(wire) /\ rate = "new"
  <2>1. mode = "halted" /\ Told({"PONG"}) /\ Headless(wire) /\ rate = "new"
    BY <1>1, <1>10 DEF Phase, Confirming
  <2> QED BY <1>3, <2>1
<1>11. host # "idle"
  BY <1>1 DEF Phase
<1> QED BY <1>2, <1>5, <1>6, <1>7, <1>8, <1>9, <1>10, <1>11 DEF r

\* What the host does with an answer, for each thing it waits for.
LEMMA HearSteps ==
  ASSUME Hear
  PROVE  LET r == Head(up) IN
         /\ up # << >> /\ up' = Tail(up)
         /\ host = "lost" => host' = (IF r = "PONG" THEN "idle" ELSE "lost") /\ resyncs' = (IF r = "PONG" THEN 0 ELSE resyncs)
         /\ host # "lost" => resyncs' = resyncs
         /\ host \in {"running", "stopping"} /\ r = "STOPPED" => host' = "idle"
         /\ host \in {"run", "cont"} => host' = (IF r = "ACK" THEN "running" ELSE "idle")
         /\ host = "baud" => host' = (IF r = "ACK" THEN "try" ELSE "idle")
                             /\ hostRate' = (IF r = "ACK" THEN "new" ELSE hostRate)
         /\ host # "baud" => hostRate' = hostRate
         /\ host = "try" /\ r = "PONG" => host' = "confirm" /\ Transmit(Confirm)
         /\ host # "try" => wire' = wire /\ mishaps' = mishaps
         /\ host \in {"ping", "regs", "set", "write", "slice", "confirm"} => host' = "idle"
         /\ host = "slice" => SliceReply(r)
         /\ host # "slice" => slice' = slice /\ loaded' = loaded
         /\ rate' = rate /\ mode' = mode /\ cached' = cached /\ ctx' = ctx /\ memWritten' = memWritten
         /\ lz' = lz /\ memory' = memory /\ line' = line /\ secondLost' = secondLost
<1> DEFINE r == Head(up)
<1>1. /\ up # << >> /\ up' = Tail(up)
      /\ host' = CASE host = "lost" -> IF r = "PONG" THEN "idle" ELSE "lost"
                   [] host \in {"running", "stopping"} -> IF r = "STOPPED" THEN "idle" ELSE host
                   [] host \in {"run", "cont"} -> IF r = "ACK" THEN "running" ELSE "idle"
                   [] host = "baud" -> IF r = "ACK" THEN "try" ELSE "idle"
                   [] host = "try" -> IF r = "PONG" THEN "confirm" ELSE "try"
                   [] OTHER -> "idle"
      /\ hostRate' = (IF host = "baud" /\ r = "ACK" THEN "new" ELSE hostRate)
      /\ (IF host = "slice" THEN SliceReply(r) ELSE UNCHANGED <<slice, loaded>>)
      /\ (IF host = "try" /\ r = "PONG" THEN Transmit(Confirm) ELSE UNCHANGED <<wire, mishaps>>)
      /\ resyncs' = (IF host = "lost" /\ r = "PONG" THEN 0 ELSE resyncs)
      /\ UNCHANGED <<monitor, target, line, secondLost>>
  BY DEF Hear
<1> HIDE DEF r
<1>2. /\ rate' = rate /\ mode' = mode /\ cached' = cached /\ ctx' = ctx /\ memWritten' = memWritten
      /\ lz' = lz /\ memory' = memory /\ line' = line /\ secondLost' = secondLost
  BY <1>1, Zenon DEF monitor, target
<1>3. /\ host = "slice" => SliceReply(r)
      /\ host # "slice" => slice' = slice /\ loaded' = loaded
      /\ host # "try" => wire' = wire /\ mishaps' = mishaps
      /\ host = "try" /\ r = "PONG" => Transmit(Confirm)
  BY <1>1, Zenon
<1>4. /\ host = "lost" => host' = (IF r = "PONG" THEN "idle" ELSE "lost") /\ resyncs' = (IF r = "PONG" THEN 0 ELSE resyncs)
      /\ host # "lost" => resyncs' = resyncs
      /\ host = "baud" => hostRate' = (IF r = "ACK" THEN "new" ELSE hostRate)
      /\ host # "baud" => hostRate' = hostRate
  BY <1>1
<1>5. /\ host \in {"running", "stopping"} /\ r = "STOPPED" => host' = "idle"
      /\ host \in {"run", "cont"} => host' = (IF r = "ACK" THEN "running" ELSE "idle")
      /\ host = "baud" => host' = (IF r = "ACK" THEN "try" ELSE "idle")
      /\ host = "try" /\ r = "PONG" => host' = "confirm"
      /\ host \in {"ping", "regs", "set", "write", "slice", "confirm"} => host' = "idle"
  BY <1>1
<1> QED BY <1>1, <1>2, <1>3, <1>4, <1>5 DEF r

\* An answer to a command, or to a STOP, ends the wait.
LEMMA HeardAnswer ==
  ASSUME MonitorInv, Hear, host \in {"ping", "regs", "set", "write", "slice", "running", "stopping", "confirm"}
  PROVE  Phase' /\ Rated' /\ Resynced' /\ Stocked' /\ slice' \in Cells /\ loaded' \in BOOLEAN
<1> DEFINE r == Head(up)
<1>1. Shapes /\ Phase /\ Rated /\ Resynced /\ Stocked
  BY DEF MonitorInv
<1>2. /\ up # << >> /\ up' = Tail(up) /\ hostRate' = hostRate /\ wire' = wire /\ mishaps' = mishaps /\ resyncs' = resyncs
      /\ host = "slice" => SliceReply(r)
      /\ host # "slice" => slice' = slice /\ loaded' = loaded
      /\ rate' = rate /\ mode' = mode /\ cached' = cached /\ ctx' = ctx /\ memWritten' = memWritten
      /\ lz' = lz /\ memory' = memory /\ line' = line /\ secondLost' = secondLost
  BY HearSteps
<1>3. /\ host' = "idle" /\ up' = << >> /\ mode = "halted" /\ StopLast(wire)
      /\ host = "confirm" => rate = "new"
      /\ host = "slice" => Headless(wire) /\ (r = "ACK" => up = <<"ACK">>)
  <2>1. Headless(wire) => StopLast(wire)
    BY DEF Headless, StopLast
  <2>2. CASE host \in {"running", "stopping"}
    BY <1>2, <2>2, Heard, HearSteps
  <2>3. CASE host = "confirm"
    BY <1>2, <2>1, <2>3, Heard, HearSteps
  <2>4. CASE host \in {"ping", "regs", "set", "write", "slice"}
    BY <1>2, <2>1, <2>4, Heard, HearSteps
  <2> QED BY <2>2, <2>3, <2>4
<1>4. Phase' /\ Rated' /\ Resynced'
  <2>1. hostRate = rate \/ secondLost
    <3>1. CASE host = "confirm"
      BY <1>1, <1>3, <3>1 DEF Rated
    <3>2. CASE host # "confirm"
      BY <1>1, <1>3, <3>2 DEF Rated
    <3> QED BY <3>1, <3>2
  <2>2. resyncs' = 0
    BY <1>1, <1>2, NoResync
  <2> QED BY <1>1, <1>2, <1>3, <2>1, <2>2, HeardIdle
<1>5. Stocked' /\ slice' \in Cells /\ loaded' \in BOOLEAN
  <2>1. CASE host # "slice"
    BY <1>1, <1>2, <1>3, <2>1, StockedHeard, ShapesParts
  <2>2. CASE host = "slice"
    <3>1. slice' = (IF r = "ACK" /\ slice < Slices THEN slice + 1 ELSE 1) /\ loaded' = (r = "ACK" /\ slice = Slices)
      BY <1>2, <2>2 DEF SliceReply
    <3>2. slice \in 1 .. Slices /\ Slices \in Nat \ {0, 1}
      BY <1>1, ShapesParts, SizeAssumption DEF Cells
    <3>3. r = "ACK" => (\A c \in 1 .. slice : memory[c] = c) /\ (lz.active => lz.out = slice)
      BY <1>1, <1>3, <2>2 DEF Stocked
    <3>4. slice' \in Cells /\ loaded' \in BOOLEAN
      BY <3>1, <3>2 DEF Cells
    <3>5. slice' # 1 => r = "ACK"
      BY <3>1
    <3>6. lz'.active /\ slice' # 1 => \A c \in 1 .. lz'.out : memory'[c] = c
      BY <1>2, <3>3, <3>5
    <3>7. loaded' => \A c \in Cells : memory'[c] = c
      BY <1>2, <3>1, <3>3 DEF Cells
    <3>8. Heads(wire') = {}
      BY <1>2, <1>3, <2>2 DEF Headless
    <3>9. lz'.out = lz'.consumed
      BY <1>1, <1>2 DEF Stocked
    <3>10. Stocked'
      BY <1>3, <3>6, <3>7, <3>8, <3>9 DEF Stocked, Cells
    <3> QED BY <3>4, <3>10
  <2> QED BY <2>1, <2>2
<1> QED BY <1>4, <1>5

\* The target runs from now on, as far as the host knows.
LEMMA HeardRun ==
  ASSUME MonitorInv, Hear, host \in {"run", "cont"}
  PROVE  Phase' /\ Rated' /\ Resynced' /\ Stocked'
<1> DEFINE r == Head(up)
<1>1. Shapes /\ Phase /\ Rated /\ Resynced /\ Stocked
  BY DEF MonitorInv
<1>2. /\ up # << >> /\ up' = Tail(up) /\ hostRate' = hostRate /\ wire' = wire /\ mishaps' = mishaps /\ resyncs' = resyncs
      /\ slice' = slice /\ loaded' = loaded
      /\ rate' = rate /\ mode' = mode /\ lz' = lz /\ memory' = memory /\ line' = line /\ secondLost' = secondLost
      /\ host' = (IF r = "ACK" THEN "running" ELSE "idle")
  BY HearSteps
<1>3. /\ Headless(wire) /\ StopLast(wire)
      /\ \/ r = "ACK" /\ Tail(up) = << >> /\ mode \in {"running", "halted"}
         \/ r = "ACK" /\ Tail(up) = <<"STOPPED">> /\ mode = "halted"
         \/ r # "ACK" /\ Tail(up) = << >> /\ mode = "halted"
  <2>1. Headless(wire) => StopLast(wire)
    BY DEF Headless, StopLast
  <2> QED BY <1>2, <2>1, Heard
<1>4. resyncs' = 0
  BY <1>1, <1>2, NoResync
<1>5. Stocked'
  <2>1. host' \notin {"write", "slice"}
    BY <1>2
  <2> QED BY <1>1, <1>2, <2>1, StockedHeard
<1>6. Phase' /\ Rated'
  <2>1. hostRate = rate \/ secondLost
    BY <1>1, <1>3 DEF Rated
  <2>2. CASE r # "ACK"
    <3>1. host' = "idle" /\ up' = << >> /\ mode = "halted"
      BY <1>2, <1>3, <2>2
    <3> QED BY <1>1, <1>2, <1>3, <1>4, <2>1, <3>1, HeardIdle
  <2>3. CASE r = "ACK"
    <3>1. /\ host' = "running" /\ mode' \in {"running", "halted"}
          /\ up' = << >> \/ (up' = <<"STOPPED">> /\ mode' = "halted")
      BY <1>2, <1>3, <2>3
    <3>2. Stopping'
      BY <1>2, <1>3, <3>1 DEF Stopping, Waits, Told
    <3>3. Phase'
      BY <3>1, <3>2 DEF Phase, Commands
    <3>4. Rated'
      <4>1. hostRate' = "new" => line' # "host deaf"
        BY <1>1, <1>2 DEF Rated
      <4>2. rate' = "new" /\ mode' # "window1" => line' # "monitor deaf"
        BY <1>1, <1>2 DEF Rated
      <4>3. hostRate' = rate' \/ secondLost'
        BY <1>2, <2>1, Zenon
      <4> QED BY <3>1, <4>1, <4>2, <4>3 DEF Rated
    <3> QED BY <3>3, <3>4
  <2> QED BY <2>2, <2>3
<1>7. Resynced'
  BY <1>4, ZeroResyncs
<1> QED BY <1>5, <1>6, <1>7

\* The host tries the new rate.
LEMMA HeardBaud ==
  ASSUME MonitorInv, Hear, host = "baud"
  PROVE  Phase' /\ Rated' /\ Resynced' /\ Stocked'
<1> DEFINE r == Head(up)
<1>1. Shapes /\ Phase /\ Rated /\ Resynced /\ Stocked
  BY DEF MonitorInv
<1>2. /\ up # << >> /\ up' = Tail(up) /\ wire' = wire /\ mishaps' = mishaps /\ resyncs' = resyncs
      /\ slice' = slice /\ loaded' = loaded
      /\ rate' = rate /\ mode' = mode /\ lz' = lz /\ memory' = memory /\ line' = line /\ secondLost' = secondLost
      /\ host' = (IF r = "ACK" THEN "try" ELSE "idle") /\ hostRate' = (IF r = "ACK" THEN "new" ELSE hostRate)
  BY HearSteps
<1>3. /\ Headless(wire) /\ StopLast(wire) /\ Tail(up) = << >>
      /\ \/ r = "ACK" /\ mode = "window1" /\ wire = << >>
         \/ r = "ACK" /\ mode = "halted" /\ rate = "old"
         \/ r # "ACK" /\ mode = "halted"
  <2>1. Headless(wire) => StopLast(wire)
    BY DEF Headless, StopLast
  <2> QED BY <1>2, <2>1, Heard
<1>4. resyncs' = 0
  BY <1>1, <1>2, NoResync
<1>5. Stocked'
  <2>1. host' \notin {"write", "slice"}
    BY <1>2
  <2> QED BY <1>1, <1>2, <2>1, StockedHeard
<1>6. Resynced'
  BY <1>4, ZeroResyncs
<1>7. CASE r # "ACK"
  <2>1. hostRate = rate \/ secondLost
    BY <1>1, <1>3, <1>7 DEF Rated
  <2>2. host' = "idle" /\ up' = << >> /\ mode = "halted" /\ hostRate' = hostRate
    BY <1>2, <1>3, <1>7
  <2> QED BY <1>1, <1>2, <1>3, <1>4, <1>5, <2>1, <2>2, HeardIdle
<1>8. CASE r = "ACK"
  <2>1. /\ host' = "try" /\ hostRate' = "new" /\ up' = << >>
        /\ \/ mode' = "window1" /\ wire' = << >>
           \/ mode' = "halted" /\ rate' = "old"
    BY <1>2, <1>3, <1>8
  <2>2. Phase'
    <3>1. wire' = << >> => DOMAIN wire' = {}
      OBVIOUS
    <3>2. Trying'
      BY <1>2, <1>3, <2>1, <3>1 DEF Trying, Waits, Told
    <3> QED BY <2>1, <3>2 DEF Phase, Commands
  <2>3. Rated'
    <3>1. mode' \in {"window1", "window2"} => rate' = "new"
      BY <1>1, <1>2 DEF Rated
    <3>2. rate' = "new" /\ mode' # "window1" => line' # "monitor deaf"
      BY <1>1, <1>2 DEF Rated
    <3> QED BY <2>1, <3>1, <3>2 DEF Rated, Waits
  <2> QED BY <1>5, <1>6, <2>2, <2>3
<1> QED BY <1>7, <1>8

\* The host has read the PONG at the new rate, and confirms.
LEMMA HeardTry ==
  ASSUME MonitorInv, Hear, host = "try"
  PROVE  Phase' /\ Rated' /\ Resynced' /\ Stocked' /\ wire' \in Seq(Units) /\ mishaps' \in Nat
<1> DEFINE r == Head(up)
           one == <<<<"one">>>>
<1>1. Shapes /\ Phase /\ Rated /\ Resynced /\ Stocked
  BY DEF MonitorInv
<1>2. /\ r = "PONG" /\ Tail(up) = << >> /\ up # << >>
      /\ \/ mode = "window2" /\ wire = << >>
         \/ mode = "halted" /\ Headless(wire) /\ rate = "old"
  BY Heard, HearSteps
<1>3. /\ up' = << >> /\ resyncs' = resyncs /\ Transmit(Confirm)
      /\ slice' = slice /\ loaded' = loaded /\ hostRate' = hostRate
      /\ rate' = rate /\ mode' = mode /\ lz' = lz /\ memory' = memory /\ line' = line /\ secondLost' = secondLost
      /\ host' = "confirm"
  BY <1>2, HearSteps
<1>4. wire \in Seq(Units) /\ one \in Bodies /\ "ping" \in Types
  BY <1>1, ShapesParts DEF Bodies, Types, Commands
<1>5. Transmit(Frame("ping", one))
  BY <1>3 DEF Confirm
<1> HIDE DEF one
<1>6. PICK s : Sent(s, "ping", one) /\ Kept(wire', wire \o s) /\ (~Clean => \A i \in DOMAIN s : s[i] = <<"noise">>)
  BY <1>1, <1>4, <1>5, Transmitted
<1>7. mishaps' \in Nat
  BY <1>1, <1>4, <1>5, Transmitted
<1>8. s \in Seq(Units) /\ wire \o s \in Seq(Units) /\ wire' \in Seq(Units)
  <2>1. s \in Seq(Units) /\ wire \o s \in Seq(Units)
    BY <1>4, <1>6, ConcatParts DEF Sent
  <2> QED BY <1>6, <2>1, KeptParts
<1>9. \A i \in Heads(wire') : \/ i \in Heads(wire) /\ i \in 1 .. Len(wire) /\ wire'[i] = wire[i]
                              \/ i = Len(wire) + 1 /\ wire'[i][2] = "ping" /\ 1 \in Heads(s)
  BY <1>4, <1>6, SentHeads
<1>10. hostRate = "new"
  BY <1>1 DEF Rated
<1>11. Phase'
  <2>1. CASE mode = "window2" /\ wire = << >>
    <3>1. Heads(wire) = {} /\ Len(wire) = 0
      BY <2>1 DEF Heads
    <3>2. Heads(wire') \subseteq {1}
      BY <1>9, <3>1
    <3>3. Confirming'
      BY <1>3, <2>1, <3>2 DEF Confirming, Waits
    <3> QED BY <1>3, <3>3 DEF Phase, Commands
  <2>2. CASE mode = "halted" /\ Headless(wire) /\ rate = "old"
    <3>1. ~Clean
      BY <1>10, <2>2 DEF Clean
    <3>2. 1 \notin Heads(s)
      BY <1>6, <3>1 DEF Heads
    <3>3. Headless(wire')
      BY <1>9, <2>2, <3>2 DEF Headless
    <3>4. Confirming'
      BY <1>3, <2>2, <3>3 DEF Confirming, Waits
    <3> QED BY <1>3, <3>4 DEF Phase, Commands
  <2> QED BY <1>2, <2>1, <2>2
<1>12. Rated'
  <2>1. line # "host deaf"
    BY <1>1, <1>2, <1>10 DEF Rated, Waits
  <2>2. mode' \in {"window1", "window2"} => rate' = "new"
    BY <1>1, <1>3 DEF Rated
  <2>3. rate' = "new" /\ mode' # "window1" => line' # "monitor deaf"
    BY <1>1, <1>3 DEF Rated
  <2> QED BY <1>3, <1>10, <2>1, <2>2, <2>3 DEF Rated
<1>13. Resynced'
  <2>1. resyncs' = 0
    BY <1>1, <1>3, NoResync
  <2> QED BY <2>1, ZeroResyncs
<1>14. Stocked'
  <2>1. \A i \in Heads(wire') : (i \in Heads(wire) /\ wire'[i] = wire[i]) \/ wire'[i][2] = "ping"
    BY <1>9
  <2> QED BY <1>1, <1>3, <2>1, StockedSent
<1> QED BY <1>7, <1>8, <1>11, <1>12, <1>13, <1>14

\* A host that had lost the monitor waits until it hears a PONG, which is then the last answer.
LEMMA HeardLost ==
  ASSUME MonitorInv, Hear, host = "lost"
  PROVE  Phase' /\ Rated' /\ Resynced' /\ Stocked'
<1> DEFINE r == Head(up)
<1>1. Shapes /\ Phase /\ Rated /\ Resynced /\ Stocked
  BY DEF MonitorInv
<1>2. /\ up # << >> /\ up' = Tail(up) /\ wire' = wire /\ hostRate' = hostRate
      /\ slice' = slice /\ loaded' = loaded
      /\ rate' = rate /\ mode' = mode /\ lz' = lz /\ memory' = memory /\ line' = line /\ secondLost' = secondLost
      /\ host' = (IF r = "PONG" THEN "idle" ELSE "lost") /\ resyncs' = (IF r = "PONG" THEN 0 ELSE resyncs)
  BY HearSteps
<1>3. up \in Seq(Replies)
  BY <1>1, ShapesParts
<1>4. /\ r = up[1] /\ 1 \in DOMAIN up
      /\ \A p \in DOMAIN up' : p + 1 \in DOMAIN up /\ up'[p] = up[p + 1] /\ (p + 1 = Len(up) => p = Len(up'))
      /\ \A p \in DOMAIN up : p = 1 \/ (p - 1 \in DOMAIN up' /\ up'[p - 1] = up[p])
      /\ Len(up) < 2 => up' = << >>
  BY <1>2, <1>3, OneHeard
<1> HIDE DEF r
<1>5. /\ Flushed(wire) /\ mode = "halted"
      /\ \A p \in DOMAIN up : up[p] = "PONG" => p = Len(up) /\ Headless(wire)
  BY <1>1, <1>2 DEF Phase, Lost, Waits
<1>6. Stocked'
  <2>1. host' \notin {"write", "slice"}
    BY <1>2
  <2> QED BY <1>1, <1>2, <2>1, StockedHeard
<1>7. hostRate = rate \/ secondLost
  BY <1>1, <1>5 DEF Rated
<1>8. CASE r = "PONG"
  <2>1. 1 = Len(up) /\ Headless(wire)
    BY <1>4, <1>5, <1>8
  <2>2. Len(up) < 2
    BY <2>1
  <2>3. host' = "idle" /\ up' = << >> /\ resyncs' = 0
    BY <1>2, <1>4, <1>8, <2>2
  <2>4. StopLast(wire)
    BY <2>1 DEF Headless, StopLast
  <2> QED BY <1>1, <1>2, <1>5, <1>6, <1>7, <2>3, <2>4, HeardIdle
<1>9. CASE r # "PONG"
  <2>1. host' = "lost" /\ resyncs' = resyncs
    BY <1>2, <1>9
  <2>2. Phase'
    <3>1. ASSUME NEW p \in DOMAIN up', up'[p] = "PONG" PROVE p = Len(up') /\ Headless(wire')
      <4>1. p + 1 = Len(up) /\ Headless(wire)
        BY <1>4, <1>5, <3>1
      <4> QED BY <1>2, <1>4, <4>1
    <3>2. Lost'
      BY <1>2, <1>5, <3>1 DEF Lost
    <3> QED BY <2>1, <3>2 DEF Phase, Commands
  <2>3. Rated'
    <3>1. hostRate' = "new" => line' # "host deaf"
      BY <1>1, <1>2 DEF Rated
    <3>2. rate' = "new" /\ mode' # "window1" => line' # "monitor deaf"
      BY <1>1, <1>2 DEF Rated
    <3>3. hostRate' = rate' \/ secondLost'
      BY <1>2, <1>7, Zenon
    <3>4. mode' = "halted"
      BY <1>2, <1>5
    <3> QED BY <2>1, <3>1, <3>2, <3>3, <3>4 DEF Rated
  <2>4. Resynced'
    <3>1. ASSUME hostRate = rate, resyncs > 1
          PROVE  resyncs = 2 /\ (PingDue(wire) \/ \E p \in DOMAIN up' : up'[p] = "PONG")
      <4>1. resyncs = 2 /\ (PingDue(wire) \/ \E p \in DOMAIN up : up[p] = "PONG")
        BY <1>1, <3>1, SecondPing
      <4>2. ASSUME NEW p \in DOMAIN up, up[p] = "PONG" PROVE \E q \in DOMAIN up' : up'[q] = "PONG"
        <5>1. p - 1 \in DOMAIN up' /\ up'[p - 1] = up[p]
          BY <1>4, <1>9, <4>2
        <5> QED BY <4>2, <5>1
      <4> QED BY <4>1, <4>2
    <3>2. resyncs \in 0 .. 3
      BY <1>1 DEF Resynced
    <3>3. mode' = "halted"
      BY <1>2, <1>5
    <3> QED BY <1>2, <2>1, <3>1, <3>2, <3>3 DEF Resynced
  <2> QED BY <1>6, <2>2, <2>3, <2>4
<1> QED BY <1>8, <1>9

\* The host hears an answer.
LEMMA HearKeeps ==
  ASSUME MonitorInv, Hear
  PROVE  MonitorInv'
<1>1. Shapes
  BY DEF MonitorInv
<1>2. host \in Commands \union {"idle", "running", "stopping", "try", "confirm", "lost"}
  BY <1>1, ShapesParts
<1>3. up' \in Seq(Replies) /\ host # "idle"
  BY Heard, HearSteps
<1>4. /\ rate' = rate /\ mode' = mode /\ cached' = cached /\ ctx' = ctx /\ memWritten' = memWritten
      /\ lz' = lz /\ memory' = memory /\ line' = line /\ secondLost' = secondLost
      /\ host # "slice" => slice' = slice /\ loaded' = loaded
      /\ host # "try" => wire' = wire /\ mishaps' = mishaps
  BY HearSteps
<1>5. Phase' /\ Rated' /\ Resynced' /\ Stocked'
  BY <1>2, <1>3, HeardAnswer, HeardRun, HeardBaud, HeardTry, HeardLost DEF Commands
<1>6. slice' \in Cells /\ loaded' \in BOOLEAN
  BY <1>1, <1>4, ShapesParts, HeardAnswer
<1>7. wire' \in Seq(Units) /\ mishaps' \in Nat
  BY <1>1, <1>4, ShapesParts, HeardTry
<1>8. hostRate' \in {"old", "new"} /\ host' \in Commands \union {"idle", "running", "stopping", "try", "confirm", "lost"}
  <2>1. hostRate \in {"old", "new"}
    BY <1>1, ShapesParts
  <2>2. hostRate' \in {"old", "new"}
    BY <2>1, HearSteps
  <2>3. CASE host = "lost"
    BY <2>2, <2>3, HearSteps
  <2>4. CASE host \in {"running", "stopping"}
    <3>1. Head(up) = "STOPPED"
      BY <2>4, Heard, HearSteps
    <3> QED BY <2>2, <2>4, <3>1, HearSteps
  <2>5. CASE host = "try"
    <3>1. Head(up) = "PONG"
      BY <2>5, Heard, HearSteps
    <3> QED BY <2>2, <2>5, <3>1, HearSteps
  <2>6. CASE host \in {"run", "cont", "baud"}
    BY <2>2, <2>6, HearSteps
  <2>7. CASE host \in {"ping", "regs", "set", "write", "slice", "confirm"}
    BY <2>2, <2>7, HearSteps
  <2> QED BY <1>2, <1>3, <2>3, <2>4, <2>5, <2>6, <2>7 DEF Commands
<1>9. Shapes'
  BY <1>1, <1>3, <1>4, <1>6, <1>7, <1>8, ShapesParts, ShapesMade
<1> QED BY <1>5, <1>9 DEF MonitorInv

-----------------------------------------------------------------------------
(* What is lost, and found.                                                  *)

\* A frame that was cut short, and is all there is.
LEMMA CutShort ==
  ASSUME Shapes, Framed, ~Whole
  PROVE  /\ Cut(wire) /\ wire[1][3] \in 0 .. MaxLen /\ Len(wire) \in Nat \ {0} /\ Len(wire) < wire[1][3] + 2
         /\ Flushed(wire)
<1>1. wire \in Seq(Units) /\ wire # << >> /\ First[1] = "head" /\ Fits(First[3]) /\ ~(Len(wire) >= First[3] + 2)
  BY ShapesParts DEF Framed, Whole
<1>2. First = wire[1] /\ Len(wire) \in Nat \ {0} /\ wire[1] \in Units
  BY <1>1, TailIsBehind DEF First
<1>3. 1 \in Heads(wire) /\ wire[1][3] \in Nat
  <2>1. wire[1][1] = "head" /\ 1 \in DOMAIN wire
    BY <1>1, <1>2
  <2> QED BY <1>2, <2>1, UnitParts DEF Heads
<1> DEFINE n == wire[1][3]
<1>4. Cut(wire) /\ n \in Nat /\ n <= MaxLen /\ ~(Len(wire) >= n + 2)
  BY <1>1, <1>2, <1>3 DEF Cut, Fits
<1>5. DOMAIN wire = 1 .. Len(wire)
  BY <1>1
<1> HIDE DEF n
<1>6. n \in 0 .. MaxLen /\ Len(wire) < n + 2
  BY <1>2, <1>4 DEF MaxLen
<1>7. \A i \in Heads(wire) : i <= n + 2
  BY <1>2, <1>4, <1>5, <1>6 DEF Heads
<1>8. n + 2 > Len(wire)
  BY <1>2, <1>4, <1>6
<1>9. Flushed(wire)
  BY <1>4, <1>7, <1>8 DEF Flushed, n
<1> QED BY <1>2, <1>4, <1>6, <1>9 DEF n

\* While nothing moves, the wire is empty or holds a frame that was cut short.
LEMMA SilentFacts ==
  ASSUME MonitorInv, Silent
  PROVE  /\ up = << >> /\ mode \in {"halted", "running"} /\ Flushed(wire)
         /\ wire = << >> \/ (mode = "halted" /\ Framed /\ ~Whole)
<1>1. /\ up = << >> /\ mode \in {"halted", "running"}
      /\ wire = << >> \/ (mode = "halted" /\ Framed /\ ~Whole)
  BY Zenon DEF Silent
<1>2. Flushed(wire)
  BY <1>1, CutShort, EmptyWire DEF MonitorInv
<1> QED BY <1>1, <1>2

\* A host gives up at a rate at which the monitor is, or will be.
LEMMA TimeoutKeeps ==
  ASSUME MonitorInv, Timeout
  PROVE  MonitorInv'
<1>1. Shapes /\ Phase /\ Rated /\ Resynced /\ Stocked
  BY DEF MonitorInv
<1>2. /\ host \notin {"idle", "running", "lost"} /\ Silent /\ host' = "lost" /\ slice' \in {slice, 1}
      /\ hostRate' = (IF host \in {"try", "confirm"} THEN "old" ELSE hostRate)
      /\ up' = up /\ rate' = rate /\ mode' = mode /\ cached' = cached /\ wire' = wire /\ loaded' = loaded
      /\ ctx' = ctx /\ memWritten' = memWritten /\ lz' = lz /\ memory' = memory /\ mishaps' = mishaps
      /\ line' = line /\ resyncs' = resyncs /\ secondLost' = secondLost
  BY Zenon DEF Timeout, faults, monitor, target
<1>3. up = << >> /\ mode \in {"halted", "running"} /\ Flushed(wire)
  BY <1>2, SilentFacts
<1>4. Phase'
  <2>1. DOMAIN up' = {}
    BY <1>2, <1>3
  <2>2. Lost'
    BY <1>2, <1>3, <2>1 DEF Lost, Waits
  <2> QED BY <1>2, <2>2 DEF Phase, Commands
<1>5. Rated'
  <2>1. hostRate' = rate \/ secondLost
    <3>1. CASE host = "try"
      <4>1. rate = "old"
        BY <1>1, <1>3, <3>1 DEF Phase, Trying
      <4> QED BY <1>2, <3>1, <4>1
    <3>2. CASE host = "confirm"
      <4>1. rate = "old" \/ secondLost
        BY <1>1, <1>3, <3>2 DEF Phase, Confirming, Told
      <4> QED BY <1>2, <3>2, <4>1
    <3>3. CASE host \notin {"try", "confirm"}
      BY <1>1, <1>2, <1>3, <3>3 DEF Rated
    <3> QED BY <3>1, <3>2, <3>3
  <2>2. hostRate' = "new" => line # "host deaf"
    BY <1>1, <1>2 DEF Rated
  <2>3. rate = "new" => line # "monitor deaf"
    BY <1>1, <1>3 DEF Rated
  <2>4. hostRate' = rate' \/ secondLost'
    BY <1>2, <2>1, Zenon
  <2> QED BY <1>2, <1>3, <2>2, <2>3, <2>4 DEF Rated
<1>6. Resynced'
  <2>1. resyncs' = 0
    BY <1>1, <1>2, NoResync
  <2> QED BY <2>1, ZeroResyncs
<1>7. Stocked'
  <2>1. slice' # 1 => slice # 1
    BY <1>2
  <2>2. slice = 1 => slice' = 1
    BY <1>2
  <2>3. \A i \in Heads(wire') : /\ wire'[i][2] \in {"write", "slice"} => ~loaded'
                                /\ wire'[i][2] = "write" => slice' = 1
    BY <1>1, <1>2, <2>2 DEF Stocked
  <2>4. /\ lz'.out = lz'.consumed
        /\ lz'.active /\ slice' # 1 => \A c \in 1 .. lz'.out : memory'[c] = c
        /\ loaded' => \A c \in Cells : memory'[c] = c
    BY <1>1, <1>2, <2>1 DEF Stocked
  <2> QED BY <1>2, <2>3, <2>4 DEF Stocked, Cells
<1>8. Shapes'
  <2>1. slice' \in Cells
    <3>1. 1 \in Cells /\ slice \in Cells
      BY <1>1, ShapesParts, SizeAssumption DEF Cells
    <3> QED BY <1>2, <3>1
  <2>2. hostRate' \in {"old", "new"}
    BY <1>1, <1>2, ShapesParts
  <2> QED BY <1>1, <1>2, <2>1, <2>2, ShapesParts, ShapesMade
<1> QED BY <1>4, <1>5, <1>6, <1>7, <1>8 DEF MonitorInv

\* An answer that is lost leaves the host waiting; the one that is known to be missed is
\* the PONG that confirms.
LEMMA LoseReplyKeeps ==
  ASSUME MonitorInv, LoseReply
  PROVE  MonitorInv'
<1>1. Shapes /\ Phase /\ Rated /\ Resynced /\ Stocked
  BY DEF MonitorInv
<1>2. /\ up # << >> /\ up' = Tail(up) /\ resyncs' = 0 /\ mishaps' = mishaps + 1
      /\ host' = host /\ slice' = slice /\ loaded' = loaded /\ hostRate' = hostRate
      /\ rate' = rate /\ mode' = mode /\ cached' = cached /\ wire' = wire
      /\ ctx' = ctx /\ memWritten' = memWritten /\ lz' = lz /\ memory' = memory /\ line' = line
  BY Zenon DEF LoseReply, hosting, monitor, target
<1>3. /\ secondLost => secondLost'
      /\ host = "confirm" /\ Head(up) = "PONG" => secondLost'
      /\ secondLost' \in BOOLEAN
  BY DEF LoseReply
<1>4. up \in Seq(Replies) /\ up' \in Seq(Replies)
  BY <1>1, <1>2, ShapesParts, OneHeard
<1>5. Phase'
  <2>1. CASE host \in {"run", "cont"}
    <3>1. /\ Headless(wire)
          /\ \/ up' = << >> /\ mode \in {"running", "halted"}
             \/ up' = <<"STOPPED">> /\ mode = "halted"
      BY <1>2, <2>1, Heard
    <3>2. Awake'
      BY <1>2, <2>1, <3>1 DEF Awake, Waits, Told
    <3> QED BY <1>2, <2>1, <3>2 DEF Phase, Commands
  <2>2. CASE host = "baud"
    <3>1. Headless(wire) /\ up' = << >> /\ (mode = "halted" \/ (mode = "window1" /\ wire = << >>))
      BY <1>2, <2>2, Heard
    <3>2. Awake'
      BY <1>2, <2>2, <3>1 DEF Awake, Waits, Told
    <3> QED BY <1>2, <2>2, <3>2 DEF Phase, Commands
  <2>3. CASE host \in {"ping", "regs", "set", "write", "slice"}
    <3>1. Headless(wire) /\ up' = << >> /\ mode = "halted"
      BY <1>2, <2>3, Heard
    <3>2. Awake'
      BY <1>2, <2>3, <3>1 DEF Awake, Waits, Told
    <3> QED BY <1>2, <2>3, <3>2 DEF Phase, Commands
  <2>4. CASE host \in {"running", "stopping"}
    <3>1. up' = << >> /\ mode = "halted" /\ Stopping
      BY <1>1, <1>2, <2>4, Heard DEF Phase
    <3>2. Stopping'
      BY <1>2, <2>4, <3>1 DEF Stopping, Waits, Told
    <3> QED BY <1>2, <2>4, <3>2 DEF Phase, Commands
  <2>5. CASE host = "try"
    <3>1. up' = << >> /\ (\/ mode = "window2" /\ wire = << >>
                          \/ mode = "halted" /\ Headless(wire) /\ rate = "old")
      BY <1>2, <2>5, Heard
    <3>2. wire = << >> => DOMAIN wire = {}
      OBVIOUS
    <3>3. Trying'
      BY <1>2, <2>5, <3>1, <3>2 DEF Trying, Waits, Told
    <3> QED BY <1>2, <2>5, <3>3 DEF Phase, Commands
  <2>6. CASE host = "confirm"
    <3>1. Head(up) = "PONG" /\ up' = << >> /\ mode = "halted" /\ Headless(wire)
      BY <1>2, <2>6, Heard
    <3>2. secondLost'
      BY <1>3, <2>6, <3>1
    <3>3. Confirming'
      BY <1>2, <3>1, <3>2 DEF Confirming, Waits, Told
    <3> QED BY <1>2, <2>6, <3>3 DEF Phase, Commands
  <2>7. CASE host = "lost"
    <3>1. Flushed(wire) /\ mode = "halted" /\ \A p \in DOMAIN up : up[p] = "PONG" => p = Len(up) /\ Headless(wire)
      BY <1>1, <1>2, <2>7 DEF Phase, Lost, Waits
    <3>2. \A p \in DOMAIN up' : p + 1 \in DOMAIN up /\ up'[p] = up[p + 1] /\ (p + 1 = Len(up) => p = Len(up'))
      BY <1>2, <1>4, OneHeard
    <3>3. ASSUME NEW p \in DOMAIN up', up'[p] = "PONG" PROVE p = Len(up') /\ Headless(wire')
      <4>1. p + 1 = Len(up) /\ Headless(wire)
        BY <3>1, <3>2, <3>3
      <4> QED BY <1>2, <3>2, <4>1
    <3>4. Lost'
      BY <1>2, <3>1, <3>3 DEF Lost
    <3> QED BY <1>2, <2>7, <3>4 DEF Phase, Commands
  <2>8. host # "idle"
    BY <1>2, Heard
  <2>9. host \in Commands \union {"idle", "running", "stopping", "try", "confirm", "lost"}
    BY <1>1, ShapesParts
  <2> QED BY <2>1, <2>2, <2>3, <2>4, <2>5, <2>6, <2>7, <2>8, <2>9 DEF Commands
<1>6. Rated'
  <2>1. hostRate' = "new" => line' # "host deaf"
    BY <1>1, <1>2 DEF Rated, Waits
  <2>2. mode' \in {"halted", "running"} /\ host' \notin {"try", "confirm"} => hostRate' = rate' \/ secondLost'
    BY <1>1, <1>2, <1>3, Zenon DEF Rated
  <2>3. /\ host' \in {"try", "confirm"} => hostRate' = "new"
        /\ host' = "baud" => hostRate' = "old"
        /\ mode' \in {"window1", "window2"} => rate' = "new" /\ host' \in {"baud", "try", "confirm"}
        /\ rate' = "new" /\ mode' # "window1" => line' # "monitor deaf"
    BY <1>1, <1>2 DEF Rated
  <2> QED BY <2>1, <2>2, <2>3 DEF Rated
<1>7. Resynced'
  BY <1>2, ZeroResyncs
<1>8. Stocked'
  <2>1. wire \in Seq(Units) /\ Behind(wire, 0, wire) /\ 0 \in 0 .. Len(wire)
    BY <1>1, ShapesParts, EmptyWire
  <2>2. host = "slice" => up' = << >>
    BY <1>2, Heard
  <2>3. ~(host = "slice" /\ up' = <<"ACK">>)
    BY <2>2
  <2> QED BY <1>1, <1>2, <2>1, <2>3, StockedKept
<1>9. Shapes'
  <2>1. mishaps' \in Nat
    BY <1>1, <1>2, ShapesParts
  <2> QED BY <1>1, <1>2, <1>3, <1>4, <2>1, ShapesParts, ShapesMade
<1> QED BY <1>5, <1>6, <1>7, <1>8, <1>9 DEF MonitorInv

Resync5 == Zeros(MaxLen + 1) \o Ping

\* The resynchronisation, unit by unit.
LEMMA ResyncUnits ==
  /\ Resync5 \in Seq(Units) /\ Len(Resync5) = 5 /\ \A i \in 1 .. 3 : Resync5[i] = <<"zero">>
  /\ Resync5[4] = PingHead /\ Resync5[5] = PingSum
<1>1. MaxLen + 1 = 3 /\ 3 \in Nat
  BY DEF MaxLen
<1>2. Zeros(3) \in Seq(Units) /\ Len(Zeros(3)) = 3 /\ \A i \in 1 .. 3 : Zeros(3)[i] = <<"zero">>
  BY NoiseParts
<1>3. Ping \in Seq(Units) /\ Len(Ping) = 2 /\ Ping[1] = PingHead /\ Ping[2] = PingSum
  BY WindowFrames
<1>4. Resync5 = Zeros(3) \o Ping
  BY <1>1 DEF Resync5
<1>5. /\ Resync5 \in Seq(Units) /\ Len(Resync5) = 3 + 2
      /\ \A i \in 1 .. 3 : Resync5[i] = Zeros(3)[i]
      /\ \A i \in 1 .. 2 : Resync5[i + 3] = Ping[i]
  <2> DEFINE z == Zeros(3)
             a == z \o Ping
  <2>1. z \in Seq(Units) /\ Len(z) = 3
    BY <1>2
  <2> HIDE DEF z
  <2>2. /\ a \in Seq(Units) /\ Len(a) = Len(z) + Len(Ping)
        /\ \A i \in 1 .. Len(z) : a[i] = z[i]
        /\ \A i \in 1 .. Len(Ping) : a[i + Len(z)] = Ping[i]
    BY <1>3, <2>1, ConcatParts
  <2>3. a = Resync5
    BY <1>4 DEF z
  <2> HIDE DEF a
  <2>4. /\ a \in Seq(Units) /\ Len(a) = 3 + 2
        /\ \A i \in 1 .. 3 : a[i] = z[i]
        /\ \A i \in 1 .. 2 : a[i + 3] = Ping[i]
    BY <1>3, <2>1, <2>2
  <2> QED BY <2>3, <2>4 DEF z
<1>6. Resync5[1 + 3] = Ping[1] /\ Resync5[2 + 3] = Ping[2]
  BY <1>5
<1> QED BY <1>2, <1>3, <1>5, <1>6

\* What may come of a resynchronisation: its PING is the end, after pieces enough for any frame.
Flushing(s) ==
  /\ s \in Seq(Units) /\ Len(s) >= 4
  /\ \A i \in DOMAIN s : /\ s[i][1] = "head" => LastPing(s, i) /\ i >= 3
                         /\ s[i][1] = "sum" => i >= 4

\* Noise does no harm.
LEMMA NoiseFlushes ==
  ASSUME NEW n \in Nat, n >= 4
  PROVE  Flushing(Noise(n))
<1>1. Noise(n) \in Seq(Units) /\ Len(Noise(n)) = n /\ \A i \in DOMAIN Noise(n) : Noise(n)[i][1] = "noise"
  BY NoiseParts
<1> QED BY <1>1 DEF Flushing

\* Nor does a lost unit.
LEMMA ResyncFlushes ==
  /\ Flushing(Resync5)
  /\ \A k \in DOMAIN Resync5 : Flushing(RemoveAt(Resync5, k))
<1> DEFINE u == Resync5
<1>1. /\ u \in Seq(Units) /\ Len(u) = 5 /\ \A i \in 1 .. 3 : u[i] = <<"zero">>
      /\ u[4] = PingHead /\ u[5] = PingSum
  BY ResyncUnits
<1> HIDE DEF u
<1>2. /\ \A i \in 1 .. 3 : u[i][1] = "zero"
      /\ u[4][1] = "head" /\ u[5][1] = "sum" /\ PingHead[1] = "head" /\ PingSum[1] = "sum"
  BY <1>1 DEF PingHead, PingSum
<1>3. DOMAIN u = 1 .. 5 /\ \A i \in 1 .. 5 : i \in 1 .. 3 \/ i = 4 \/ i = 5
  BY <1>1
<1>4. Flushing(u)
  <2>1. LastPing(u, 4)
    <3>1. u[4][2] = "ping"
      BY <1>1 DEF PingHead
    <3>2. 4 = Len(u) - 1
      BY <1>1
    <3> QED BY <1>2, <3>1, <3>2 DEF LastPing
  <2>2. ASSUME NEW i \in 1 .. 5
        PROVE  /\ u[i][1] = "head" => LastPing(u, i) /\ i >= 3
               /\ u[i][1] = "sum" => i >= 4
    BY <1>2, <1>3, <2>1
  <2> QED BY <1>1, <1>3, <2>2 DEF Flushing
<1>5. ASSUME NEW k \in DOMAIN u PROVE Flushing(RemoveAt(u, k))
  <2> DEFINE g == RemoveAt(u, k)
  <2>1. /\ g \in Seq(Units) /\ Len(g) = Len(u) - 1
        /\ \A i \in 1 .. Len(u) - 1 : g[i] = IF i < k THEN u[i] ELSE u[i + 1]
    BY <1>1, <1>5, RemovedParts
  <2> HIDE DEF g
  <2>2. /\ Len(g) = 4 /\ DOMAIN g = 1 .. 4 /\ k \in 1 .. 5
        /\ \A i \in 1 .. 4 : g[i] = IF i < k THEN u[i] ELSE u[i + 1]
    BY <1>1, <1>5, <2>1
  <2>3. /\ g[1] = <<"zero">> /\ g[2] = <<"zero">>
        /\ g[3] = (IF 3 < k THEN u[3] ELSE u[4]) /\ g[4] = (IF 4 < k THEN u[4] ELSE u[5])
    BY <1>1, <2>2
  <2>4. g[1][1] = "zero" /\ g[2][1] = "zero"
    BY <2>3
  <2>5. g[3][1] = "sum" => FALSE
    BY <1>2, <2>3
  <2>6. g[3][1] = "head" => LastPing(g, 3)
    <3> SUFFICES ASSUME g[3][1] = "head" PROVE LastPing(g, 3)
      OBVIOUS
    <3>1. u[3][1] = "zero"
      BY <1>2
    <3>2. g[3] = PingHead
      BY <1>1, <2>3, <3>1
    <3>3. g[3][2] = "ping"
      BY <3>2 DEF PingHead
    <3>4. 3 = Len(g) - 1
      BY <2>2
    <3> QED BY <3>3, <3>4 DEF LastPing
  <2>7. g[4][1] = "head" => LastPing(g, 4)
    <3> SUFFICES ASSUME g[4][1] = "head" PROVE LastPing(g, 4)
      OBVIOUS
    <3>1. g[4] = PingHead
      BY <1>1, <1>2, <2>3
    <3>2. g[4][2] = "ping"
      BY <3>1 DEF PingHead
    <3> QED BY <2>2, <3>2 DEF LastPing
  <2>8. ASSUME NEW i \in 1 .. 4
        PROVE  /\ g[i][1] = "head" => LastPing(g, i) /\ i >= 3
               /\ g[i][1] = "sum" => i >= 4
    <3>1. i = 1 \/ i = 2 \/ i = 3 \/ i = 4
      OBVIOUS
    <3> QED BY <2>4, <2>5, <2>6, <2>7, <3>1
  <2>9. Flushing(g)
    <3>1. Len(g) >= 4
      BY <2>2
    <3> QED BY <2>1, <2>2, <2>8, <3>1 DEF Flushing
  <2> QED BY <2>9 DEF g
<1> QED BY <1>4, <1>5 DEF u

\* Nor does one that is damaged.
LEMMA DamageFlushes ==
  ASSUME line # "garbles", NEW k \in DOMAIN Resync5, NEW u \in Damage(Resync5[k])
  PROVE  Flushing([Resync5 EXCEPT ![k] = u])
<1> DEFINE r == Resync5
           g == [r EXCEPT ![k] = u]
<1>1. /\ r \in Seq(Units) /\ Len(r) = 5 /\ \A i \in 1 .. 3 : r[i] = <<"zero">>
      /\ r[4] = PingHead /\ r[5] = PingSum /\ k \in DOMAIN r
  BY ResyncUnits
<1>2. (k = 4 /\ \E n \in Nat : u = <<"head", "ping", n>>) \/ u = <<"noise">>
  <2>1. \/ r[k][1] = "head" /\ \E n \in {1, Far} : u = <<"head", r[k][2], n>>
        \/ u = <<"noise">>
    BY DamageIs
  <2> HIDE DEF r
  <2>2. \A i \in 1 .. 3 : r[i][1] = "zero"
    BY <1>1
  <2>3. r[5][1] = "sum" /\ r[4][2] = "ping"
    BY <1>1 DEF PingSum, PingHead
  <2>4. r[k][1] = "head" => k = 4
    BY <1>1, <2>2, <2>3
  <2>5. 1 \in Nat /\ Far \in Nat
    BY DEF Far, MaxLen
  <2> QED BY <2>1, <2>3, <2>4, <2>5
<1> HIDE DEF r
<1>3. u \in Units /\ u[1] # "sum" /\ (u[1] = "head" => k = 4 /\ u[2] = "ping")
  <2>1. CASE u = <<"noise">>
    BY <2>1 DEF Units
  <2>2. CASE k = 4 /\ \E n \in Nat : u = <<"head", "ping", n>>
    <3>1. PICK n \in Nat : u = <<"head", "ping", n>>
      BY <2>2
    <3> QED BY <2>2, <3>1 DEF Units, Types, Commands
  <2> QED BY <1>2, <2>1, <2>2
<1>4. /\ g \in Seq(Units) /\ Len(g) = 5 /\ k \in 1 .. 5 /\ g[k] = u
      /\ \A i \in 1 .. 5 : i # k => g[i] = r[i]
  BY <1>1, <1>3, ReplacedParts
<1> HIDE DEF g
<1>5. /\ \A i \in 1 .. 3 : r[i][1] = "zero"
      /\ r[4][1] = "head" /\ r[4][2] = "ping" /\ r[5][1] = "sum"
  BY <1>1 DEF PingHead, PingSum
<1>6. ASSUME NEW i \in 1 .. 5
      PROVE  /\ g[i][1] = "head" => LastPing(g, i) /\ i >= 3
             /\ g[i][1] = "sum" => i >= 4
  <2>1. g[i][1] = "head" => i = 4 /\ g[i][2] = "ping"
    BY <1>3, <1>4, <1>5
  <2>2. g[i][1] = "sum" => i = 5
    BY <1>3, <1>4, <1>5
  <2>3. 4 = Len(g) - 1
    BY <1>4
  <2> QED BY <2>1, <2>2, <2>3 DEF LastPing
<1>7. Flushing(g)
  <2>1. DOMAIN g = 1 .. 5 /\ Len(g) >= 4
    BY <1>4
  <2> QED BY <1>4, <1>6, <2>1 DEF Flushing
<1> QED BY <1>7 DEF g, r

\* What comes of a resynchronisation.
LEMMA Resent ==
  ASSUME Shapes, Transmit(Resync5)
  PROVE  /\ mishaps' \in Nat
         /\ \E s : Flushing(s) /\ Kept(wire', wire \o s) /\ (Clean /\ mishaps' = mishaps => s = Resync5)
<1>1. PICK sent \in {Resync5} \union Damaged(Resync5) :
        /\ Kept(wire', wire \o (IF Clean THEN sent ELSE Noise(Len(sent))))
        /\ mishaps' = mishaps \/ mishaps' = mishaps + 1
        /\ mishaps' = mishaps => sent = Resync5
  BY Transmitting, ShapesParts
<1>2. Flushing(sent)
  <2>1. sent = Resync5 \/ sent \in {RemoveAt(Resync5, i) : i \in DOMAIN Resync5}
        \/ sent \in UNION {{[Resync5 EXCEPT ![i] = u] : u \in Damage(Resync5[i])} : i \in DOMAIN Resync5}
    BY <1>1, Zenon DEF Damaged
  <2>2. CASE sent \in UNION {{[Resync5 EXCEPT ![i] = u] : u \in Damage(Resync5[i])} : i \in DOMAIN Resync5}
    <3>1. PICK i \in DOMAIN Resync5 : sent \in {[Resync5 EXCEPT ![i] = u] : u \in Damage(Resync5[i])}
      BY <2>2
    <3>2. PICK u \in Damage(Resync5[i]) : sent = [Resync5 EXCEPT ![i] = u]
      BY <3>1
    <3>3. line # "garbles"
      BY DEF Shapes
    <3> QED BY <3>2, <3>3, DamageFlushes
  <2> QED BY <2>1, <2>2, ResyncFlushes
<1>3. mishaps' \in Nat
  BY <1>1, ShapesParts
<1>4. CASE Clean
  BY <1>1, <1>2, <1>3, <1>4
<1>5. CASE ~Clean
  <2>1. Len(sent) \in Nat /\ Len(sent) >= 4
    BY <1>2 DEF Flushing
  <2>2. Flushing(Noise(Len(sent)))
    BY <2>1, NoiseFlushes
  <2> QED BY <1>1, <1>3, <1>5, <2>2
<1> QED BY <1>4, <1>5

\* A resynchronisation on an empty wire.
LEMMA FlushedAlone ==
  ASSUME NEW s, Flushing(s), NEW v, Kept(v, s)
  PROVE  v \in Seq(Units) /\ v # << >> /\ v[1] = s[1] /\ Flushed(v)
<1>1. s \in Seq(Units) /\ Len(s) \in Nat /\ Len(s) >= 4 /\ s # << >>
  BY DEF Flushing
<1>2. /\ v \in Seq(Units) /\ Len(v) \in Nat /\ Len(v) <= Len(s) /\ v # << >>
      /\ \A i \in 1 .. Len(v) : v[i] = s[i] /\ i \in 1 .. Len(s)
      /\ \A i \in Heads(v) : i \in Heads(s) /\ i \in 1 .. Len(v)
  BY <1>1, KeptParts
<1>3. ASSUME NEW i \in Heads(v) PROVE LastPing(v, i)
  <2>1. i \in 1 .. Len(v) /\ v[i] = s[i] /\ i \in DOMAIN s /\ s[i][1] = "head"
    BY <1>2 DEF Heads
  <2>2. LastPing(s, i)
    BY <2>1 DEF Flushing
  <2>3. v[i][1] = "head" /\ v[i][2] = "ping" /\ i \in {Len(s) - 1, Len(s)}
    BY <2>1, <2>2 DEF LastPing
  <2>4. i \in {Len(v) - 1, Len(v)}
    BY <1>1, <1>2, <2>1, <2>3
  <2> QED BY <2>3, <2>4 DEF LastPing
<1>4. 1 \in 1 .. Len(v)
  <2>1. Len(v) # 0
    BY <1>2, EmptySeq
  <2> QED BY <1>2, <2>1
<1> QED BY <1>2, <1>3, <1>4, OnlyLastPings

\* A resynchronisation behind a frame that was cut short ends that frame, and its PING stands.
LEMMA FlushedAfter ==
  ASSUME NEW w \in Seq(Units), Cut(w), w[1][3] \in 0 .. MaxLen, Len(w) \in Nat \ {0}, Len(w) < w[1][3] + 2,
         NEW s, Flushing(s)
  PROVE  Flushed(w \o s)
<1> DEFINE n == w[1][3]
           a == w \o s
<1>1. s \in Seq(Units) /\ Len(s) \in Nat /\ Len(s) >= 4
  BY DEF Flushing
<1>2. /\ a \in Seq(Units) /\ Len(a) = Len(w) + Len(s)
      /\ \A i \in 1 .. Len(w) : a[i] = w[i]
      /\ \A i \in 1 .. Len(s) : a[i + Len(w)] = s[i]
      /\ \A i \in Heads(a) : \/ i \in Heads(w) /\ i \in 1 .. Len(w)
                             \/ \E j \in Heads(s) : j \in 1 .. Len(s) /\ i = j + Len(w)
  BY <1>1, ConcatParts
<1>3. n \in Nat /\ n <= 2 /\ Len(w) \in Nat /\ Len(w) >= 1 /\ Len(w) < n + 2
  BY DEF MaxLen
<1> HIDE DEF a
<1>4. a[1] = w[1]
  BY <1>2, <1>3
<1>5. Cut(a) /\ a[1][3] = n
  <2>1. w[1][1] = "head" /\ Fits(n)
    BY DEF Cut, Heads
  <2>2. 1 \in DOMAIN a
    BY <1>1, <1>2, <1>3
  <2> QED BY <1>4, <2>1, <2>2 DEF Cut, Heads
<1> HIDE DEF n
<1>6. ASSUME NEW i \in Heads(a) PROVE LastPing(a, i) \/ i <= n + 2
  <2>1. CASE i \in Heads(w) /\ i \in 1 .. Len(w)
    BY <1>3, <2>1
  <2>2. ASSUME NEW j \in Heads(s), j \in 1 .. Len(s), i = j + Len(w) PROVE LastPing(a, i)
    <3>1. LastPing(s, j)
      BY <2>2 DEF Flushing, Heads
    <3>2. a[i][1] = "head" /\ a[i][2] = "ping" /\ j \in {Len(s) - 1, Len(s)}
      BY <1>2, <2>2, <3>1 DEF LastPing
    <3>3. i \in {Len(a) - 1, Len(a)}
      BY <1>1, <1>2, <1>3, <2>2, <3>2
    <3> QED BY <3>2, <3>3 DEF LastPing
  <2> QED BY <1>2, <2>1, <2>2
<1>7. a[n + 2][1] # "sum"
  <2> DEFINE k == n + 2 - Len(w)
  <2>1. k \in 1 .. Len(s) /\ k < 4 /\ k + Len(w) = n + 2
    BY <1>1, <1>3
  <2> HIDE DEF k
  <2>2. a[n + 2] = s[k]
    BY <1>2, <2>1
  <2>3. s[k][1] # "sum"
    <3>1. k \in DOMAIN s
      BY <1>1, <2>1
    <3> QED BY <1>1, <2>1, <3>1 DEF Flushing
  <2> QED BY <2>2, <2>3
<1>8. Flushed(a)
  BY <1>5, <1>6, <1>7 DEF Flushed
<1> QED BY <1>8 DEF a

\* A resynchronisation that arrives: its PING will be read.
LEMMA PingDueAfter ==
  ASSUME NEW w \in Seq(Units),
         w = << >> \/ (w[1][3] \in 0 .. MaxLen /\ Len(w) \in Nat \ {0})
  PROVE  PingDue(w \o Resync5)
<1> DEFINE a == w \o Resync5
<1>1. /\ Resync5 \in Seq(Units) /\ Len(Resync5) = 5 /\ Resync5[1] = <<"zero">>
      /\ Resync5[4] = PingHead /\ Resync5[5] = PingSum
  BY ResyncUnits
<1>2. /\ a \in Seq(Units) /\ Len(w) \in Nat /\ Len(a) = Len(w) + Len(Resync5)
      /\ \A i \in 1 .. Len(w) : a[i] = w[i]
      /\ \A i \in 1 .. Len(Resync5) : a[i + Len(w)] = Resync5[i]
  BY <1>1, ConcatParts
<1> HIDE DEF a
<1>3. Len(a) = Len(w) + 5 /\ a[1 + Len(w)] = <<"zero">> /\ a[4 + Len(w)] = PingHead /\ a[5 + Len(w)] = PingSum
  BY <1>1, <1>2
<1>4. Len(a) >= 2 /\ Len(a) - 1 = 4 + Len(w) /\ Len(a) = 5 + Len(w)
  BY <1>2, <1>3
<1>5. a[Len(a) - 1] = PingHead /\ a[Len(a)] = PingSum
  BY <1>3, <1>4
<1>6. Cut(a) => a[1][3] + 2 <= Len(a) - 2
  <2>1. CASE w = << >>
    <3>1. Len(w) = 0
      BY <2>1
    <3>2. a[1] = <<"zero">>
      BY <1>3, <3>1
    <3>3. a[1][1] = "zero"
      BY <3>2
    <3> QED BY <3>3 DEF Cut, Heads
  <2>2. CASE w[1][3] \in 0 .. MaxLen /\ Len(w) \in Nat \ {0}
    <3>1. a[1] = w[1]
      BY <1>2, <2>2
    <3> DEFINE n == w[1][3]
    <3>2. n \in 0 .. 2 /\ a[1][3] = n
      BY <2>2, <3>1 DEF MaxLen
    <3> HIDE DEF n
    <3>3. Len(w) >= 1 /\ Len(a) - 2 = Len(w) + 3
      BY <1>2, <1>4, <2>2
    <3>4. n + 2 <= Len(a) - 2
      BY <1>2, <3>2, <3>3
    <3> QED BY <3>2, <3>4
  <2> QED BY <2>1, <2>2
<1> QED BY <1>4, <1>5, <1>6 DEF PingDue, a

\* What is on the wire of a silent monitor is not a PING it will read.
LEMMA NoPingDue ==
  ASSUME Shapes, wire = << >> \/ (Framed /\ ~Whole)
  PROVE  ~PingDue(wire)
<1>1. CASE wire = << >>
  <2>1. Len(wire) = 0
    BY <1>1
  <2>2. ~(Len(wire) >= 2)
    BY <2>1
  <2> QED BY <2>2 DEF PingDue
<1>2. CASE Framed /\ ~Whole
  <2> DEFINE n == wire[1][3]
  <2>1. Cut(wire) /\ n \in 0 .. MaxLen /\ Len(wire) \in Nat \ {0} /\ Len(wire) < n + 2
    BY <1>2, CutShort
  <2> SUFFICES ASSUME PingDue(wire) PROVE FALSE
    OBVIOUS
  <2>2. wire[Len(wire) - 1] = PingHead /\ (Len(wire) = 2 \/ n + 2 <= Len(wire) - 2)
    BY <2>1 DEF PingDue
  <2>3. n \in Nat
    BY <2>1 DEF MaxLen
  <2>4. CASE Len(wire) = 2
    <3>1. wire[1] = PingHead
      BY <2>2, <2>4
    <3>2. n = 0
      BY <3>1 DEF PingHead
    <3> HIDE DEF n
    <3> QED BY <2>1, <2>4, <3>2
  <2>5. CASE n + 2 <= Len(wire) - 2
    <3> HIDE DEF n
    <3> QED BY <2>1, <2>3, <2>5
  <2> QED BY <2>2, <2>4, <2>5
<1> QED BY <1>1, <1>2

\* What is on the wire after a resynchronisation, of which s has come through.
LEMMA ResyncWire ==
  ASSUME MonitorInv, Silent, NEW s, Flushing(s), Kept(wire', wire \o s)
  PROVE  /\ wire' \in Seq(Units) /\ wire' # << >> /\ Flushed(wire')
         /\ wire = << >> => wire'[1] = s[1]
         /\ mode # "running" => wire' = wire \o s
         /\ \A i \in Heads(wire') : (i \in Heads(wire) /\ wire'[i] = wire[i]) \/ wire'[i][2] = "ping"
<1>1. Shapes /\ wire \in Seq(Units)
  BY ShapesParts DEF MonitorInv
<1>2. s \in Seq(Units) /\ Len(s) \in Nat /\ Len(s) >= 4 /\ s # << >>
  BY DEF Flushing
<1>3. /\ wire \o s \in Seq(Units) /\ Len(wire) \in Nat /\ Len(wire \o s) = Len(wire) + Len(s)
      /\ \A i \in 1 .. Len(wire) : (wire \o s)[i] = wire[i]
      /\ \A i \in 1 .. Len(s) : (wire \o s)[i + Len(wire)] = s[i]
      /\ \A i \in Heads(wire \o s) : \/ i \in Heads(wire) /\ i \in 1 .. Len(wire)
                                     \/ \E j \in Heads(s) : j \in 1 .. Len(s) /\ i = j + Len(wire)
  BY <1>1, <1>2, ConcatParts
<1> DEFINE a == wire \o s
<1>4. wire = << >> => a = s
  BY <1>1, <1>2
<1> HIDE DEF a
<1>5. a # << >>
  <2>1. Len(a) >= 4
    BY <1>2, <1>3 DEF a
  <2>2. Len(<< >>) = 0
    OBVIOUS
  <2> QED BY <2>1, <2>2
<1>6. /\ wire' \in Seq(Units) /\ wire' # << >> /\ (mode # "running" => wire' = a)
      /\ \A i \in 1 .. Len(wire') : wire'[i] = a[i]
      /\ \A i \in Heads(wire') : i \in Heads(a) /\ i \in 1 .. Len(wire')
  <2>1. a \in Seq(Units) /\ Kept(wire', a)
    BY <1>3 DEF a
  <2> QED BY <1>5, <2>1, KeptParts
<1>7. ASSUME NEW i \in Heads(wire')
      PROVE  (i \in Heads(wire) /\ wire'[i] = wire[i]) \/ wire'[i][2] = "ping"
  <2>1. i \in Heads(a) /\ wire'[i] = a[i]
    BY <1>6
  <2>2. CASE i \in Heads(wire) /\ i \in 1 .. Len(wire)
    BY <1>3, <2>1, <2>2 DEF a
  <2>3. ASSUME NEW j \in Heads(s), j \in 1 .. Len(s), i = j + Len(wire)
        PROVE  wire'[i][2] = "ping"
    <3>1. s[j][2] = "ping"
      BY <2>3 DEF Flushing, Heads, LastPing
    <3> QED BY <1>3, <2>1, <2>3, <3>1 DEF a
  <2> QED BY <1>3, <2>1, <2>2, <2>3 DEF a
<1>8. CASE wire = << >>
  <2>1. Kept(wire', s)
    BY <1>4, <1>8 DEF a
  <2>2. wire'[1] = s[1] /\ Flushed(wire')
    BY <2>1, FlushedAlone
  <2> QED BY <1>6, <1>7, <2>2 DEF a
<1>9. CASE wire # << >>
  <2>1. mode = "halted" /\ Framed /\ ~Whole
    BY <1>9, SilentFacts
  <2>2. wire' = a
    BY <1>6, <2>1
  <2>3. /\ Cut(wire) /\ wire[1][3] \in 0 .. MaxLen /\ Len(wire) \in Nat \ {0} /\ Len(wire) < wire[1][3] + 2
    BY <1>1, <2>1, CutShort
  <2>4. Flushed(a)
    BY <1>1, <2>3, FlushedAfter DEF a
  <2> QED BY <1>6, <1>7, <1>9, <2>2, <2>4 DEF a
<1> QED BY <1>8, <1>9

\* A resynchronisation that is not the first at this rate finds the monitor halted.
LEMMA ResyncCounts ==
  ASSUME MonitorInv, Resync
  PROVE  Resynced'
<1>1. Shapes /\ Phase /\ Rated /\ Resynced
  BY DEF MonitorInv
<1>2. /\ host = "lost" /\ Silent /\ Transmit(Resync5)
      /\ resyncs' = (IF mishaps' # mishaps THEN 0 ELSE IF resyncs < 3 THEN resyncs + 1 ELSE 3)
      /\ up' = up /\ mode' = mode /\ host' = host /\ rate' = rate /\ hostRate' = hostRate
  BY Zenon DEF Resync, Resync5, hosting, monitor
<1>3. up = << >> /\ mode \in {"halted", "running"} /\ (wire = << >> \/ (mode = "halted" /\ Framed /\ ~Whole))
  BY <1>2, SilentFacts
<1>4. PICK s : Flushing(s) /\ Kept(wire', wire \o s) /\ (Clean /\ mishaps' = mishaps => s = Resync5)
  BY <1>1, <1>2, Resent
<1>5. /\ wire' # << >> /\ (wire = << >> => wire'[1] = s[1]) /\ (mode # "running" => wire' = wire \o s)
      /\ wire' \in Seq(Units)
  BY <1>2, <1>4, ResyncWire
<1>6. CASE mishaps' # mishaps
  <2>1. resyncs' = 0
    BY <1>2, <1>6
  <2> QED BY <2>1, ZeroResyncs
<1>7. CASE mishaps' = mishaps
  <2>1. resyncs \in 0 .. 3
    BY <1>1 DEF Resynced
  <2>2. resyncs' = IF resyncs < 3 THEN resyncs + 1 ELSE 3
    BY <1>2, <1>7
  <2>3. resyncs' \in 0 .. 3
    BY <2>1, <2>2
  <2>4. hostRate = rate => s = Resync5
    <3>1. rate = "new" => line # "monitor deaf"
      BY <1>1, <1>3 DEF Rated
    <3> QED BY <1>4, <1>7, <3>1 DEF Clean
  <2>5. ASSUME hostRate = rate, mode = "running"
        PROVE  resyncs' = 1 /\ wire'[1][1] # "noise"
    <3>1. wire = << >>
      BY <1>3, <2>5
    <3>2. resyncs = 0
      BY <1>1, <2>5, <3>1, RunningResync
    <3>3. resyncs' = 1
      BY <2>2, <3>2
    <3>4. wire'[1] = <<"zero">>
      <4>1. Resync5[1] = <<"zero">>
        BY ResyncUnits
      <4> QED BY <1>5, <2>4, <2>5, <3>1, <4>1
    <3> QED BY <3>3, <3>4
  <2>6. ASSUME hostRate = rate, mode = "halted"
        PROVE  ~(resyncs > 1) /\ PingDue(wire')
    <3>1. ~(resyncs > 1)
      <4>1. ~PingDue(wire)
        BY <1>1, <1>3, NoPingDue
      <4>2. DOMAIN up = {}
        BY <1>3
      <4> QED BY <1>1, <2>6, <4>1, <4>2, SecondPing
    <3>2. wire' = wire \o Resync5
      BY <1>5, <2>4, <2>6
    <3>3. wire = << >> \/ (wire[1][3] \in 0 .. MaxLen /\ Len(wire) \in Nat \ {0})
      BY <1>1, <1>3, CutShort
    <3>4. wire \in Seq(Units)
      BY <1>1, ShapesParts
    <3>5. PingDue(wire')
      BY <3>2, <3>3, <3>4, PingDueAfter
    <3> QED BY <3>1, <3>5
  <2>7. \A r \in 0 .. 3 : ~(r > 1) => r = 0 \/ r = 1
    OBVIOUS
  <2>8. ASSUME hostRate = rate, mode = "halted", resyncs' > 1
        PROVE  resyncs' = 2 /\ PingDue(wire')
    <3>1. resyncs = 0 \/ resyncs = 1
      BY <2>1, <2>6, <2>7, <2>8
    <3>2. resyncs' = 2
      BY <2>2, <2>8, <3>1
    <3> QED BY <2>6, <2>8, <3>2
  <2>9. First' = wire'[1]
    BY <1>5 DEF First
  <2>10. hostRate' = rate' /\ resyncs' # 0 /\ mode' = "running" =>
           resyncs' = 1 /\ wire' # << >> /\ First'[1] # "noise"
    BY <1>2, <1>5, <2>5, <2>9, Zenon
  <2>11. hostRate' = rate' /\ resyncs' > 1 => resyncs' = 2 /\ mode' = "halted" /\ PingDue(wire')
    <3>1. ASSUME hostRate' = rate', resyncs' > 1 PROVE resyncs' = 2 /\ mode' = "halted" /\ PingDue(wire')
      <4>1. hostRate = rate
        BY <1>2, <3>1, Zenon
      <4>2. mode # "running"
        <5>1. mode = "running" => resyncs' = 1
          BY <2>5, <4>1
        <5>2. ~(1 > 1)
          OBVIOUS
        <5> QED BY <3>1, <5>1, <5>2
      <4>3. mode = "halted"
        BY <1>3, <4>2
      <4>4. resyncs' = 2 /\ PingDue(wire')
        BY <2>8, <3>1, <4>1, <4>3
      <4> QED BY <1>2, <4>3, <4>4
    <3> QED BY <3>1
  <2>12. resyncs' # 0 => host' = "lost"
    BY <1>2
  <2> QED BY <2>3, <2>10, <2>11, <2>12, Zenon DEF Resynced
<1> QED BY <1>6, <1>7

\* Zeros that end any frame in progress, then PING.
LEMMA ResyncKeeps ==
  ASSUME MonitorInv, Resync
  PROVE  MonitorInv'
<1>1. Shapes /\ Phase /\ Rated /\ Resynced /\ Stocked
  BY DEF MonitorInv
<1>2. /\ host = "lost" /\ Silent /\ Transmit(Resync5)
      /\ up' = up /\ rate' = rate /\ mode' = mode /\ cached' = cached /\ loaded' = loaded
      /\ host' = host /\ slice' = slice /\ hostRate' = hostRate
      /\ ctx' = ctx /\ memWritten' = memWritten /\ lz' = lz /\ memory' = memory
      /\ line' = line /\ secondLost' = secondLost
  BY Zenon DEF Resync, Resync5, hosting, monitor, target
<1>3. up = << >> /\ mode \in {"halted", "running"}
  BY <1>2, SilentFacts
<1>4. PICK s : Flushing(s) /\ Kept(wire', wire \o s)
  BY <1>1, <1>2, Resent
<1>5. /\ wire' \in Seq(Units) /\ Flushed(wire')
      /\ \A i \in Heads(wire') : (i \in Heads(wire) /\ wire'[i] = wire[i]) \/ wire'[i][2] = "ping"
  BY <1>2, <1>4, ResyncWire
<1>6. Phase'
  <2>1. DOMAIN up' = {}
    BY <1>2, <1>3
  <2>2. Lost'
    BY <1>2, <1>3, <1>5, <2>1 DEF Lost, Waits
  <2> QED BY <1>2, <2>2 DEF Phase, Commands
<1>7. Rated'
  BY <1>1, <1>2, RatedKept
<1>8. Stocked'
  <2>1. host' \notin {"write", "slice"}
    BY <1>2
  <2> QED BY <1>1, <1>2, <1>5, <2>1, StockedSent
<1>9. Shapes'
  <2>1. mishaps' \in Nat
    BY <1>1, <1>2, Resent
  <2> QED BY <1>1, <1>2, <1>5, <2>1, ShapesParts, ShapesMade
<1>10. Resynced'
  BY ResyncCounts
<1> QED BY <1>6, <1>7, <1>8, <1>9, <1>10 DEF MonitorInv

-----------------------------------------------------------------------------
(* All together.                                                             *)

\* Nothing happens.
LEMMA StutterKeeps ==
  ASSUME MonitorInv, UNCHANGED vars
  PROVE  MonitorInv'
<1>1. Shapes /\ Phase /\ Rated /\ Resynced /\ Stocked
  BY DEF MonitorInv
<1>2. /\ wire' = wire /\ up' = up /\ rate' = rate /\ mode' = mode /\ cached' = cached
      /\ ctx' = ctx /\ memWritten' = memWritten /\ lz' = lz /\ memory' = memory
      /\ host' = host /\ slice' = slice /\ loaded' = loaded /\ hostRate' = hostRate /\ mishaps' = mishaps
      /\ line' = line /\ resyncs' = resyncs /\ secondLost' = secondLost
  BY Zenon DEF vars, hosting, faults, monitor, target
<1>3. Phase'
  <2>1. Payload(host)' = Payload(host) /\ Expected(host)' = Expected(host)
    BY <1>2 DEF Payload, Expected
  <2>2. /\ Asking' <=> Asking
        /\ Stopping' <=> Stopping
        /\ Lost' <=> Lost
    BY <1>2, <2>1 DEF Asking, Stopping, Lost, Waits, Told
  <2>3. Trying' <=> Trying
    BY <1>2 DEF Trying, Waits, Told
  <2>4. Confirming' <=> Confirming
    BY <1>2 DEF Confirming, Waits, Told
  <2>5. Awake' <=> Awake
    BY <1>2, <2>1 DEF Awake, Waits, Told
  <2> QED BY <1>1, <1>2, <2>2, <2>3, <2>4, <2>5, Zenon DEF Phase, Waits
<1>4. Rated'
  BY <1>1, <1>2, RatedKept
<1>5. Resynced'
  BY <1>1, <1>2 DEF Resynced, First
<1>6. Stocked'
  BY <1>1, <1>2 DEF Stocked, Cells
<1>7. Shapes'
  BY <1>1, <1>2, ShapesParts, ShapesMade
<1> QED BY <1>3, <1>4, <1>5, <1>6, <1>7 DEF MonitorInv

\* A step of the monitor, the target, the host or the line.
LEMMA NextKeeps ==
  ASSUME MonitorInv, [Next]_vars
  PROVE  MonitorInv'
<1>1. CASE Next
  <2>1. CASE Drop \/ StreamWriteMem \/ StreamWriteMemLz4 \/ Refuse \/ ContRefused
    BY <2>1, DropKeeps, WriteKeeps, SliceKeeps, RefuseKeeps
  <2>2. CASE \E type \in {"ping", "regs", "set", "stop"} : Inspect(type)
    BY <2>2, InspectKeeps
  <2>3. CASE \E type \in {"run", "cont"} : Resume(type)
    BY <2>3, ResumeKeeps
  <2>4. CASE SetBaud \/ Window \/ WindowSkip \/ Expire
    BY <2>4, SetBaudKeeps, WindowKeeps, WindowSkipKeeps, ExpireKeeps
  <2>5. CASE Execute \/ Break \/ Interrupt
    BY <2>5, ExecuteKeeps, InterruptKeeps
  <2>6. CASE \E c \in Commands : Command(c)
    BY <2>6, CommandKeeps
  <2>7. CASE AskStop \/ Hear \/ TryPing \/ Timeout \/ Resync \/ LoseReply
    BY <2>7, AskStopKeeps, HearKeeps, TryPingKeeps, TimeoutKeeps, ResyncKeeps, LoseReplyKeeps
  <2> QED BY <1>1, <2>1, <2>2, <2>3, <2>4, <2>5, <2>6, <2>7, Zenon DEF Next
<1>2. CASE UNCHANGED vars
  BY <1>2, StutterKeeps
<1> QED BY <1>1, <1>2

\* At the start nothing is on the wire.
LEMMA InitHolds ==
  ASSUME line # "garbles", Init
  PROVE  MonitorInv
<1>1. /\ mode = "halted" /\ ctx = FALSE /\ memWritten = FALSE /\ lz = Closed /\ rate = "old"
      /\ memory = [c \in Cells |-> 0] /\ cached = NotCached /\ wire = << >> /\ up = << >>
      /\ host = "idle" /\ slice = 1 /\ loaded = FALSE /\ hostRate = "old"
      /\ line \in {"good", "host deaf", "monitor deaf"} /\ mishaps = 0 /\ resyncs = 0 /\ secondLost = FALSE
  <2>1. line \in {"good", "host deaf", "monitor deaf", "garbles"}
    BY Zenon DEF Init
  <2>2. line \in {"good", "host deaf", "monitor deaf"}
    BY <2>1
  <2> QED BY <2>2, Zenon DEF Init
<1>2. StopLast(wire) /\ Headless(wire) /\ wire \in Seq(Units) /\ Heads(wire) = {}
  BY <1>1, EmptyWire DEF Headless
<1>3. Phase
  BY <1>1, <1>2 DEF Phase, Waits, Commands
<1>4. Rated
  BY <1>1 DEF Rated
<1>5. Resynced
  <2>1. ~(0 > 1) /\ 0 \in 0 .. 3
    OBVIOUS
  <2> QED BY <1>1, <2>1, Zenon DEF Resynced
<1>6. Stocked
  BY <1>1, <1>2 DEF Stocked, Closed
<1>7. /\ lz \in [active : BOOLEAN, consumed : 0 .. Slices, out : 0 .. Slices]
      /\ lz.consumed <= Slices /\ lz.out <= Slices /\ lz.active \in BOOLEAN
  <2>1. lz = [active |-> FALSE, consumed |-> 0, out |-> 0]
    BY <1>1, Zenon DEF Closed
  <2>2. 0 \in 0 .. Slices /\ 0 <= Slices
    BY SizeAssumption
  <2> QED BY <2>1, <2>2
<1>8. memory \in [Cells -> 0 .. Junk] /\ cached \in 0 .. NotCached /\ slice \in Cells
  <2>1. Slices \in Nat /\ Slices # 0
    BY SizeAssumption
  <2>2. 0 \in 0 .. Junk /\ NotCached \in 0 .. NotCached /\ 1 \in Cells
    BY <2>1 DEF Junk, NotCached, Cells
  <2>3. memory \in [Cells -> 0 .. Junk]
    BY <1>1, <2>2, Zenon
  <2> QED BY <1>1, <2>2, <2>3, Zenon
<1>9. up \in Seq(Replies) /\ mishaps \in Nat
  <2>1. << >> \in Seq(Replies) /\ 0 \in Nat
    OBVIOUS
  <2> QED BY <1>1, <2>1, Zenon
<1>10. TypeOK
  <2>1. {ctx, memWritten, loaded, secondLost, lz.active} \subseteq BOOLEAN
    BY <1>1, <1>7, Zenon
  <2>2. {rate, hostRate} \subseteq {"old", "new"}
    BY <1>1
  <2>3. mode \in {"halted", "running", "window1", "window2"} /\ host \in Commands \union {"idle", "running", "stopping", "try", "confirm", "lost"}
    BY <1>1
  <2> QED BY <1>7, <1>8, <1>9, <2>1, <2>2, <2>3, Zenon DEF TypeOK
<1>11. Shapes
  BY <1>1, <1>2, <1>7, <1>9, <1>10, Zenon DEF Shapes
<1> QED BY <1>3, <1>4, <1>5, <1>6, <1>11 DEF MonitorInv

\* The invariant, in every state of the monitor.
LEMMA Always == Spec /\ line # "garbles" => []MonitorInv
<1>1. Init /\ line # "garbles" => MonitorInv
  BY InitHolds
<1>2. MonitorInv /\ [Next]_vars => MonitorInv'
  BY NextKeeps
<1> QED BY <1>1, <1>2, PTL DEF Spec

\* A host that has had an ACK for the last slice of its program has it in memory, whatever was
\* resent, refused or started over on the way, on a line that loses any unit and damages any but
\* a TYPE, which could make a frame that stores before its checksum fails, and the checksum of a
\* STOP (monitor.c 264-288, 363-417, 495-498).
THEOREM ProgramLoaded == Spec /\ line # "garbles" => []LoadedExact
<1>1. MonitorInv => LoadedExact
  BY DEF MonitorInv, Shapes, Stocked, LoadedExact
<1> QED BY <1>1, Always, PTL

\* What the host hears first is for what it waits for.
LEMMA AnswersMatch ==
  ASSUME MonitorInv
  PROVE  RepliesMatch
<1>1. Shapes /\ Phase
  BY DEF MonitorInv
<1> SUFFICES ASSUME up # << >>
             PROVE  Head(up) \in Expected(host) \union (IF host \in Commands THEN Errors ELSE {})
  BY DEF RepliesMatch
<1>2. \A r : up = <<r>> => Head(up) = r
  OBVIOUS
<1>3. up = <<"ACK", "STOPPED">> => Head(up) = "ACK"
  OBVIOUS
<1>4. up \in Seq(Replies) /\ Head(up) \in Replies
  BY <1>1, ShapesParts, OneHeard
<1>5. host \in Commands \union {"idle", "running", "stopping", "try", "confirm", "lost"}
  BY <1>1, ShapesParts
<1>6. CASE host \in {"run", "cont"}
  <2>1. Awake
    BY <1>1, <1>6 DEF Phase, Commands, Asking, Waits
  <2>2. Told({"ACK", "STOPPED"} \union Errors) \/ up = <<"ACK", "STOPPED">>
    BY <1>6, <2>1 DEF Awake, Waits, Told
  <2>3. Head(up) \in {"ACK", "STOPPED"} \union Errors
    BY <1>2, <1>3, <2>2 DEF Told
  <2> QED BY <1>6, <2>3 DEF Expected
<1>7. CASE host = "baud"
  <2>1. Awake
    BY <1>1, <1>7 DEF Phase, Commands, Asking, Waits
  <2>2. Told({"ACK"} \union Errors)
    BY <1>7, <2>1 DEF Awake, Waits, Told
  <2>3. Head(up) \in {"ACK"} \union Errors
    BY <1>2, <2>2 DEF Told
  <2> QED BY <1>7, <2>3 DEF Expected, Commands
<1>8. CASE host \in {"ping", "regs", "set", "write", "slice"}
  <2>1. Awake
    BY <1>1, <1>8 DEF Phase, Commands, Asking, Waits
  <2>2. Told(Expected(host) \union Errors)
    BY <1>8, <2>1 DEF Awake, Waits
  <2>3. Head(up) \in Expected(host) \union Errors
    BY <1>2, <2>2 DEF Told
  <2> QED BY <1>8, <2>3 DEF Commands
<1>9. CASE host \in {"running", "stopping"}
  BY <1>1, <1>2, <1>9 DEF Phase, Stopping, Waits, Told, Expected
<1>10. CASE host = "try"
  BY <1>1, <1>2, <1>10 DEF Phase, Trying, Waits, Told, Expected
<1>11. CASE host = "confirm"
  BY <1>1, <1>2, <1>11 DEF Phase, Confirming, Waits, Told, Expected
<1>12. CASE host = "lost"
  BY <1>4, <1>12 DEF Expected
<1>13. host # "idle"
  BY <1>1 DEF Phase, Waits
<1> QED BY <1>5, <1>6, <1>7, <1>8, <1>9, <1>10, <1>11, <1>12, <1>13 DEF Commands

\* Once a change of rate is over, monitor and host are at one rate unless the last PONG was
\* lost; answers are never taken for another command's; and a host that lost the monitor is
\* heard the second time it resynchronises, on a line that loses any unit and damages any but a
\* TYPE and the checksum of a STOP, which would be answered ECKSUM by a monitor that has halted
\* of itself (transport.c 234-236, monitor.c 473-495).
THEOREM RatesSettle == Spec /\ line # "garbles" => []RatesAgree
<1>1. MonitorInv => RatesAgree
  <2> SUFFICES ASSUME MonitorInv PROVE RatesAgree
    OBVIOUS
  <2>1. Rated /\ Resynced
    BY DEF MonitorInv
  <2>2. mode \in {"halted", "running"} /\ host \notin {"try", "confirm"} => hostRate = rate \/ secondLost
    BY <2>1, Zenon DEF Rated
  <2>3. ResyncWorks
    <3> SUFFICES ASSUME hostRate = rate PROVE resyncs <= 2
      BY DEF ResyncWorks
    <3>1. resyncs \in 0 .. 3
      BY <2>1 DEF Resynced
    <3>2. resyncs > 1 => resyncs = 2
      BY <2>1, SecondPing
    <3> QED BY <3>1, <3>2
  <2> QED BY <2>2, <2>3, AnswersMatch, Zenon DEF RatesAgree
<1> QED BY <1>1, Always, PTL
=============================================================================
