----------------------------- MODULE GpuTimers -----------------------------
(***************************************************************************)
(* The clock and the timers of psyqo's GPU (psyqo/src/gpu.cpp 597-691).  A   *)
(* 16-bit hardware counter of scanlines is read when the program pumps and    *)
(* its advance is added to m_currentTime; the timers whose deadline has        *)
(* passed are then called, and after them the callbacks of the kernel.  Time   *)
(* is counted in scanlines, the unit of US_PER_HBLANK microseconds.  A         *)
(* callback is application code: it may arm, cancel or pause timers and, by    *)
(* any blocking call, pump again.                                             *)
(***************************************************************************)
EXTENDS Naturals, Integers, Sequences, SequencesExt

CONSTANTS
  Timer,        \* nodes of m_timers; the id of a timer is the node's address
  Wrap,         \* the hardware counter's modulus, 65536
  Delays,       \* scanlines an application may ask for
  MaxTime,      \* bound on the scanlines that pass
  MaxDepth,     \* bound on the activations of pumpCallbacks on the stack
  CancelsItself \* a callback may cancel the timer it is called for

ASSUME ClockAssumption ==
  /\ Wrap \in Nat \ {0} /\ MaxTime \in Nat /\ MaxDepth \in Nat \ {0}
  /\ Delays \subseteq Nat \ {0} /\ CancelsItself \in BOOLEAN

VARIABLES
  real,         \* scanlines since the program started
  read,         \* real, when the counter was last read
  last,         \* m_lastHSyncCounter
  now,          \* m_currentTime
  order,        \* m_timers
  timer,        \* the fields of each node
  calls,        \* calls of each single-use timer since it was armed
  depth,        \* activations of pumpCallbacks
  pump,         \* the locals of each activation, and where it is
  broken        \* an iterator to an erased node was used

clock == <<real, read, last, now>>
list == <<order, timer, calls>>
timersVars == <<clock, list, depth, pump, broken>>

Unused == [deadline |-> 0, period |-> 0, remaining |-> 0, paused |-> FALSE]
NoPump == [at |-> "off"]
Level == 1 .. MaxDepth
Live == ToSet(order)

TimersTypeOK ==
  /\ real \in 0 .. MaxTime /\ read \in 0 .. real
  /\ last \in 0 .. Wrap - 1 /\ now \in Nat
  /\ Live \subseteq Timer /\ IsInjective(order)
  /\ \A t \in Timer : /\ timer[t].deadline \in Int /\ timer[t].remaining \in Int
                      /\ t \notin Live => timer[t] = Unused
  /\ calls \in [Timer -> 0 .. 2]
  /\ depth \in 0 .. MaxDepth
  /\ \A l \in Level : pump[l].at = "off" <=> l > depth
  /\ broken \in BOOLEAN

TimersInit ==
  /\ real = 0 /\ read = 0 /\ last = 0 /\ now = 0
  /\ order = << >>
  /\ timer = [t \in Timer |-> Unused]
  /\ calls = [t \in Timer |-> 0]
  /\ depth = 0
  /\ pump = [l \in Level |-> NoPump]
  /\ broken = FALSE

\* Application code runs: the frame loop, a timer's callback, or one of the
\* callbacks that Kernel::pumpCallbacks calls.
Running == ~broken /\ IF depth = 0 THEN TRUE ELSE pump[depth].at \in {"timer", "kernel"}

\* The program pumps at least once while the counter goes round.
Tick ==
  /\ real < MaxTime
  /\ real + 1 - read < Wrap
  /\ real' = real + 1
  /\ UNCHANGED <<read, last, now, list, depth, pump, broken>>

(***************************************************************************)
(* The list.                                                                *)
(***************************************************************************)
\* armTimer with now() + delay, and armPeriodicTimer.
Arm(t, delay, period) ==
  /\ Running /\ t \notin Live
  /\ order' = Append(order, t)
  /\ timer' = [timer EXCEPT ![t] = [Unused EXCEPT !.deadline = now + delay, !.period = period]]
  /\ calls' = [calls EXCEPT ![t] = 0]
  /\ UNCHANGED <<clock, depth, pump, broken>>

\* The node leaves the list.
Erase(t) ==
  /\ \E i \in DOMAIN order : order[i] = t /\ order' = RemoveAt(order, i)
  /\ timer' = [timer EXCEPT ![t] = Unused]
  /\ calls' = [calls EXCEPT ![t] = 0]

InCallback(t) == \E l \in 1 .. depth : pump[l].at = "timer" /\ pump[l].timer = t

CancelTimer(t) ==
  /\ Running /\ t \in Live
  /\ CancelsItself \/ ~InCallback(t)
  /\ Erase(t)
  /\ UNCHANGED <<clock, depth, pump, broken>>

\* The deadline of a paused timer is not looked at again: it is 0 here.
PauseTimer(t) ==
  /\ Running /\ t \in Live /\ ~timer[t].paused
  /\ timer' = [timer EXCEPT ![t].paused = TRUE, ![t].remaining = timer[t].deadline - now,
                            ![t].deadline = 0]
  /\ UNCHANGED <<clock, order, calls, depth, pump, broken>>

ResumeTimer(t) ==
  /\ Running /\ t \in Live /\ timer[t].paused
  /\ timer' = [timer EXCEPT ![t].paused = FALSE, ![t].remaining = 0,
                            ![t].deadline = now + timer[t].remaining]
  /\ UNCHANGED <<clock, order, calls, depth, pump, broken>>

\* Only while the timer is not paused: resuming forgets the deadline this
\* computes, so that an application could move a deadline back without limit.
ChangeTimerPeriod(t, period, reset) ==
  /\ Running /\ t \in Live /\ ~timer[t].paused
  /\ timer[t].period # period /\ timer[t].period # 0
  /\ timer' = [timer EXCEPT
       ![t].period = period,
       ![t].deadline = IF reset THEN now + period ELSE @ + (period - timer[t].period)]
  /\ UNCHANGED <<clock, order, calls, depth, pump, broken>>

(***************************************************************************)
(* pumpCallbacks.                                                           *)
(***************************************************************************)
\* Mutant of Due: periodic timers are skipped.
DueOnceOnly(fields, time) ==
  ~fields.paused /\ fields.period = 0 /\ fields.deadline <= time

Due(fields, time) == ~fields.paused /\ fields.deadline <= time

\* The for loop of activation l over a list from position i: call the first
\* timer that is due, or go on to the kernel's callbacks. fields and count are
\* the timers and their calls so far.
Scan(l, p, nodes, i, fields, count) ==
  LET due == {j \in i .. Len(nodes) : Due(fields[nodes[j]], p.time)}
  IN  \/ /\ due = {}
         /\ pump' = [pump EXCEPT ![l] = [at |-> "kernel", hsync |-> p.hsync]]
         /\ timer' = fields
         /\ calls' = count
      \/ \E j \in due : LET t == nodes[j] IN
           /\ \A k \in due : j <= k
           /\ pump' = [pump EXCEPT ![l] = [p EXCEPT !.timer = t]]
           /\ timer' = [fields EXCEPT ![t].deadline = @ + fields[t].period]
           /\ calls' = [count EXCEPT ![t] = IF fields[t].period = 0 /\ @ < 2 THEN @ + 1 ELSE @]

\* Mutant of HSync: a counter that went round is not noticed.
HSyncNoWrap(counter) == IF counter < last THEN last ELSE counter

\* The counter, as of last: past the modulus when it has gone round.
HSync(counter) == IF counter < last THEN counter + Wrap ELSE counter

PumpCallbacks ==
  /\ Running /\ depth < MaxDepth
  /\ LET hsync == HSync(real % Wrap)
         time == now + (hsync - last)
     IN  /\ now' = time
         /\ Scan(depth + 1, [at |-> "timer", timer |-> {}, hsync |-> hsync, time |-> time],
                 order, 1, timer, calls)
  /\ read' = real
  /\ depth' = depth + 1
  /\ UNCHANGED <<real, last, order, broken>>

\* Mutant of TimerReturns: a single-use timer stays in the list.
TimerReturnsKeeping ==
  /\ ~broken /\ depth > 0 /\ pump[depth].at = "timer"
  /\ LET t == pump[depth].timer IN
       IF t \notin Live
         THEN broken' = TRUE /\ UNCHANGED <<list, pump>>
         ELSE /\ Scan(depth, pump[depth], order, 1, timer, calls)
              /\ UNCHANGED <<order, broken>>
  /\ UNCHANGED <<clock, depth>>

\* A timer's callback returns: a periodic timer's successor is next, a
\* single-use timer is erased and the scan starts again. Both need the node to
\* be in the list still; when it is not, anything may happen from here on.
TimerReturns ==
  /\ ~broken /\ depth > 0 /\ pump[depth].at = "timer"
  /\ LET t == pump[depth].timer IN
       \/ /\ t \notin Live
          /\ broken' = TRUE
          /\ UNCHANGED <<list, pump>>
       \/ /\ t \in Live /\ timer[t].period # 0
          /\ \E i \in DOMAIN order :
               order[i] = t /\ Scan(depth, pump[depth], order, i + 1, timer, calls)
          /\ UNCHANGED <<order, broken>>
       \/ /\ t \in Live /\ timer[t].period = 0
          /\ \E i \in DOMAIN order :
               /\ order[i] = t /\ order' = RemoveAt(order, i)
               /\ Scan(depth, pump[depth], RemoveAt(order, i), 1,
                       [timer EXCEPT ![t] = Unused], [calls EXCEPT ![t] = 0])
          /\ UNCHANGED broken
  /\ UNCHANGED <<clock, depth>>

\* Kernel::pumpCallbacks returns; m_lastHSyncCounter is only 16 bits wide.
PumpReturns ==
  /\ ~broken /\ depth > 0 /\ pump[depth].at = "kernel"
  /\ last' = pump[depth].hsync % Wrap
  /\ pump' = [pump EXCEPT ![depth] = NoPump]
  /\ depth' = depth - 1
  /\ UNCHANGED <<real, read, now, list, broken>>

TimersNext ==
  \/ Tick
  \/ \E t \in Timer, delay \in Delays : Arm(t, delay, 0) \/ Arm(t, delay, delay)
  \/ \E t \in Timer : CancelTimer(t) \/ PauseTimer(t) \/ ResumeTimer(t)
  \/ \E t \in Timer, period \in Delays, reset \in BOOLEAN : ChangeTimerPeriod(t, period, reset)
  \/ PumpCallbacks \/ TimerReturns \/ PumpReturns

\* The frame loop keeps pumping, callbacks return, and the beam moves on.
TimersSpec ==
  /\ TimersInit /\ [][TimersNext]_timersVars
  /\ WF_timersVars(Tick)
  /\ WF_timersVars(depth = 0 /\ PumpCallbacks)
  /\ WF_timersVars(TimerReturns) /\ WF_timersVars(PumpReturns)
----------------------------------------------------------------------------
\* The clock is the number of scanlines up to the last time the counter was
\* read: none is lost when the 16-bit counter goes round while callbacks run,
\* none is counted twice (gpu.cpp 652-663 and 683).
ClockTracks == TimersTypeOK /\ now = read /\ (depth = 0 => last = now % Wrap)

\* "It assumes one scanline runs at 64us" (gpu.hh 449): the clock never runs
\* ahead of the scanlines that have passed.
ClockNotAhead == now <= real

\* "Single-use timers will automatically be disabled upon being fired" (gpu.hh
\* 471): each is called at most once for each time it is armed, and no iterator is
\* used after its node has been erased (gpu.cpp 667-679).
SingleUseOnce == ~broken /\ \A t \in Timer : timer[t].period = 0 => calls[t] <= 1

\* A timer whose deadline has passed is called, unless it is paused or
\* cancelled first, and a periodic one catches up (gpu.cpp 665-681). Callbacks that
\* arm timers for later cannot hold pumpCallbacks for ever, though every single-use
\* timer restarts the scan (665-677).
Overdue(t) == t \in Live /\ ~timer[t].paused /\ timer[t].deadline <= real
OverdueCalled == (\A t \in Timer : Overdue(t) ~> ~Overdue(t)) /\ []<>(depth = 0)
============================================================================
