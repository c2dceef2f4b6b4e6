-------------------------- MODULE KernelCallbacks --------------------------
(***************************************************************************)
(* The deferred callbacks of the psyqo kernel (psyqo/src/kernel.cpp): a     *)
(* ring of functions and a flag, filled by the main thread inside a critical *)
(* section and by interrupt handlers without one, and drained by the main    *)
(* thread.  One processor: an interrupt runs between any two steps of the    *)
(* main thread, never inside a critical section, so a critical section is    *)
(* one step and the test of s_flag that precedes it is another.  A callback  *)
(* is code of the application: it may queue callbacks and it may pump, which *)
(* stacks a second activation of pumpCallbacks on the first.                 *)
(***************************************************************************)
EXTENDS Naturals, Sequences

CONSTANTS
  Callback,     \* the callbacks that may be queued
  NoCallback,   \* no callback: what a pump that has not started one runs
  Capacity,     \* entries of s_callbacks, 32 in the code
  MaxDepth      \* bound on the activations of pumpCallbacks on the stack

ASSUME CallbackAssumption == NoCallback \notin Callback
ASSUME CapacityAssumption == Capacity \in Nat \ {0}
ASSUME MaxDepthAssumption == MaxDepth \in Nat \ {0}

VARIABLES
  flag,         \* s_flag
  queue,        \* s_callbacks, oldest entry first
  depth,        \* activations of pumpCallbacks on the stack
  count,        \* the local count of each activation
  active        \* the local l of each activation, once it is called

vars == <<flag, queue, depth, count, active>>

Level == 1 .. MaxDepth

TypeOK ==
  /\ flag \in {0, 1}
  /\ queue \in Seq(Callback)
  /\ Len(queue) <= Capacity
  /\ depth \in 0 .. MaxDepth
  /\ count \in [Level -> 0 .. Capacity]
  /\ active \in [Level -> Callback \union {NoCallback}]

Init ==
  /\ flag = 0
  /\ queue = << >>
  /\ depth = 0
  /\ count = [l \in Level |-> 0]
  /\ active = [l \in Level |-> NoCallback]

\* push_back on a full fixed_ring_buffer moves begin past the oldest entry.
Push(q, c) == Append(IF Len(q) = Capacity THEN Tail(q) ELSE q, c)

\* Application code is running: the frame loop, or the innermost callback.
Running == IF depth = 0 THEN TRUE ELSE active[depth] # NoCallback

QueueCallback(c) ==
  /\ Running
  /\ flag' = 1
  /\ queue' = Push(queue, c)
  /\ UNCHANGED <<depth, count, active>>

\* Mutant of QueueCallbackFromISR: the flag is left to the main thread.
QueueFromISRWithoutFlag(c) ==
  /\ queue' = Push(queue, c)
  /\ UNCHANGED <<flag, depth, count, active>>

QueueCallbackFromISR(c) ==
  /\ queue' = Push(queue, c)
  /\ flag' = 1
  /\ UNCHANGED <<depth, count, active>>

\* pumpCallbacks is called and finds s_flag set. With s_flag clear it returns
\* at once, whatever the queue holds, which changes nothing.
PumpCall ==
  /\ Running
  /\ depth < MaxDepth
  /\ flag # 0
  /\ depth' = depth + 1
  /\ UNCHANGED <<flag, queue, count, active>>

\* Mutants of Loop: the entry is popped once its callback has returned; the
\* newest entry goes first.
LoopPoppingLate(n) ==
  LET rest == IF active[depth] # NoCallback /\ queue # << >> THEN Tail(queue) ELSE queue
  IN  /\ queue' = rest
      /\ \/ /\ n > 0 /\ rest # << >>
            /\ active' = [active EXCEPT ![depth] = Head(rest)]
            /\ count' = [count EXCEPT ![depth] = n - 1]
            /\ UNCHANGED depth
         \/ /\ n = 0 \/ rest = << >>
            /\ active' = [active EXCEPT ![depth] = NoCallback]
            /\ count' = [count EXCEPT ![depth] = 0]
            /\ depth' = depth - 1

LoopNewestFirst(n) ==
  \/ /\ n > 0 /\ queue # << >>
     /\ active' = [active EXCEPT ![depth] = queue[Len(queue)]]
     /\ queue' = SubSeq(queue, 1, Len(queue) - 1)
     /\ count' = [count EXCEPT ![depth] = n - 1]
     /\ UNCHANGED depth
  \/ /\ n = 0 \/ queue = << >>
     /\ active' = [active EXCEPT ![depth] = NoCallback]
     /\ count' = [count EXCEPT ![depth] = 0]
     /\ depth' = depth - 1
     /\ UNCHANGED queue

\* The test of the while loop with n passes left, in the critical section:
\* pop and call the oldest entry, or leave and return to the caller.
Loop(n) ==
  \/ /\ n > 0 /\ queue # << >>
     /\ active' = [active EXCEPT ![depth] = Head(queue)]
     /\ queue' = Tail(queue)
     /\ count' = [count EXCEPT ![depth] = n - 1]
     /\ UNCHANGED depth
  \/ /\ n = 0 \/ queue = << >>
     /\ active' = [active EXCEPT ![depth] = NoCallback]
     /\ count' = [count EXCEPT ![depth] = 0]
     /\ depth' = depth - 1
     /\ UNCHANGED queue

\* Mutant of PumpEnter: one entry a pump, whatever the ring holds.
PumpEnterOneEntry ==
  /\ depth > 0
  /\ active[depth] = NoCallback
  /\ flag' = 0
  /\ Loop(1)

\* The activation takes the critical section, clears s_flag and counts.
PumpEnter ==
  /\ depth > 0
  /\ active[depth] = NoCallback
  /\ flag' = 0
  /\ Loop(Len(queue))

\* The innermost callback returns to its pump.
CallbackReturn ==
  /\ depth > 0
  /\ active[depth] # NoCallback
  /\ Loop(count[depth])
  /\ UNCHANGED flag

Next ==
  \/ \E c \in Callback : QueueCallback(c) \/ QueueCallbackFromISR(c)
  \/ PumpCall
  \/ PumpEnter
  \/ CallbackReturn

Spec == Init /\ [][Next]_vars

(***************************************************************************)
(* The frame loop pumps again and again, so a call made with no activation   *)
(* on the stack and the code of pumpCallbacks are weakly fair.  A callback   *)
(* may pump any finite number of times and then returns: strong fairness for *)
(* each level.  Nothing obliges anybody to queue, or a callback to pump.     *)
(***************************************************************************)
Fairness ==
  /\ WF_vars(depth = 0 /\ PumpCall)
  /\ WF_vars(PumpEnter)
  /\ \A l \in Level : SF_vars(depth = l /\ CallbackReturn)

FairSpec == Spec /\ Fairness
----------------------------------------------------------------------------
(***************************************************************************)
(* Properties                                                               *)
(***************************************************************************)

\* What a clear s_flag promises: every entry in the ring will be reached by
\* the innermost activation, and an activation that has seen the flag set and
\* not yet taken the critical section still finds it set. It is why a pump
\* may return on a clear flag without looking at the ring (kernel.cpp 425).
FlagCoversQueue ==
  /\ flag = 0 => Len(queue) <= (IF depth = 0 THEN 0 ELSE count[depth])
  /\ ~Running => flag = 1

\* The activations below the innermost one are all inside a callback; none
\* waits for the critical section, and none exists above it.
StackShape ==
  /\ \A l \in Level : l < depth => active[l] # NoCallback
  /\ \A l \in Level : l > depth => active[l] = NoCallback

\* The inductive invariant: the ring, the flag and the stack of activations.
IInv == TypeOK /\ StackShape /\ FlagCoversQueue

\* No lost wake-up: when the frame loop is running, entries in the ring mean
\* that the next pump will not return early, in whatever order interrupts fell
\* between the test of s_flag and the critical section (kernel.cpp 410-427).
NoLostWakeup == depth = 0 /\ queue # << >> => flag = 1

\* The oldest entry leaves the ring in the end, started or pushed out, even
\* when its neighbours keep queueing themselves and keep pumping (434-441); and every
\* pump returns to the frame loop, which a callback that queues itself again cannot
\* hold for ever (the comment at 428-429).
NoStarvation ==
  /\ \A c \in Callback :
       (queue # << >> /\ Head(queue) = c)
         ~> (queue = << >> \/ Head(queue) # c \/ c \in {active[l] : l \in Level})
  /\ []<>(depth = 0)

\* The ring, the flag and the counts implement the queue they stand for: each
\* entry starts at most once, in order, never inside another's own code.
Promised == INSTANCE CallbackQueue WITH pending <- queue
ImplementsQueue == Promised!FairSpec

\* "Queues a callback to be called from the main thead" (kernel.hh 303, 316):
\* an entry only leaves the ring by being called.
NothingLost ==
  [][\/ \E c \in Callback : queue' = Append(queue, c)
     \/ queue # << >> /\ queue' = Tail(queue) /\ active' # active
     \/ queue' = queue]_vars
============================================================================
