--------------------------- MODULE CallbackQueue ---------------------------
(***************************************************************************)
(* What Kernel::queueCallback, queueCallbackFromISR and pumpCallbacks       *)
(* promise together: callbacks start in the order they were queued, each    *)
(* entry at most once, never while the code that a callback has itself       *)
(* called into is still running, and an entry disappears without having run  *)
(* only when it is the oldest of Capacity and one more is queued.            *)
(***************************************************************************)
EXTENDS Naturals, Sequences

CONSTANTS
  Callback,     \* the callbacks the application and its drivers queue
  NoCallback,   \* the mark of a pump level at which none is running
  Capacity,     \* entries the ring holds
  MaxDepth      \* levels of callbacks that pump

VARIABLES
  pending,      \* entries queued and not started, oldest first
  active        \* the callback running at each level of pumping

vars == <<pending, active>>

Level == 1 .. MaxDepth

Init ==
  /\ pending = << >>
  /\ active = [l \in Level |-> NoCallback]

Submit(c) ==
  /\ pending' = Append(IF Len(pending) = Capacity THEN Tail(pending) ELSE pending, c)
  /\ UNCHANGED active

\* No callback runs above level l: level l is where execution is.
Innermost(l) == \A k \in Level : k > l => active[k] = NoCallback

\* The oldest entry starts at level l, where the previous one has returned.
Start(l) ==
  /\ pending # << >>
  /\ Innermost(l)
  /\ active' = [active EXCEPT ![l] = Head(pending)]
  /\ pending' = Tail(pending)

Finish(l) ==
  /\ active[l] # NoCallback
  /\ Innermost(l)
  /\ active' = [active EXCEPT ![l] = NoCallback]
  /\ UNCHANGED pending

Next ==
  \/ \E c \in Callback : Submit(c)
  \/ \E l \in Level : Start(l) \/ Finish(l)

Spec == Init /\ [][Next]_vars

\* Somebody keeps pumping and callbacks return: entries do not wait for ever.
FairSpec == Spec /\ WF_vars(\E l \in Level : Start(l))
============================================================================
