-------------------------- MODULE MemoryCardProofs --------------------------
(***************************************************************************)
(* For every window, frame, counter and length of a transfer: no card is   *)
(* selected before it recovered, and no callback is lost, in a program     *)
(* with one operation at a time whose cards do not answer again when the   *)
(* watchdog has given up (Habits = {}).                                    *)
(***************************************************************************)
EXTENDS MemoryCard, TLAPS

(***************************************************************************)
(* The operation under way: there is one of these, or none.                *)
(***************************************************************************)
Idle == main = "free" /\ queue = << >> /\ pending = {} /\ ~action
Blocks == main # "free" /\ blocking /\ queue = << >> /\ pending = {}
Held == ~blocking /\ pending = {userCallback}
Waiting == Held /\ main = "free" /\ callback /\ ~action /\ queue = << <<"recheck", "OK">> >>
Moving == Held /\ main \in {"free", "recover", "ack"} /\ callback /\ action /\ queue = << >>
Ended == Held /\ main = "free" /\ ~action /\ \E e \in Errors \union {"OK"} : queue = << <<"attempt", e>> >>
Refused == main = "free" /\ ~action /\ \E id \in Ids : queue = << <<"beyond", id>> >> /\ pending = {id}

OneOperation == Idle \/ Blocks \/ Waiting \/ Moving \/ Ended \/ Refused

Bits ==
  /\ action \in BOOLEAN /\ blocking \in BOOLEAN /\ done \in BOOLEAN /\ callback \in BOOLEAN
  /\ stamped \in BOOLEAN /\ imask \in BOOLEAN /\ ireg \in BOOLEAN /\ selected \in BOOLEAN
  /\ silent \in BOOLEAN
  /\ main \in {"free", "recover", "ack", "watch", "abort"}

\* The bus and the interrupt belong to the transfer under way.
BusHeld ==
  /\ imask => action
  /\ done => ~action
  /\ ~action => ~selected
  /\ main \in {"recover", "ack"} => action /\ ~imask
  /\ main = "recover" => ~selected
  /\ main = "abort" => ~selected /\ silent
  /\ silent => ~ireg

\* A bus that is not selected was deselected when the stamp was taken.
StampTrue ==
  /\ phase \in 0 .. Frame - 1 /\ since \in Nat /\ gap \in Nat
  /\ ~selected => gap = since
  /\ early = FALSE

IInv == Bits /\ OneOperation /\ BusHeld /\ StampTrue

\* Three frames, or the counter of lines, say that the window is over: it is.
LEMMA RecoveredIsLong ==
  ASSUME phase \in 0 .. Frame - 1, since \in Nat, Recovered
  PROVE  since >= Window
  <1>1. CASE since % Wrap >= Window
    <2>1. since % Wrap <= since
      BY MemoryCardAssumption, SMT
    <2> QED BY <1>1, <2>1, MemoryCardAssumption, SMT
  <1>2. CASE Frames >= 3
    <2>1. Frame * ((phase + since) \div Frame) <= phase + since
      BY MemoryCardAssumption, SMT
    <2> QED BY <1>2, <2>1, MemoryCardAssumption, SMT DEF Frames
  <1> QED BY <1>1, <1>2 DEF Recovered

LEMMA Start == Init => IInv
  <1> SUFFICES ASSUME Init PROVE IInv
    OBVIOUS
  <1> USE MemoryCardAssumption DEF Init
  <1>1. Bits
    BY Zenon DEF Bits
  <1>2. OneOperation
    BY SMT DEF OneOperation, Idle
  <1>3. BusHeld
    BY SMT DEF BusHeld
  <1>4. StampTrue
    BY SMT DEF StampTrue
  <1> QED BY <1>1, <1>2, <1>3, <1>4 DEF IInv

\* Every action keeps the operation, the bus and the stamp.
LEMMA Step ==
  ASSUME Habits = {}, IInv, [Next]_vars
  PROVE  IInv'
  <1> USE MemoryCardAssumption DEF IInv, engine, clock, asking, bus, history
  <1> USE DEF Idle, Blocks, Held, Waiting, Moving, Ended, Refused, Errors, Transient, Ids
  <1>1. CASE Tick
    <2>1. Bits'
      BY <1>1 DEF Bits, Tick
    <2>2. OneOperation'
      BY <1>1 DEF Bits, OneOperation, BusHeld, Tick
    <2>3. BusHeld'
      BY <1>1 DEF Bits, OneOperation, BusHeld, Tick
    <2>4. StampTrue'
      BY <1>1 DEF Bits, OneOperation, BusHeld, StampTrue, Tick
    <2> QED BY <2>1, <2>2, <2>3, <2>4
  <1>2. CASE Select
    <2>1. Bits'
      BY <1>2 DEF Bits, Select
    <2>2. OneOperation'
      BY <1>2 DEF Bits, OneOperation, BusHeld, Select
    <2>3. BusHeld'
      BY <1>2 DEF Bits, OneOperation, BusHeld, Select
    <2>4. StampTrue'
      BY <1>2, RecoveredIsLong DEF Bits, OneOperation, BusHeld, StampTrue, Select
    <2> QED BY <2>1, <2>2, <2>3, <2>4
  <1>3. CASE AckMissed
    <2>1. Bits'
      BY <1>3 DEF Bits, AckMissed, FinishTransfer, Deselect
    <2>2. OneOperation'
      <3>1. CASE Blocks
        BY <1>3, <3>1 DEF Bits, OneOperation, AckMissed, FinishTransfer
      <3>2. CASE Moving
        <4>1. queue' = << <<"attempt", "NoCard">> >> /\ main' = "free" /\ ~action'
          BY <1>3, <3>2 DEF AckMissed, FinishTransfer
        <4>2. Held'
          BY <1>3, <3>2 DEF AckMissed
        <4> QED BY <4>1, <4>2 DEF OneOperation
      <3> QED BY <1>3, <3>1, <3>2 DEF OneOperation, AckMissed
    <2>3. BusHeld'
      BY <1>3 DEF Bits, OneOperation, BusHeld, AckMissed, FinishTransfer, Deselect
    <2>4. StampTrue'
      BY <1>3 DEF Bits, OneOperation, BusHeld, StampTrue, AckMissed, FinishTransfer, Deselect
    <2> QED BY <2>1, <2>2, <2>3, <2>4
  <1>4. CASE AckSeen
    <2>1. Bits'
      BY <1>4 DEF Bits, AckSeen
    <2>2. OneOperation'
      BY <1>4 DEF Bits, OneOperation, BusHeld, AckSeen
    <2>3. BusHeld'
      BY <1>4 DEF Bits, OneOperation, BusHeld, AckSeen
    <2>4. StampTrue'
      BY <1>4 DEF Bits, OneOperation, BusHeld, StampTrue, AckSeen
    <2> QED BY <2>1, <2>2, <2>3, <2>4
  <1>5. CASE Acknowledge
    <2>1. Bits'
      BY <1>5 DEF Bits, Acknowledge
    <2>2. OneOperation'
      BY <1>5 DEF Bits, OneOperation, BusHeld, Acknowledge
    <2>3. BusHeld'
      BY <1>5 DEF Bits, OneOperation, BusHeld, Acknowledge
    <2>4. StampTrue'
      BY <1>5 DEF Bits, OneOperation, BusHeld, StampTrue, Acknowledge
    <2> QED BY <2>1, <2>2, <2>3, <2>4
  <1>6. CASE FallSilent
    <2>1. Bits'
      BY <1>6 DEF Bits, FallSilent
    <2>2. OneOperation'
      BY <1>6 DEF Bits, OneOperation, BusHeld, FallSilent
    <2>3. BusHeld'
      BY <1>6 DEF Bits, OneOperation, BusHeld, FallSilent
    <2>4. StampTrue'
      BY <1>6 DEF Bits, OneOperation, BusHeld, StampTrue, FallSilent
    <2> QED BY <2>1, <2>2, <2>3, <2>4
  <1>7. CASE Interrupt
    <2>1. Bits'
      BY <1>7 DEF Bits, Interrupt, FinishTransfer, Deselect
    <2>2. OneOperation'
      <3>1. CASE Blocks
        BY <1>7, <3>1 DEF Bits, OneOperation, Interrupt, FinishTransfer
      <3>2. CASE Moving /\ action'
        BY <1>7, <3>2 DEF OneOperation, Interrupt, FinishTransfer
      <3>3. CASE Moving /\ ~action'
        <4>1. PICK outcome \in Errors \union {"OK"} : FinishTransfer(outcome)
          BY <1>7, <3>3, Zenon DEF Interrupt
        <4>2. queue' = << <<"attempt", outcome>> >>
          BY <3>3, <4>1 DEF FinishTransfer
        <4>3. Held' /\ main' = "free"
          BY <1>7, <3>3 DEF Interrupt, BusHeld
        <4> QED BY <3>3, <4>1, <4>2, <4>3 DEF OneOperation
      <3> QED BY <1>7, <3>1, <3>2, <3>3 DEF OneOperation, BusHeld, Interrupt
    <2>3. BusHeld'
      BY <1>7 DEF Bits, OneOperation, BusHeld, Interrupt, FinishTransfer, Deselect
    <2>4. StampTrue'
      <3>1. CASE Deselect
        BY <1>7, <3>1 DEF StampTrue, Interrupt, Deselect
      <3>2. CASE UNCHANGED clock /\ selected' = TRUE
        BY <1>7, <3>2 DEF StampTrue, Interrupt
      <3> QED BY <1>7, <3>1, <3>2 DEF BusHeld, Interrupt, FinishTransfer
    <2> QED BY <2>1, <2>2, <2>3, <2>4
  <1>8. CASE Block
    <2>1. Bits'
      BY <1>8 DEF Bits, Block, Free, StampFirst, StartTransfer, Deselect
    <2>2. OneOperation'
      BY <1>8 DEF Bits, OneOperation, BusHeld, Block, Free, StampFirst, StartTransfer, Deselect
    <2>3. BusHeld'
      BY <1>8 DEF Bits, OneOperation, BusHeld, Block, Free, StampFirst, StartTransfer, Deselect
    <2>4. StampTrue'
      BY <1>8 DEF Bits, OneOperation, BusHeld, StampTrue, Block, Free, StampFirst, StartTransfer, Deselect
    <2> QED BY <2>1, <2>2, <2>3, <2>4
  <1>9. CASE Blocked
    <2>1. Bits'
      BY <1>9 DEF Bits, Blocked, StartTransfer
    <2>2. OneOperation'
      BY <1>9 DEF Bits, OneOperation, BusHeld, Blocked, StartTransfer
    <2>3. BusHeld'
      BY <1>9 DEF Bits, OneOperation, BusHeld, Blocked, StartTransfer
    <2>4. StampTrue'
      BY <1>9 DEF Bits, OneOperation, BusHeld, StampTrue, Blocked, StartTransfer
    <2> QED BY <2>1, <2>2, <2>3, <2>4
  <1>10. CASE Watchdog
    <2>1. Bits'
      BY <1>10 DEF Bits, Watchdog, Deselect
    <2>2. OneOperation'
      BY <1>10 DEF Bits, OneOperation, BusHeld, Watchdog, Deselect
    <2>3. BusHeld'
      BY <1>10 DEF Bits, OneOperation, BusHeld, Watchdog, Deselect
    <2>4. StampTrue'
      BY <1>10 DEF Bits, OneOperation, BusHeld, StampTrue, Watchdog, Deselect
    <2> QED BY <2>1, <2>2, <2>3, <2>4
  <1>11. CASE WatchdogEnds
    <2>1. Bits'
      BY <1>11 DEF Bits, WatchdogEnds
    <2>2. OneOperation'
      BY <1>11 DEF Bits, OneOperation, BusHeld, WatchdogEnds
    <2>3. BusHeld'
      BY <1>11 DEF Bits, OneOperation, BusHeld, WatchdogEnds
    <2>4. StampTrue'
      BY <1>11 DEF Bits, OneOperation, BusHeld, StampTrue, WatchdogEnds
    <2> QED BY <2>1, <2>2, <2>3, <2>4
  <1>12. CASE \E id \in Ids : Ask(id)
    <2>1. Bits'
      BY <1>12 DEF Bits, Ask, Free, StampFirst, Deselect
    <2>2. OneOperation'
      BY <1>12 DEF Bits, OneOperation, BusHeld, Ask, Free, StampFirst, Deselect
    <2>3. BusHeld'
      BY <1>12 DEF Bits, OneOperation, BusHeld, Ask, Free, StampFirst, Deselect
    <2>4. StampTrue'
      BY <1>12 DEF Bits, OneOperation, BusHeld, StampTrue, Ask, Free, StampFirst, Deselect
    <2> QED BY <2>1, <2>2, <2>3, <2>4
  <1>13. CASE \E id \in Ids : AskBeyond(id)
    <2>1. Bits'
      BY <1>13 DEF Bits, AskBeyond, Free
    <2>2. OneOperation'
      BY <1>13 DEF Bits, OneOperation, BusHeld, AskBeyond, Free
    <2>3. BusHeld'
      BY <1>13 DEF Bits, OneOperation, BusHeld, AskBeyond, Free
    <2>4. StampTrue'
      BY <1>13 DEF Bits, OneOperation, BusHeld, StampTrue, AskBeyond, Free
    <2> QED BY <2>1, <2>2, <2>3, <2>4
  <1>14. CASE Recheck
    <2>1. Bits'
      BY <1>14 DEF Bits, Recheck, Pump, Entry, WhenRecovered, StampFirst, StartTransfer, Deselect
    <2>2. OneOperation'
      BY <1>14 DEF Bits, OneOperation, BusHeld, Recheck, Pump, Entry, WhenRecovered, StampFirst, StartTransfer, Deselect
    <2>3. BusHeld'
      BY <1>14 DEF Bits, OneOperation, BusHeld, Recheck, Pump, Entry, WhenRecovered, StampFirst, StartTransfer, Deselect
    <2>4. StampTrue'
      BY <1>14 DEF Bits, OneOperation, BusHeld, StampTrue, Recheck, Pump, Entry, WhenRecovered, StampFirst, StartTransfer, Deselect
    <2> QED BY <2>1, <2>2, <2>3, <2>4
  <1>15. CASE AttemptDone
    <2>1. Bits'
      BY <1>15, ZenonT(60) DEF Bits, AttemptDone, Pump, Entry, WhenRecovered, StampFirst, StartTransfer, Deselect
    <2>2. OneOperation'
      BY <1>15 DEF Bits, OneOperation, BusHeld, AttemptDone, Pump, Entry, WhenRecovered, StampFirst, StartTransfer, Deselect
    <2>3. BusHeld'
      BY <1>15 DEF Bits, OneOperation, BusHeld, AttemptDone, Pump, Entry, WhenRecovered, StampFirst, StartTransfer, Deselect
    <2>4. StampTrue'
      BY <1>15 DEF Bits, OneOperation, BusHeld, StampTrue, AttemptDone, Pump, Entry, WhenRecovered, StampFirst, StartTransfer, Deselect
    <2> QED BY <2>1, <2>2, <2>3, <2>4
  <1>16. CASE Beyond
    <2>1. Bits'
      BY <1>16 DEF Bits, Beyond, Pump, Entry
    <2>2. OneOperation'
      <3>1. CASE Refused
        <4>1. PICK id \in Ids : queue = << <<"beyond", id>> >> /\ pending = {id}
          BY <3>1
        <4>2. Head(queue)[2] = id /\ Tail(queue) = << >>
          BY <4>1
        <4> QED BY <1>16, <3>1, <4>1, <4>2 DEF OneOperation, Beyond, Entry
      <3>2. ~Waiting /\ ~Ended
        BY <1>16 DEF Beyond, Entry
      <3> QED BY <1>16, <3>1, <3>2 DEF OneOperation, Beyond, Pump
    <2>3. BusHeld'
      BY <1>16 DEF Bits, OneOperation, BusHeld, Beyond, Pump, Entry
    <2>4. StampTrue'
      BY <1>16 DEF Bits, OneOperation, BusHeld, StampTrue, Beyond, Pump, Entry
    <2> QED BY <2>1, <2>2, <2>3, <2>4
  <1>17. CASE UNCHANGED vars
    BY <1>17 DEF vars, Bits, OneOperation, BusHeld, StampTrue
  <1> QED BY <1>1, <1>2, <1>3, <1>4, <1>5, <1>6, <1>7, <1>8, <1>9, <1>10, <1>11, <1>12, <1>13, <1>14, <1>15, <1>16, <1>17 DEF Next

THEOREM Invariance == ASSUME Habits = {} PROVE Spec => []IInv
  <1>1. Init => IInv
    BY Start
  <1>2. IInv /\ [Next]_vars => IInv'
    BY Step
  <1> QED BY <1>1, <1>2, PTL DEF Spec

\* A sector said to be read or written was asked from a card that had recovered
\* (memory-card.cpp 137-149), whatever the window and the counters.
THEOREM TruthKept == ASSUME Habits = {} PROVE Spec => []TrueData
  <1>1. IInv => TrueData
    BY DEF IInv, StampTrue, TrueData
  <1> QED BY <1>1, Invariance, PTL

\* No callback is lost, and the interrupt is masked when no transfer is under way
\* (memory-card.cpp 155-167, 258-273, 817-840).
THEOREM CallbacksDriven == ASSUME Habits = {} PROVE Spec => []Driven
  <1>1. IInv => Driven
    <2> SUFFICES ASSUME IInv PROVE Driven
      OBVIOUS
    <2>1. imask => action
      BY DEF IInv, BusHeld
    <2>2. ASSUME NEW id \in pending
          PROVE  \/ \E i \in DOMAIN queue : queue[i] = <<"beyond", id>>
                 \/ /\ userCallback = id
                    /\ \/ \E i \in DOMAIN queue : queue[i][1] = "attempt"
                       \/ callback /\ (action \/ \E i \in DOMAIN queue : queue[i][1] = "recheck")
      <3>1. CASE Refused
        BY <2>2, <3>1 DEF Refused
      <3>2. CASE Waiting \/ Moving \/ Ended
        BY <2>2, <3>2 DEF Waiting, Moving, Ended, Held
      <3> QED BY <2>2, <3>1, <3>2 DEF IInv, OneOperation, Idle, Blocks
    <2> QED BY <2>1, <2>2 DEF Driven
  <1> QED BY <1>1, Invariance, PTL
=============================================================================
