-------------------------- MODULE TaskQueueProofs --------------------------
(***************************************************************************)
(* Theorems about the chains of tasks for every set of queues, whatever they *)
(* schedule and however deep the stack is, where a queue is scheduled by one  *)
(* queue at most: m_parent has room for one.                                 *)
(***************************************************************************)
EXTENDS TaskQueue, SequenceTheorems, TLAPS

\* No two queues schedule the same one.
OneParent ==
  \A p, q, c \in Queue : Embeds(p, c) /\ Embeds(q, c) => p = q

Frames == [queue : Queue, at : Point]
Handler == {"finally", "catch", "catchMoved", "finallyLast"}
Resuming == {"runNext", "runCatch"}

\* q has moved just past the task, and has not ended.
Awaits(q, task) == running[q] /\ index[q] > 0 /\ Tasks[q][index[q]] = task

\* A queue about to go on runs and waits for nothing; the other frames are those
\* of a run that is over, unless a handler has run its queue again.
FrameSound(f) ==
  /\ f.at \in Resuming =>
       /\ running[f.queue] /\ ~waiting[f.queue]
       /\ \A c \in Queue : parent[c] = f.queue => Idle(c)
  /\ f.at \notin Resuming =>
       ~running[f.queue] \/ f.queue \in Top

\* Under the innermost frame are handlers, and a queue has two frames only when
\* a handler of it ran it again.
StackSound ==
  /\ \A i \in DOMAIN stack : FrameSound(stack[i]) /\ (i # 1 => stack[i].at \in Handler)
  /\ \A i, j \in DOMAIN stack :
       i < j /\ stack[i].queue = stack[j].queue => stack[j].queue \in Top

\* Whoever runs for another, or has not told it the end yet, is what it waits for.
TreeSound ==
  /\ \A q \in Queue : parent[q] # NoParent => parent[q] \in Queue /\ Embeds(parent[q], q)
  /\ \A q \in Queue : ~Idle(q) /\ q \notin Top => parent[q] # NoParent
  /\ \A q \in Queue : ~Idle(q) /\ parent[q] # NoParent => Awaits(parent[q], q)
  /\ \A q \in Queue : waiting[q] => Awaits(q, Leaf)

\* Where the end of a run is told, to its handlers and to its parent.
Resolved == {"finally", "resolveParent"}
Rejected == {"catch", "catchMoved", "afterCatch", "finallyLast", "rejectParent"}

\* What those frames tell is how the run ended, and a queue hears of the end of
\* what it waits for when it comes.
EndSound ==
  /\ \A i \in DOMAIN stack :
       stack[i].queue \notin Top =>
         /\ stack[i].at \in Resolved => ended[stack[i].queue] = "resolved"
         /\ stack[i].at \in Rejected => ended[stack[i].queue] = "rejected"
  /\ \A q, c \in Queue :
       Awaits(q, c) =>
         /\ Current(q, "runNext") => ended[c] = "resolved"
         /\ Current(q, "runCatch") => ended[c] = "rejected"
         /\ Idle(c) => Current(q, "runNext") \/ Current(q, "runCatch")

\* All that a queue has passed resolved, but for the one it waits for.
Passed ==
  /\ \A q \in Queue : running[q] => ended[q] = "none"
  /\ \A q \in Queue : running[q] =>
       \A i \in DOMAIN Tasks[q] : i <= index[q] /\ Tasks[q][i] # Leaf =>
         ended[Tasks[q][i]] = "resolved" \/ Awaits(q, Tasks[q][i])
  /\ \A q, c \in Queue : ended[q] = "resolved" /\ Embeds(q, c) => ended[c] = "resolved"

IInv == TypeOK /\ StackSound /\ TreeSound /\ EndSound /\ Passed

\* Where a rejected run of q is before its finally handler.
Catching == {"catch", "catchMoved", "afterCatch"}
CatchAt(q) == {at \in Catching : \E i \in DOMAIN stack : stack[i].queue = q /\ stack[i].at = at}

\* Where the runs of q are that its present one was started in.
Below(q) == {stack[i].at : i \in {j \in DOMAIN stack : j # 1 /\ stack[j].queue = q}}

\* A step that starts no queue, and leaves the rejected ones where they are.
Undisturbed ==
  \A c \in Queue : (Idle(c) => Idle(c)') /\ CatchAt(c)' = CatchAt(c)
----------------------------------------------------------------------------
\* A frame on a stack.
LEMMA OnTop ==
  ASSUME NEW S, NEW s \in Seq(S), NEW f \in S
  PROVE  LET t == <<f>> \o s IN
         /\ t \in Seq(S) /\ t # << >> /\ Head(t) = f /\ t[1] = f
         /\ Len(s) \in Nat /\ DOMAIN s = 1 .. Len(s) /\ DOMAIN t = 1 .. Len(s) + 1
         /\ \A j \in 1 .. Len(s) + 1 : j # 1 => j - 1 \in 1 .. Len(s) /\ t[j] = s[j - 1]
         /\ \A j \in 1 .. Len(s) : t[j + 1] = s[j]
<1> DEFINE t == <<f>> \o s
<1>1. <<f>> \in Seq(S) /\ Len(<<f>>) = 1 /\ <<f>>[1] = f
  OBVIOUS
<1>2. Len(s) \in Nat /\ DOMAIN s = 1 .. Len(s)
  BY LenProperties
<1>3. /\ t \in Seq(S) /\ Len(t) = 1 + Len(s)
      /\ \A i \in 1 .. 1 + Len(s) : t[i] = IF i <= 1 THEN <<f>>[i] ELSE s[i - 1]
  BY <1>1, ConcatProperties
<1> HIDE DEF t
<1>4. DOMAIN t = 1 .. Len(s) + 1
  BY <1>2, <1>3, LenProperties
<1>5. t[1] = f
  BY <1>1, <1>2, <1>3
<1>6. t # << >>
  BY <1>2, <1>3
<1>7. Head(t) = f
  BY <1>3, <1>5, <1>6
<1>8. \A j \in 1 .. Len(s) + 1 : j # 1 => j - 1 \in 1 .. Len(s) /\ t[j] = s[j - 1]
  BY <1>2, <1>3
<1>9. ASSUME NEW j \in 1 .. Len(s) PROVE t[j + 1] = s[j]
  <2>1. j + 1 \in 1 .. Len(s) + 1 /\ j + 1 # 1 /\ j + 1 - 1 = j
    BY <1>2
  <2>2. QED
    BY <1>8, <2>1
<1>10. QED
  BY <1>2, <1>3, <1>4, <1>5, <1>6, <1>7, <1>8, <1>9 DEF t

\* What is under the innermost frame.
LEMMA Under1 ==
  ASSUME NEW S, NEW s \in Seq(S), s # << >>
  PROVE  /\ Tail(s) \in Seq(S) /\ Head(s) \in S /\ Head(s) = s[1]
         /\ Len(s) \in Nat /\ DOMAIN s = 1 .. Len(s) /\ 1 \in DOMAIN s
         /\ DOMAIN Tail(s) = 1 .. Len(s) - 1
         /\ \A j \in 1 .. Len(s) - 1 : j + 1 \in DOMAIN s /\ Tail(s)[j] = s[j + 1]
         /\ \A j \in DOMAIN s : j # 1 => j - 1 \in 1 .. Len(s) - 1 /\ Tail(s)[j - 1] = s[j]
<1>1. Len(s) \in Nat \ {0} /\ DOMAIN s = 1 .. Len(s)
  BY EmptySeq, LenProperties
<1>2. /\ Head(s) \in S /\ Tail(s) \in Seq(S) /\ Len(Tail(s)) = Len(s) - 1
      /\ \A i \in 1 .. Len(Tail(s)) : Tail(s)[i] = s[i + 1]
  BY HeadTailProperties
<1>3. Head(s) = s[1]
  OBVIOUS
<1>4. DOMAIN Tail(s) = 1 .. Len(s) - 1
  BY <1>2, LenProperties
<1>5. \A j \in 1 .. Len(s) - 1 : j + 1 \in DOMAIN s /\ Tail(s)[j] = s[j + 1]
  BY <1>1, <1>2
<1>6. ASSUME NEW j \in DOMAIN s, j # 1
      PROVE  j - 1 \in 1 .. Len(s) - 1 /\ Tail(s)[j - 1] = s[j]
  <2>1. j - 1 \in 1 .. Len(s) - 1 /\ j - 1 + 1 = j
    BY <1>1, <1>6
  <2>2. QED
    BY <1>5, <2>1
<1>7. QED
  BY <1>1, <1>2, <1>3, <1>4, <1>5, <1>6

\* The innermost frame replaced.
LEMMA Replaced ==
  ASSUME NEW S, NEW s \in Seq(S), s # << >>, NEW f \in S
  PROVE  LET t == <<f>> \o Tail(s) IN
         /\ t \in Seq(S) /\ t # << >> /\ Head(t) = f /\ t[1] = f
         /\ 1 \in DOMAIN s /\ DOMAIN t = DOMAIN s /\ DOMAIN s = 1 .. Len(s)
         /\ \A j \in DOMAIN s : j # 1 => t[j] = s[j]
<1> DEFINE t == <<f>> \o Tail(s)
<1>1. Len(s) \in Nat /\ DOMAIN s = 1 .. Len(s) /\ 1 \in DOMAIN s /\ Tail(s) \in Seq(S)
      /\ DOMAIN Tail(s) = 1 .. Len(s) - 1
      /\ \A j \in DOMAIN s : j # 1 => j - 1 \in 1 .. Len(s) - 1 /\ Tail(s)[j - 1] = s[j]
  BY Under1
<1>2. Len(Tail(s)) = Len(s) - 1
  BY HeadTailProperties
<1>3. /\ t \in Seq(S) /\ t # << >> /\ Head(t) = f /\ t[1] = f
      /\ DOMAIN t = 1 .. Len(Tail(s)) + 1
      /\ \A j \in 1 .. Len(Tail(s)) + 1 : j # 1 => t[j] = Tail(s)[j - 1]
  BY <1>1, OnTop
<1> HIDE DEF t
<1>4. DOMAIN t = DOMAIN s
  BY <1>1, <1>2, <1>3
<1>5. \A j \in DOMAIN s : j # 1 => t[j] = s[j]
  BY <1>1, <1>2, <1>3
<1>6. QED
  BY <1>1, <1>3, <1>4, <1>5 DEF t
----------------------------------------------------------------------------
\* What the types say of the stack.
LEMMA StackTyped ==
  ASSUME TypeOK
  PROVE  /\ stack \in Seq(Frames) /\ Len(stack) \in Nat /\ DOMAIN stack = 1 .. Len(stack)
         /\ \A i \in DOMAIN stack : stack[i] \in Frames /\ stack[i].queue \in Queue /\ stack[i].at \in Point
<1>1. stack \in Seq(Frames)
  BY DEF TypeOK, Frames
<1>2. Len(stack) \in Nat /\ DOMAIN stack = 1 .. Len(stack) /\ \A i \in 1 .. Len(stack) : stack[i] \in Frames
  BY <1>1, LenProperties, ElementOfSeq
<1>3. QED
  BY <1>1, <1>2 DEF Frames

\* The innermost frame is the one that goes on.
LEMMA CurrentFrame ==
  ASSUME TypeOK, NEW q \in Queue, NEW point \in Point, Current(q, point)
  PROVE  /\ stack # << >> /\ 1 \in DOMAIN stack
         /\ stack[1] = [queue |-> q, at |-> point] /\ stack[1].queue = q /\ stack[1].at = point
<1>1. stack \in Seq(Frames) /\ stack # << >>
  BY StackTyped DEF Current
<1>2. 1 \in DOMAIN stack /\ Head(stack) = stack[1]
  BY <1>1, Under1
<1>3. QED
  BY <1>2 DEF Current

\* It goes on at another point, of its own queue or of another.
LEMMA GoesTo ==
  ASSUME TypeOK, stack # << >>, NEW q \in Queue, NEW point \in Point, Goto(q, point)
  PROVE  /\ stack' \in Seq(Frames) /\ stack' # << >> /\ Head(stack') = [queue |-> q, at |-> point]
         /\ DOMAIN stack' = DOMAIN stack /\ DOMAIN stack = 1 .. Len(stack)
         /\ stack'[1].queue = q /\ stack'[1].at = point
         /\ \A j \in DOMAIN stack : j # 1 => stack'[j] = stack[j]
<1>1. stack \in Seq(Frames) /\ [queue |-> q, at |-> point] \in Frames
  BY StackTyped DEF Frames
<1>2. stack' = <<[queue |-> q, at |-> point]>> \o Tail(stack)
  BY DEF Goto, Frame
<1>3. QED
  BY <1>1, <1>2, Replaced

\* It is called from the application.
LEMMA Calls ==
  ASSUME TypeOK, NEW q \in Queue, NEW point \in Point, stack' = Frame(q, point) \o stack
  PROVE  /\ stack' \in Seq(Frames) /\ stack' # << >> /\ Head(stack') = [queue |-> q, at |-> point]
         /\ Len(stack) \in Nat /\ DOMAIN stack = 1 .. Len(stack) /\ DOMAIN stack' = 1 .. Len(stack) + 1
         /\ stack'[1].queue = q /\ stack'[1].at = point
         /\ \A j \in DOMAIN stack' : j # 1 => j - 1 \in DOMAIN stack /\ stack'[j] = stack[j - 1]
         /\ \A j \in DOMAIN stack : j + 1 \in DOMAIN stack' /\ stack'[j + 1] = stack[j]
<1>1. stack \in Seq(Frames) /\ [queue |-> q, at |-> point] \in Frames
  BY StackTyped DEF Frames
<1>2. stack' = <<[queue |-> q, at |-> point]>> \o stack
  BY DEF Frame
<1>3. Len(stack) \in Nat
  BY StackTyped
<1>4. QED
  BY <1>1, <1>2, <1>3, OnTop

\* It returns.
LEMMA Returns ==
  ASSUME TypeOK, stack # << >>, Return
  PROVE  /\ stack' \in Seq(Frames)
         /\ Len(stack) \in Nat /\ DOMAIN stack = 1 .. Len(stack) /\ DOMAIN stack' = 1 .. Len(stack) - 1
         /\ \A j \in DOMAIN stack' : j + 1 \in DOMAIN stack /\ stack'[j] = stack[j + 1]
         /\ \A j \in DOMAIN stack : j # 1 => j - 1 \in DOMAIN stack' /\ stack'[j - 1] = stack[j]
<1>1. stack \in Seq(Frames)
  BY StackTyped
<1>2. QED
  BY <1>1, Under1 DEF Return

\* Where the application has control, there is no frame, or that of a handler.
LEMMA HandlersBelow ==
  ASSUME TypeOK, StackSound, InApplication
  PROVE  \A i \in DOMAIN stack : stack[i].at \in Handler
<1>1. CASE stack = << >>
  BY <1>1
<1>2. CASE stack # << >>
  <2>1. 1 \in DOMAIN stack /\ Head(stack) = stack[1]
    BY <1>2, StackTyped, Under1
  <2>2. Head(stack).at # "main"
    BY <2>1, StackTyped DEF Point
  <2>3. stack[1].at \in Handler
    BY <1>2, <2>1, <2>2 DEF InApplication, At, Handler
  <2>4. QED
    BY <2>3 DEF StackSound
<1>3. QED
  BY <1>1, <1>2
\* No queue goes on there.
LEMMA NoneResumes ==
  ASSUME TypeOK, StackSound, InApplication, NEW q \in Queue
  PROVE  ~Current(q, "runNext") /\ ~Current(q, "runCatch")
<1>1. ASSUME NEW point \in Resuming, Current(q, point) PROVE FALSE
  BY <1>1, CurrentFrame, HandlersBelow DEF Handler, Resuming, Point
<1>2. QED
  BY <1>1 DEF Resuming
----------------------------------------------------------------------------
LEMMA TypesStep ==
  ASSUME TypeOK, [Next]_vars
  PROVE  TypeOK'
<1> USE TasksAssumption
<1>1. CASE UNCHANGED vars
  BY <1>1 DEF TypeOK, vars, handlers
<1>2. ASSUME NEW q \in Queue, Configure(q) PROVE TypeOK'
  <2>1. PICK hasCatch, hasFinally \in BOOLEAN :
          /\ catch' = [catch EXCEPT ![q] = hasCatch]
          /\ finally' = [finally EXCEPT ![q] = hasFinally]
          /\ wanted' = [wanted EXCEPT ![q] = hasFinally]
    BY <1>2 DEF Configure
  <2>2. QED
    BY <1>2, <2>1 DEF TypeOK, Configure
\* Start keeps the types, on whatever stack it leaves.
<1>3. ASSUME NEW q \in Queue, NEW p \in Queue \union {NoParent},
             NEW indices \in [Queue -> Nat], \A c \in Queue : indices[c] <= Len(Tasks[c]),
             NEW below, Start(q, p, indices, below), stack' \in Seq(Frames),
             UNCHANGED <<waiting, catch, finally, wanted>>
      PROVE  TypeOK'
  <2>1. \A c \in Queue : Len(Tasks[c]) \in Nat
    BY LenProperties
  <2>2. QED
    BY <1>3, <2>1 DEF TypeOK, Start, Frames
<1>4. ASSUME NEW q \in Queue, Run(q) PROVE TypeOK'
  <2>1. stack' = Frame(q, "runNext") \o stack /\ "runNext" \in Point
    BY <1>4 DEF Run, Start, Point
  <2>2. stack' \in Seq(Frames)
    BY <2>1, Calls
  <2>3. QED
    BY <1>3, <1>4, <2>2 DEF Run, TypeOK
<1>5. ASSUME NEW q \in Queue, Complete(q) PROVE TypeOK'
  <2>1. PICK point \in {"runNext", "runCatch"} : stack' = Frame(q, point) \o stack
    BY <1>5 DEF Complete
  <2>2. stack' \in Seq(Frames)
    BY <2>1, Calls DEF Point
  <2>3. QED
    BY <1>5, <2>2 DEF Complete, TypeOK, handlers, Frames
<1>6. ASSUME NEW q \in Queue, RunTask(q) PROVE TypeOK'
  <2> DEFINE task == Tasks[q][index[q] + 1]
             indices == [index EXCEPT ![q] = @ + 1]
  <2>1. Tasks[q] \in Seq(Queue \union {Leaf}) /\ Len(Tasks[q]) \in Nat /\ index[q] \in Nat
    BY LenProperties DEF TypeOK
  <2>2. index[q] + 1 \in 1 .. Len(Tasks[q])
    BY <1>6, <2>1 DEF RunTask
  <2>3. task \in Queue \union {Leaf}
    BY <2>1, <2>2, ElementOfSeq
  <2>4. indices \in [Queue -> Nat] /\ \A c \in Queue : indices[c] <= Len(Tasks[c])
    BY <2>1, <2>2 DEF TypeOK
  <2>5. stack # << >> /\ stack \in Seq(Frames)
    BY <1>6, StackTyped DEF RunTask, Current
  <2>6. Launch(q, task, indices, Tail(stack))
    BY <1>6 DEF RunTask
  <2> HIDE DEF task, indices
  <2>7. CASE task = Leaf
    <3>1. stack' \in Seq(Frames)
      <4>1. stack' = Tail(stack)
        BY <2>6, <2>7 DEF Launch
      <4>2. QED
        BY <2>5, <4>1, Under1
    <3>2. QED
      BY <2>4, <2>6, <2>7, <3>1 DEF Launch, TypeOK, handlers, Frames
  <2>8. CASE task # Leaf
    <3>1. task \in Queue /\ Start(task, q, indices, Tail(stack))
      BY <2>3, <2>6, <2>8 DEF Launch
    <3>2. Goto(task, "runNext") /\ "runNext" \in Point
      BY <3>1 DEF Start, Goto, Point
    <3>3. stack' \in Seq(Frames)
      BY <2>5, <3>1, <3>2, GoesTo
    <3>4. QED
      BY <1>3, <2>4, <2>6, <2>8, <3>1, <3>3 DEF Launch
  <2>9. QED
    BY <2>7, <2>8
\* The other steps go to a point of the same queue or of its parent, or return.
<1>7. ASSUME stack # << >>,
             Return \/ \E p \in Queue, point \in Point : Goto(p, point)
      PROVE  stack' \in Seq([queue : Queue, at : Point])
  <2>1. stack' \in Seq(Frames)
    BY <1>7, Returns, GoesTo
  <2>2. QED
    BY <2>1 DEF Frames
<1>8. ASSUME NEW q \in Queue, Finish(q) PROVE TypeOK'
  <2>1. stack' \in Seq([queue : Queue, at : Point])
    BY <1>7, <1>8 DEF Finish, Current, CallFinally, Point
  <2>2. finals' \in [Queue -> Nat]
    <3>1. finals' = [finals EXCEPT ![q] = finals[q] + 1] \/ finals' = finals
      BY <1>8, Zenon DEF Finish, CallFinally
    <3>2. finals \in [Queue -> Nat] /\ [finals EXCEPT ![q] = finals[q] + 1] \in [Queue -> Nat]
      BY DEF TypeOK
    <3>3. QED
      BY <3>1, <3>2
  <2>3. QED
    BY <1>8, <2>1, <2>2 DEF Finish, TypeOK, handlers
<1>9. ASSUME NEW q \in Queue, TellParent(q) PROVE TypeOK'
  <2>1. stack' \in Seq([queue : Queue, at : Point])
    BY <1>7, <1>9 DEF TellParent, Current, TypeOK, Point
  <2>2. QED
    BY <1>9, <2>1 DEF TellParent, TypeOK, handlers
<1>10. ASSUME NEW q \in Queue, RunCatch(q) PROVE TypeOK'
  <2>1. stack' \in Seq([queue : Queue, at : Point])
    BY <1>7, <1>10 DEF RunCatch, Current, Point
  <2>2. QED
    BY <1>10, <2>1 DEF RunCatch, TypeOK
<1>11. ASSUME NEW q \in Queue, AfterCatch(q) PROVE TypeOK'
  <2>1. stack' \in Seq([queue : Queue, at : Point])
    BY <1>7, <1>11 DEF AfterCatch, Current, CallFinally, Point
  <2>2. finals' \in [Queue -> Nat]
    <3>1. finals' = [finals EXCEPT ![q] = finals[q] + 1] \/ finals' = finals
      BY <1>11, Zenon DEF AfterCatch, CallFinally
    <3>2. finals \in [Queue -> Nat] /\ [finals EXCEPT ![q] = finals[q] + 1] \in [Queue -> Nat]
      BY DEF TypeOK
    <3>3. QED
      BY <3>1, <3>2
  <2>3. QED
    BY <1>11, <2>1, <2>2 DEF AfterCatch, TypeOK, handlers
<1>12. ASSUME NEW q \in Queue, HandlerReturns(q) PROVE TypeOK'
  <2>1. stack' \in Seq([queue : Queue, at : Point])
    BY <1>7, <1>12 DEF HandlerReturns, Current, Point
  <2>2. finals' \in [Queue -> Nat]
    <3>1. finals' = [finals EXCEPT ![q] = finals[q] + 1] \/ finals' = finals
      BY <1>12, Zenon DEF HandlerReturns
    <3>2. finals \in [Queue -> Nat] /\ [finals EXCEPT ![q] = finals[q] + 1] \in [Queue -> Nat]
      BY DEF TypeOK
    <3>3. QED
      BY <3>1, <3>2
  <2>3. QED
    BY <1>12, <2>1, <2>2 DEF HandlerReturns, TypeOK, handlers
<1>13. QED
  BY <1>1, <1>2, <1>4, <1>5, <1>6, <1>8, <1>9, <1>10, <1>11, <1>12 DEF Next, Step
----------------------------------------------------------------------------
\* The other frames of the innermost queue are those of a queue that is run again.
LEMMA HeadAlone ==
  ASSUME TypeOK, StackSound, NEW i \in DOMAIN stack, i # 1, stack[i].queue = stack[1].queue
  PROVE  stack[1].queue \in Top
<1>1. Len(stack) \in Nat /\ DOMAIN stack = 1 .. Len(stack)
  BY StackTyped
<1>2. 1 \in DOMAIN stack /\ 1 < i
  BY <1>1
<1>3. QED
  BY <1>2 DEF StackSound

\* A queue awaited is one that the other schedules.
LEMMA AwaitsEmbeds ==
  ASSUME TypeOK, NEW p \in Queue, NEW c \in Queue, Awaits(p, c)
  PROVE  Embeds(p, c)
<1>1. Len(Tasks[p]) \in Nat /\ DOMAIN Tasks[p] = 1 .. Len(Tasks[p])
  BY TasksAssumption, LenProperties
<1>2. index[p] \in DOMAIN Tasks[p]
  BY <1>1 DEF TypeOK, Awaits
<1>3. QED
  BY <1>2 DEF Awaits, Embeds

\* A frame that goes on in its own queue, which may end here.
LEMMA GoesOn ==
  ASSUME IInv, NEW q \in Queue, NEW from \in Point, NEW point \in Point \ Resuming,
         Current(q, from), Goto(q, point), UNCHANGED <<index, parent, waiting>>,
         IF from \in Resuming THEN running' = [running EXCEPT ![q] = FALSE] ELSE running' = running,
         ~running'[q] \/ q \in Top,
         \A c \in Queue : c # q => ended'[c] = ended[c],
         q \notin Top /\ point \in Resolved => ended'[q] = "resolved",
         q \notin Top /\ point \in Rejected => ended'[q] = "rejected"
  PROVE  /\ StackSound' /\ TreeSound' /\ EndSound'
         /\ \A c \in Queue : Idle(c) => Idle(c)'
         /\ \A c \in Queue : c # q => CatchAt(c)' = CatchAt(c)
         /\ CatchAt(q) = ({from} \union Below(q)) \intersect Catching
         /\ CatchAt(q)' = ({point} \union Below(q)) \intersect Catching
<1> USE TasksAssumption
<1>1. /\ TypeOK /\ stack # << >> /\ 1 \in DOMAIN stack
      /\ stack[1].queue = q /\ stack[1].at = from
      /\ Len(stack) \in Nat /\ DOMAIN stack = 1 .. Len(stack)
      /\ \A i \in DOMAIN stack : stack[i] \in Frames /\ stack[i].queue \in Queue
  BY CurrentFrame, StackTyped DEF IInv
<1>2. /\ stack' # << >> /\ Head(stack') = [queue |-> q, at |-> point]
      /\ DOMAIN stack' = DOMAIN stack /\ DOMAIN stack = 1 .. Len(stack)
      /\ stack'[1].queue = q /\ stack'[1].at = point
      /\ \A j \in DOMAIN stack : j # 1 => stack'[j] = stack[j]
  BY <1>1, GoesTo
<1>3. \A j \in DOMAIN stack : stack'[j].queue = stack[j].queue
  BY <1>1, <1>2
<1>4. \A c \in Queue : c # q => running'[c] = running[c]
  BY <1>1 DEF TypeOK
<1>5. ~Idle(q) /\ ~Idle(q)'
  BY <1>1, <1>2 DEF Idle
<1>6. \A c \in Queue : Idle(c)' <=> Idle(c)
  <2> SUFFICES ASSUME NEW c \in Queue, c # q PROVE Idle(c)' <=> Idle(c)
    BY <1>5
  <2>1. QED
    BY <1>2, <1>3, <1>4 DEF Idle
<1>7. running' # running =>
        ~waiting[q] /\ \A c \in Queue : parent[c] = q => Idle(c)
  BY <1>1 DEF IInv, StackSound, FrameSound
<1>8. ASSUME NEW i \in DOMAIN stack, i # 1, stack[i].queue = q
      PROVE  q \in Top
  BY <1>1, <1>8, HeadAlone DEF IInv
<1>9. StackSound'
  <2>1. ASSUME NEW i \in DOMAIN stack'
        PROVE  FrameSound(stack[i])' /\ (i # 1 => stack'[i].at \in Handler)
    <3>1. CASE i = 1
      BY <1>2, <3>1 DEF FrameSound
    <3>2. CASE i # 1
      <4>1. stack'[i] = stack[i] /\ FrameSound(stack[i]) /\ stack[i].at \in Handler /\ i \in DOMAIN stack
        BY <1>2, <2>1, <3>2 DEF IInv, StackSound
      <4>2. CASE stack[i].queue = q
        BY <1>8, <3>2, <4>1, <4>2 DEF FrameSound, Handler, Resuming
      <4>3. CASE stack[i].queue # q
        <5>1. running'[stack[i].queue] = running[stack[i].queue] /\ stack[i].at \notin Resuming
          BY <1>1, <1>4, <4>1, <4>3 DEF Handler, Resuming
        <5>2. QED
          BY <4>1, <5>1 DEF FrameSound
      <4>4. QED
        BY <3>2, <4>1, <4>2, <4>3
    <3>3. QED
      BY <3>1, <3>2
  <2>2. ASSUME NEW i \in DOMAIN stack', NEW j \in DOMAIN stack', i < j,
               stack'[i].queue = stack'[j].queue
        PROVE  stack'[j].queue \in Top
    <3>1. j # 1 /\ stack'[j] = stack[j] /\ stack[i].queue = stack[j].queue /\ j \in DOMAIN stack
      BY <1>2, <1>3, <2>2
    <3>2. QED
      BY <1>2, <2>2, <3>1 DEF IInv, StackSound
  <2>3. QED
    BY <2>1, <2>2 DEF StackSound
<1>10. \A p, c \in Queue : Awaits(p, c) /\ p # q => Awaits(p, c)'
  BY <1>4 DEF Awaits
<1>11. TreeSound'
  <2>1. \A c \in Queue : parent'[c] # NoParent => parent'[c] \in Queue /\ Embeds(parent'[c], c)
    BY DEF IInv, TreeSound
  <2>2. \A c \in Queue : ~Idle(c)' /\ c \notin Top => parent'[c] # NoParent
    BY <1>6 DEF IInv, TreeSound
  <2>3. ASSUME NEW c \in Queue, ~Idle(c)', parent'[c] # NoParent
        PROVE  Awaits(parent[c], c)'
    <3>1. ~Idle(c) /\ parent[c] # NoParent /\ parent[c] \in Queue /\ Awaits(parent[c], c)
      BY <1>6, <2>1, <2>3 DEF IInv, TreeSound
    <3>2. CASE running' = running
      BY <3>1, <3>2 DEF Awaits
    <3>3. CASE running' # running
      BY <1>7, <1>10, <3>1, <3>3
    <3>4. QED
      BY <3>2, <3>3
  <2>4. ASSUME NEW c \in Queue, waiting'[c] PROVE Awaits(c, Leaf)'
    <3>1. waiting[c] /\ Awaits(c, Leaf)
      BY <2>4 DEF IInv, TreeSound
    <3>2. running'[c] = running[c]
      BY <1>4, <1>7, <3>1
    <3>3. QED
      BY <3>1, <3>2 DEF Awaits
  <2>5. QED
    BY <2>1, <2>2, <2>3, <2>4 DEF TreeSound
<1>12. EndSound'
  <2>1. ASSUME NEW i \in DOMAIN stack', stack'[i].queue \notin Top
        PROVE  /\ stack'[i].at \in Resolved => ended'[stack'[i].queue] = "resolved"
               /\ stack'[i].at \in Rejected => ended'[stack'[i].queue] = "rejected"
    <3>1. CASE i = 1
      BY <1>2, <2>1, <3>1
    <3>2. CASE i # 1
      <4>1. stack'[i] = stack[i] /\ stack[i].queue \in Queue /\ stack[i].queue # q
        BY <1>1, <1>2, <1>8, <2>1, <3>2
      <4>2. QED
        BY <1>2, <2>1, <4>1 DEF IInv, EndSound
    <3>3. QED
      BY <3>1, <3>2
  <2>2. ASSUME NEW p \in Queue, NEW c \in Queue, Awaits(p, c)' PROVE ~Idle(c)'
    <3>1. Awaits(p, c)
      BY <1>1, <1>4, <2>2 DEF Awaits, TypeOK
    <3>2. CASE Current(p, "runNext") \/ Current(p, "runCatch")
      <4>1. p = q /\ from \in Resuming
        BY <3>2 DEF Current, Resuming
      <4>2. QED
        BY <1>1, <2>2, <4>1 DEF Awaits, TypeOK
    <3>3. CASE ~(Current(p, "runNext") \/ Current(p, "runCatch"))
      BY <1>6, <3>1, <3>3 DEF IInv, EndSound
    <3>4. QED
      BY <3>2, <3>3
  <2>3. \A c \in Queue : ~Current(c, "runNext")' /\ ~Current(c, "runCatch")'
    BY <1>2 DEF Current, Resuming
  <2>4. QED
    BY <2>1, <2>2, <2>3 DEF EndSound
<1>13. ASSUME NEW c \in Queue, c # q PROVE CatchAt(c)' = CatchAt(c)
  <2>1. \A i \in DOMAIN stack : stack[i].queue = c => stack'[i] = stack[i]
    BY <1>1, <1>2, <1>13
  <2>2. \A i \in DOMAIN stack : stack'[i].queue = c <=> stack[i].queue = c
    BY <1>3
  <2>3. QED
    BY <1>2, <2>1, <2>2 DEF CatchAt
<1>14. /\ CatchAt(q) = ({from} \union Below(q)) \intersect Catching
       /\ CatchAt(q)' = ({point} \union Below(q)) \intersect Catching
  <2>1. \A at : at \in Below(q) <=> \E i \in DOMAIN stack : i # 1 /\ stack[i].queue = q /\ stack[i].at = at
    BY DEF Below
  <2>2. ASSUME NEW at
        PROVE  (\E i \in DOMAIN stack : stack[i].queue = q /\ stack[i].at = at) <=> at \in {from} \union Below(q)
    BY <1>1, <2>1
  <2>3. ASSUME NEW at
        PROVE  (\E i \in DOMAIN stack' : stack'[i].queue = q /\ stack'[i].at = at) <=> at \in {point} \union Below(q)
    <3>1. \A i \in DOMAIN stack : i # 1 => stack'[i] = stack[i]
      BY <1>2
    <3>2. 1 \in DOMAIN stack /\ DOMAIN stack' = DOMAIN stack /\ stack'[1].queue = q /\ stack'[1].at = point
      BY <1>1, <1>2
    <3>3. QED
      BY <2>1, <3>1, <3>2
  <2>4. QED
    BY <2>2, <2>3 DEF CatchAt
<1>15. QED
  BY <1>6, <1>9, <1>11, <1>12, <1>13, <1>14

\* A frame that returns, to whoever called or having started a leaf.
LEMMA GoesBack ==
  ASSUME IInv, NEW q \in Queue, NEW from \in {"runNext", "resolveParent", "rejectParent"},
         Current(q, from), Return,
         UNCHANGED <<running, parent, ended>>,
         \A c \in Queue : c # q => index'[c] = index[c] /\ waiting'[c] = waiting[c],
         \/ from # "runNext" /\ parent[q] = NoParent /\ UNCHANGED <<index, waiting>>
         \/ from = "runNext" /\ Awaits(q, Leaf)'
  PROVE  StackSound' /\ TreeSound' /\ EndSound' /\ Undisturbed
<1> USE TasksAssumption
<1>1. /\ TypeOK /\ StackSound /\ TreeSound /\ EndSound /\ stack # << >>
      /\ 1 \in DOMAIN stack /\ stack[1].queue = q /\ stack[1].at = from
      /\ \A i \in DOMAIN stack : stack[i].queue \in Queue
  BY CurrentFrame, StackTyped DEF IInv, Point
<1>2. /\ stack' \in Seq(Frames)
      /\ Len(stack) \in Nat /\ DOMAIN stack = 1 .. Len(stack) /\ DOMAIN stack' = 1 .. Len(stack) - 1
      /\ \A j \in DOMAIN stack' : j + 1 \in DOMAIN stack /\ stack'[j] = stack[j + 1]
      /\ \A j \in DOMAIN stack : j # 1 => j - 1 \in DOMAIN stack' /\ stack'[j - 1] = stack[j]
  BY <1>1, Returns
<1>3. \A j \in DOMAIN stack' : j + 1 # 1 /\ stack'[j].at \in Handler /\ FrameSound(stack[j + 1])
  BY <1>1, <1>2 DEF StackSound
<1>4. \A c \in Queue : Idle(c) => Idle(c)'
  BY <1>2 DEF Idle
<1>4a. ASSUME NEW c \in Queue, c # q, ~Idle(c) PROVE ~Idle(c)'
  <2>1. CASE running[c]
    BY <2>1 DEF Idle
  <2>2. CASE ~running[c]
    <3>1. PICK i \in DOMAIN stack : stack[i].queue = c
      BY <1>4a, <2>2 DEF Idle
    <3>2. i - 1 \in DOMAIN stack' /\ stack'[i - 1].queue = c
      BY <1>1, <1>2, <1>4a, <3>1
    <3>3. QED
      BY <3>2 DEF Idle
  <2>3. QED
    BY <2>1, <2>2
<1>5. StackSound'
  <2>1. ASSUME NEW i \in DOMAIN stack'
        PROVE  FrameSound(stack[i])' /\ stack'[i].at \in Handler
    <3>1. stack'[i].at \notin Resuming /\ stack'[i] = stack[i + 1] /\ FrameSound(stack[i + 1])
      BY <1>2, <1>3 DEF Handler, Resuming
    <3>2. QED
      BY <1>3, <3>1 DEF FrameSound
  <2>2. ASSUME NEW i \in DOMAIN stack', NEW j \in DOMAIN stack', i < j,
               stack'[i].queue = stack'[j].queue
        PROVE  stack'[j].queue \in Top
    <3>1. /\ i + 1 \in DOMAIN stack /\ j + 1 \in DOMAIN stack /\ i + 1 < j + 1
          /\ stack'[i] = stack[i + 1] /\ stack'[j] = stack[j + 1]
      BY <1>2, <2>2
    <3>2. QED
      BY <1>1, <2>2, <3>1 DEF StackSound
  <2>3. QED
    BY <2>1, <2>2 DEF StackSound
<1>6. TreeSound'
  <2>1. \A c \in Queue : parent'[c] # NoParent => parent'[c] \in Queue /\ Embeds(parent'[c], c)
    BY <1>1 DEF TreeSound
  <2>2. \A c \in Queue : ~Idle(c)' /\ c \notin Top => parent'[c] # NoParent
    BY <1>1, <1>4 DEF TreeSound
  <2>3. ASSUME NEW c \in Queue, ~Idle(c)', parent'[c] # NoParent
        PROVE  Awaits(parent[c], c)'
    <3>1. ~Idle(c) /\ parent[c] # NoParent /\ parent[c] \in Queue /\ Awaits(parent[c], c)
      BY <1>1, <1>4, <2>3 DEF TreeSound
    <3>2. index'[parent[c]] = index[parent[c]]
      <4>1. CASE from # "runNext"
        BY <4>1
      <4>2. CASE from = "runNext"
        <5>1. parent[c] # q
          BY <1>1, <3>1, <4>2 DEF StackSound, FrameSound, Resuming
        <5>2. QED
          BY <3>1, <5>1
      <4>3. QED
        BY <4>1, <4>2
    <3>3. QED
      BY <3>1, <3>2 DEF Awaits
  <2>4. ASSUME NEW c \in Queue, waiting'[c] PROVE Awaits(c, Leaf)'
    <3>1. CASE from # "runNext"
      BY <1>1, <2>4, <3>1 DEF TreeSound, Awaits
    <3>2. CASE Awaits(q, Leaf)' /\ c = q
      BY <3>2
    <3>3. CASE c # q
      BY <1>1, <2>4, <3>3 DEF TreeSound, Awaits
    <3>4. QED
      BY <3>1, <3>2, <3>3
  <2>5. QED
    BY <2>1, <2>2, <2>3, <2>4 DEF TreeSound
<1>7. EndSound'
  <2>1. ASSUME NEW i \in DOMAIN stack', stack'[i].queue \notin Top
        PROVE  /\ stack'[i].at \in Resolved => ended'[stack'[i].queue] = "resolved"
               /\ stack'[i].at \in Rejected => ended'[stack'[i].queue] = "rejected"
    <3>1. i + 1 \in DOMAIN stack /\ i + 1 # 1 /\ stack'[i] = stack[i + 1]
      BY <1>2, <1>3
    <3>2. stack[i + 1].queue # q /\ stack[i + 1].queue \in Queue
      BY <1>1, <2>1, <3>1, HeadAlone
    <3>3. QED
      BY <1>1, <2>1, <3>1, <3>2 DEF EndSound
  <2>2. ASSUME NEW c \in Queue PROVE ~Current(c, "runNext")' /\ ~Current(c, "runCatch")'
    <3>1. CASE stack' = << >>
      BY <3>1 DEF Current
    <3>2. CASE stack' # << >>
      <4>1. Head(stack') = stack'[1] /\ 1 \in DOMAIN stack'
        BY <1>2, <3>2, Under1
      <4>2. QED
        BY <1>3, <4>1 DEF Current, Handler
    <3>3. QED
      BY <3>1, <3>2
  <2>3. ASSUME NEW p \in Queue, NEW c \in Queue, Awaits(p, c)' PROVE ~Idle(c)'
    <3>1. CASE from = "runNext"
      <4>1. Awaits(q, Leaf)' /\ running[q]
        BY <3>1 DEF Awaits
      <4>2. p # q
        BY <2>3, <4>1 DEF Awaits
      <4>3. Awaits(p, c) /\ ~Current(p, "runNext") /\ ~Current(p, "runCatch")
        BY <2>3, <3>1, <4>2 DEF Awaits, Current
      <4>4. ~Idle(c)
        BY <1>1, <4>3 DEF EndSound
      <4>5. CASE c = q
        BY <4>1, <4>5 DEF Idle
      <4>6. CASE c # q
        BY <1>4a, <4>4, <4>6
      <4>7. QED
        BY <4>5, <4>6
    <3>2. CASE from # "runNext"
      <4>1. Awaits(p, c) /\ ~Current(p, "runNext") /\ ~Current(p, "runCatch")
        BY <2>3, <3>2 DEF Awaits, Current
      <4>2. ~Idle(c)
        BY <1>1, <4>1 DEF EndSound
      <4>3. c \notin Top
        BY <1>1, <4>1, AwaitsEmbeds DEF Top
      <4>4. c # q
        BY <1>1, <3>2, <4>2, <4>3 DEF TreeSound
      <4>5. QED
        BY <1>4a, <4>2, <4>4
    <3>3. QED
      BY <3>1, <3>2
  <2>4. QED
    BY <2>1, <2>2, <2>3 DEF EndSound
<1>8. \A c \in Queue : CatchAt(c)' = CatchAt(c)
  <2> SUFFICES ASSUME NEW c \in Queue, NEW at \in Catching
               PROVE  (\E i \in DOMAIN stack' : stack'[i].queue = c /\ stack'[i].at = at)
                        <=> (\E i \in DOMAIN stack : stack[i].queue = c /\ stack[i].at = at)
    BY DEF CatchAt
  <2>1. ASSUME NEW i \in DOMAIN stack, stack[i].queue = c, stack[i].at = at
        PROVE  \E j \in DOMAIN stack' : stack'[j].queue = c /\ stack'[j].at = at
    BY <1>1, <1>2, <2>1 DEF Catching
  <2>2. QED
    BY <1>2, <2>1
<1>9. QED
  BY <1>4, <1>5, <1>6, <1>7, <1>8 DEF Undisturbed

LEMMA CompleteKeeps ==
  ASSUME IInv, NEW q \in Queue, Complete(q)
  PROVE  StackSound' /\ TreeSound' /\ EndSound' /\ Undisturbed
<1> USE TasksAssumption
<1>1. /\ TypeOK /\ StackSound /\ TreeSound /\ EndSound
      /\ \A i \in DOMAIN stack : stack[i].queue \in Queue /\ stack[i].at \in Handler
  BY StackTyped, HandlersBelow DEF IInv, Complete
<1>2. PICK point \in Resuming : stack' = Frame(q, point) \o stack
  BY Zenon DEF Complete, Resuming
<1>3. /\ stack' # << >> /\ Head(stack') = [queue |-> q, at |-> point]
      /\ Len(stack) \in Nat /\ DOMAIN stack = 1 .. Len(stack) /\ DOMAIN stack' = 1 .. Len(stack) + 1
      /\ stack'[1].queue = q /\ stack'[1].at = point
      /\ \A j \in DOMAIN stack' : j # 1 => j - 1 \in DOMAIN stack /\ stack'[j] = stack[j - 1]
      /\ \A j \in DOMAIN stack : j + 1 \in DOMAIN stack' /\ stack'[j + 1] = stack[j]
  BY <1>1, <1>2, Calls DEF Resuming, Point
<1>4. /\ waiting[q] /\ Awaits(q, Leaf) /\ running[q]
      /\ waiting' = [waiting EXCEPT ![q] = FALSE] /\ ~waiting'[q]
      /\ \A c \in Queue : c # q => waiting'[c] = waiting[c]
      /\ UNCHANGED <<index, running, parent, ended>>
  BY <1>1 DEF Complete, TypeOK, TreeSound, Awaits
<1>5. \A c \in Queue : Idle(c)' => Idle(c)
  BY <1>3, <1>4 DEF Idle
<1>6. \A c \in Queue : Idle(c) => Idle(c)'
  <2> SUFFICES ASSUME NEW c \in Queue, Idle(c) PROVE Idle(c)'
    OBVIOUS
  <2>1. ASSUME NEW i \in DOMAIN stack' PROVE stack'[i].queue # c
    <3>1. CASE i = 1
      BY <1>3, <1>4, <3>1 DEF Idle
    <3>2. CASE i # 1
      BY <1>3, <3>2 DEF Idle
    <3>3. QED
      BY <3>1, <3>2
  <2>2. QED
    BY <1>4, <2>1 DEF Idle
<1>7. StackSound'
  <2>1. ASSUME NEW i \in DOMAIN stack'
        PROVE  FrameSound(stack[i])' /\ (i # 1 => stack'[i].at \in Handler)
    <3>1. CASE i = 1
      <4>1. ASSUME NEW c \in Queue, parent[c] = q PROVE Idle(c)
        BY <1>1, <1>4, <4>1 DEF TreeSound, Awaits
      <4>2. QED
        BY <1>3, <1>4, <1>6, <3>1, <4>1 DEF FrameSound
    <3>2. CASE i # 1
      <4>1. /\ stack'[i] = stack[i - 1] /\ stack[i - 1].at \in Handler /\ FrameSound(stack[i - 1])
            /\ stack'[i].at \notin Resuming
        BY <1>1, <1>3, <3>2 DEF StackSound, Handler, Resuming
      <4>2. QED
        BY <1>4, <4>1 DEF FrameSound
    <3>3. QED
      BY <3>1, <3>2
  <2>2. ASSUME NEW i \in DOMAIN stack', NEW j \in DOMAIN stack', i < j,
               stack'[i].queue = stack'[j].queue
        PROVE  stack'[j].queue \in Top
    <3>1. j - 1 \in DOMAIN stack /\ stack'[j] = stack[j - 1]
      BY <1>3, <2>2
    <3>2. CASE i = 1
      <4>1. stack[j - 1].queue = q /\ stack[j - 1].at \in Handler /\ FrameSound(stack[j - 1])
        BY <1>1, <1>3, <2>2, <3>1, <3>2 DEF StackSound
      <4>2. QED
        BY <1>4, <3>1, <4>1 DEF FrameSound, Handler, Resuming
    <3>3. CASE i # 1
      <4>1. i - 1 \in DOMAIN stack /\ stack'[i] = stack[i - 1] /\ i - 1 < j - 1
        BY <1>3, <2>2, <3>3
      <4>2. QED
        BY <1>1, <2>2, <3>1, <4>1 DEF StackSound
    <3>4. QED
      BY <3>2, <3>3
  <2>3. QED
    BY <2>1, <2>2 DEF StackSound
<1>8. TreeSound'
  <2>1. ASSUME NEW c \in Queue, waiting'[c] PROVE Awaits(c, Leaf)'
    BY <1>1, <1>4, <2>1 DEF TreeSound, Awaits
  <2>2. QED
    BY <1>1, <1>4, <1>5, <1>6, <2>1 DEF TreeSound, Awaits
<1>9. EndSound'
  <2>1. ASSUME NEW i \in DOMAIN stack', stack'[i].queue \notin Top
        PROVE  /\ stack'[i].at \in Resolved => ended'[stack'[i].queue] = "resolved"
               /\ stack'[i].at \in Rejected => ended'[stack'[i].queue] = "rejected"
    <3>1. CASE i = 1
      BY <1>3, <3>1 DEF Resuming, Resolved, Rejected
    <3>2. CASE i # 1
      <4>1. i - 1 \in DOMAIN stack /\ stack'[i] = stack[i - 1]
        BY <1>3, <3>2
      <4>2. QED
        BY <1>1, <1>4, <2>1, <4>1 DEF EndSound
    <3>3. QED
      BY <3>1, <3>2
  <2>2. ASSUME NEW p \in Queue, NEW c \in Queue, Awaits(p, c)'
        PROVE  ~Idle(c)' /\ ~Current(p, "runNext")' /\ ~Current(p, "runCatch")'
    <3>1. Awaits(p, c) /\ p # q
      BY <1>4, <2>2 DEF Awaits
    <3>2. ~Idle(c)
      BY <1>1, <3>1, NoneResumes DEF Complete, EndSound
    <3>3. QED
      BY <1>3, <1>5, <3>1, <3>2 DEF Current
  <2>3. QED
    BY <2>1, <2>2 DEF EndSound
<1>10. \A c \in Queue : CatchAt(c)' = CatchAt(c)
  <2> SUFFICES ASSUME NEW c \in Queue, NEW at \in Catching
               PROVE  (\E i \in DOMAIN stack' : stack'[i].queue = c /\ stack'[i].at = at)
                        <=> (\E i \in DOMAIN stack : stack[i].queue = c /\ stack[i].at = at)
    BY DEF CatchAt
  <2>1. ASSUME NEW i \in DOMAIN stack', stack'[i].queue = c, stack'[i].at = at
        PROVE  \E j \in DOMAIN stack : stack[j].queue = c /\ stack[j].at = at
    BY <1>3, <2>1 DEF Catching, Resuming
  <2>2. QED
    BY <1>3, <2>1
<1>11. QED
  BY <1>6, <1>7, <1>8, <1>9, <1>10 DEF Undisturbed

LEMMA RunKeeps ==
  ASSUME IInv, NEW q \in Queue, Run(q)
  PROVE  /\ StackSound' /\ TreeSound' /\ EndSound'
         /\ \A c \in Queue : CatchAt(c)' = CatchAt(c)
         /\ \A c \in Queue : c # q => (Idle(c) => Idle(c)')
<1> USE TasksAssumption
<1>1. /\ TypeOK /\ StackSound /\ TreeSound /\ EndSound
      /\ \A i \in DOMAIN stack : stack[i].queue \in Queue /\ stack[i].at \in Handler
  BY StackTyped, HandlersBelow DEF IInv, Run
<1>2. /\ stack' # << >> /\ Head(stack') = [queue |-> q, at |-> "runNext"]
      /\ Len(stack) \in Nat /\ DOMAIN stack = 1 .. Len(stack) /\ DOMAIN stack' = 1 .. Len(stack) + 1
      /\ stack'[1].queue = q /\ stack'[1].at = "runNext"
      /\ \A j \in DOMAIN stack' : j # 1 => j - 1 \in DOMAIN stack /\ stack'[j] = stack[j - 1]
      /\ \A j \in DOMAIN stack : j + 1 \in DOMAIN stack' /\ stack'[j + 1] = stack[j]
  BY <1>1, Calls DEF Run, Start, Point
<1>3. /\ q \in Top /\ ~running[q] /\ ~waiting[q]
  BY <1>1 DEF Run, TreeSound, Awaits
<1>4. /\ running'[q] /\ parent'[q] = NoParent /\ index'[q] = 0 /\ waiting' = waiting
      /\ \A c \in Queue : c # q => /\ running'[c] = running[c] /\ parent'[c] = parent[c]
                                /\ index'[c] = index[c] /\ ended'[c] = ended[c]
  BY <1>1 DEF Run, Start, TypeOK
<1>5. ~Idle(q)'
  BY <1>4 DEF Idle
<1>6. \A c \in Queue : c # q => (Idle(c)' <=> Idle(c))
  <2> SUFFICES ASSUME NEW c \in Queue, c # q PROVE Idle(c)' <=> Idle(c)
    OBVIOUS
  <2>1. ASSUME Idle(c)' PROVE Idle(c)
    BY <1>2, <1>4, <2>1 DEF Idle
  <2>2. ASSUME Idle(c), NEW i \in DOMAIN stack' PROVE stack'[i].queue # c
    <3>1. CASE i = 1
      BY <1>2, <3>1
    <3>2. CASE i # 1
      BY <1>2, <2>2, <3>2 DEF Idle
    <3>3. QED
      BY <3>1, <3>2
  <2>3. QED
    BY <1>4, <2>1, <2>2 DEF Idle
<1>7. ASSUME NEW c \in Queue, c # q, parent[c] = q PROVE Idle(c)
  BY <1>1, <1>3, <1>7 DEF TreeSound, Awaits
<1>8. StackSound'
  <2>1. ASSUME NEW i \in DOMAIN stack'
        PROVE  FrameSound(stack[i])' /\ (i # 1 => stack'[i].at \in Handler)
    <3>1. CASE i = 1
      <4>1. ASSUME NEW c \in Queue, parent'[c] = q PROVE Idle(c)'
        BY <1>4, <1>6, <1>7, <4>1
      <4>2. QED
        BY <1>2, <1>3, <1>4, <3>1, <4>1 DEF FrameSound, Resuming
    <3>2. CASE i # 1
      <4>1. /\ i - 1 \in DOMAIN stack /\ stack'[i] = stack[i - 1] /\ stack[i - 1].at \in Handler
            /\ FrameSound(stack[i - 1]) /\ stack'[i].at \notin Resuming
        BY <1>1, <1>2, <3>2 DEF StackSound, Handler, Resuming
      <4>2. CASE stack[i - 1].queue = q
        BY <1>3, <4>1, <4>2 DEF FrameSound
      <4>3. CASE stack[i - 1].queue # q
        BY <1>1, <1>4, <4>1, <4>3 DEF FrameSound
      <4>4. QED
        BY <4>1, <4>2, <4>3
    <3>3. QED
      BY <3>1, <3>2
  <2>2. ASSUME NEW i \in DOMAIN stack', NEW j \in DOMAIN stack', i < j,
               stack'[i].queue = stack'[j].queue
        PROVE  stack'[j].queue \in Top
    <3>1. j - 1 \in DOMAIN stack /\ stack'[j] = stack[j - 1]
      BY <1>2, <2>2
    <3>2. CASE i = 1
      BY <1>2, <1>3, <2>2, <3>1, <3>2
    <3>3. CASE i # 1
      <4>1. i - 1 \in DOMAIN stack /\ stack'[i] = stack[i - 1] /\ i - 1 < j - 1
        BY <1>2, <2>2, <3>3
      <4>2. QED
        BY <1>1, <2>2, <3>1, <4>1 DEF StackSound
    <3>4. QED
      BY <3>2, <3>3
  <2>3. QED
    BY <2>1, <2>2 DEF StackSound
<1>9. TreeSound'
  <2>1. \A c \in Queue : parent'[c] # NoParent => parent'[c] \in Queue /\ Embeds(parent'[c], c)
    BY <1>1, <1>4 DEF TreeSound
  <2>2. \A c \in Queue : ~Idle(c)' /\ c \notin Top => parent'[c] # NoParent
    BY <1>1, <1>3, <1>4, <1>6 DEF TreeSound
  <2>3. ASSUME NEW c \in Queue, ~Idle(c)', parent'[c] # NoParent
        PROVE  Awaits(parent[c], c)'
    <3>1. /\ c # q /\ ~Idle(c) /\ parent'[c] = parent[c] /\ parent[c] \in Queue
          /\ Awaits(parent[c], c)
      BY <1>1, <1>4, <1>6, <2>3 DEF TreeSound
    <3>2. parent[c] # q
      BY <1>7, <3>1
    <3>3. QED
      BY <1>4, <3>1, <3>2 DEF Awaits
  <2>4. \A c \in Queue : waiting'[c] => Awaits(c, Leaf)'
    BY <1>1, <1>3, <1>4 DEF TreeSound, Awaits
  <2>5. QED
    BY <2>1, <2>2, <2>3, <2>4 DEF TreeSound
<1>10. EndSound'
  <2>1. ASSUME NEW i \in DOMAIN stack', stack'[i].queue \notin Top
        PROVE  /\ stack'[i].at \in Resolved => ended'[stack'[i].queue] = "resolved"
               /\ stack'[i].at \in Rejected => ended'[stack'[i].queue] = "rejected"
    <3>1. i # 1 /\ i - 1 \in DOMAIN stack /\ stack'[i] = stack[i - 1]
      BY <1>2, <1>3, <2>1
    <3>2. stack[i - 1].queue \in Queue /\ stack[i - 1].queue # q
      BY <1>1, <1>3, <2>1, <3>1
    <3>3. QED
      BY <1>1, <1>4, <2>1, <3>1, <3>2 DEF EndSound
  <2>2. ASSUME NEW p \in Queue, NEW c \in Queue, Awaits(p, c)'
        PROVE  ~Idle(c)' /\ ~Current(p, "runNext")' /\ ~Current(p, "runCatch")'
    <3>1. Awaits(p, c) /\ p # q
      BY <1>4, <2>2 DEF Awaits
    <3>2. ~Idle(c)
      BY <1>1, <3>1, NoneResumes DEF Run, EndSound
    <3>3. QED
      BY <1>2, <1>5, <1>6, <3>1, <3>2 DEF Current
  <2>3. QED
    BY <2>1, <2>2 DEF EndSound
<1>11. \A c \in Queue : CatchAt(c)' = CatchAt(c)
  <2> SUFFICES ASSUME NEW c \in Queue, NEW at \in Catching
               PROVE  (\E i \in DOMAIN stack' : stack'[i].queue = c /\ stack'[i].at = at)
                        <=> (\E i \in DOMAIN stack : stack[i].queue = c /\ stack[i].at = at)
    BY DEF CatchAt
  <2>1. ASSUME NEW i \in DOMAIN stack', stack'[i].queue = c, stack'[i].at = at
        PROVE  \E j \in DOMAIN stack : stack[j].queue = c /\ stack[j].at = at
    BY <1>2, <2>1 DEF Catching, Resuming
  <2>2. QED
    BY <1>2, <2>1
<1>12. QED
  BY <1>6, <1>8, <1>9, <1>10, <1>11

\* The next task is a queue, which starts.
LEMMA LaunchKeeps ==
  ASSUME IInv, OneParent, NEW q \in Queue, RunTask(q), Tasks[q][index[q] + 1] # Leaf
  PROVE  /\ StackSound' /\ TreeSound' /\ EndSound'
         /\ \A c \in Queue : CatchAt(c)' = CatchAt(c)
         /\ \A x \in Queue : x # Tasks[q][index[q] + 1] => (Idle(x) => Idle(x)')
         /\ Idle(Tasks[q][index[q] + 1])
<1> USE TasksAssumption
<1> DEFINE c == Tasks[q][index[q] + 1]
<1>1. /\ TypeOK /\ StackSound /\ TreeSound /\ EndSound /\ stack # << >>
      /\ 1 \in DOMAIN stack /\ stack[1].queue = q /\ stack[1].at = "runNext"
      /\ Len(stack) \in Nat /\ DOMAIN stack = 1 .. Len(stack)
      /\ \A i \in DOMAIN stack : stack[i].queue \in Queue
  BY CurrentFrame, StackTyped DEF IInv, RunTask, Point
<1>2. c \in Queue /\ Embeds(q, c)
  <2>1. Tasks[q] \in Seq(Queue \union {Leaf}) /\ Len(Tasks[q]) \in Nat /\ DOMAIN Tasks[q] = 1 .. Len(Tasks[q])
    BY LenProperties
  <2>2. index[q] + 1 \in 1 .. Len(Tasks[q])
    BY <1>1, <2>1 DEF RunTask, TypeOK
  <2>3. QED
    BY <2>1, <2>2, ElementOfSeq DEF Embeds
<1>3. Start(c, q, [index EXCEPT ![q] = @ + 1], Tail(stack)) /\ UNCHANGED waiting
  BY DEF RunTask, Launch
<1>4. running[q] /\ ~waiting[q] /\ \A x \in Queue : parent[x] = q => Idle(x)
  BY <1>1 DEF StackSound, FrameSound, Resuming
<1>5. Idle(c) /\ c # q /\ c \notin Top /\ ~waiting[c]
  <2>1. c \notin Top
    BY <1>2 DEF Top
  <2>2. parent[c] # NoParent => parent[c] = q
    BY <1>1, <1>2 DEF TreeSound, OneParent
  <2>3. Idle(c)
    BY <1>1, <1>2, <1>4, <2>1, <2>2 DEF TreeSound
  <2>4. QED
    BY <1>1, <1>2, <1>4, <2>1, <2>3 DEF Idle, TreeSound, Awaits
<1> HIDE DEF c
<1>6. /\ stack' # << >> /\ Head(stack') = [queue |-> c, at |-> "runNext"]
      /\ DOMAIN stack' = DOMAIN stack
      /\ stack'[1].queue = c /\ stack'[1].at = "runNext"
      /\ \A j \in DOMAIN stack : j # 1 => stack'[j] = stack[j]
  <2>1. Goto(c, "runNext")
    BY <1>3 DEF Start, Goto
  <2>2. QED
    BY <1>1, <1>2, <2>1, GoesTo DEF Point
<1>7. /\ running'[c] /\ parent'[c] = q /\ index'[c] = 0 /\ waiting' = waiting
      /\ index'[q] = index[q] + 1
      /\ \A x \in Queue : x # c =>
           running'[x] = running[x] /\ parent'[x] = parent[x] /\ ended'[x] = ended[x]
      /\ \A x \in Queue : x # c /\ x # q => index'[x] = index[x]
  BY <1>1, <1>2, <1>3, <1>5 DEF Start, TypeOK
<1>8. \A x \in Queue : x # c => (Idle(x)' <=> Idle(x))
  <2> SUFFICES ASSUME NEW x \in Queue, x # c PROVE Idle(x)' <=> Idle(x)
    OBVIOUS
  <2>1. CASE x = q
    BY <1>4, <1>7, <2>1 DEF Idle
  <2>2. CASE x # q
    <3>1. \A i \in DOMAIN stack : stack'[i].queue # x <=> stack[i].queue # x
      BY <1>1, <1>6, <2>2
    <3>2. QED
      BY <1>6, <1>7, <3>1 DEF Idle
  <2>3. QED
    BY <2>1, <2>2
<1>9. ASSUME NEW x \in Queue, parent[x] = c PROVE Idle(x)
  BY <1>1, <1>2, <1>5, <1>9 DEF TreeSound, Awaits, Idle
<1>10. StackSound'
  <2>1. ASSUME NEW i \in DOMAIN stack'
        PROVE  FrameSound(stack[i])' /\ (i # 1 => stack'[i].at \in Handler)
    <3>1. CASE i = 1
      <4>1. ASSUME NEW x \in Queue, parent'[x] = c PROVE Idle(x)'
        BY <1>5, <1>7, <1>8, <1>9, <4>1
      <4>2. QED
        BY <1>5, <1>6, <1>7, <3>1, <4>1 DEF FrameSound, Resuming
    <3>2. CASE i # 1
      <4>1. /\ stack'[i] = stack[i] /\ stack[i].at \in Handler /\ FrameSound(stack[i])
            /\ stack[i].queue \in Queue /\ stack[i].queue # c /\ stack[i].at \notin Resuming
        BY <1>1, <1>5, <1>6, <3>2 DEF StackSound, Handler, Resuming, Idle
      <4>2. QED
        BY <1>7, <4>1 DEF FrameSound
    <3>3. QED
      BY <3>1, <3>2
  <2>2. ASSUME NEW i \in DOMAIN stack', NEW j \in DOMAIN stack', i < j,
               stack'[i].queue = stack'[j].queue
        PROVE  stack'[j].queue \in Top
    <3>1. j # 1 /\ stack'[j] = stack[j]
      BY <1>1, <1>6, <2>2
    <3>2. CASE i = 1
      BY <1>5, <1>6, <2>2, <3>1, <3>2 DEF Idle
    <3>3. CASE i # 1
      BY <1>1, <1>6, <2>2, <3>1, <3>3 DEF StackSound
    <3>4. QED
      BY <3>2, <3>3
  <2>3. QED
    BY <2>1, <2>2 DEF StackSound
<1>11. TreeSound'
  <2>1. \A x \in Queue : parent'[x] # NoParent => parent'[x] \in Queue /\ Embeds(parent'[x], x)
    BY <1>1, <1>2, <1>7 DEF TreeSound
  <2>2. \A x \in Queue : ~Idle(x)' /\ x \notin Top => parent'[x] # NoParent
    BY <1>1, <1>7, <1>8 DEF TreeSound
  <2>3. ASSUME NEW x \in Queue, ~Idle(x)', parent'[x] # NoParent
        PROVE  Awaits(parent[x], x)'
    <3>1. CASE x = c
      <4>1. index[q] + 1 > 0
        BY <1>1 DEF TypeOK
      <4>2. QED
        BY <1>4, <1>5, <1>7, <3>1, <4>1 DEF Awaits, c
    <3>2. CASE x # c
      <4>1. /\ ~Idle(x) /\ parent'[x] = parent[x] /\ parent[x] \in Queue
            /\ Awaits(parent[x], x)
        BY <1>1, <1>7, <1>8, <2>3, <3>2 DEF TreeSound
      <4>2. parent[x] # q /\ parent[x] # c
        BY <1>4, <1>9, <4>1
      <4>3. QED
        BY <1>7, <4>1, <4>2 DEF Awaits
    <3>3. QED
      BY <3>1, <3>2
  <2>4. ASSUME NEW x \in Queue, waiting'[x] PROVE Awaits(x, Leaf)'
    <3>1. x # q /\ x # c /\ Awaits(x, Leaf)
      BY <1>1, <1>4, <1>5, <1>7, <2>4 DEF TreeSound
    <3>2. QED
      BY <1>7, <3>1 DEF Awaits
  <2>5. QED
    BY <2>1, <2>2, <2>3, <2>4 DEF TreeSound
<1>12. EndSound'
  <2>1. ASSUME NEW i \in DOMAIN stack', stack'[i].queue \notin Top
        PROVE  /\ stack'[i].at \in Resolved => ended'[stack'[i].queue] = "resolved"
               /\ stack'[i].at \in Rejected => ended'[stack'[i].queue] = "rejected"
    <3>1. CASE i = 1
      BY <1>6, <3>1 DEF Resolved, Rejected
    <3>2. CASE i # 1
      <4>1. i \in DOMAIN stack /\ stack'[i] = stack[i]
        BY <1>6, <3>2
      <4>2. stack[i].queue # c /\ stack[i].queue \in Queue
        BY <1>1, <1>5, <4>1 DEF Idle
      <4>3. QED
        BY <1>1, <1>7, <2>1, <4>1, <4>2 DEF EndSound
    <3>3. QED
      BY <3>1, <3>2
  <2>2. ASSUME NEW p \in Queue, NEW x \in Queue, Awaits(p, x)'
        PROVE  ~Idle(x)' /\ ~Current(p, "runNext")' /\ ~Current(p, "runCatch")'
    <3>1. p # c
      BY <1>7, <2>2 DEF Awaits
    <3>2. ~Current(p, "runNext")' /\ ~Current(p, "runCatch")'
      BY <1>6, <3>1 DEF Current
    <3>3. CASE x = c
      BY <1>7, <3>2, <3>3 DEF Idle
    <3>4. CASE x # c
      <4>1. p # q
        BY <1>7, <2>2, <3>4 DEF Awaits, c
      <4>2. Awaits(p, x) /\ ~Current(p, "runNext") /\ ~Current(p, "runCatch")
        BY <1>7, <2>2, <3>1, <4>1 DEF Awaits, Current, RunTask
      <4>3. ~Idle(x)
        BY <1>1, <4>2 DEF EndSound
      <4>4. QED
        BY <1>8, <3>2, <3>4, <4>3
    <3>5. QED
      BY <3>2, <3>3, <3>4
  <2>3. QED
    BY <2>1, <2>2 DEF EndSound
<1>13. \A x \in Queue : CatchAt(x)' = CatchAt(x)
  BY <1>1, <1>6 DEF CatchAt, Catching
<1>14. QED
  BY <1>5, <1>8, <1>10, <1>11, <1>12, <1>13 DEF c

\* A queue has told its parent.
LEMMA TellKeeps ==
  ASSUME IInv, OneParent, NEW q \in Queue, TellParent(q), parent[q] # NoParent
  PROVE  StackSound' /\ TreeSound' /\ EndSound' /\ Undisturbed
<1> USE TasksAssumption
<1> DEFINE p == parent[q]
<1>1. /\ TypeOK /\ StackSound /\ TreeSound /\ EndSound
  BY DEF IInv
<1>2. PICK from \in {"resolveParent", "rejectParent"}, point \in Resuming :
        /\ Current(q, from) /\ Goto(p, point)
        /\ point = IF from = "resolveParent" THEN "runNext" ELSE "runCatch"
  <2>1. CASE Current(q, "resolveParent")
    BY <2>1 DEF TellParent, Resuming
  <2>2. CASE ~Current(q, "resolveParent")
    BY <2>2 DEF TellParent, Resuming
  <2>3. QED
    BY <2>1, <2>2
<1>3. UNCHANGED <<index, running, parent, waiting, ended>>
  BY DEF TellParent
<1>4. /\ stack # << >> /\ 1 \in DOMAIN stack /\ stack[1].queue = q /\ stack[1].at = from
      /\ Len(stack) \in Nat /\ DOMAIN stack = 1 .. Len(stack)
      /\ \A i \in DOMAIN stack : stack[i].queue \in Queue
  BY <1>1, <1>2, CurrentFrame, StackTyped DEF Point
<1>5. /\ ~Idle(q) /\ p \in Queue /\ Embeds(p, q) /\ Awaits(p, q) /\ running[p]
      /\ q \notin Top /\ ~running[q] /\ ~waiting[p]
  <2>1. ~Idle(q) /\ p \in Queue /\ Embeds(p, q) /\ Awaits(p, q)
    BY <1>1, <1>4 DEF Idle, TreeSound
  <2>2. q \notin Top
    BY <2>1 DEF Top
  <2>3. ~running[q]
    BY <1>1, <1>4, <2>2 DEF StackSound, FrameSound, Resuming
  <2>4. ~waiting[p]
    BY <1>1, <2>1 DEF TreeSound, Awaits
  <2>5. QED
    BY <2>1, <2>2, <2>3, <2>4 DEF Awaits
<1> HIDE DEF p
<1>6. /\ stack' # << >> /\ Head(stack') = [queue |-> p, at |-> point]
      /\ DOMAIN stack' = DOMAIN stack
      /\ stack'[1].queue = p /\ stack'[1].at = point
      /\ \A j \in DOMAIN stack : j # 1 => stack'[j] = stack[j]
  BY <1>1, <1>2, <1>4, <1>5, GoesTo DEF Resuming, Point
<1>7. \A c \in Queue : ~Idle(c)' => ~Idle(c) /\ c # q
  <2>1. Idle(q)'
    <3>1. ASSUME NEW i \in DOMAIN stack' PROVE stack'[i].queue # q
      BY <1>1, <1>4, <1>5, <1>6, HeadAlone
    <3>2. QED
      BY <1>3, <1>5, <3>1 DEF Idle
  <2>2. ASSUME NEW c \in Queue, Idle(c) PROVE Idle(c)'
    <3>1. ASSUME NEW i \in DOMAIN stack' PROVE stack'[i].queue # c
      BY <1>5, <1>6, <2>2, SMTT(30) DEF Idle
    <3>2. QED
      BY <1>3, <2>2, <3>1 DEF Idle
  <2>3. QED
    BY <2>1, <2>2
<1>8. StackSound'
  <2>1. ASSUME NEW i \in DOMAIN stack'
        PROVE  FrameSound(stack[i])' /\ (i # 1 => stack'[i].at \in Handler)
    <3>1. CASE i = 1
      <4>1. ASSUME NEW c \in Queue, parent[c] = p PROVE Idle(c)'
        <5>1. ~Idle(c) => c = q
          BY <1>1, <1>5, <4>1 DEF TreeSound, Awaits
        <5>2. QED
          BY <1>7, <5>1
      <4>2. QED
        BY <1>3, <1>5, <1>6, <3>1, <4>1 DEF FrameSound
    <3>2. CASE i # 1
      <4>1. /\ stack'[i] = stack[i] /\ stack[i].at \in Handler /\ FrameSound(stack[i])
            /\ stack[i].at \notin Resuming
        BY <1>1, <1>6, <3>2 DEF StackSound, Handler, Resuming
      <4>2. QED
        BY <1>3, <4>1 DEF FrameSound
    <3>3. QED
      BY <3>1, <3>2
  <2>2. ASSUME NEW i \in DOMAIN stack', NEW j \in DOMAIN stack', i < j,
               stack'[i].queue = stack'[j].queue
        PROVE  stack'[j].queue \in Top
    <3>1. j # 1 /\ stack'[j] = stack[j] /\ FrameSound(stack[j]) /\ stack[j].at \in Handler
      BY <1>1, <1>4, <1>6, <2>2 DEF StackSound
    <3>2. CASE i = 1
      BY <1>5, <1>6, <2>2, <3>1, <3>2 DEF FrameSound, Handler, Resuming
    <3>3. CASE i # 1
      BY <1>1, <1>6, <2>2, <3>1, <3>3 DEF StackSound
    <3>4. QED
      BY <3>2, <3>3
  <2>3. QED
    BY <2>1, <2>2 DEF StackSound
<1>9. TreeSound'
  BY <1>1, <1>3, <1>7 DEF TreeSound, Awaits
<1>10. EndSound'
  <2>1. ASSUME NEW i \in DOMAIN stack', stack'[i].queue \notin Top
        PROVE  /\ stack'[i].at \in Resolved => ended'[stack'[i].queue] = "resolved"
               /\ stack'[i].at \in Rejected => ended'[stack'[i].queue] = "rejected"
    BY <1>1, <1>3, <1>6, <2>1 DEF EndSound, Resuming, Resolved, Rejected
  <2>2. ended[q] = IF point = "runNext" THEN "resolved" ELSE "rejected"
    BY <1>1, <1>2, <1>4, <1>5 DEF EndSound, Resolved, Rejected
  <2>3. ASSUME NEW x \in Queue, NEW c \in Queue, Awaits(x, c)', Idle(c)' \/ x = p
        PROVE  x = p /\ c = q
    <3>1. Awaits(x, c) /\ ~Current(x, "runNext") /\ ~Current(x, "runCatch")
      BY <1>2, <1>3, <2>3 DEF Awaits, Current
    <3>2. ~Idle(c)
      BY <1>1, <3>1 DEF EndSound
    <3>3. CASE x = p
      BY <1>5, <3>1, <3>3 DEF Awaits
    <3>4. CASE Idle(c)'
      <4>1. c = q
        BY <1>4, <1>6, <1>3, <3>2, <3>4 DEF Idle
      <4>2. QED
        BY <1>1, <1>5, <3>1, <4>1, AwaitsEmbeds DEF OneParent
    <3>5. QED
      BY <2>3, <3>3, <3>4
  <2>4. ASSUME NEW x \in Queue, NEW c \in Queue, Awaits(x, c)'
        PROVE  /\ Current(x, "runNext")' => ended'[c] = "resolved"
               /\ Current(x, "runCatch")' => ended'[c] = "rejected"
               /\ Idle(c)' => Current(x, "runNext")' \/ Current(x, "runCatch")'
    <3>1. CASE x = p
      <4>1. c = q
        BY <2>3, <2>4, <3>1
      <4>2. QED
        BY <1>3, <1>6, <2>2, <3>1, <4>1 DEF Current, Resuming
    <3>2. CASE x # p
      BY <1>6, <2>3, <2>4, <3>2 DEF Current
    <3>3. QED
      BY <3>1, <3>2
  <2>5. QED
    BY <2>1, <2>4 DEF EndSound
<1>11. \A c \in Queue : CatchAt(c)' = CatchAt(c)
  <2> SUFFICES ASSUME NEW c \in Queue, NEW at \in Catching
               PROVE  (\E i \in DOMAIN stack' : stack'[i].queue = c /\ stack'[i].at = at)
                        <=> (\E i \in DOMAIN stack : stack[i].queue = c /\ stack[i].at = at)
    BY DEF CatchAt
  <2>1. stack[1].at # at /\ stack'[1].at # at
    BY <1>4, <1>6 DEF Catching, Resuming
  <2>2. QED
    BY <1>6, <2>1
<1>12. QED
  BY <1>7, <1>8, <1>9, <1>10, <1>11 DEF Undisturbed
----------------------------------------------------------------------------
LEMMA InitSound == Init => IInv
<1> SUFFICES ASSUME Init PROVE IInv
  OBVIOUS
<1> USE TasksAssumption
<1>1. TypeOK
  <2>1. \A q \in Queue : Len(Tasks[q]) \in Nat
    BY LenProperties
  <2>2. stack \in Seq([queue : Queue, at : Point])
    BY EmptySeq DEF Init
  <2>3. QED
    BY <2>1, <2>2 DEF Init, TypeOK
<1>2. DOMAIN stack = {}
  BY DEF Init
<1>3. StackSound /\ TreeSound /\ EndSound /\ Passed
  BY <1>2 DEF Init, StackSound, TreeSound, EndSound, Passed, Awaits, Idle
<1>4. QED
  BY <1>1, <1>3 DEF IInv

\* The steps that tell another queue, or nobody.
LEMMA ReturnsKeep ==
  ASSUME IInv, OneParent, NEW q \in Queue,
         \/ TellParent(q)
         \/ RunTask(q) /\ Tasks[q][index[q] + 1] = Leaf
  PROVE  StackSound' /\ TreeSound' /\ EndSound' /\ Undisturbed
<1>1. CASE RunTask(q) /\ Tasks[q][index[q] + 1] = Leaf
  <2>1. /\ waiting' = [waiting EXCEPT ![q] = TRUE] /\ index' = [index EXCEPT ![q] = @ + 1]
        /\ Return /\ UNCHANGED <<running, parent, ended>> /\ Current(q, "runNext")
    BY <1>1 DEF RunTask, Launch, Return
  <2>2. /\ \A c \in Queue : c # q => index'[c] = index[c] /\ waiting'[c] = waiting[c]
        /\ index[q] \in Nat /\ index'[q] = index[q] + 1
    BY <2>1 DEF IInv, TypeOK
  <2>3. running[q]
    BY <2>1, CurrentFrame DEF IInv, StackSound, FrameSound, Resuming, Point
  <2>4. Awaits(q, Leaf)'
    BY <1>1, <2>1, <2>2, <2>3 DEF Awaits
  <2>5. QED
    BY <2>1, <2>2, <2>4, GoesBack
<1>2. CASE TellParent(q) /\ parent[q] = NoParent
  <2>1. PICK from \in {"resolveParent", "rejectParent"} : Current(q, from)
    BY <1>2 DEF TellParent
  <2>2. Return /\ UNCHANGED <<index, running, parent, waiting, ended>>
    BY <1>2 DEF TellParent
  <2>3. QED
    BY <1>2, <2>1, <2>2, GoesBack
<1>3. QED
  BY <1>1, <1>2, TellKeeps

\* The steps of a queue that goes on in its own frame.
LEMMA OwnFrameKeeps ==
  ASSUME IInv, NEW q \in Queue,
         Finish(q) \/ RunCatch(q) \/ AfterCatch(q) \/ HandlerReturns(q)
  PROVE  /\ StackSound' /\ TreeSound' /\ EndSound'
         /\ \A c \in Queue : Idle(c) => Idle(c)'
         /\ \A c \in Queue : c # q => CatchAt(c)' = CatchAt(c)
         /\ \E from, point \in Point :
              /\ Current(q, from) /\ Goto(q, point)
              /\ CatchAt(q) = ({from} \union Below(q)) \intersect Catching
              /\ CatchAt(q)' = ({point} \union Below(q)) \intersect Catching
<1> USE TasksAssumption
<1>1. CASE Finish(q)
  <2>1. PICK point \in {"finally", "resolveParent"} : Goto(q, point)
    BY <1>1, Zenon DEF Finish, CallFinally
  <2>2. /\ ~running'[q] /\ running' = [running EXCEPT ![q] = FALSE]
        /\ ended'[q] = "resolved" /\ \A c \in Queue : c # q => ended'[c] = ended[c]
    BY <1>1 DEF Finish, IInv, TypeOK
  <2>3. /\ StackSound' /\ TreeSound' /\ EndSound'
        /\ \A c \in Queue : Idle(c) => Idle(c)'
        /\ \A c \in Queue : c # q => CatchAt(c)' = CatchAt(c)
        /\ CatchAt(q) = ({"runNext"} \union Below(q)) \intersect Catching
        /\ CatchAt(q)' = ({point} \union Below(q)) \intersect Catching
    <3>1. /\ Current(q, "runNext") /\ UNCHANGED <<index, parent, waiting>>
          /\ "runNext" \in Point /\ "runNext" \in Resuming /\ point \in Point \ Resuming
          /\ point \in Resolved /\ point \notin Rejected
      BY <1>1 DEF Finish, Resuming, Point, Resolved, Rejected
    <3>2. QED
      BY <2>1, <2>2, <3>1, GoesOn
  <2>4. QED
    BY <1>1, <2>1, <2>3 DEF Finish, Point
<1>2. CASE RunCatch(q)
  <2>1. PICK point \in {"catchMoved", "catch", "afterCatch"} : Goto(q, point)
    BY <1>2, Zenon DEF RunCatch
  <2>2. /\ ~running'[q] /\ running' = [running EXCEPT ![q] = FALSE]
        /\ ended'[q] = "rejected" /\ \A c \in Queue : c # q => ended'[c] = ended[c]
    BY <1>2 DEF RunCatch, IInv, TypeOK
  <2>3. /\ StackSound' /\ TreeSound' /\ EndSound'
        /\ \A c \in Queue : Idle(c) => Idle(c)'
        /\ \A c \in Queue : c # q => CatchAt(c)' = CatchAt(c)
        /\ CatchAt(q) = ({"runCatch"} \union Below(q)) \intersect Catching
        /\ CatchAt(q)' = ({point} \union Below(q)) \intersect Catching
    <3>1. /\ Current(q, "runCatch") /\ UNCHANGED <<index, parent, waiting>>
          /\ "runCatch" \in Point /\ "runCatch" \in Resuming /\ point \in Point \ Resuming
          /\ point \notin Resolved
      BY <1>2 DEF RunCatch, Resuming, Point, Resolved
    <3>2. QED
      BY <2>1, <2>2, <3>1, GoesOn
  <2>4. QED
    BY <1>2, <2>1, <2>3 DEF RunCatch, Point
\* The end of a handler, or of a rejection without one.
<1>3. CASE AfterCatch(q) \/ HandlerReturns(q)
  <2>1. PICK from \in {"afterCatch", "finally", "catch", "catchMoved", "finallyLast"},
             point \in {"resolveParent", "afterCatch", "finallyLast", "rejectParent"} :
          /\ Current(q, from) /\ Goto(q, point)
          /\ point = "resolveParent" <=> from = "finally"
    <3>1. CASE AfterCatch(q)
      <4>1. Current(q, "afterCatch") /\ (Goto(q, "finallyLast") \/ Goto(q, "rejectParent"))
        BY <3>1, Zenon DEF AfterCatch, CallFinally
      <4>2. QED
        BY <4>1
    <3>2. CASE HandlerReturns(q)
      BY <3>2 DEF HandlerReturns
    <3>3. QED
      BY <1>3, <3>1, <3>2
  <2>2. UNCHANGED <<index, running, parent, waiting, ended>>
    BY <1>3 DEF AfterCatch, HandlerReturns
  <2>3. 1 \in DOMAIN stack /\ stack[1].queue = q /\ stack[1].at = from
    BY <2>1, CurrentFrame DEF IInv, Point
  <2>4. ~running[q] \/ q \in Top
    BY <2>3 DEF IInv, StackSound, FrameSound, Resuming
  <2>5. /\ q \notin Top /\ point \in Resolved => ended[q] = "resolved"
        /\ q \notin Top /\ point \in Rejected => ended[q] = "rejected"
    BY <2>1, <2>3 DEF IInv, EndSound, Resolved, Rejected
  <2>6. from \in Point /\ from \notin Resuming /\ point \in Point \ Resuming
    BY <2>1 DEF Resuming, Point
  <2>7. /\ StackSound' /\ TreeSound' /\ EndSound'
        /\ \A c \in Queue : Idle(c) => Idle(c)'
        /\ \A c \in Queue : c # q => CatchAt(c)' = CatchAt(c)
        /\ CatchAt(q) = ({from} \union Below(q)) \intersect Catching
        /\ CatchAt(q)' = ({point} \union Below(q)) \intersect Catching
    BY <2>1, <2>2, <2>4, <2>5, <2>6, GoesOn
  <2>8. QED
    BY <2>1, <2>6, <2>7
<1>4. QED
  BY <1>1, <1>2, <1>3

\* A task that is a queue.
LEMMA TaskQueued ==
  ASSUME NEW p \in Queue, NEW i \in DOMAIN Tasks[p], Tasks[p][i] # Leaf
  PROVE  Tasks[p][i] \in Queue /\ Embeds(p, Tasks[p][i]) /\ i \in Nat
<1>1. Tasks[p] \in Seq(Queue \union {Leaf}) /\ DOMAIN Tasks[p] = 1 .. Len(Tasks[p]) /\ Len(Tasks[p]) \in Nat
  BY TasksAssumption, LenProperties
<1>2. Tasks[p][i] \in Queue \union {Leaf}
  BY <1>1, ElementOfSeq
<1>3. QED
  BY <1>1, <1>2 DEF Embeds

\* When a queue goes on, all that it has passed resolved.
LEMMA PassedSoFar ==
  ASSUME IInv, NEW q \in Queue, Current(q, "runNext"),
         NEW i \in DOMAIN Tasks[q], i <= index[q], Tasks[q][i] # Leaf
  PROVE  running[q] /\ Tasks[q][i] \in Queue /\ ended[Tasks[q][i]] = "resolved"
<1>1. running[q]
  BY CurrentFrame DEF IInv, StackSound, FrameSound, Resuming, Point
<1>2. Tasks[q][i] \in Queue
  BY TaskQueued
<1>3. QED
  BY <1>1, <1>2 DEF IInv, Passed, EndSound

LEMMA LaunchPasses ==
  ASSUME IInv, OneParent, NEW s \in Queue, RunTask(s), Tasks[s][index[s] + 1] # Leaf
  PROVE  Passed'
<1> DEFINE c == Tasks[s][index[s] + 1]
<1>1. TypeOK /\ Passed /\ Current(s, "runNext") /\ index[s] \in Nat
  BY DEF IInv, RunTask, TypeOK
<1>2. index[s] + 1 \in DOMAIN Tasks[s] /\ \A q \in Queue : DOMAIN Tasks[q] \subseteq Nat \ {0}
  <2>1. \A q \in Queue : Len(Tasks[q]) \in Nat /\ DOMAIN Tasks[q] = 1 .. Len(Tasks[q])
    BY TasksAssumption, LenProperties
  <2>2. QED
    BY <1>1, <2>1 DEF RunTask
<1>3. c \in Queue /\ Embeds(s, c)
  BY <1>2, TaskQueued
<1>4. running[s] /\ Idle(c) /\ c # s
  <2>1. running[s]
    BY <1>1, CurrentFrame DEF IInv, StackSound, FrameSound, Resuming, Point
  <2>2. Idle(c)
    BY LaunchKeeps
  <2>3. QED
    BY <2>1, <2>2 DEF Idle
<1>5. /\ running'[c] /\ index'[c] = 0 /\ ended'[c] = "none" /\ index'[s] = index[s] + 1
      /\ \A q \in Queue : q # c => running'[q] = running[q] /\ ended'[q] = ended[q]
      /\ \A q \in Queue : q # c /\ q # s => index'[q] = index[q]
  BY <1>1, <1>3, <1>4 DEF RunTask, Launch, Start, TypeOK
<1>6. \A i \in DOMAIN Tasks[s] : i <= index[s] /\ Tasks[s][i] # Leaf => ended[Tasks[s][i]] = "resolved"
  BY <1>1, PassedSoFar
<1>7. running'[s] /\ index'[s] > 0 /\ Tasks[s][index'[s]] = c
  BY <1>1, <1>4, <1>5
<1> HIDE DEF c
<1>8. ASSUME NEW q \in Queue, running'[q], NEW i \in DOMAIN Tasks[q], i <= index'[q], Tasks[q][i] # Leaf
      PROVE  ended'[Tasks[q][i]] = "resolved" \/ Awaits(q, Tasks[q][i])'
  <2>1. Tasks[q][i] \in Queue /\ Embeds(q, Tasks[q][i]) /\ i \in Nat \ {0} /\ q # c
    BY <1>2, <1>5, <1>8, TaskQueued
  <2>2. CASE q = s
    <3>1. CASE Tasks[q][i] = c
      BY <1>7, <2>2, <3>1 DEF Awaits
    <3>2. CASE Tasks[q][i] # c
      <4>1. i <= index[s]
        BY <1>1, <1>5, <1>8, <2>1, <2>2, <3>2 DEF c
      <4>2. QED
        BY <1>5, <1>6, <1>8, <2>1, <2>2, <3>2, <4>1
    <3>3. QED
      BY <3>1, <3>2
  <2>3. CASE q # s
    <3>1. Tasks[q][i] # c
      BY <1>3, <2>1, <2>3 DEF OneParent
    <3>2. ended[Tasks[q][i]] = "resolved" \/ Awaits(q, Tasks[q][i])
      BY <1>1, <1>5, <1>8, <2>1, <2>3 DEF Passed
    <3>3. QED
      BY <1>5, <2>1, <2>3, <3>1, <3>2 DEF Awaits
  <2>4. QED
    BY <2>2, <2>3
<1>9. ASSUME NEW q \in Queue, NEW x \in Queue, ended'[q] = "resolved", Embeds(q, x)
      PROVE  ended'[x] = "resolved"
  <2>1. q # c /\ ended[q] = "resolved"
    BY <1>5, <1>9
  <2>2. x # c
    BY <1>1, <1>3, <1>4, <1>9, <2>1 DEF OneParent, Passed
  <2>3. QED
    BY <1>1, <1>5, <1>9, <2>1, <2>2 DEF Passed
<1>10. \A q \in Queue : running'[q] => ended'[q] = "none"
  BY <1>1, <1>5 DEF Passed
<1>11. QED
  BY <1>8, <1>9, <1>10 DEF Passed

LEMMA EndPasses ==
  ASSUME IInv, NEW s \in Queue, Finish(s) \/ RunCatch(s)
  PROVE  Passed'
<1>1. TypeOK /\ Passed
  BY DEF IInv
<1>2. PICK from \in Resuming : Current(s, from)
  BY DEF Finish, RunCatch, Resuming
<1>3. running[s] /\ ended[s] = "none"
  BY <1>1, <1>2, CurrentFrame DEF IInv, StackSound, FrameSound, Resuming, Point, Passed
<1>4. /\ ~running'[s] /\ UNCHANGED index
      /\ \A q \in Queue : q # s => running'[q] = running[q] /\ ended'[q] = ended[q]
  BY <1>1 DEF Finish, RunCatch, TypeOK
<1>5. ASSUME NEW q \in Queue, running'[q], NEW i \in DOMAIN Tasks[q], i <= index'[q], Tasks[q][i] # Leaf
      PROVE  ended'[Tasks[q][i]] = "resolved" \/ Awaits(q, Tasks[q][i])'
  <2>1. q # s /\ running[q] /\ Tasks[q][i] \in Queue
    BY <1>4, <1>5, TaskQueued
  <2>2. ended[Tasks[q][i]] = "resolved" \/ Awaits(q, Tasks[q][i])
    BY <1>1, <1>4, <1>5, <2>1 DEF Passed
  <2>3. CASE Awaits(q, Tasks[q][i])
    BY <1>4, <2>1, <2>3 DEF Awaits
  <2>4. CASE ended[Tasks[q][i]] = "resolved"
    BY <1>3, <1>4, <2>1, <2>4
  <2>5. QED
    BY <2>2, <2>3, <2>4
<1>6. ASSUME NEW q \in Queue, NEW x \in Queue, ended'[q] = "resolved", Embeds(q, x)
      PROVE  ended'[x] = "resolved"
  <2>1. CASE q = s
    <3>1. Finish(s)
      BY <1>1, <1>6, <2>1 DEF RunCatch, TypeOK
    <3>2. ended'[s] = "resolved" /\ Current(s, "runNext") /\ index[s] >= Len(Tasks[s])
      BY <1>6, <2>1, <3>1 DEF Finish
    <3>3. PICK i \in DOMAIN Tasks[s] : Tasks[s][i] = x
      BY <1>6, <2>1 DEF Embeds
    <3>4. i <= index[s] /\ x # Leaf
      <4>1. Len(Tasks[s]) \in Nat /\ DOMAIN Tasks[s] = 1 .. Len(Tasks[s]) /\ index[s] \in Nat
        BY <1>1, TasksAssumption, LenProperties DEF TypeOK
      <4>2. QED
        BY <3>2, <4>1, TasksAssumption
    <3>5. ended[x] = "resolved"
      BY <3>2, <3>3, <3>4, PassedSoFar
    <3>6. QED
      BY <1>4, <3>2, <3>5
  <2>2. CASE q # s
    <3>1. ended[x] = "resolved"
      BY <1>1, <1>4, <1>6, <2>2 DEF Passed
    <3>2. QED
      BY <1>3, <1>4, <3>1
  <2>3. QED
    BY <2>1, <2>2
<1>7. \A q \in Queue : running'[q] => ended'[q] = "none"
  BY <1>1, <1>4 DEF Passed
<1>8. QED
  BY <1>5, <1>6, <1>7 DEF Passed

LEMMA PassedStep ==
  ASSUME IInv, OneParent, NEW s \in Queue, Run(s) \/ Complete(s) \/ Step(s)
  PROVE  Passed'
<1>1. TypeOK /\ Passed /\ \A q \in Queue : DOMAIN Tasks[q] \subseteq Nat \ {0}
  <2>1. \A q \in Queue : Len(Tasks[q]) \in Nat /\ DOMAIN Tasks[q] = 1 .. Len(Tasks[q])
    BY TasksAssumption, LenProperties
  <2>2. QED
    BY <2>1 DEF IInv
<1>2. CASE UNCHANGED <<index, running, ended>>
  BY <1>1, <1>2 DEF Passed, Awaits
<1>3. CASE RunTask(s) /\ Tasks[s][index[s] + 1] = Leaf
  <2>1. /\ Current(s, "runNext") /\ UNCHANGED <<running, ended>> /\ index'[s] = index[s] + 1
        /\ index[s] \in Nat /\ \A q \in Queue : q # s => index'[q] = index[q]
    BY <1>1, <1>3 DEF RunTask, Launch, TypeOK
  <2>2. ASSUME NEW q \in Queue, running[q], NEW i \in DOMAIN Tasks[q], i <= index'[q], Tasks[q][i] # Leaf
        PROVE  ended[Tasks[q][i]] = "resolved" \/ Awaits(q, Tasks[q][i])'
    <3>1. CASE q = s
      <4>1. i <= index[s]
        BY <1>1, <1>3, <2>1, <2>2, <3>1
      <4>2. QED
        BY <2>1, <2>2, <3>1, <4>1, PassedSoFar
    <3>2. CASE q # s
      BY <1>1, <2>1, <2>2, <3>2 DEF Passed, Awaits
    <3>3. QED
      BY <3>1, <3>2
  <2>3. QED
    BY <1>1, <2>1, <2>2 DEF Passed
<1>4. CASE Run(s)
  <2>1. /\ s \in Top /\ index'[s] = 0 /\ ended'[s] = "none"
        /\ \A q \in Queue : q # s => running'[q] = running[q] /\ ended'[q] = ended[q] /\ index'[q] = index[q]
    BY <1>1, <1>4 DEF Run, Start, TypeOK
  <2>2. ASSUME NEW q \in Queue, running'[q], NEW i \in DOMAIN Tasks[q], i <= index'[q], Tasks[q][i] # Leaf
        PROVE  ended'[Tasks[q][i]] = "resolved" \/ Awaits(q, Tasks[q][i])'
    <3>1. q # s /\ Tasks[q][i] \in Queue /\ Tasks[q][i] # s
      BY <1>1, <2>1, <2>2, TaskQueued DEF Top
    <3>2. ended[Tasks[q][i]] = "resolved" \/ Awaits(q, Tasks[q][i])
      BY <1>1, <2>1, <2>2, <3>1 DEF Passed
    <3>3. QED
      BY <2>1, <3>1, <3>2 DEF Awaits
  <2>3. ASSUME NEW q \in Queue, NEW x \in Queue, ended'[q] = "resolved", Embeds(q, x)
        PROVE  ended'[x] = "resolved"
    <3>1. q # s /\ x # s
      BY <2>1, <2>3 DEF Top
    <3>2. QED
      BY <1>1, <2>1, <2>3, <3>1 DEF Passed
  <2>4. \A q \in Queue : running'[q] => ended'[q] = "none"
    BY <1>1, <2>1 DEF Passed
  <2>5. QED
    BY <2>2, <2>3, <2>4 DEF Passed
<1>5. QED
  BY <1>2, <1>3, <1>4, LaunchPasses, EndPasses
     DEF Step, Complete, TellParent, AfterCatch, HandlerReturns

\* What the invariant relates is moved by a step of a queue, or not at all.
LEMMA StepKeeps ==
  ASSUME IInv, OneParent, [Next]_vars
  PROVE  IInv'
<1>1. TypeOK'
  BY TypesStep DEF IInv
<1>2. CASE UNCHANGED <<index, running, parent, waiting, stack, ended>>
  BY <1>1, <1>2 DEF IInv, StackSound, FrameSound, TreeSound, Awaits, EndSound, Passed, Current, Idle
<1>3. ASSUME NEW q \in Queue, Step(q) PROVE StackSound' /\ TreeSound' /\ EndSound'
  BY <1>3, LaunchKeeps, ReturnsKeep, OwnFrameKeeps DEF Step
<1>4. QED
  BY <1>1, <1>2, <1>3, CompleteKeeps, RunKeeps, PassedStep DEF Next, Configure, vars, IInv

LEMMA InvImplies == IInv => ParentWaits /\ RejectionCascades
<1> SUFFICES ASSUME IInv PROVE ParentWaits /\ RejectionCascades
  OBVIOUS
<1>1. ASSUME NEW q \in Queue, running[q], parent[q] # NoParent
      PROVE  LET p == parent[q]
             IN  running[p] /\ ~waiting[p] /\ index[p] > 0 /\ Tasks[p][index[p]] = q
  <2>1. parent[q] \in Queue /\ Awaits(parent[q], q)
    BY <1>1 DEF IInv, TreeSound, Idle
  <2>2. ~waiting[parent[q]]
    BY <2>1, TasksAssumption DEF IInv, TreeSound, Awaits
  <2>3. QED
    BY <2>1, <2>2 DEF Awaits
<1>2. ASSUME NEW q \in Queue, waiting[q]
      PROVE  running[q] /\ index[q] > 0 /\ Tasks[q][index[q]] = Leaf
  BY <1>2 DEF IInv, TreeSound, Awaits
<1>3. RejectionCascades
  BY DEF IInv, EndSound, Passed, Awaits, RejectionCascades
<1>4. QED
  BY <1>1, <1>2, <1>3 DEF ParentWaits, IInv

LEMMA Invariance == OneParent => (Spec => []IInv)
<1> SUFFICES ASSUME OneParent PROVE Spec => []IInv
  OBVIOUS
<1>1. Init => IInv
  BY InitSound
<1>2. IInv /\ [Next]_vars => IInv'
  BY StepKeeps
<1>3. QED
  BY <1>1, <1>2, PTL DEF Spec

\* A queue that runs for another is what that other waits for, and a task that has
\* been started belongs to a queue that still runs (task.cpp 68-99), for any queues
\* that schedule one another and any depth of calls, where none is scheduled by two.
THEOREM NeverOrphaned == OneParent => (Spec => []ParentWaits)
<1>1. IInv => ParentWaits
  BY InvImplies
<1>2. QED
  BY <1>1, Invariance, PTL

\* A queue is told of the end of the one it waits for when that one ends, and how it
\* ended: it goes on after one that resolved and rejects after one that rejected. So a
\* queue that resolved had all it scheduled resolve, and a rejection reaches each queue
\* above (task.hh 120-121), wherever it happens and however many queues are between.
THEOREM Cascades == OneParent => (Spec => []RejectionCascades)
<1>1. IInv => RejectionCascades
  BY InvImplies
<1>2. QED
  BY <1>1, Invariance, PTL
----------------------------------------------------------------------------
(***************************************************************************)
(* The finally handlers, where none that is set next to a catch handler is   *)
(* used for two runs.                                                       *)
(***************************************************************************)
\* No queue is scheduled twice: its finally handler would be gone the second time.
OnePlace ==
  \A p, q \in Queue : \A i \in DOMAIN Tasks[p], j \in DOMAIN Tasks[q] :
    Tasks[p][i] \in Queue /\ Tasks[p][i] = Tasks[q][j] => p = q /\ i = j

\* The run of q that is over has called what it was to call.
Told(q) == finals[q] = IF wanted[q] THEN 1 ELSE 0

\* The finally handler is where it was set from there to its call, or has been moved
\* to the stack of a rejection that will call it; there is one call of it.
Hold(q) ==
  /\ (finally[q] <=> wanted[q]) \/ (catch[q] /\ wanted[q] /\ ~fresh[q] /\ ~running[q])
  /\ running[q] => finals[q] = 0 /\ ~fresh[q] /\ (finally[q] <=> wanted[q])
  /\ "catchMoved" \in CatchAt(q) =>
       ~running[q] /\ ~fresh[q] /\ finals[q] = 0 /\ wanted[q] /\ ~finally[q]
  /\ "catch" \in CatchAt(q) => ~fresh[q] /\ finals[q] = 0 /\ ~wanted[q] /\ ~finally[q]
  /\ "afterCatch" \in CatchAt(q) =>
       ~fresh[q] /\ finals[q] = 0 /\ (finally[q] <=> wanted[q]) /\ (running[q] => ~wanted[q])
  /\ ~running[q] /\ ~fresh[q] /\ index[q] > 0 /\ CatchAt(q) = {} => Told(q)

\* c and what it schedules are at rest and may be started.
AtRest(c) == \A d \in {c} \union Under(c) : Idle(d) /\ Ready(d)

\* What a queue that runs has not come to yet is at rest.
NextAtRest(p) ==
  running[p] =>
    \A i \in DOMAIN Tasks[p] : i > index[p] /\ Tasks[p][i] # Leaf => AtRest(Tasks[p][i])

OnceInv == \A q \in Queue : Hold(q) /\ NextAtRest(q)

\* A rejection that has moved the handler out is the innermost run of its queue.
MovedAlone ==
  \A i, j \in DOMAIN stack :
    i < j /\ stack[i].queue = stack[j].queue => stack[j].at # "catchMoved"

\* A queue is scheduled by the queues of the tree it is under.
LEMMA UnderStep ==
  ASSUME NEW q \in Queue, NEW p \in {q} \union Under(q), NEW d \in Queue, Embeds(p, d)
  PROVE  d \in Under(q)
<1> SUFFICES ASSUME NEW S \in SUBSET Queue,
                    \A x \in S \union {q}, e \in Queue : Embeds(x, e) => e \in S
             PROVE  d \in S
  BY DEF Under
<1>1. p \in S \union {q}
  BY DEF Under
<1>2. QED
  BY <1>1

LEMMA UnderEmbedded ==
  ASSUME NEW q \in Queue, NEW d \in Under(q)
  PROVE  d \in Queue /\ \E p \in {q} \union Under(q) : p \in Queue /\ Embeds(p, d)
<1> DEFINE S == {e \in Under(q) : \E p \in {q} \union Under(q) : p \in Queue /\ Embeds(p, e)}
<1>1. S \subseteq Queue /\ S \subseteq Under(q) /\ d \in Queue
  BY DEF Under
<1>2. ASSUME NEW x \in S \union {q}, NEW e \in Queue, Embeds(x, e) PROVE e \in S
  <2>1. x \in {q} \union Under(q) /\ x \in Queue
    BY <1>1
  <2>2. e \in Under(q)
    BY <1>2, <2>1, UnderStep
  <2>3. QED
    BY <1>2, <2>1, <2>2
<1> HIDE DEF S
<1>3. d \in S
  BY <1>1, <1>2 DEF Under
<1>4. QED
  BY <1>1, <1>3 DEF S

LEMMA UnderGrows ==
  ASSUME NEW q \in Queue, NEW c \in Queue, Embeds(q, c)
  PROVE  {c} \union Under(c) \subseteq Under(q)
<1>1. c \in Under(q)
  BY UnderStep
<1>2. Under(q) \in SUBSET Queue
  BY DEF Under
<1>3. \A p \in Under(q) \union {c}, d \in Queue : Embeds(p, d) => d \in Under(q)
  BY <1>1, UnderStep
<1>4. \A d \in Under(c) : d \in Under(q)
  BY <1>2, <1>3 DEF Under
<1>5. QED
  BY <1>1, <1>4

LEMMA PlaceIsParent ==
  ASSUME OnePlace
  PROVE  OneParent
BY DEF OnePlace, OneParent, Embeds

\* A queue that a step leaves alone, but for the task it is at.
LEMMA HoldStays ==
  ASSUME NEW q \in Queue, Hold(q), running'[q] <=> running[q], finals'[q] = finals[q],
         fresh'[q] <=> fresh[q], wanted'[q] <=> wanted[q], finally'[q] <=> finally[q],
         catch'[q] <=> catch[q], CatchAt(q)' = CatchAt(q),
         index'[q] = index[q] \/ running[q]
  PROVE  Hold(q)'
<1>1. Told(q) => Told(q)'
  BY DEF Told
<1>2. QED
  BY <1>1 DEF Hold

\* A queue that starts with its handlers in place.
LEMMA HoldStarts ==
  ASSUME ~Reuse, NEW q \in Queue, Hold(q), ~running[q], Ready(q),
         "afterCatch" \notin CatchAt(q), CatchAt(q)' = CatchAt(q),
         running'[q], finals'[q] = 0, ~fresh'[q], wanted'[q] <=> wanted[q],
         finally'[q] <=> finally[q], catch'[q] <=> catch[q]
  PROVE  Hold(q)'
BY DEF Hold, Ready

\* What is at rest stays so while nothing starts.
LEMMA RestStays ==
  ASSUME NEW p \in Queue, NextAtRest(p), running'[p] => running[p],
         index[p] \in Nat, index'[p] \in Nat, index'[p] >= index[p],
         \A c \in Queue : Idle(c) /\ Ready(c) => Idle(c)' /\ Ready(c)'
  PROVE  NextAtRest(p)'
<1> SUFFICES ASSUME running'[p], NEW i \in DOMAIN Tasks[p], i > index'[p], Tasks[p][i] # Leaf,
                    NEW d \in {Tasks[p][i]} \union Under(Tasks[p][i])
             PROVE  Idle(d)' /\ Ready(d)'
  BY DEF NextAtRest, AtRest
<1>1. i \in Nat /\ i > index[p] /\ d \in Queue
  BY TaskQueued DEF Under
<1>2. Idle(d) /\ Ready(d)
  BY <1>1 DEF NextAtRest, AtRest
<1>3. QED
  BY <1>1, <1>2

\* And while what starts is elsewhere.
LEMMA RestElsewhere ==
  ASSUME OnePlace, NEW p \in Queue, NEW s \in Queue, NextAtRest(p), running[p],
         index[p] \in Nat, index'[p] \in Nat, index'[p] >= index[p],
         \A c \in Queue : c # s /\ Idle(c) /\ Ready(c) => Idle(c)' /\ Ready(c)',
         \/ s \in Top
         \/ /\ \E q \in Queue : Embeds(q, s) /\ running[q]
            /\ \A i \in DOMAIN Tasks[p] : Tasks[p][i] = s => i <= index'[p]
  PROVE  NextAtRest(p)'
<1> SUFFICES ASSUME NEW i \in DOMAIN Tasks[p], i > index'[p], Tasks[p][i] # Leaf,
                    NEW d \in {Tasks[p][i]} \union Under(Tasks[p][i])
             PROVE  Idle(d)' /\ Ready(d)'
  BY DEF NextAtRest, AtRest
<1> DEFINE c == Tasks[p][i]
<1>1. i \in Nat /\ i > index[p] /\ d \in Queue /\ c \in Queue /\ Embeds(p, c)
  BY TaskQueued DEF Under
<1>2. AtRest(c)
  BY <1>1 DEF NextAtRest
<1>3. \E x \in Queue : Embeds(x, d)
  <2>1. CASE d = c
    BY <1>1, <2>1
  <2>2. CASE d \in Under(c)
    BY <1>1, <2>2, UnderEmbedded
  <2>3. QED
    BY <2>1, <2>2
<1>4. d # s
  <2>1. CASE s \in Top
    BY <1>3, <2>1 DEF Top
  <2>2. ASSUME NEW q \in Queue, Embeds(q, s), running[q],
               \A k \in DOMAIN Tasks[p] : Tasks[p][k] = s => k <= index'[p]
        PROVE  d # s
    <3>1. CASE d = c
      BY <1>1, <2>2, <3>1
    <3>2. CASE d \in Under(c)
      <4>1. PICK x \in {c} \union Under(c) : x \in Queue /\ Embeds(x, d)
        BY <1>1, <3>2, UnderEmbedded
      <4>2. Idle(x)
        BY <1>2, <4>1 DEF AtRest
      <4>3. d = s => x = q
        BY <2>2, <4>1, PlaceIsParent DEF OneParent
      <4>4. QED
        BY <2>2, <4>2, <4>3 DEF Idle
    <3>3. QED
      BY <3>1, <3>2
  <2>3. QED
    BY <2>1, <2>2
<1>5. QED
  BY <1>1, <1>2, <1>4 DEF AtRest

\* Steps that start no queue and set no handler.
LEMMA OnceStays ==
  ASSUME TypeOK, TypeOK', OnceInv, NEW q \in Queue,
         \A c \in Queue : Idle(c) => Idle(c)', UNCHANGED <<catch, fresh, wanted>>,
         \A c \in Queue : c # q => /\ running'[c] = running[c] /\ index'[c] = index[c]
                                   /\ finals'[c] = finals[c] /\ finally'[c] = finally[c]
                                   /\ CatchAt(c)' = CatchAt(c),
         running'[q] => running[q], index'[q] >= index[q], Hold(q)',
         finally'[q] = finally[q] \/ ~Idle(q)
  PROVE  OnceInv'
<1>1. ASSUME NEW c \in Queue PROVE Hold(c)'
  <2>1. CASE c # q
    BY <2>1, HoldStays DEF OnceInv
  <2>2. QED
    BY <2>1
<1>2. ASSUME NEW p \in Queue PROVE NextAtRest(p)'
  <2>1. running'[p] => running[p]
    BY Zenon
  <2>2. index[p] \in Nat /\ index'[p] \in Nat
    BY DEF TypeOK
  <2>3. index'[p] >= index[p]
    <3>1. CASE p = q
      BY <3>1
    <3>2. CASE p # q
      BY <2>2, <3>2
    <3>3. QED
      BY <3>1, <3>2
  <2>4. ASSUME NEW c \in Queue, Idle(c), Ready(c) PROVE Idle(c)' /\ Ready(c)'
    <3>1. finally'[c] = finally[c]
      BY <2>4
    <3>2. QED
      BY <2>4, <3>1 DEF Ready
  <2>5. QED
    BY <2>1, <2>2, <2>3, <2>4, RestStays DEF OnceInv
<1>3. QED
  BY <1>1, <1>2 DEF OnceInv

LEMMA ConfigureOnce ==
  ASSUME TypeOK, TypeOK', OnceInv, NEW q \in Queue, Configure(q)
  PROVE  OnceInv'
<1>1. PICK hasFinally \in BOOLEAN :
        /\ finally' = [finally EXCEPT ![q] = hasFinally]
        /\ wanted' = [wanted EXCEPT ![q] = hasFinally]
        /\ \E hasCatch \in BOOLEAN : catch' = [catch EXCEPT ![q] = hasCatch]
  BY DEF Configure
<1>2. /\ UNCHANGED <<index, running, stack, finals>> /\ fresh' = [fresh EXCEPT ![q] = TRUE]
      /\ Idle(q)
  BY DEF Configure
<1>3. /\ fresh'[q] /\ ~running'[q] /\ (finally'[q] <=> wanted'[q])
      /\ \A c \in Queue : c # q =>
           fresh'[c] = fresh[c] /\ wanted'[c] = wanted[c] /\ finally'[c] = finally[c] /\ catch'[c] = catch[c]
  BY <1>1, <1>2 DEF TypeOK, Idle
<1>4. \A c \in Queue : CatchAt(c)' = CatchAt(c) /\ (Idle(c) => Idle(c)')
  BY <1>2 DEF CatchAt, Idle
<1>5. CatchAt(q) = {}
  BY <1>2 DEF CatchAt, Idle
<1>6. ASSUME NEW c \in Queue PROVE Hold(c)'
  <2>1. CASE c = q
    BY <1>3, <1>4, <1>5, <2>1 DEF Hold
  <2>2. CASE c # q
    BY <1>2, <1>3, <1>4, <2>2, HoldStays DEF OnceInv
  <2>3. QED
    BY <2>1, <2>2
<1>7. \A c \in Queue : Ready(c) => Ready(c)'
  BY <1>3 DEF Ready
<1>8. ASSUME NEW p \in Queue PROVE NextAtRest(p)'
  <2>1. index[p] \in Nat /\ index'[p] = index[p] /\ (running'[p] <=> running[p])
    BY <1>2 DEF TypeOK
  <2>2. index'[p] \in Nat /\ index'[p] >= index[p]
    BY <2>1
  <2>3. QED
    BY <1>4, <1>7, <2>1, <2>2, RestStays DEF OnceInv
<1>9. QED
  BY <1>6, <1>8 DEF OnceInv

LEMMA RunOnce ==
  ASSUME IInv, TypeOK', OnceInv, OnePlace, ~Reuse, NEW q \in Queue, Run(q)
  PROVE  OnceInv'
<1>1. /\ TypeOK /\ q \in Top /\ ~running[q] /\ Ready(q)
      /\ UNCHANGED <<catch, finally, wanted>>
  BY DEF Run, IInv
<1>2. /\ running'[q] /\ index'[q] = 0 /\ finals'[q] = 0 /\ ~fresh'[q]
      /\ \A c \in Queue : c # q =>
           running'[c] = running[c] /\ index'[c] = index[c] /\ finals'[c] = finals[c] /\ fresh'[c] = fresh[c]
  BY <1>1 DEF Run, Start, TypeOK
<1>3. /\ \A c \in Queue : CatchAt(c)' = CatchAt(c)
      /\ \A c \in Queue : c # q => (Idle(c) => Idle(c)')
  BY RunKeeps
<1>4. "afterCatch" \notin CatchAt(q)
  BY <1>1, HandlersBelow DEF Run, IInv, CatchAt, Handler
<1>5. ASSUME NEW c \in Queue PROVE Hold(c)'
  <2>1. CASE c = q
    BY <1>1, <1>2, <1>3, <1>4, <2>1, HoldStarts DEF OnceInv
  <2>2. CASE c # q
    BY <1>1, <1>2, <1>3, <2>2, HoldStays DEF OnceInv
  <2>3. QED
    BY <2>1, <2>2
<1>6. \A c \in Queue : c # q /\ Idle(c) /\ Ready(c) => Idle(c)' /\ Ready(c)'
  BY <1>1, <1>2, <1>3 DEF Ready
<1>7. ASSUME NEW p \in Queue PROVE NextAtRest(p)'
  <2>1. CASE p = q
    <3> SUFFICES ASSUME NEW i \in DOMAIN Tasks[q], Tasks[q][i] # Leaf,
                        NEW d \in {Tasks[q][i]} \union Under(Tasks[q][i])
                 PROVE  Idle(d)' /\ Ready(d)'
      BY <2>1 DEF NextAtRest, AtRest
    <3>1. d \in Under(q)
      BY TaskQueued, UnderGrows
    <3>2. d # q
      BY <1>1, <3>1, UnderEmbedded DEF Top
    <3>3. d \in Queue /\ Idle(d) /\ Ready(d)
      BY <3>1 DEF Run, Under
    <3>4. QED
      BY <1>6, <3>2, <3>3
  <2>2. CASE p # q /\ running[p]
    <3>1. index[p] \in Nat /\ index'[p] = index[p]
      BY <1>1, <1>2, <2>2 DEF TypeOK
    <3>2. index'[p] \in Nat /\ index'[p] >= index[p]
      BY <3>1
    <3>3. QED
      BY <1>1, <1>6, <2>2, <3>1, <3>2, RestElsewhere DEF OnceInv
  <2>3. CASE p # q /\ ~running[p]
    BY <1>2, <2>3 DEF NextAtRest
  <2>4. QED
    BY <2>1, <2>2, <2>3
<1>8. QED
  BY <1>5, <1>7 DEF OnceInv

LEMMA LaunchOnce ==
  ASSUME IInv, TypeOK', OnceInv, OnePlace, ~Reuse, NEW q \in Queue, RunTask(q),
         Tasks[q][index[q] + 1] # Leaf
  PROVE  OnceInv'
<1> DEFINE at == index[q] + 1
           c == Tasks[q][at]
<1>1. TypeOK /\ Current(q, "runNext") /\ index[q] \in Nat
  BY DEF RunTask, IInv, TypeOK
<1>2. running[q]
  BY <1>1, CurrentFrame DEF IInv, StackSound, FrameSound, Resuming, Point
<1>3. at \in DOMAIN Tasks[q] /\ at \in Nat
  <2>1. Len(Tasks[q]) \in Nat /\ DOMAIN Tasks[q] = 1 .. Len(Tasks[q])
    BY TasksAssumption, LenProperties
  <2>2. QED
    BY <1>1, <2>1 DEF RunTask
<1>4. c \in Queue /\ Embeds(q, c)
  BY <1>3, TaskQueued
<1>5. Start(c, q, [index EXCEPT ![q] = @ + 1], Tail(stack)) /\ UNCHANGED <<catch, finally, wanted>>
  BY DEF RunTask, Launch
<1>6. AtRest(c)
  BY <1>1, <1>2, <1>3 DEF OnceInv, NextAtRest
<1>7. /\ \A x \in Queue : CatchAt(x)' = CatchAt(x)
      /\ \A x \in Queue : x # c => (Idle(x) => Idle(x)')
  BY LaunchKeeps, PlaceIsParent
<1> HIDE DEF c
<1>8. Idle(c) /\ Ready(c) /\ ~running[c] /\ c # q /\ CatchAt(c) = {}
  BY <1>2, <1>6 DEF AtRest, Idle, CatchAt
<1>9. /\ running'[c] /\ index'[c] = 0 /\ finals'[c] = 0 /\ ~fresh'[c] /\ index'[q] = at
      /\ \A x \in Queue : x # c =>
           running'[x] = running[x] /\ finals'[x] = finals[x] /\ fresh'[x] = fresh[x]
      /\ \A x \in Queue : x # c /\ x # q => index'[x] = index[x]
  BY <1>1, <1>4, <1>5, <1>8 DEF Start, TypeOK
<1> HIDE DEF at
<1>10. ASSUME NEW x \in Queue PROVE Hold(x)'
  <2>1. CASE x = c
    BY <1>5, <1>7, <1>8, <1>9, <2>1, HoldStarts DEF OnceInv
  <2>2. CASE x # c
    <3>1. index'[x] = index[x] \/ running[x]
      BY <1>2, <1>9, <2>2
    <3>2. QED
      BY <1>5, <1>7, <1>9, <2>2, <3>1, HoldStays DEF OnceInv
  <2>3. QED
    BY <2>1, <2>2
<1>11. \A x \in Queue : x # c /\ Idle(x) /\ Ready(x) => Idle(x)' /\ Ready(x)'
  BY <1>5, <1>7, <1>9 DEF Ready
<1>12. ASSUME NEW p \in Queue PROVE NextAtRest(p)'
  <2>1. CASE p = c
    <3> SUFFICES ASSUME NEW i \in DOMAIN Tasks[c], Tasks[c][i] # Leaf,
                        NEW d \in {Tasks[c][i]} \union Under(Tasks[c][i])
                 PROVE  Idle(d)' /\ Ready(d)'
      BY <2>1 DEF NextAtRest, AtRest
    <3>1. d \in Under(c) /\ d \in Queue
      BY <1>4, TaskQueued, UnderGrows DEF Under
    <3>2. d # c
      <4>1. PICK x \in {c} \union Under(c) : x \in Queue /\ Embeds(x, d)
        BY <1>4, <3>1, UnderEmbedded
      <4>2. Idle(x)
        BY <1>6, <4>1 DEF AtRest
      <4>3. d = c => x = q
        BY <1>4, <4>1, PlaceIsParent DEF OneParent
      <4>4. QED
        BY <1>2, <4>2, <4>3 DEF Idle
    <3>3. QED
      BY <1>6, <1>11, <3>1, <3>2 DEF AtRest
  <2>2. CASE p # c /\ running[p]
    <3>1. \A i \in DOMAIN Tasks[p] : Tasks[p][i] = c => i <= index'[p]
      <4> SUFFICES ASSUME NEW i \in DOMAIN Tasks[p], Tasks[p][i] = c PROVE i <= index'[p]
        OBVIOUS
      <4>1. p = q /\ i = at
        BY <1>3, <1>4 DEF OnePlace, c
      <4>2. QED
        BY <1>3, <1>9, <4>1
    <3>2. index[p] \in Nat /\ index'[p] \in Nat
      BY <1>1 DEF TypeOK
    <3>3. index'[p] >= index[p]
      BY <1>1, <1>9, <2>2, <3>2 DEF at
    <3>4. QED
      BY <1>2, <1>4, <1>11, <2>2, <3>1, <3>2, <3>3, RestElsewhere DEF OnceInv
  <2>3. CASE p # c /\ ~running[p]
    BY <1>9, <2>3 DEF NextAtRest
  <2>4. QED
    BY <2>1, <2>2, <2>3
<1>13. QED
  BY <1>10, <1>12 DEF OnceInv

\* What a call puts on the stack, or a frame that goes on elsewhere, is no run above one
\* that has moved its handler out.
LEMMA NoneMoved ==
  ASSUME OnceInv, ~Reuse, NEW q \in Queue, running[q] \/ Idle(q) \/ Ready(q),
         NEW i \in DOMAIN stack, stack[i].queue = q
  PROVE  stack[i].at # "catchMoved"
<1> SUFFICES ASSUME stack[i].at = "catchMoved" PROVE FALSE
  OBVIOUS
<1>1. "catchMoved" \in CatchAt(q) /\ ~Idle(q)
  BY DEF CatchAt, Catching, Idle
<1>2. QED
  BY <1>1 DEF OnceInv, Hold, Ready

LEMMA MovedCalls ==
  ASSUME TypeOK, OnceInv, ~Reuse, MovedAlone, NEW q \in Queue, NEW point \in Point,
         running[q] \/ Ready(q), stack' = Frame(q, point) \o stack
  PROVE  MovedAlone'
<1>1. /\ Len(stack) \in Nat /\ DOMAIN stack = 1 .. Len(stack) /\ DOMAIN stack' = 1 .. Len(stack) + 1
      /\ stack'[1].queue = q
      /\ \A j \in DOMAIN stack' : j # 1 => j - 1 \in DOMAIN stack /\ stack'[j] = stack[j - 1]
  BY Calls
<1>2. ASSUME NEW i \in DOMAIN stack', NEW j \in DOMAIN stack', i < j, stack'[i].queue = stack'[j].queue
      PROVE  stack'[j].at # "catchMoved"
  <2>1. j # 1 /\ j - 1 \in DOMAIN stack /\ stack'[j] = stack[j - 1]
    BY <1>1, <1>2
  <2>2. CASE i = 1
    BY <1>1, <1>2, <2>1, <2>2, NoneMoved
  <2>3. CASE i # 1
    <3>1. i - 1 \in DOMAIN stack /\ stack'[i] = stack[i - 1] /\ i - 1 < j - 1
      BY <1>1, <1>2, <2>3
    <3>2. QED
      BY <1>2, <2>1, <3>1 DEF MovedAlone
  <2>4. QED
    BY <2>2, <2>3
<1>3. QED
  BY <1>2 DEF MovedAlone

LEMMA MovedGoes ==
  ASSUME TypeOK, OnceInv, ~Reuse, MovedAlone, stack # << >>,
         NEW q \in Queue, NEW point \in Point, Goto(q, point),
         stack[1].queue = q \/ running[q] \/ Idle(q)
  PROVE  MovedAlone'
<1>1. /\ DOMAIN stack' = DOMAIN stack /\ DOMAIN stack = 1 .. Len(stack) /\ Len(stack) \in Nat
      /\ stack'[1].queue = q
      /\ \A j \in DOMAIN stack : j # 1 => stack'[j] = stack[j]
  BY GoesTo, StackTyped
<1>2. ASSUME NEW i \in DOMAIN stack', NEW j \in DOMAIN stack', i < j, stack'[i].queue = stack'[j].queue
      PROVE  stack'[j].at # "catchMoved"
  <2>1. j # 1 /\ j \in DOMAIN stack /\ i \in DOMAIN stack /\ stack'[j] = stack[j]
    BY <1>1, <1>2
  <2>2. CASE i = 1
    <3>1. stack[j].queue = q
      BY <1>1, <1>2, <2>1, <2>2
    <3>2. CASE stack[1].queue = q
      BY <1>2, <2>1, <2>2, <3>1, <3>2 DEF MovedAlone
    <3>3. CASE running[q] \/ Idle(q)
      BY <2>1, <3>1, <3>3, NoneMoved
    <3>4. QED
      BY <3>2, <3>3
  <2>3. CASE i # 1
    <3>1. stack'[i] = stack[i]
      BY <1>1, <2>1, <2>3
    <3>2. QED
      BY <1>2, <2>1, <3>1 DEF MovedAlone
  <2>4. QED
    BY <2>2, <2>3
<1>3. QED
  BY <1>2 DEF MovedAlone

LEMMA MovedReturns ==
  ASSUME TypeOK, MovedAlone, stack # << >>, Return
  PROVE  MovedAlone'
<1>1. /\ Len(stack) \in Nat /\ DOMAIN stack = 1 .. Len(stack) /\ DOMAIN stack' = 1 .. Len(stack) - 1
      /\ \A j \in DOMAIN stack' : j + 1 \in DOMAIN stack /\ stack'[j] = stack[j + 1]
  BY Returns
<1>2. ASSUME NEW i \in DOMAIN stack', NEW j \in DOMAIN stack', i < j, stack'[i].queue = stack'[j].queue
      PROVE  stack'[j].at # "catchMoved"
  <2>1. i + 1 < j + 1
    BY <1>1, <1>2
  <2>2. QED
    BY <1>1, <1>2, <2>1 DEF MovedAlone
<1>3. QED
  BY <1>2 DEF MovedAlone

LEMMA MovedStep ==
  ASSUME IInv, OnceInv, OneParent, ~Reuse, MovedAlone, [Next]_vars
  PROVE  MovedAlone'
<1>1. TypeOK
  BY DEF IInv
<1>2. CASE UNCHANGED stack
  BY <1>2 DEF MovedAlone
<1>3. ASSUME NEW q \in Queue, Run(q) PROVE MovedAlone'
  BY <1>1, <1>3, MovedCalls DEF Run, Start, Point
<1>4. ASSUME NEW q \in Queue, Complete(q) PROVE MovedAlone'
  <2>1. running[q]
    BY <1>4 DEF Complete, IInv, TreeSound, Awaits
  <2>2. PICK point \in {"runNext", "runCatch"} : stack' = Frame(q, point) \o stack
    BY <1>4 DEF Complete
  <2>3. QED
    BY <1>1, <2>1, <2>2, MovedCalls DEF Point
<1>5. ASSUME NEW q \in Queue, RunTask(q) PROVE MovedAlone'
  <2>1. stack # << >> /\ Current(q, "runNext")
    BY <1>5 DEF RunTask, Current
  <2>2. CASE Tasks[q][index[q] + 1] = Leaf
    BY <1>1, <1>5, <2>1, <2>2, MovedReturns DEF RunTask, Launch, Return
  <2>3. CASE Tasks[q][index[q] + 1] # Leaf
    <3>1. Tasks[q][index[q] + 1] \in Queue
      <4>1. index[q] + 1 \in DOMAIN Tasks[q]
        <5>1. Len(Tasks[q]) \in Nat /\ DOMAIN Tasks[q] = 1 .. Len(Tasks[q])
          BY TasksAssumption, LenProperties
        <5>2. QED
          BY <1>1, <1>5, <5>1 DEF RunTask, TypeOK
      <4>2. QED
        BY <2>3, <4>1, TaskQueued
    <3>2. Idle(Tasks[q][index[q] + 1])
      BY <1>5, <2>3, LaunchKeeps
    <3>3. Goto(Tasks[q][index[q] + 1], "runNext")
      BY <1>5, <2>3 DEF RunTask, Launch, Start, Goto
    <3>4. QED
      BY <1>1, <2>1, <3>1, <3>2, <3>3, MovedGoes DEF Point
  <2>4. QED
    BY <2>2, <2>3
<1>6. ASSUME NEW q \in Queue, TellParent(q) PROVE MovedAlone'
  <2>1. PICK from \in {"resolveParent", "rejectParent"} : Current(q, from)
    BY <1>6 DEF TellParent
  <2>2. stack # << >> /\ 1 \in DOMAIN stack /\ stack[1].queue = q
    BY <1>1, <2>1, CurrentFrame DEF Point
  <2>3. CASE parent[q] = NoParent
    BY <1>1, <1>6, <2>2, <2>3, MovedReturns DEF TellParent
  <2>4. CASE parent[q] # NoParent
    <3>1. parent[q] \in Queue /\ running[parent[q]]
      BY <2>2, <2>4 DEF IInv, TreeSound, Awaits, Idle
    <3>2. PICK point \in Point : Goto(parent[q], point)
      BY <1>6, <2>4 DEF TellParent, Point
    <3>3. QED
      BY <1>1, <2>2, <3>1, <3>2, MovedGoes
  <2>5. QED
    BY <2>3, <2>4
<1>7. ASSUME NEW q \in Queue, Finish(q) \/ RunCatch(q) \/ AfterCatch(q) \/ HandlerReturns(q)
      PROVE  MovedAlone'
  <2>1. PICK from, point \in Point : Current(q, from) /\ Goto(q, point)
    BY <1>7, OwnFrameKeeps
  <2>2. QED
    BY <1>1, <2>1, CurrentFrame, MovedGoes
<1>8. QED
  BY <1>2, <1>3, <1>4, <1>5, <1>6, <1>7 DEF Next, Step, Configure, vars

\* The steps of a queue that goes on in its own frame.
LEMMA HandlersOnce ==
  ASSUME IInv, TypeOK', OnceInv, MovedAlone, NEW q \in Queue,
         Finish(q) \/ RunCatch(q) \/ AfterCatch(q) \/ HandlerReturns(q),
         \A c \in Queue : Idle(c) => Idle(c)',
         \A c \in Queue : c # q => CatchAt(c)' = CatchAt(c),
         NEW from \in Point, NEW point \in Point, Current(q, from), Goto(q, point),
         CatchAt(q) = ({from} \union Below(q)) \intersect Catching,
         CatchAt(q)' = ({point} \union Below(q)) \intersect Catching
  PROVE  OnceInv'
<1>1. /\ TypeOK /\ Hold(q) /\ stack # << >> /\ stack[1].queue = q /\ stack[1].at = from
      /\ 1 \in DOMAIN stack /\ FrameSound(stack[1])
  BY CurrentFrame DEF IInv, OnceInv, StackSound
<1>2. Head(stack').at = point /\ Head(stack).at = from
  BY <1>1, GoesTo DEF Current
<1>3. /\ UNCHANGED <<index, catch, fresh, wanted>>
      /\ \A c \in Queue : c # q => /\ running'[c] = running[c] /\ finals'[c] = finals[c]
                                /\ finally'[c] = finally[c]
      /\ running'[q] => running[q]
  <2>0. running' = running \/ running' = [running EXCEPT ![q] = FALSE]
    BY Zenon DEF Finish, RunCatch, AfterCatch, HandlerReturns
  <2>1. \A c \in Queue : c # q => running'[c] = running[c]
    BY <1>1, <2>0 DEF TypeOK
  <2>2. finals' = finals \/ finals' = [finals EXCEPT ![q] = @ + 1]
    BY Zenon DEF Finish, RunCatch, AfterCatch, HandlerReturns, CallFinally
  <2>3. finally' = finally \/ finally' = [finally EXCEPT ![q] = FALSE]
    BY Zenon DEF Finish, RunCatch, AfterCatch, HandlerReturns, handlers
  <2>4. UNCHANGED <<index, catch, fresh, wanted>>
    BY DEF Finish, RunCatch, AfterCatch, HandlerReturns, handlers
  <2>5. running'[q] => running[q]
    BY <1>1, <2>0 DEF TypeOK
  <2>6. \A c \in Queue : c # q => finals'[c] = finals[c]
    BY <1>1, <2>2 DEF TypeOK
  <2>7. \A c \in Queue : c # q => finally'[c] = finally[c]
    BY <1>1, <2>3 DEF TypeOK
  <2>8. QED
    BY <2>1, <2>4, <2>5, <2>6, <2>7
<1>3a. "catchMoved" \notin Below(q) /\ "afterCatch" \notin Below(q)
  <2>1. \A i \in DOMAIN stack : i # 1 => 1 < i /\ stack[i].at \in Handler
    BY <1>1, StackTyped DEF IInv, StackSound
  <2>2. QED
    BY <1>1, <2>1 DEF Below, MovedAlone, Handler
<1>4. Hold(q)'
  \* A call of the finally handler, or none when there is none to call.
  <2>1. ASSUME NEW inHandler, NEW next, CallFinally(q, inHandler, next),
               finals[q] = 0, finally[q] <=> wanted[q], finally'[q] <=> finally[q]
        PROVE  Told(q)'
    <3>1. CASE finally[q]
      <4>1. finals'[q] = 1
        <5>1. finals' = [finals EXCEPT ![q] = @ + 1]
          BY <2>1, <3>1 DEF CallFinally
        <5>2. QED
          BY <1>1, <2>1, <5>1 DEF TypeOK
      <4>2. wanted'[q]
        BY <1>3, <2>1, <3>1
      <4>3. QED
        BY <4>1, <4>2 DEF Told
    <3>2. CASE ~finally[q]
      <4>1. finals'[q] = 0 /\ ~wanted'[q]
        BY <1>3, <2>1, <3>2 DEF CallFinally
      <4>2. QED
        BY <4>1 DEF Told
    <3>3. QED
      BY <3>1, <3>2
  <2>2. CASE Finish(q)
    <3>1. from = "runNext" /\ running[q]
      BY <1>1, <1>2, <2>2 DEF Finish, Current, FrameSound, Resuming
    <3>2. finals[q] = 0 /\ ~fresh[q] /\ (finally[q] <=> wanted[q])
      BY <1>1, <3>1 DEF Hold
    <3>3. ~running'[q] /\ CallFinally(q, "finally", "resolveParent") /\ finally' = finally
      BY <1>1, <2>2 DEF Finish, TypeOK, handlers
    <3>4. Told(q)'
      BY <2>1, <3>2, <3>3
    <3>5. point \notin Catching
      <4>1. Goto(q, "finally") \/ Goto(q, "resolveParent")
        BY <3>3, Zenon DEF CallFinally
      <4>2. point \in {"finally", "resolveParent"}
        BY <1>1, <1>2, <4>1, GoesTo DEF Point
      <4>3. QED
        BY <4>2 DEF Catching
    <3>6. CatchAt(q)' \subseteq {"catch"} /\ CatchAt(q)' \subseteq CatchAt(q)
      BY <1>3a, <3>5 DEF Catching
    <3>7. "catch" \in CatchAt(q) => ~wanted[q] /\ ~finally[q]
      BY <1>1 DEF Hold
    <3>8. QED
      BY <1>3, <3>2, <3>3, <3>4, <3>6, <3>7 DEF Hold, Told
  <2>3. CASE RunCatch(q)
    <3>1. from = "runCatch" /\ running[q]
      BY <1>1, <1>2, <2>3 DEF RunCatch, Current, FrameSound, Resuming
    <3>2. finals[q] = 0 /\ ~fresh[q] /\ (finally[q] <=> wanted[q])
      BY <1>1, <3>1 DEF Hold
    <3>3. ~running'[q] /\ finals' = finals
      BY <1>1, <2>3 DEF RunCatch, TypeOK
    <3>3a. "catch" \in Below(q) => ~wanted[q] /\ ~finally[q]
      BY <1>1 DEF Hold, Catching
    <3>4. CASE catch[q] /\ finally[q]
      <4>1. Goto(q, "catchMoved")
        BY <2>3, <3>4 DEF RunCatch
      <4>2. point = "catchMoved"
        BY <1>1, <1>2, <4>1, GoesTo DEF Point
      <4>3. CatchAt(q)' = {"catchMoved"}
        BY <1>3a, <3>3a, <3>4, <4>2 DEF Catching
      <4>4. ~finally'[q]
        BY <1>1, <2>3, <3>4 DEF RunCatch, TypeOK
      <4>5. QED
        BY <1>3, <3>2, <3>3, <3>4, <4>3, <4>4 DEF Hold
    <3>5. CASE ~(catch[q] /\ finally[q])
      <4>1. /\ (Goto(q, "catch") /\ catch[q]) \/ Goto(q, "afterCatch")
            /\ finally' = finally
        BY <2>3, <3>5, Zenon DEF RunCatch
      <4>2. (point = "catch" /\ ~finally[q]) \/ point = "afterCatch"
        BY <1>1, <1>2, <3>5, <4>1, GoesTo DEF Point
      <4>3. /\ CatchAt(q)' \subseteq {"catch", "afterCatch"} /\ CatchAt(q)' # {}
            /\ "catch" \in CatchAt(q)' => ~finally[q] /\ ~wanted[q]
        BY <1>3a, <3>2, <3>3a, <4>2 DEF Catching
      <4>4. QED
        BY <1>3, <3>2, <3>3, <4>1, <4>3 DEF Hold
    <3>6. QED
      BY <3>4, <3>5
  <2>4. CASE AfterCatch(q)
    <3>1. from = "afterCatch"
      BY <1>2, <2>4 DEF AfterCatch, Current
    <3>2. finals[q] = 0 /\ ~fresh[q] /\ (finally[q] <=> wanted[q]) /\ (running[q] => ~wanted[q])
      BY <1>1, <3>1 DEF Hold, Catching
    <3>3. /\ CallFinally(q, "finallyLast", "rejectParent") /\ finally' = finally
          /\ running' = running
      BY <2>4 DEF AfterCatch, handlers
    <3>4. Told(q)'
      BY <2>1, <3>2, <3>3
    <3>5. point \notin Catching
      <4>1. Goto(q, "finallyLast") \/ Goto(q, "rejectParent")
        BY <3>3, Zenon DEF CallFinally
      <4>2. point \in {"finallyLast", "rejectParent"}
        BY <1>1, <1>2, <4>1, GoesTo DEF Point
      <4>3. QED
        BY <4>2 DEF Catching
    <3>6. /\ CatchAt(q)' \subseteq {"catch"} /\ CatchAt(q)' \subseteq CatchAt(q)
          /\ "catch" \in CatchAt(q) => ~wanted[q] /\ ~finally[q]
      BY <1>1, <1>3a, <3>5 DEF Hold, Catching
    <3>7. QED
      BY <1>3, <3>2, <3>3, <3>4, <3>6 DEF Hold, Told
  <2>5. CASE HandlerReturns(q)
    <3>1. UNCHANGED <<index, running, finally>>
      BY <2>5 DEF HandlerReturns, handlers
    <3>2. CASE Current(q, "catchMoved")
      <4>1. from = "catchMoved" /\ finals' = [finals EXCEPT ![q] = @ + 1] /\ Goto(q, "finallyLast")
        BY <1>2, <2>5, <3>2 DEF HandlerReturns, Current
      <4>2. point = "finallyLast"
        BY <1>1, <1>2, <4>1, GoesTo DEF Point
      <4>3. /\ ~running[q] /\ finals[q] = 0 /\ ~fresh[q] /\ wanted[q] /\ catch[q]
            /\ "catch" \notin CatchAt(q)
        BY <1>1, <4>1 DEF Hold, Catching
      <4>4. finals'[q] = 1
        BY <1>1, <4>1, <4>3 DEF TypeOK
      <4>5. Told(q)'
        BY <1>3, <4>3, <4>4 DEF Told
      <4>6. CatchAt(q)' = {}
        BY <1>3a, <4>2, <4>3 DEF Catching
      <4>7. QED
        BY <1>3, <3>1, <4>3, <4>5, <4>6 DEF Hold
    <3>3. CASE Current(q, "catch")
      <4>1. from = "catch" /\ finals' = finals /\ Goto(q, "afterCatch")
        BY <1>2, <2>5, <3>3 DEF HandlerReturns, Current
      <4>2. point = "afterCatch"
        BY <1>1, <1>2, <4>1, GoesTo DEF Point
      <4>3. "catch" \in CatchAt(q) /\ CatchAt(q)' # {} /\ CatchAt(q)' \subseteq {"catch", "afterCatch"}
        BY <1>3a, <4>1, <4>2 DEF Catching
      <4>4. ~fresh[q] /\ finals[q] = 0 /\ ~wanted[q] /\ ~finally[q]
        BY <1>1, <4>3 DEF Hold
      <4>5. QED
        BY <1>1, <1>3, <3>1, <4>1, <4>3, <4>4 DEF Hold
    <3>4. CASE Current(q, "finally") \/ Current(q, "finallyLast")
      <4>1. /\ from \in {"finally", "finallyLast"} /\ finals' = finals
            /\ Goto(q, "resolveParent") \/ Goto(q, "rejectParent")
        BY <1>2, <2>5, <3>4 DEF HandlerReturns, Current
      <4>2. point \in {"resolveParent", "rejectParent"}
        BY <1>1, <1>2, <4>1, GoesTo DEF Point
      <4>3. CatchAt(q)' = CatchAt(q)
        BY <4>1, <4>2 DEF Catching
      <4>4. QED
        BY <1>1, <1>3, <3>1, <4>1, <4>3, HoldStays
    <3>5. QED
      BY <2>5, <3>2, <3>3, <3>4 DEF HandlerReturns
  <2>6. QED
    BY <2>2, <2>3, <2>4, <2>5
<1>5. index'[q] >= index[q]
  BY <1>1, <1>3 DEF TypeOK
<1>6. ~Idle(q)
  BY <1>1 DEF Idle
<1>7. QED
  BY <1>1, <1>3, <1>4, <1>5, <1>6, OnceStays

LEMMA OnceStep ==
  ASSUME IInv, OnceInv, MovedAlone, OnePlace, ~Reuse, [Next]_vars
  PROVE  OnceInv'
<1>1. TypeOK /\ TypeOK'
  BY TypesStep DEF IInv
<1>2. CASE UNCHANGED vars
  BY <1>2 DEF vars, handlers, OnceInv, Hold, NextAtRest, AtRest, CatchAt, Told, Idle, Ready
<1>3. ASSUME NEW q \in Queue, Undisturbed, UNCHANGED <<running, finals, catch, finally, fresh, wanted>>,
             \A c \in Queue : c # q => index'[c] = index[c],
             index'[q] >= index[q], index'[q] = index[q] \/ running[q]
      PROVE  OnceInv'
  <2>1. Hold(q)'
    BY <1>3, HoldStays DEF OnceInv, Undisturbed
  <2>2. QED
    BY <1>1, <1>3, <2>1, OnceStays DEF Undisturbed
<1>4. ASSUME NEW q \in Queue, Complete(q) PROVE OnceInv'
  <2>1. UNCHANGED <<index, running, finals, catch, finally, fresh, wanted>>
    BY <1>4 DEF Complete, handlers
  <2>2. index[q] \in Nat
    BY <1>1 DEF TypeOK
  <2>3. index'[q] >= index[q]
    BY <2>1, <2>2
  <2>4. QED
    BY <1>3, <1>4, <2>1, <2>3, CompleteKeeps
<1>5. ASSUME NEW q \in Queue, TellParent(q) PROVE OnceInv'
  BY <1>1, <1>3, <1>5, ReturnsKeep, PlaceIsParent DEF TellParent, handlers, TypeOK
<1>6. ASSUME NEW q \in Queue, RunTask(q) PROVE OnceInv'
  <2>1. CASE Tasks[q][index[q] + 1] # Leaf
    BY <1>1, <1>6, <2>1, LaunchOnce
  <2>2. CASE Tasks[q][index[q] + 1] = Leaf
    <3>1. /\ index' = [index EXCEPT ![q] = @ + 1] /\ Current(q, "runNext")
          /\ UNCHANGED <<running, finals, catch, finally, fresh, wanted>>
      BY <1>6, <2>2 DEF RunTask, Launch, handlers
    <3>2. running[q]
      BY <3>1, CurrentFrame DEF IInv, StackSound, FrameSound, Resuming, Point
    <3>3. index'[q] >= index[q] /\ \A c \in Queue : c # q => index'[c] = index[c]
      BY <1>1, <3>1 DEF TypeOK
    <3>4. QED
      BY <1>3, <1>6, <2>2, <3>1, <3>2, <3>3, ReturnsKeep, PlaceIsParent
  <2>3. QED
    BY <2>1, <2>2
<1>7. ASSUME NEW q \in Queue, Finish(q) \/ RunCatch(q) \/ AfterCatch(q) \/ HandlerReturns(q)
      PROVE  OnceInv'
  <2>1. PICK from, point \in Point :
          /\ Current(q, from) /\ Goto(q, point)
          /\ CatchAt(q) = ({from} \union Below(q)) \intersect Catching
          /\ CatchAt(q)' = ({point} \union Below(q)) \intersect Catching
    BY <1>7, OwnFrameKeeps
  <2>2. /\ \A c \in Queue : Idle(c) => Idle(c)'
        /\ \A c \in Queue : c # q => CatchAt(c)' = CatchAt(c)
    BY <1>7, OwnFrameKeeps
  <2>3. QED
    BY <1>1, <1>7, <2>1, <2>2, HandlersOnce
<1>8. QED
  BY <1>1, <1>2, <1>4, <1>5, <1>6, <1>7, ConfigureOnce, RunOnce DEF Next, Step

\* A run that is over has called the finally handler that was set for it, once, and
\* none if none was set (task.hh 96-98), whatever it scheduled and whoever rejected
\* it, where each queue is scheduled at one place and handlers are set for each run.
THEOREM HandlersCalledOnce ==
  ASSUME OnePlace, ~Reuse
  PROVE  Spec => []FinallyOnce
<1>1. Init => IInv /\ OnceInv /\ MovedAlone
  <2>1. ASSUME Init, NEW q \in Queue PROVE Hold(q) /\ NextAtRest(q)
    <3>1. ~finally[q] /\ ~wanted[q] /\ ~running[q] /\ CatchAt(q) = {} /\ ~(index[q] > 0)
      BY <2>1 DEF Init, CatchAt
    <3>2. QED
      BY <3>1 DEF Hold, NextAtRest
  <2>2. Init => MovedAlone
    BY DEF Init, MovedAlone
  <2>3. QED
    BY <2>1, <2>2, InitSound DEF OnceInv
<1>2. IInv /\ OnceInv /\ MovedAlone /\ [Next]_vars => (IInv /\ OnceInv /\ MovedAlone)'
  BY StepKeeps, OnceStep, MovedStep, PlaceIsParent
<1>3. IInv /\ OnceInv => FinallyOnce
  <2> SUFFICES ASSUME IInv, OnceInv, NEW q \in Queue, Idle(q), index[q] > 0, ~fresh[q]
               PROVE  Told(q)
    BY DEF FinallyOnce, Told
  <2>1. ~running[q] /\ CatchAt(q) = {}
    BY DEF Idle, CatchAt
  <2>2. QED
    BY <2>1 DEF OnceInv, Hold
<1>4. QED
  BY <1>1, <1>2, <1>3, PTL DEF Spec
============================================================================
