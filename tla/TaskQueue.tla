----------------------------- MODULE TaskQueue -----------------------------
(***************************************************************************)
(* psyqo's promise chains (psyqo/task.hh, psyqo/src/task.cpp).  A queue runs  *)
(* its tasks one after the other; a task completes when somebody, often a     *)
(* later callback, resolves or rejects it; a queue may be a task of another.  *)
(* The calls that one completion makes into another are the frames of the C   *)
(* stack, innermost first: each frame is a function of task.cpp at the point   *)
(* "at", or a handler of the application it has called.                       *)
(***************************************************************************)
EXTENDS Naturals, Sequences

CONSTANTS
  Queue,        \* the queues
  Leaf,         \* a task that is not a queue
  NoParent,     \* nullptr in m_parent
  Tasks,        \* the tasks of each queue: leaves, and the queues it schedules
  Reuse,        \* a queue may run again although its finally handler was moved out
  MaxRuns       \* bound on the frames of the stack

ASSUME TasksAssumption ==
  /\ NoParent \notin Queue /\ Leaf \notin Queue
  /\ Tasks \in [Queue -> Seq(Queue \union {Leaf})]
  /\ Reuse \in BOOLEAN
  /\ MaxRuns \in Nat

VARIABLES
  index, running, parent,   \* m_index, m_running, and the queue m_parent is in
  catch, finally,           \* whether m_catch and m_finally hold a function
  waiting,      \* the leaf that was started has not completed
  stack,
  fresh,        \* the handlers have been set since the last run
  wanted,       \* a finally handler was set for this run
  finals,       \* calls of the finally handler in this run
  ended         \* how the last run ended, "none" while there is none or it goes on

handlers == <<catch, finally, fresh, wanted>>
vars == <<index, running, parent, waiting, stack, finals, ended, handlers>>

Point == {"runNext", "finally", "resolveParent", "runCatch", "catch",
          "catchMoved", "afterCatch", "finallyLast", "rejectParent"}

Embeds(q, c) == \E i \in DOMAIN Tasks[q] : Tasks[q][i] = c

\* The queues a run of q may start: those it schedules, and those they schedule.
Under(q) ==
  {c \in Queue : \A S \in SUBSET Queue :
     (\A p \in S \union {q}, d \in Queue : Embeds(p, d) => d \in S) => c \in S}

\* Queues that are run, rather than scheduled as a task.
Top == {q \in Queue : \A p \in Queue : ~Embeds(p, q)}

TypeOK ==
  /\ index \in [Queue -> Nat] /\ \A q \in Queue : index[q] <= Len(Tasks[q])
  /\ running \in [Queue -> BOOLEAN]
  /\ parent \in [Queue -> Queue \union {NoParent}]
  /\ catch \in [Queue -> BOOLEAN] /\ finally \in [Queue -> BOOLEAN]
  /\ waiting \in [Queue -> BOOLEAN]
  /\ stack \in Seq([queue : Queue, at : Point])
  /\ fresh \in [Queue -> BOOLEAN] /\ wanted \in [Queue -> BOOLEAN]
  /\ finals \in [Queue -> Nat]
  /\ ended \in [Queue -> {"none", "resolved", "rejected"}]

Init ==
  /\ index = [q \in Queue |-> 0]
  /\ running = [q \in Queue |-> FALSE]
  /\ parent = [q \in Queue |-> NoParent]
  /\ waiting = [q \in Queue |-> FALSE]
  /\ stack = << >>
  /\ finals = [q \in Queue |-> 0]
  /\ ended = [q \in Queue |-> "none"]
  /\ catch = [q \in Queue |-> FALSE] /\ finally = [q \in Queue |-> FALSE]
  /\ fresh = [q \in Queue |-> FALSE] /\ wanted = [q \in Queue |-> FALSE]

Frame(q, point) == <<[queue |-> q, at |-> point]>>
Current(q, point) == stack # << >> /\ Head(stack) = [queue |-> q, at |-> point]
At == IF stack = << >> THEN "main" ELSE Head(stack).at
Idle(q) == ~running[q] /\ \A i \in DOMAIN stack : stack[i].queue # q

\* Application code has control: the main loop, a callback, or a handler.
InApplication == At \in {"main", "finally", "catch", "catchMoved", "finallyLast"}

\* startWith, then, butCatch and finally, in one expression as they are used.
\* While the queue runs they are undefined behaviour (task.hh 53 to 101).
Configure(q) ==
  /\ InApplication /\ Idle(q) /\ ~fresh[q]
  /\ \E hasCatch, hasFinally \in BOOLEAN :
       /\ catch' = [catch EXCEPT ![q] = hasCatch]
       /\ finally' = [finally EXCEPT ![q] = hasFinally]
       /\ wanted' = [wanted EXCEPT ![q] = hasFinally]
  /\ fresh' = [fresh EXCEPT ![q] = TRUE]
  /\ UNCHANGED <<index, running, parent, waiting, stack, finals, ended>>

\* The head of run() and of the runner that schedule() makes, and its call of
\* runNext on the frames below.
Start(q, p, indices, below) ==
  /\ parent' = [parent EXCEPT ![q] = p]
  /\ index' = [indices EXCEPT ![q] = 0]
  /\ running' = [running EXCEPT ![q] = TRUE]
  /\ fresh' = [fresh EXCEPT ![q] = FALSE]
  /\ finals' = [finals EXCEPT ![q] = 0]
  /\ ended' = [ended EXCEPT ![q] = "none"]
  /\ stack' = Frame(q, "runNext") \o below

\* The queue may be started: it holds the finally handler it was given, which a
\* rejection takes from a queue that has both (see Reuse).
Ready(q) == Reuse \/ (wanted[q] => finally[q])

\* The application runs a queue, possibly from one of its own handlers, which
\* are called when it no longer runs.
Run(q) ==
  /\ InApplication /\ q \in Top
  /\ ~running[q] /\ Len(stack) < MaxRuns
  /\ Ready(q)
  /\ \A c \in Under(q) : Idle(c) /\ Ready(c)
  /\ Start(q, NoParent, index, stack)
  /\ UNCHANGED <<waiting, catch, finally, wanted>>

\* A leaf resolves or rejects its task, once. It may do so while it is being
\* started, later from a callback, or while another handler pumps.
Complete(q) ==
  /\ InApplication /\ waiting[q]
  /\ waiting' = [waiting EXCEPT ![q] = FALSE]
  /\ \E point \in {"runNext", "runCatch"} : stack' = Frame(q, point) \o stack
  /\ UNCHANGED <<index, running, parent, finals, ended, handlers>>

\* The current frame goes on at another point, or returns.
Goto(q, point) == stack' = Frame(q, point) \o Tail(stack)
Return == stack' = Tail(stack)

\* What runNext does with the next task, the index being already past it. The
\* runner of a leaf returns here; that of a scheduled queue starts that queue.
Launch(q, task, indices, below) ==
  IF task = Leaf
    THEN /\ waiting' = [waiting EXCEPT ![q] = TRUE]
         /\ index' = indices
         /\ stack' = below
         /\ UNCHANGED <<running, parent, finals, ended, handlers>>
    ELSE /\ Start(task, q, indices, below)
         /\ UNCHANGED <<waiting, catch, finally, wanted>>

\* Mutants of RunTask: the index never moves; the queue goes on while its task is
\* pending.
RunTaskAgain(q) ==
  /\ Current(q, "runNext") /\ index[q] < Len(Tasks[q])
  /\ Launch(q, Tasks[q][index[q] + 1], index, Tail(stack))

RunTaskGoingOn(q) ==
  /\ Current(q, "runNext") /\ index[q] < Len(Tasks[q])
  /\ Launch(q, Tasks[q][index[q] + 1], [index EXCEPT ![q] = @ + 1], stack)

\* runNext with a task left.
RunTask(q) ==
  /\ Current(q, "runNext") /\ index[q] < Len(Tasks[q])
  /\ Launch(q, Tasks[q][index[q] + 1], [index EXCEPT ![q] = @ + 1], Tail(stack))

\* Calls the finally handler of q, if it holds one, else goes on.
CallFinally(q, inHandler, next) ==
  IF finally[q]
    THEN /\ finals' = [finals EXCEPT ![q] = @ + 1]
         /\ Goto(q, inHandler)
    ELSE /\ Goto(q, next)
         /\ UNCHANGED finals

\* runNext after the last task.
Finish(q) ==
  /\ Current(q, "runNext") /\ index[q] >= Len(Tasks[q])
  /\ running' = [running EXCEPT ![q] = FALSE]
  /\ ended' = [ended EXCEPT ![q] = "resolved"]
  /\ CallFinally(q, "finally", "resolveParent")
  /\ UNCHANGED <<index, parent, waiting, handlers>>

\* Mutant of TellParent: the parent always goes on.
TellParentResolved(q) ==
  /\ Current(q, "resolveParent") \/ Current(q, "rejectParent")
  /\ IF parent[q] = NoParent THEN Return ELSE Goto(parent[q], "runNext")
  /\ UNCHANGED <<index, running, parent, waiting, finals, ended, handlers>>

\* m_parent is read after the handlers have run.
TellParent(q) ==
  /\ Current(q, "resolveParent") \/ Current(q, "rejectParent")
  /\ IF parent[q] = NoParent THEN Return
     ELSE Goto(parent[q], IF Current(q, "resolveParent") THEN "runNext" ELSE "runCatch")
  /\ UNCHANGED <<index, running, parent, waiting, finals, ended, handlers>>

\* Mutant of RunCatch: m_finally is moved out and then looked for in m_finally.
RunCatchLosingFinally(q) ==
  /\ Current(q, "runCatch")
  /\ running' = [running EXCEPT ![q] = FALSE]
  /\ ended' = [ended EXCEPT ![q] = "rejected"]
  /\ finally' = [finally EXCEPT ![q] = @ /\ ~catch[q]]
  /\ Goto(q, IF catch[q] THEN "catch" ELSE "afterCatch")
  /\ UNCHANGED <<index, parent, waiting, finals, catch, fresh, wanted>>

\* runCatch up to the call of m_catch. With both handlers set, m_finally is
\* moved to the stack first, and moving an eastl::function empties it.
RunCatch(q) ==
  /\ Current(q, "runCatch")
  /\ running' = [running EXCEPT ![q] = FALSE]
  /\ ended' = [ended EXCEPT ![q] = "rejected"]
  /\ IF catch[q] /\ finally[q]
       THEN /\ finally' = [finally EXCEPT ![q] = FALSE]
            /\ Goto(q, "catchMoved")
       ELSE /\ Goto(q, IF catch[q] THEN "catch" ELSE "afterCatch")
            /\ UNCHANGED finally
  /\ UNCHANGED <<index, parent, waiting, finals, catch, fresh, wanted>>

AfterCatch(q) ==
  /\ Current(q, "afterCatch")
  /\ CallFinally(q, "finallyLast", "rejectParent")
  /\ UNCHANGED <<index, running, parent, waiting, ended, handlers>>

\* A handler of the application returns.
HandlerReturns(q) ==
  /\ \/ Current(q, "finally") /\ Goto(q, "resolveParent") /\ UNCHANGED finals
     \/ Current(q, "catch") /\ Goto(q, "afterCatch") /\ UNCHANGED finals
     \/ /\ Current(q, "catchMoved")
        /\ finals' = [finals EXCEPT ![q] = @ + 1]
        /\ Goto(q, "finallyLast")
     \/ Current(q, "finallyLast") /\ Goto(q, "rejectParent") /\ UNCHANGED finals
  /\ UNCHANGED <<index, running, parent, waiting, ended, handlers>>

Step(q) ==
  RunTask(q) \/ Finish(q) \/ TellParent(q) \/ RunCatch(q) \/ AfterCatch(q) \/ HandlerReturns(q)

Next == \E q \in Queue : Configure(q) \/ Run(q) \/ Complete(q) \/ Step(q)

\* Code runs, handlers return, and tasks complete in the end, as whoever
\* started them promises. Nobody has to configure or run anything.
Spec ==
  /\ Init /\ [][Next]_vars
  /\ WF_vars(\E q \in Queue : Step(q))
  /\ \A q \in Queue : WF_vars(Complete(q))
----------------------------------------------------------------------------
\* A queue that runs for another is what that other is waiting for: it has
\* moved just past it, runs, and waits for nothing else (task.cpp 68-86).
\* And a started task belongs to a queue that still runs: a rejection or an end
\* never leaves a task behind that would resume the queue (task.cpp 77-99).
ParentWaits ==
  /\ TypeOK
  /\ \A q \in Queue :
       running[q] /\ parent[q] # NoParent =>
         LET p == parent[q]
         IN  running[p] /\ ~waiting[p] /\ index[p] > 0 /\ Tasks[p][index[p]] = q
  /\ \A q \in Queue :
       waiting[q] => running[q] /\ index[q] > 0 /\ Tasks[q][index[q]] = Leaf

\* "The finally handler will be called after all tasks in the queue have been
\* executed, or after the exception handler" (task.hh 96-98): a run that is over
\* called the handler set for it once, and none if none was set.
FinallyOnce ==
  \A q \in Queue :
    Idle(q) /\ index[q] > 0 /\ ~fresh[q] =>
      finals[q] = IF wanted[q] THEN 1 ELSE 0

\* Whoever a queue waits for has not ended, or the queue is being told of that end
\* at this moment, and as it was: it goes on after one that resolved and rejects
\* after one that rejected. A queue that resolved had all it scheduled resolve: a
\* rejection cascades, at whatever task and depth it happens (task.hh 120-121).
RejectionCascades ==
  \A q, c \in Queue :
    /\ running[q] /\ index[q] > 0 /\ Tasks[q][index[q]] = c =>
         /\ Current(q, "runNext") => ended[c] = "resolved"
         /\ Current(q, "runCatch") => ended[c] = "rejected"
         /\ Idle(c) => Current(q, "runNext") \/ Current(q, "runCatch")
    /\ ended[q] = "resolved" /\ Embeds(q, c) => ended[c] = "resolved"

\* A run comes to its end, with whatever it scheduled.
RunEnds == \A q \in Queue : running[q] ~> ~running[q]
============================================================================
