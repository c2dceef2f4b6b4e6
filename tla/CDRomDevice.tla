---------------------------- MODULE CDRomDevice ----------------------------
(***************************************************************************)
(* psyqo's CD-ROM driver (psyqo/src/cdrom-device*.cpp) against the drive.    *)
(* One action at a time sends commands and advances a state machine with the  *)
(* replies, in the interrupt handler; its callback is called later, from the   *)
(* main thread, through the kernel's queue, or at once when the main thread     *)
(* polls in a blocking call.  While music plays, the application may also       *)
(* pause it and ask where the head is: two more commands for the same drive.   *)
(* The application respects what cdrom-device.hh asks of it.                   *)
(***************************************************************************)
EXTENDS Naturals, Sequences

CONSTANTS
  Kinds,        \* the actions the application uses
  Counts,       \* numbers of sectors it reads
  Races,        \* what may meet another command: see GetPlaybackLocation, StreamFails
  Backlog       \* bound on the commands the drive has not answered

VARIABLES
  action, state, callback, success, blocking,   \* m_action to m_blocking
  left,         \* m_count of the read action
  locCallback, locPending,      \* m_locationCallback and m_pendingGetLocation
  queue,        \* what the driver has queued on the kernel
  cause,        \* the interrupt the drive raises, and the command it is for
  commands,     \* commands the drive has not answered, oldest first
  second,       \* the command whose second reply is still to come
  stream,       \* what the drive does by itself
  last, goal, written,  \* the action started last, its sectors and those stored
  calls,        \* the arguments its callback has been called with
  asked, pausing,       \* a location was asked for; a pause was
  overlapped,   \* a command or the end of an action met a reply still to come
  aborted       \* Kernel::abort was reached

device == <<action, state, callback, success, blocking, left>>
location == <<locCallback, locPending, asked>>
drive == <<cause, commands, second, stream>>
history == <<last, goal, written, calls, pausing>>
vars == <<device, location, queue, drive, history, overlapped, aborted>>

None == "none"
Quiet == [is |-> None, of |-> None]
Is(what) == cause.is = what

\* The state and the command each action starts with; music starts from a
\* track, from a position, or where it was paused.
Starts ==
  {<<"reset", "RESET", "INIT">>, <<"test", "TEST", "TEST">>, <<"getTN", "GETTN", "GETTN">>,
   <<"read", "SETLOC", "SETLOC">>, <<"play", "GETTD", "GETTD">>,
   <<"play", "SETMODE", "SETMODE">>, <<"play", "PLAY", "PLAY">>}

\* What follows a reply: the action waits for another one, with a command for it or
\* without, or it ends.
On(kind, what, from, next, sent) == [key |-> <<kind, what, from>>, to |-> next, send |-> sent]
Ends(kind, what, from) == On(kind, what, from, "done", << >>)

\* The replies each action expects in its states: its acknowledge and complete
\* functions. A reply that is not here is an abort, or has an action of its own below.
ResetReplies ==
  {On("reset", "ack", "RESET", "RESET_ACK", << >>),
   Ends("reset", "complete", "RESET_ACK")}

TestReplies == {Ends("test", "ack", "TEST"), Ends("test", "complete", "TEST")}

GetTNReplies == {Ends("getTN", "ack", "GETTN")}

ReadReplies ==
  {On("read", "ack", "SETLOC", "SETMODE", <<"SETMODE">>),
   On("read", "ack", "SETMODE", "READ", <<"READN">>),
   On("read", "ack", "READ", "READ_ACK", << >>),
   On("read", "ack", "PAUSE", "PAUSE_ACK", << >>),
   Ends("read", "complete", "PAUSE_ACK")}

PlayReplies ==
  {On("play", "ack", "GETTD", "SETMODE", <<"SETMODE">>),
   On("play", "ack", "SETMODE", "SETLOC", <<"SETLOC">>),
   On("play", "ack", "SETLOC", "SEEK", <<"SEEKP">>),
   On("play", "ack", "SEEK", "SEEK_ACK", << >>),
   On("play", "complete", "SEEK_ACK", "PLAY", <<"PLAY">>),
   On("play", "ack", "PLAY", "PLAYING", << >>),
   On("play", "ack", "STOPPING", "STOPPING_ACK", << >>),
   Ends("play", "complete", "STOPPING_ACK")}

Replies == ResetReplies \union TestReplies \union GetTNReplies \union ReadReplies \union PlayReplies

States == {"idle", "PLAYING", "READ_ACK"} \union {reply.key[3] : reply \in Replies}
Commands ==
  {"INIT", "TEST", "GETTN", "SETLOC", "SETMODE", "READN", "GETTD", "SEEKP", "PLAY", "PAUSE", "STOP",
   "GETLOCP"}

TypeOK ==
  /\ action \in Kinds \union {None} /\ last \in Kinds \union {None}
  /\ state \in States
  /\ {callback, success, blocking, locCallback, locPending, asked, pausing, overlapped, aborted} \subseteq BOOLEAN
  /\ left \in 0 .. goal /\ goal \in Counts \union {0}
  /\ queue \in Seq({"first", "done", "location", "null"}) /\ Len(queue) <= 3
  /\ cause \in [is : {None, "ack", "complete", "ready", "end", "error"}, of : Commands \union {None}]
  /\ commands \in Seq(Commands) /\ second \in Commands \union {None}
  /\ stream \in {None, "sectors", "music"}
  /\ calls \in Seq(BOOLEAN) /\ Len(calls) <= 2

Init ==
  /\ action = None /\ state = "idle" /\ left = 0
  /\ callback = FALSE /\ success = FALSE /\ blocking = FALSE
  /\ locCallback = FALSE /\ locPending = FALSE /\ asked = FALSE
  /\ queue = << >> /\ cause = Quiet /\ commands = << >>
  /\ second = None /\ stream = None
  /\ last = None /\ goal = 0 /\ written = 0 /\ calls = << >> /\ pausing = FALSE
  /\ overlapped = FALSE /\ aborted = FALSE

(***************************************************************************)
(* The application, on the main thread.                                     *)
(***************************************************************************)
\* The drive owes a reply to a command; one is waiting to be taken by irq().
Outstanding == commands # << >> \/ second # None
Send(command) ==
  /\ commands' = Append(commands, command)
  /\ overlapped' = (overlapped \/ Outstanding \/ cause.of # None)
SendNothing == UNCHANGED <<commands, overlapped>>

\* The start functions. The blocking variants exist for all but music.
Start(kind, first, command) ==
  /\ ~aborted /\ ~blocking /\ state = "idle" /\ kind \in Kinds
  /\ Len(commands) < Backlog
  /\ <<kind, first, command>> \in Starts
  /\ action' = kind /\ state' = first /\ callback' = TRUE
  /\ blocking' \in (IF kind = "play" THEN {FALSE} ELSE BOOLEAN)
  /\ goal' \in (IF kind = "read" THEN Counts ELSE {0})
  /\ left' = goal'
  /\ Send(command)
  /\ last' = kind /\ calls' = << >> /\ written' = 0 /\ pausing' = FALSE
  /\ UNCHANGED <<success, location, queue, cause, second, stream, aborted>>

\* The application has been told that music plays, and not yet that it ended.
Playing == last = "play" /\ calls = <<TRUE>> /\ ~blocking

\* Mutant of PauseCDDA: no look at m_action.
PauseUnchecked(command) ==
  /\ ~aborted /\ Playing /\ ~pausing
  /\ pausing' = TRUE
  /\ IF state # "PLAYING" THEN aborted' = TRUE /\ UNCHANGED state /\ SendNothing
     ELSE /\ state' = "STOPPING"
          /\ Send(command)
          /\ UNCHANGED aborted
  /\ UNCHANGED <<action, callback, success, blocking, left, location, queue,
                 cause, second, stream, last, goal, written, calls>>

\* pauseCDDA and stopCDDA. No action: raced to the end of the track.
PauseCDDA(command) ==
  /\ ~aborted /\ Playing /\ ~pausing
  /\ pausing' = TRUE
  /\ IF action = None THEN UNCHANGED <<state, aborted>> /\ SendNothing
     ELSE IF state # "PLAYING" THEN aborted' = TRUE /\ UNCHANGED state /\ SendNothing
     ELSE /\ state' = "STOPPING"
          /\ Send(command)
          /\ UNCHANGED aborted
  /\ UNCHANGED <<action, callback, success, blocking, left, location, queue,
                 cause, second, stream, last, goal, written, calls>>

\* No action: the callback is queued as it is, to be called with a null pointer.
GetPlaybackLocation ==
  /\ "location" \in Races /\ ~aborted /\ Playing /\ ~asked
  /\ Len(commands) < Backlog
  /\ asked' = TRUE
  /\ IF locCallback
       THEN aborted' = TRUE /\ UNCHANGED <<queue, locCallback, locPending>> /\ SendNothing
     ELSE IF action = None
       THEN /\ queue' = Append(queue, "null")
            /\ UNCHANGED <<locCallback, locPending, aborted>> /\ SendNothing
       ELSE /\ locCallback' = TRUE /\ locPending' = TRUE
            /\ Send("GETLOCP")
            /\ UNCHANGED <<queue, aborted>>
  /\ UNCHANGED <<device, cause, second, stream, history>>

\* actionComplete, with the success it is given.
ActionComplete(outcome) ==
  /\ callback' = FALSE /\ success' = FALSE /\ state' = "idle"
  /\ calls' = Append(calls, outcome)

\* The main thread pumps the kernel's queue. Calling an empty function aborts.
Pump ==
  /\ ~aborted /\ queue # << >>
  /\ queue' = Tail(queue)
  /\ \/ /\ Head(queue) = "first"
        /\ calls' = Append(calls, TRUE)
        /\ aborted' = ~callback
        /\ UNCHANGED <<callback, success, state, location>>
     \/ /\ Head(queue) = "done"
        /\ aborted' = ~callback
        /\ ActionComplete(success)
        /\ UNCHANGED location
     \/ /\ Head(queue) \in {"location", "null"}
        /\ asked' = FALSE
        /\ locCallback' = (locCallback /\ Head(queue) = "null")
        /\ aborted' = (Head(queue) = "location" /\ ~locCallback)
        /\ UNCHANGED <<callback, success, state, calls, locPending>>
  /\ UNCHANGED <<action, blocking, left, drive, last, goal, written, pausing, overlapped>>

\* The loop of ~BlockingAction ends.
BlockingReturns ==
  /\ ~aborted /\ blocking /\ state = "idle"
  /\ blocking' = FALSE
  /\ UNCHANGED <<action, state, callback, success, left, location, queue, drive, history, overlapped, aborted>>

(***************************************************************************)
(* irq(): one pass, for the cause the drive raises. Called by the interrupt,  *)
(* or by the loop of ~BlockingAction with the interrupt masked.              *)
(***************************************************************************)
Taken == ~aborted /\ ~Is(None) /\ cause' = Quiet /\ UNCHANGED <<second, stream, last, goal, pausing>>

\* The tail of irq() when a handler returned true, or on an error.
EndAction(outcome, entries) ==
  /\ action' = None
  /\ overlapped' = (overlapped \/ Outstanding)
  /\ IF blocking
       THEN /\ ActionComplete(outcome)
            /\ UNCHANGED queue
       ELSE /\ queue' = queue \o entries \o <<"done">>
            /\ success' = outcome
            /\ UNCHANGED <<callback, state, calls>>

Key == <<action, cause.is, state>>
Expected == \E reply \in Replies : reply.key = Key
InPlay == action = "play" /\ state = "PLAYING"

\* Mutant of IrqReply: the callback is called only at the end.
IrqReplyUntold ==
  /\ Taken
  /\ \E reply \in Replies :
       /\ reply.key = Key
       /\ IF reply.to = "done"
            THEN EndAction(TRUE, << >>) /\ UNCHANGED commands
            ELSE /\ state' = reply.to
                 /\ commands' = commands \o reply.send
                 /\ UNCHANGED <<action, callback, success, calls, queue, overlapped>>
  /\ UNCHANGED <<blocking, left, location, written, aborted>>

\* A reply that advances the action.
IrqReply ==
  /\ Taken
  /\ \E reply \in Replies :
       /\ reply.key = Key
       /\ IF reply.to = "done"
            THEN EndAction(TRUE, << >>) /\ UNCHANGED commands
            ELSE /\ state' = reply.to
                 /\ commands' = commands \o reply.send
                 /\ queue' = IF reply.to = "PLAYING" THEN Append(queue, "first") ELSE queue
                 /\ UNCHANGED <<action, callback, success, calls, overlapped>>
  /\ UNCHANGED <<blocking, left, location, written, aborted>>

\* Mutant of IrqSector: the drive is not told to pause.
IrqSectorUnpaused ==
  /\ Taken /\ Is("ready") /\ action = "read" /\ state \in {"READ_ACK", "PAUSE", "PAUSE_ACK"}
  /\ IF state = "READ_ACK"
       THEN /\ written' = written + 1
            /\ left' = left - 1
            /\ state' = IF left = 1 THEN "PAUSE" ELSE state
       ELSE UNCHANGED <<written, left, state>>
  /\ UNCHANGED <<action, callback, success, blocking, location, queue, commands, calls, overlapped, aborted>>

\* Mutant of IrqSector: a late sector is stored like the others.
IrqSectorStoringLate ==
  /\ Taken /\ Is("ready") /\ action = "read" /\ state \in {"READ_ACK", "PAUSE", "PAUSE_ACK"}
  /\ written' = written + 1
  /\ IF state = "READ_ACK"
       THEN /\ left' = left - 1
            /\ state' = IF left = 1 THEN "PAUSE" ELSE state
            /\ commands' = IF left = 1 THEN Append(commands, "PAUSE") ELSE commands
       ELSE UNCHANGED <<left, state, commands>>
  /\ UNCHANGED <<action, callback, success, blocking, location, queue, calls, overlapped, aborted>>

\* dataReady of the read action: a sector behind the pause is thrown away.
IrqSector ==
  /\ Taken /\ Is("ready") /\ action = "read" /\ state \in {"READ_ACK", "PAUSE", "PAUSE_ACK"}
  /\ IF state = "READ_ACK"
       THEN /\ written' = written + 1
            /\ left' = left - 1
            /\ state' = IF left = 1 THEN "PAUSE" ELSE state
            /\ commands' = IF left = 1 THEN Append(commands, "PAUSE") ELSE commands
       ELSE UNCHANGED <<written, left, state, commands>>
  /\ UNCHANGED <<action, callback, success, blocking, location, queue, calls, overlapped, aborted>>

\* acknowledge while music plays: the reply to GETLOCP, told by its length.
IrqLocation ==
  /\ Taken /\ Is("ack") /\ InPlay
  /\ cause.of = "GETLOCP" /\ locPending
  /\ locPending' = FALSE
  /\ queue' = Append(queue, "location")
  /\ UNCHANGED <<device, commands, locCallback, asked, written, calls, overlapped, aborted>>

\* Mutant of IrqEnd: the pending location is not answered.
IrqEndForgetting ==
  /\ Taken /\ Is("end") /\ action = "play" /\ state \in {"PLAYING", "STOPPING"}
  /\ IF state = "STOPPING"
       THEN UNCHANGED <<action, state, callback, success, calls, queue, locPending, overlapped>>
       ELSE /\ locPending' = FALSE
            /\ EndAction(TRUE, << >>)
  /\ UNCHANGED <<blocking, left, locCallback, asked, commands, written, aborted>>

\* end of the play action: ignored when a pause is on its way.
IrqEnd ==
  /\ Taken /\ Is("end") /\ action = "play" /\ state \in {"PLAYING", "STOPPING"}
  /\ IF state = "STOPPING"
       THEN UNCHANGED <<action, state, callback, success, calls, queue, locPending, overlapped>>
       ELSE /\ locPending' = FALSE
            /\ EndAction(TRUE, IF locPending THEN <<"location">> ELSE << >>)
  /\ UNCHANGED <<blocking, left, locCallback, asked, commands, written, aborted>>

IrqError ==
  /\ Taken /\ Is("error") /\ action # None
  /\ EndAction(FALSE, << >>)
  /\ UNCHANGED <<blocking, left, location, commands, written, aborted>>

\* No action, or a reply its state does not expect: an assert or an abort.
IrqAborts ==
  /\ Taken
  /\ ~ \/ Expected
       \/ Is("ready") /\ action = "read" /\ state \in {"READ_ACK", "PAUSE", "PAUSE_ACK"}
       \/ Is("ack") /\ InPlay /\ cause.of = "GETLOCP" /\ locPending
       \/ Is("end") /\ action = "play" /\ state \in {"PLAYING", "STOPPING"}
       \/ Is("error") /\ action # None
  /\ aborted' = TRUE
  /\ UNCHANGED <<device, location, queue, commands, written, calls, overlapped>>

Irq == IrqReply \/ IrqSector \/ IrqLocation \/ IrqEnd \/ IrqError \/ IrqAborts

(***************************************************************************)
(* The drive. It raises one interrupt at a time, answers the commands in the  *)
(* order it was given them, and may fail any of them: then it does nothing    *)
(* more by itself.                                                          *)
(***************************************************************************)
Raise(what, command) ==
  /\ ~aborted /\ Is(None)
  /\ cause' = [is |-> what, of |-> command]
  /\ UNCHANGED <<device, location, queue, history, overlapped, aborted>>

Stops == {"PAUSE", "STOP"}

Answer ==
  /\ commands # << >>
  /\ commands' = Tail(commands)
  /\ LET command == Head(commands) IN
       \/ /\ Raise("ack", command)
          /\ second' = IF command \in {"INIT", "SEEKP"} \union Stops THEN command ELSE second
          /\ stream' = IF command = "READN" THEN "sectors"
                       ELSE IF command = "PLAY" THEN "music"
                       ELSE IF command \in {"STOP", "INIT"} \/ (command = "PAUSE" /\ stream = "music") THEN None
                       ELSE stream
       \/ /\ Raise("error", command)
          /\ stream' = None
          /\ UNCHANGED second

\* A reading drive may deliver a sector until its pause is complete.
SecondAnswer ==
  /\ second # None
  /\ Raise("complete", second)
  /\ second' = None
  /\ stream' = IF second = "PAUSE" THEN None ELSE stream
  /\ UNCHANGED commands

Sector ==
  /\ stream = "sectors"
  /\ Raise("ready", None)
  /\ UNCHANGED <<commands, second, stream>>

\* The end of the track or of the disc, whatever commands are on their way.
TrackEnds ==
  /\ stream = "music"
  /\ Raise("end", None)
  /\ stream' = None
  /\ UNCHANGED <<commands, second>>

\* A sector cannot be read, or music cannot go on.
StreamFails ==
  /\ \/ stream = "sectors"
     \/ stream = "music" /\ "error" \in Races
  /\ commands = << >> /\ second = None
  /\ Raise("error", None)
  /\ stream' = None
  /\ UNCHANGED <<commands, second>>

Next ==
  \/ \E s \in Starts : Start(s[1], s[2], s[3])
  \/ \E command \in Stops : PauseCDDA(command)
  \/ GetPlaybackLocation \/ Pump \/ BlockingReturns
  \/ Irq
  \/ Answer \/ SecondAnswer \/ Sector \/ TrackEnds \/ StreamFails

\* The drive answers in the end, between two sectors if it must; interrupts
\* are taken and the program pumps.
Fairness ==
  /\ WF_vars(Pump) /\ WF_vars(BlockingReturns) /\ WF_vars(Irq)
  /\ SF_vars(Answer) /\ SF_vars(SecondAnswer) /\ WF_vars(Sector)

Spec == Init /\ [][Next]_vars /\ Fairness
----------------------------------------------------------------------------
Queued(entry) == \E i \in DOMAIN queue : queue[i] = entry

\* The driver's fields tell the same story wherever the interrupt fell: the
\* callback is held from start to actionComplete; an action that has ended has
\* exactly one completion on its way, behind the first call of its callback;
\* the location's callback is held until it has been called. Each queued lambda
\* therefore finds the function it calls (cdrom-device.cpp 65-68, 152-161, 193-206).
FieldsAgree ==
  ~aborted =>
    /\ callback <=> state # "idle"
    /\ action # None => state # "idle"
    /\ Queued("done") <=> action = None /\ state # "idle"
    /\ \A i, j \in DOMAIN queue :
         queue[i] = "done" /\ queue[j] \in {"done", "first"} => j <= i
    /\ Queued("location") <=> locCallback /\ ~locPending

\* Every action calls its callback once; music calls it a second time, and
\* only after a first call with true (cdrom-device.hh 326-341).
CallbackProtocol ==
  /\ Len(calls) = 2 => last = "play" /\ calls[1]
  /\ state = "idle" /\ last # None =>
       calls # << >> /\ (last = "play" => calls[1] = (Len(calls) = 2))

\* A read that succeeds has stored exactly the sectors it was asked for, and no
\* sector that lands behind the pause is stored past the buffer (67-94).
ReadExact ==
  /\ written <= goal
  /\ last = "read" /\ calls = <<TRUE>> => written = goal

\* An assert or an abort of the driver is reached only where commands overlap:
\* one sent before the reply to another was taken, or an action that ended with
\* a reply still to come. Whatever the drive does otherwise, every reply meets the
\* state that waits for it, the end of a track that crosses a pause included.
NoAbort == aborted => overlapped

\* "irq() called with no action - spurious interrupt?" (cdrom-device.cpp 81):
\* an interrupt always finds an action.
NoSpuriousInterrupt == ~Is(None) => action # None

\* Whatever was started ends, or plays, and a blocking call returns.
ActionEnds == (state # "idle" /\ ~aborted) ~> (aborted \/ (state \in {"idle", "PLAYING"} /\ ~blocking))
============================================================================
