------------------------------ MODULE CDRomToc ------------------------------
(***************************************************************************)
(* Reading the table of contents of a disc (psyqo/src/cdrom-device-toc.cpp).  *)
(* GETTN tells the first and last track, GETTD(t) where track t starts.  The   *)
(* drive speaks BCD: psyqo/msf.hh converts with itob and btoi.  The size of a  *)
(* scheduled read waits in the first entry of the buffer it is to fill.       *)
(***************************************************************************)
EXTENDS Naturals, FiniteSets

CONSTANTS
  Discs,        \* numbers of tracks of the discs in the drive
  Sizes         \* sizes of the buffers of the application

VARIABLES
  tracks,       \* the disc
  state,        \* m_state of the action
  size,         \* m_size
  current, lastTrack,   \* m_currentTrack, m_lastTrack
  toc,          \* entries written: <<index, track>>
  stash,        \* toc[0].m
  command,      \* the parameter of the unanswered GETTD; 0 for GETTN
  room,         \* the size of the buffer the application passed
  result,       \* what the callback got
  counted       \* what getTOCSize returned last

vars == <<tracks, state, size, current, lastTrack, toc, stash, command, room, result, counted>>

itob(i) == (i \div 10) * 16 + (i % 10)
btoi(b) == (b \div 16) * 10 + (b % 16)
Byte == 0 .. 255
Smaller(a, b) == IF a < b THEN a ELSE b

TypeOK ==
  /\ tracks \in Discs /\ room \in Sizes \union {0}
  /\ state \in {"idle", "scheduled", "GETTN", "GETTD"}
  /\ size \in 0 .. room /\ stash \in 0 .. 100
  /\ {current, lastTrack, command} \subseteq Byte
  /\ toc \subseteq Byte \X Byte
  /\ result \in {"none", "success", "failure"}
  /\ counted \in Byte

Init ==
  /\ tracks \in Discs
  /\ state = "idle" /\ size = 0 /\ current = 0 /\ lastTrack = 0
  /\ toc = {} /\ stash = 0 /\ command = 0 /\ room = 0 /\ result = "none"
  /\ counted = 0

\* start() of ReadTOCAction, with the size n it is given.
Begin(n) == state' = "GETTN" /\ size' = n /\ command' = 0

\* readTOC, which nobody calls without a buffer; scheduleReadTOC looks for that.
ReadToc(n) ==
  /\ n # 0 /\ state = "idle" /\ result = "none"
  /\ Begin(n) /\ room' = n
  /\ UNCHANGED <<tracks, counted, current, lastTrack, toc, stash, result>>

\* scheduleReadTOC: nothing to read, or the size is kept for the task's run.
ScheduleReadToc(n) ==
  /\ state = "idle" /\ result = "none"
  /\ room' = n
  /\ IF n = 0 THEN result' = "success" /\ UNCHANGED <<state, stash>>
     ELSE state' = "scheduled" /\ stash' = Smaller(n, 100) /\ UNCHANGED result
  /\ UNCHANGED <<tracks, counted, size, current, lastTrack, toc, command>>

RunTask ==
  /\ state = "scheduled"
  /\ Begin(stash) /\ stash' = 0
  /\ UNCHANGED <<tracks, counted, current, lastTrack, toc, room, result>>

\* GETTN is answered.
TracksKnown ==
  /\ state = "GETTN"
  /\ state' = "GETTD"
  /\ current' = itob(1) /\ lastTrack' = itob(tracks)
  /\ command' = itob(1)
  /\ UNCHANGED <<tracks, counted, size, toc, stash, room, result>>

\* Mutant of TrackKnown: the last track is left out.
TrackKnownShort ==
  /\ state = "GETTD" /\ btoi(command) <= tracks
  /\ toc' = toc \union {<<current, btoi(command)>>}
  /\ current' = current + 1
  /\ IF current + 1 < lastTrack /\ current + 1 < size
       THEN command' = itob(current + 1) /\ UNCHANGED <<state, result>>
       ELSE state' = "idle" /\ result' = "success" /\ UNCHANGED command
  /\ UNCHANGED <<tracks, counted, size, lastTrack, stash, room>>

\* GETTD is answered, with where that track of the disc starts.
TrackKnown ==
  /\ state = "GETTD" /\ btoi(command) <= tracks
  /\ toc' = toc \union {<<current, btoi(command)>>}
  /\ current' = current + 1
  /\ IF current + 1 <= lastTrack /\ current + 1 < size
       THEN command' = itob(current + 1) /\ UNCHANGED <<state, result>>
       ELSE state' = "idle" /\ result' = "success" /\ UNCHANGED command
  /\ UNCHANGED <<tracks, counted, size, lastTrack, stash, room>>

\* The disc has no such track, and the drive says so.
TrackMissing ==
  /\ state = "GETTD" /\ btoi(command) > tracks
  /\ state' = "idle" /\ result' = "failure"
  /\ UNCHANGED <<tracks, counted, size, current, lastTrack, toc, stash, command, room>>

\* getTOCSize, from start to the acknowledgement: GetTNAction stores the byte.
GetTocSize ==
  /\ state = "idle" /\ result = "none"
  /\ counted' = itob(tracks) /\ result' = "success"
  /\ UNCHANGED <<tracks, state, size, current, lastTrack, toc, stash, command, room>>

\* The application has looked at its table; what the action keeps is not read before it
\* is set again.
Again ==
  /\ result # "none"
  /\ result' = "none" /\ toc' = {} /\ room' = 0 /\ size' = 0
  /\ current' = 0 /\ lastTrack' = 0 /\ command' = 0 /\ counted' = 0
  /\ UNCHANGED <<tracks, state, stash>>

Next ==
  \/ \E n \in Sizes : ReadToc(n) \/ ScheduleReadToc(n)
  \/ RunTask \/ TracksKnown \/ TrackKnown \/ TrackMissing \/ GetTocSize \/ Again

Spec == Init /\ [][Next]_vars
----------------------------------------------------------------------------
Present == 1 .. Smaller(tracks, room - 1)

\* "The TOC will be read into the provided buffer starting at index 1 for the
\* first track" (cdrom-device.hh 286): a table that was read has the tracks of
\* the disc, each at its own index, as many as the buffer holds and none past it.
TocComplete ==
  result = "success" /\ room > 0 => toc = {<<t, t>> : t \in Present}

\* "a CD-Rom can have up to 99 tracks" (cdrom-device.hh 286): reading the table
\* of a good disc succeeds, whatever the number of its tracks.
EveryDiscReads == result # "failure"

\* "Gets the size of the Table of Contents" (cdrom-device.hh 268), which the task
\* example prints as the track count: the number of tracks, once it is known.
CountsTracks == counted \in {0, tracks}

============================================================================
