---------------------------- MODULE CDRomDriver ----------------------------
(***************************************************************************)
(* psyqo's CD-ROM driver as an application uses it: the actions of CDRomDevice  *)
(* and the reading of a table of contents of CDRomToc, which is an action too,   *)
(* are given to one drive and one m_action.  An action is only started when none  *)
(* is under way (the assert of cdrom-device.cpp 61), and the table is only read    *)
(* when the drive is quiet, so that its replies are all for GETTN and GETTD.        *)
(***************************************************************************)
EXTENDS Naturals, Sequences

CONSTANTS Kinds, Counts, Races, Backlog,        \* see CDRomDevice
          Discs, Sizes                          \* see CDRomToc

ASSUME InputAssumption == /\ Kinds \subseteq {"reset", "test", "getTN", "read", "play"}
                          /\ Counts \subseteq Nat \ {0}
                          /\ Races \subseteq {"location", "error"}
                          /\ Backlog \in Nat

ASSUME DiscAssumption == Discs \subseteq 1 .. 99 /\ Sizes \subseteq Nat

VARIABLES
  action, state, callback, success, blocking, left, locCallback, locPending, queue, cause,
  commands, second, stream, last, goal, written, calls, asked, pausing, overlapped, aborted,
  tracks, tocState, size, current, lastTrack, toc, stash, command, room, result, counted

Device == INSTANCE CDRomDevice
Table == INSTANCE CDRomToc WITH state <- tocState

deviceVars ==
  <<action, state, callback, success, blocking, left, locCallback, locPending, queue, cause,
    commands, second, stream, last, goal, written, calls, asked, pausing, overlapped, aborted>>
tableVars ==
  <<tracks, tocState, size, current, lastTrack, toc, stash, command, room, result, counted>>
vars == <<deviceVars, tableVars>>

TypeOK == Device!TypeOK /\ Table!TypeOK

Init == Device!Init /\ Table!Init

DeviceAtRest ==
  /\ action = "none" /\ state = "idle" /\ queue = << >> /\ ~blocking /\ ~aborted
  /\ cause.is = "none" /\ commands = << >> /\ second = "none" /\ stream = "none"

TableAtRest == tocState = "idle" /\ result = "none"

Act == TableAtRest /\ Device!Next /\ UNCHANGED tableVars
ReadTable == DeviceAtRest /\ Table!Next /\ UNCHANGED deviceVars

Next == Act \/ ReadTable

Spec == Init /\ [][Next]_vars /\ Device!Fairness
-----------------------------------------------------------------------------
(* What is checked of the two: see there.                                   *)

\* The driver aborts only where commands overlap (CDRomDevice).
NoAbort == Device!NoAbort

\* The driver's fields tell the same story at each interrupt (CDRomDevice).
FieldsAgree == Device!FieldsAgree

\* Every action calls its callback as often as documented, and a read that is told to
\* have succeeded has stored what it was asked for (CDRomDevice).
CallbackProtocol == TypeOK /\ Device!CallbackProtocol /\ Device!ReadExact

\* The table has each track of the disc it has room for, at its index (CDRomToc).
TocComplete == Table!TocComplete

\* Every action ends (CDRomDevice).
ActionEnds == Device!ActionEnds

\* Not what the driver does: an interrupt always finds an action (CDRomDevice).
NoSpuriousInterrupt == Device!NoSpuriousInterrupt

\* Nor that: every good disc is read (CDRomToc).
EveryDiscReads == Table!EveryDiscReads

\* Nor that: getTOCSize returns the number of tracks (CDRomToc).
CountsTracks == Table!CountsTracks
=============================================================================
