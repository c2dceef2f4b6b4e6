-------------------------- MODULE CDRomDriverProofs --------------------------
(***************************************************************************)
(* Theorems about the CD-ROM driver for every set of actions, numbers of     *)
(* sectors, races and unanswered commands, and about the reading of a table   *)
(* of contents for every disc and every buffer but one of a single entry.     *)
(***************************************************************************)
EXTENDS CDRomDriver, SequenceTheorems, TLAPS

None == Device!None
Entries == {"first", "done", "location", "null"}

Has(q, entry) == \E i \in DOMAIN q : q[i] = entry
Once(q) == \A i, j \in DOMAIN q : q[i] = q[j] => i = j
DoneLast(q) == \A i, j \in DOMAIN q : q[i] = "done" /\ q[j] \in {"done", "first"} => j <= i

ReadStates == {"SETLOC", "SETMODE", "READ", "READ_ACK", "PAUSE", "PAUSE_ACK"}
Before == {"GETTD", "SETMODE", "SETLOC", "SEEK", "SEEK_ACK", "PLAY"}
Since == {"PLAYING", "STOPPING", "STOPPING_ACK"}

\* What the queue holds goes with the fields: each entry is queued once, finds the
\* function it calls, and the end of an action comes behind its first call.
QueueSound ==
  /\ Once(queue) /\ DoneLast(queue)
  /\ callback <=> state # "idle"
  /\ action # None => state # "idle"
  /\ Has(queue, "done") <=> action = None /\ state # "idle"
  /\ Has(queue, "first") => state # "idle" /\ last = "play" /\ calls = << >>
  /\ Has(queue, "location") <=> locCallback /\ ~locPending
  /\ Has(queue, "null") => asked /\ ~locCallback
  /\ locPending => locCallback
  /\ locCallback => asked

\* The action under way is the one started last, and is in one of its states.
ActionSound ==
  /\ action \in {None, last}
  /\ last = None => state = "idle"
  /\ action = "read" => state \in ReadStates
  /\ action = "play" => state \in Before \union Since
  /\ state \in {"STOPPING", "STOPPING_ACK"} => pausing
  /\ last = "play" => ~blocking

\* What the callback has been told.
ToldSound ==
  /\ state # "idle" => calls \in {<< >>, <<TRUE>>} /\ (calls = <<TRUE>> => last = "play")
  /\ state = "idle" =>
       \/ last = None /\ calls = << >>
       \/ last = "play" /\ calls \in {<<FALSE>>, <<TRUE, TRUE>>, <<TRUE, FALSE>>}
       \/ last \notin {None, "play"} /\ calls \in {<<TRUE>>, <<FALSE>>}
  /\ action = "play" => (state \in Since <=> calls = <<TRUE>> \/ Has(queue, "first"))
  /\ action = None /\ state # "idle" /\ last = "play" /\ success =>
       calls = <<TRUE>> \/ Has(queue, "first")

\* What a read has stored, and what is left.
ReadSound ==
  /\ written \in Nat
  /\ IF last = "read" THEN written + left = goal ELSE written = 0 /\ goal = 0
  /\ action = "read" => (left = 0 <=> state \in {"PAUSE", "PAUSE_ACK"})
  /\ last = "read" /\ action = None /\ state # "idle" /\ success => left = 0
  /\ last = "read" /\ calls = <<TRUE>> => left = 0
----------------------------------------------------------------------------
\* The states that wait for the acknowledgement of a command, and those that wait
\* for it to be complete.
Waits ==
  {<<"reset", "RESET", "INIT">>, <<"test", "TEST", "TEST">>, <<"getTN", "GETTN", "GETTN">>,
   <<"read", "SETLOC", "SETLOC">>, <<"read", "SETMODE", "SETMODE">>, <<"read", "READ", "READN">>,
   <<"read", "PAUSE", "PAUSE">>,
   <<"play", "GETTD", "GETTD">>, <<"play", "SETMODE", "SETMODE">>, <<"play", "SETLOC", "SETLOC">>,
   <<"play", "SEEK", "SEEKP">>, <<"play", "PLAY", "PLAY">>,
   <<"play", "STOPPING", "PAUSE">>, <<"play", "STOPPING", "STOP">>}
Finishes ==
  {<<"reset", "RESET_ACK", "INIT">>, <<"read", "PAUSE_ACK", "PAUSE">>, <<"play", "SEEK_ACK", "SEEKP">>,
   <<"play", "STOPPING_ACK", "PAUSE">>, <<"play", "STOPPING_ACK", "STOP">>}
Twice == {"INIT", "SEEKP", "PAUSE", "STOP"}

Raised(what, sent) == cause = [is |-> what, of |-> sent]
Owes(first, follows) == commands = first /\ second = follows
Quiet == Raised(None, None)

\* While a command waits for the drive, a sector or the end of the music may come.
Waiting(sent) ==
  \/ /\ Owes(<<sent>>, None)
     /\ \/ state = "PAUSE" /\ stream = "sectors" /\ (Quiet \/ Raised("ready", None))
        \/ /\ state = "STOPPING" /\ stream \in {"music", None}
           /\ Quiet \/ Raised("end", None) \/ Raised("error", None)
        \/ state \notin {"PAUSE", "STOPPING"} /\ stream = None /\ Quiet
  \/ /\ Owes(<< >>, IF sent \in Twice THEN sent ELSE None)
     /\ Raised("ack", sent)
     /\ stream = IF state \in {"READ", "PAUSE"} THEN "sectors" ELSE IF state = "PLAY" THEN "music" ELSE None
  \/ Owes(<< >>, None) /\ Raised("error", sent) /\ stream = None

Finishing(sent) ==
  \/ /\ Owes(<< >>, sent)
     /\ IF state = "PAUSE_ACK" THEN stream = "sectors" /\ (Quiet \/ Raised("ready", None))
        ELSE stream = None /\ Quiet
  \/ Owes(<< >>, None) /\ Raised("complete", sent) /\ stream = None

Reading ==
  /\ Owes(<< >>, None)
  /\ \/ stream = "sectors" /\ (Quiet \/ Raised("ready", None))
     \/ stream = None /\ Raised("error", None)

\* An unanswered GETLOCP is remembered.
Listening ==
  /\ second = None
  /\ commands = << >> \/ (commands = <<"GETLOCP">> /\ locPending)
  /\ \/ stream = "music" /\ Quiet
     \/ stream = "music" /\ commands = << >> /\ locPending /\ Raised("ack", "GETLOCP")
     \/ stream = None /\ (Raised("end", None) \/ Raised("error", None))
     \/ stream = None /\ commands = << >> /\ Raised("error", "GETLOCP")

AtRest == Owes(<< >>, None) /\ Quiet /\ stream = None

\* Where no two commands overlapped, the drive is where the action expects it.
InStep ==
  ~overlapped =>
    \/ action = None /\ AtRest
    \/ \E sent \in Device!Commands : <<action, state, sent>> \in Waits /\ Waiting(sent)
    \/ \E sent \in Device!Commands : <<action, state, sent>> \in Finishes /\ Finishing(sent)
    \/ action = "read" /\ state = "READ_ACK" /\ Reading
    \/ action = "play" /\ state = "PLAYING" /\ Listening
----------------------------------------------------------------------------
\* The table: what is written goes up to the track that is read next. Where the
\* buffer has no entry for a track (size 1), the first one is written all the same.
TableInv ==
  /\ Table!TypeOK
  /\ tocState \in {"idle", "scheduled"} /\ result = "none" => toc = {} /\ size = 0
  /\ tocState = "GETTN" => toc = {}
  /\ tocState = "idle" /\ result = "none" => room = 0
  /\ tocState # "idle" => result = "none" /\ room > 0
  /\ tocState = "scheduled" => stash = Table!Smaller(room, 100)
  /\ tocState \in {"GETTN", "GETTD"} => size \in {room, Table!Smaller(room, 100)}
  /\ tocState = "GETTD" =>
       /\ lastTrack = Table!itob(tracks) /\ command = Table!itob(current)
       /\ current \in 1 .. lastTrack
       /\ size > 1 => current < size
       /\ toc = {<<t, t>> : t \in 1 .. current - 1}
  /\ 1 \notin Sizes => Table!TocComplete

\* The types, the flags apart: the provers take these two ways.
Flags ==
  /\ callback \in BOOLEAN /\ success \in BOOLEAN /\ blocking \in BOOLEAN /\ locCallback \in BOOLEAN
  /\ locPending \in BOOLEAN /\ asked \in BOOLEAN /\ pausing \in BOOLEAN /\ overlapped \in BOOLEAN
  /\ aborted \in BOOLEAN
Data ==
  /\ action \in Kinds \union {None} /\ last \in Kinds \union {None}
  /\ state \in Device!States
  /\ left \in 0 .. goal /\ goal \in Counts \union {0}
  /\ queue \in Seq(Entries) /\ Len(queue) <= 3
  /\ cause \in [is : {None, "ack", "complete", "ready", "end", "error"}, of : Device!Commands \union {None}]
  /\ commands \in Seq(Device!Commands) /\ second \in Device!Commands \union {None}
  /\ stream \in {None, "sectors", "music"}
  /\ calls \in Seq(BOOLEAN) /\ Len(calls) <= 2

DeviceInv ==
  /\ Device!TypeOK /\ QueueSound /\ ActionSound /\ ToldSound /\ ReadSound /\ InStep
  /\ aborted => overlapped
----------------------------------------------------------------------------
\* Queues.
LEMMA Appended ==
  ASSUME NEW q \in Seq(Entries), NEW e \in Entries, ~Has(q, e), Once(q), DoneLast(q),
         e = "first" => ~Has(q, "done")
  PROVE  LET r == Append(q, e) IN
         /\ r \in Seq(Entries) /\ Once(r) /\ DoneLast(r)
         /\ \A x \in Entries : Has(r, x) <=> Has(q, x) \/ x = e
<1> DEFINE r == Append(q, e)
<1>1. /\ r \in Seq(Entries) /\ Len(r) = Len(q) + 1 /\ Len(q) \in Nat
      /\ DOMAIN q = 1 .. Len(q) /\ DOMAIN r = 1 .. Len(q) + 1
      /\ \A i \in 1 .. Len(q) : r[i] = q[i]
      /\ r[Len(q) + 1] = e
  BY AppendProperties, LenProperties
<1> HIDE DEF r
<1>2. \A x \in Entries : Has(r, x) <=> Has(q, x) \/ x = e
  BY <1>1 DEF Has
<1>3. Once(r)
  BY <1>1 DEF Has, Once
<1>4. DoneLast(r)
  <2> SUFFICES ASSUME NEW i \in DOMAIN r, NEW j \in DOMAIN r,
                      r[i] = "done", r[j] \in {"done", "first"}
               PROVE  j <= i
    BY DEF DoneLast
  <2>1. CASE i \in 1 .. Len(q) /\ j \in 1 .. Len(q)
    BY <2>1, <1>1 DEF DoneLast
  <2>2. CASE i = Len(q) + 1
    BY <2>2, <1>1
  <2>3. CASE i \in 1 .. Len(q) /\ j = Len(q) + 1
    BY <2>3, <1>1 DEF Has
  <2> QED BY <2>1, <2>2, <2>3, <1>1
<1> QED BY <1>1, <1>2, <1>3, <1>4 DEF r

LEMMA Taken ==
  ASSUME NEW q \in Seq(Entries), q # << >>, Once(q), DoneLast(q)
  PROVE  /\ Tail(q) \in Seq(Entries) /\ Once(Tail(q)) /\ DoneLast(Tail(q))
         /\ Head(q) \in Entries /\ Has(q, Head(q))
         /\ Head(q) = "done" => ~Has(q, "first")
         /\ \A x \in Entries : Has(Tail(q), x) <=> Has(q, x) /\ x # Head(q)
<1> DEFINE r == Tail(q)
<1>1. /\ r \in Seq(Entries) /\ Len(r) = Len(q) - 1 /\ Len(q) \in Nat \ {0}
      /\ DOMAIN q = 1 .. Len(q) /\ DOMAIN r = 1 .. Len(q) - 1
      /\ \A i \in 1 .. Len(q) - 1 : r[i] = q[i + 1]
      /\ Head(q) = q[1] /\ Head(q) \in Entries
  BY HeadTailProperties, LenProperties, EmptySeq
<1> HIDE DEF r
<1>2. \A x \in Entries : Has(r, x) <=> Has(q, x) /\ x # q[1]
  <2> TAKE x \in Entries
  <2>1. ASSUME Has(r, x) PROVE Has(q, x) /\ x # q[1]
    <3>1. PICK i \in 1 .. Len(q) - 1 : r[i] = x
      BY <2>1, <1>1 DEF Has
    <3>2. i + 1 \in DOMAIN q /\ 1 \in DOMAIN q /\ q[i + 1] = x /\ i + 1 # 1
      BY <3>1, <1>1
    <3> QED BY <3>2 DEF Has, Once
  <2>2. ASSUME Has(q, x), x # q[1] PROVE Has(r, x)
    <3>1. PICK i \in 1 .. Len(q) : q[i] = x
      BY <2>2, <1>1 DEF Has
    <3>2. i # 1 /\ i - 1 \in DOMAIN r /\ r[i - 1] = x
      BY <3>1, <2>2, <1>1
    <3> QED BY <3>2 DEF Has
  <2> QED BY <2>1, <2>2
<1>3. \A i \in DOMAIN r : i + 1 \in DOMAIN q /\ r[i] = q[i + 1] /\ i \in Nat
  BY <1>1
<1>4. Once(r)
  <2> SUFFICES ASSUME NEW i \in DOMAIN r, NEW j \in DOMAIN r, r[i] = r[j] PROVE i = j
    BY DEF Once
  <2>1. i + 1 = j + 1
    BY <1>3 DEF Once
  <2> QED BY <2>1, <1>3
<1>5. DoneLast(r)
  <2> SUFFICES ASSUME NEW i \in DOMAIN r, NEW j \in DOMAIN r,
                      r[i] = "done", r[j] \in {"done", "first"}
               PROVE  j <= i
    BY DEF DoneLast
  <2>1. j + 1 <= i + 1
    BY <1>3 DEF DoneLast
  <2> QED BY <2>1, <1>3
<1>6. Has(q, q[1]) /\ 1 \in DOMAIN q
  BY <1>1 DEF Has
<1>7. q[1] = "done" => ~Has(q, "first")
  <2> SUFFICES ASSUME q[1] = "done", NEW j \in DOMAIN q, q[j] = "first" PROVE FALSE
    BY DEF Has
  <2>1. j <= 1 /\ j \in 1 .. Len(q)
    BY <1>6, <1>1 DEF DoneLast
  <2> QED BY <2>1
<1> QED BY <1>1, <1>2, <1>4, <1>5, <1>6, <1>7 DEF r

\* A location is asked for, or the entry for a location there is none for is queued.
LEMMA AtMostThree ==
  ASSUME NEW q \in Seq(Entries), Once(q), ~(Has(q, "location") /\ Has(q, "null"))
  PROVE  Len(q) <= 3
<1>1. DOMAIN q = 1 .. Len(q) /\ Len(q) \in Nat /\ \A i \in 1 .. Len(q) : q[i] \in Entries
  BY LenProperties, ElementOfSeq
<1> SUFFICES ASSUME Len(q) > 3 PROVE FALSE
  BY <1>1
<1>2. 1 \in DOMAIN q /\ 2 \in DOMAIN q /\ 3 \in DOMAIN q /\ 4 \in DOMAIN q
  BY <1>1
<1>3. {q[1], q[2], q[3], q[4]} \subseteq Entries
  BY <1>1
<1>4. q[1] # q[2] /\ q[1] # q[3] /\ q[1] # q[4] /\ q[2] # q[3] /\ q[2] # q[4] /\ q[3] # q[4]
  BY <1>2 DEF Once
<1>5. "location" \in {q[1], q[2], q[3], q[4]} /\ "null" \in {q[1], q[2], q[3], q[4]}
  BY <1>3, <1>4 DEF Entries
<1> QED BY <1>2, <1>5 DEF Has
----------------------------------------------------------------------------
LEMMA StateNames ==
  Device!States = {"idle", "RESET", "RESET_ACK", "TEST", "GETTN"} \union ReadStates \union Before \union Since
BY DEF Device!States, Device!Replies, Device!ResetReplies, Device!TestReplies, Device!GetTNReplies,
       Device!ReadReplies, Device!PlayReplies, Device!On, Device!Ends, ReadStates, Before, Since

LEMMA TypesSplit == /\ Device!TypeOK <=> Flags /\ Data
                    /\ Device!TypeOK' <=> Flags' /\ Data'
<1>1. {callback, success, blocking, locCallback, locPending, asked, pausing, overlapped, aborted} \subseteq BOOLEAN
        <=> Flags
  BY Zenon DEF Flags
<1>2. ({callback, success, blocking, locCallback, locPending, asked, pausing, overlapped, aborted} \subseteq BOOLEAN
        <=> Flags)'
  BY Zenon DEF Flags
<1> QED BY <1>1, <1>2, Zenon DEF Device!TypeOK, Data, Device!None, None, Entries

LEMMA InStepStays ==
  ASSUME InStep, overlapped' = overlapped, action' = action, state' = state, cause' = cause,
         commands' = commands, second' = second, stream' = stream, locPending' = locPending
  PROVE  InStep'
BY Zenon DEF InStep, AtRest, Waiting, Finishing, Reading, Listening, Owes, Quiet, Raised

\* Calls.
LEMMA Told ==
  ASSUME NEW S, NEW a \in S, NEW b \in S
  PROVE  /\ Append(<< >>, a) = <<a>> /\ Append(<<a>>, b) = <<a, b>>
         /\ <<a>> = <<b>> => a = b
         /\ <<a>> \in Seq(S) /\ Len(<<a>>) <= 2
         /\ <<a, b>> \in Seq(S) /\ Len(<<a, b>>) <= 2
<1>1. Append(<< >>, a) = <<a>>
  OBVIOUS
<1>4. Append(<<a>>, b) = <<a, b>>
  <2>1. /\ <<a>> \in Seq(S) /\ Len(<<a>>) = 1 /\ <<a>>[1] = a
        /\ <<a, b>> \in Seq(S) /\ Len(<<a, b>>) = 2 /\ <<a, b>>[1] = a /\ <<a, b>>[2] = b
    OBVIOUS
  <2>2. /\ Append(<<a>>, b) \in Seq(S) /\ Len(Append(<<a>>, b)) = 2
        /\ Append(<<a>>, b)[1] = a /\ Append(<<a>>, b)[2] = b
    BY <2>1, AppendProperties
  <2>3. \A i \in 1 .. 2 : Append(<<a>>, b)[i] = <<a, b>>[i]
    <3> SUFFICES ASSUME NEW i \in 1 .. 2 PROVE Append(<<a>>, b)[i] = <<a, b>>[i]
      OBVIOUS
    <3>1. i = 1 \/ i = 2
      OBVIOUS
    <3> QED BY <2>1, <2>2, <3>1, Zenon
  <2> QED BY <2>1, <2>2, <2>3, SeqEqual, Zenon
<1>2. <<a>> = <<b>> => a = b
  OBVIOUS
<1>3. <<a>> \in Seq(S) /\ Len(<<a>>) <= 2 /\ <<a, b>> \in Seq(S) /\ Len(<<a, b>>) <= 2
  OBVIOUS
<1> QED BY <1>1, <1>2, <1>3, <1>4

LEMMA Calls ==
  /\ Append(<< >>, TRUE) = <<TRUE>> /\ Append(<< >>, FALSE) = <<FALSE>>
  /\ Append(<<TRUE>>, TRUE) = <<TRUE, TRUE>> /\ Append(<<TRUE>>, FALSE) = <<TRUE, FALSE>>
  /\ \A s \in {<<TRUE>>, <<FALSE>>, <<TRUE, TRUE>>, <<TRUE, FALSE>>} : s \in Seq(BOOLEAN) /\ Len(s) <= 2
<1>1. TRUE \in BOOLEAN /\ FALSE \in BOOLEAN
  OBVIOUS
<1>2. <<TRUE>> \in Seq(BOOLEAN) /\ Len(<<TRUE>>) <= 2 /\ <<FALSE>> \in Seq(BOOLEAN) /\ Len(<<FALSE>>) <= 2
  BY <1>1, Told, Zenon
<1>3. /\ <<TRUE, TRUE>> \in Seq(BOOLEAN) /\ Len(<<TRUE, TRUE>>) <= 2
      /\ <<TRUE, FALSE>> \in Seq(BOOLEAN) /\ Len(<<TRUE, FALSE>>) <= 2
  BY <1>1, Told, Zenon
<1>4. /\ Append(<< >>, TRUE) = <<TRUE>> /\ Append(<< >>, FALSE) = <<FALSE>>
      /\ Append(<<TRUE>>, TRUE) = <<TRUE, TRUE>> /\ Append(<<TRUE>>, FALSE) = <<TRUE, FALSE>>
  BY <1>1, Told, Zenon
<1> QED BY <1>2, <1>3, <1>4, Zenon

LEMMA Lengths ==
  ASSUME NEW a, NEW b
  PROVE  /\ Len(<< >>) = 0 /\ Len(<<a>>) = 1 /\ Len(<<a, b>>) = 2
         /\ <<a>> # << >> /\ <<a, b>> # << >>
         /\ <<a>>[1] = a /\ <<a, b>>[1] = a
OBVIOUS

\* A command that meets no other.
LEMMA SentAlone ==
  ASSUME NEW sent, Device!Send(sent), ~overlapped'
  PROVE  ~overlapped /\ commands = << >> /\ second = None /\ cause.of = None /\ commands' = <<sent>>
<1>1. ~overlapped /\ commands = << >> /\ second = None /\ cause.of = None
  BY Zenon DEF Device!Send, Device!Outstanding, Device!None, None
<1>2. Append(<< >>, sent) = <<sent>>
  OBVIOUS
<1> QED BY <1>1, <1>2, Zenon DEF Device!Send

LEMMA DeviceStarts == Device!Init /\ InputAssumption => DeviceInv
<1> SUFFICES ASSUME Device!Init, InputAssumption PROVE DeviceInv
  OBVIOUS
<1> USE DEF Device!Init, Device!None, None
<1>1. Device!TypeOK
  <2>1. state \in Device!States /\ left \in 0 .. goal /\ goal \in Counts \union {0}
    BY StateNames
  <2>2. cause \in [is : {None, "ack", "complete", "ready", "end", "error"}, of : Device!Commands \union {None}]
    BY DEF Device!Quiet
  <2>3. Len(queue) = 0 /\ Len(calls) = 0 /\ queue \in Seq(Entries) /\ calls \in Seq(BOOLEAN)
        /\ commands \in Seq(Device!Commands)
    BY EmptySeq
  <2>4. Data
    BY <2>1, <2>2, <2>3 DEF Data
  <2> QED BY <2>4, TypesSplit DEF Flags
<1>2. QueueSound /\ ActionSound /\ ToldSound /\ ReadSound
  BY DEF QueueSound, ActionSound, ToldSound, ReadSound, Has, Once, DoneLast
<1>3. InStep
  BY DEF InStep, AtRest, Owes, Quiet, Raised, Device!Quiet
<1> QED BY <1>1, <1>2, <1>3 DEF DeviceInv

LEMMA StartKeeps ==
  ASSUME InputAssumption, DeviceInv, NEW s \in Device!Starts, Device!Start(s[1], s[2], s[3])
  PROVE  DeviceInv'
<1> USE DEF Device!Start, DeviceInv, Device!None, None, Device!location
<1>1. PICK kind, first, sent :
        /\ s = <<kind, first, sent>> /\ <<kind, first, sent>> \in Device!Starts
        /\ kind \in Kinds /\ kind # None /\ first # "idle" /\ sent \in Device!Commands
  BY DEF Device!Starts, Device!Commands, InputAssumption
<1>2. Device!Start(kind, first, sent)
  BY <1>1
<1>3. ~Has(queue, "done") /\ ~Has(queue, "first") /\ action = None
  BY <1>2 DEF QueueSound
<1>4. Device!TypeOK'
  <2>1. first \in Device!States
    BY <1>1, StateNames DEF Device!Starts, ReadStates, Before
  <2>2. left' \in 0 .. goal' /\ goal' \in Counts \union {0}
    BY <1>2 DEF InputAssumption
  <2>3. commands' \in Seq(Device!Commands) /\ overlapped' \in BOOLEAN
    BY <1>2, <1>1, AppendProperties DEF Device!TypeOK, Device!Send
  <2>4. calls' \in Seq(BOOLEAN) /\ Len(calls') = 0
    BY <1>2, EmptySeq
  <2>5. Data'
    BY <1>1, <1>2, <2>1, <2>2, <2>3, <2>4, TypesSplit DEF Data
  <2>6. Flags'
    BY <1>2, <2>3, TypesSplit DEF Flags
  <2> QED BY <2>5, <2>6, TypesSplit
<1>5. QueueSound'
  BY <1>1, <1>2, <1>3 DEF QueueSound, Has, Once, DoneLast
<1>6. ActionSound'
  BY <1>1, <1>2 DEF ActionSound, Device!Starts, ReadStates, Before
<1>7. ToldSound'
  BY <1>1, <1>2, <1>3 DEF ToldSound, Device!Starts, Since, Has
<1>8. ReadSound'
  <2>1. /\ last' = kind /\ action' = kind /\ state' = first /\ written' = 0 /\ left' = goal' /\ calls' = << >>
        /\ IF kind = "read" THEN goal' \in Nat \ {0} /\ first = "SETLOC" ELSE goal' = 0
    BY <1>1, <1>2 DEF Device!Starts, InputAssumption
  <2>2. calls' # <<TRUE>> /\ action' # None /\ (kind = "read" => state' \notin {"PAUSE", "PAUSE_ACK"})
    BY <1>1, <2>1
  <2>3. written' \in Nat /\ IF last' = "read" THEN written' + left' = goal' ELSE written' = 0 /\ goal' = 0
    BY <2>1
  <2>4. action' = "read" => (left' = 0 <=> state' \in {"PAUSE", "PAUSE_ACK"})
    BY <2>1, <2>2
  <2> QED BY <2>2, <2>3, <2>4, Zenon DEF ReadSound
<1>9. InStep'
  <2> SUFFICES ASSUME ~overlapped' PROVE InStep'
    BY DEF InStep
  <2>1. AtRest
    BY <1>2, <1>3 DEF InStep, Waits, Finishes, Device!Send
  <2> QED BY <1>1, <1>2, <2>1 DEF InStep, AtRest, Device!Starts, Device!Send, Waits, Waiting, Owes, Quiet, Raised
<1> QED BY <1>2, <1>4, <1>5, <1>6, <1>7, <1>8, <1>9 DEF Device!Send

\* A pause finds the music, or none any more.
LEMMA PauseKeeps ==
  ASSUME DeviceInv, NEW sent \in Device!Stops, Device!PauseCDDA(sent)
  PROVE  DeviceInv'
<1> USE DEF Device!PauseCDDA, DeviceInv, Device!None, None, Device!location, Device!Playing
<1>1. Flags /\ Data
  BY TypesSplit
<1>2. CASE action = None
  <2>1. /\ pausing' = TRUE
        /\ action' = action /\ state' = state /\ callback' = callback /\ success' = success
        /\ blocking' = blocking /\ left' = left /\ locCallback' = locCallback /\ locPending' = locPending
        /\ asked' = asked /\ queue' = queue /\ cause' = cause /\ second' = second /\ stream' = stream
        /\ last' = last /\ goal' = goal /\ written' = written /\ calls' = calls
        /\ overlapped' = overlapped /\ aborted' = aborted /\ commands' = commands
    BY <1>2, Zenon DEF Device!SendNothing
  <2>2. Flags' /\ Data'
    BY <1>1, <2>1, Zenon DEF Flags, Data
  <2>3. QueueSound' /\ ToldSound' /\ ReadSound'
    <3>1. QueueSound'
      BY <2>1 DEF QueueSound
    <3>2. ToldSound'
      BY <2>1 DEF ToldSound
    <3>3. ReadSound'
      BY <2>1 DEF ReadSound
    <3> QED BY <3>1, <3>2, <3>3
  <2>4. ActionSound'
    BY <2>1 DEF ActionSound
  <2>5. InStep'
    BY <2>1, InStepStays
  <2>6. aborted' => overlapped'
    BY <2>1, Zenon
  <2> QED BY <2>2, <2>3, <2>4, <2>5, <2>6, TypesSplit
<1>3. CASE action # None
  <2>1. action = "play" /\ state = "PLAYING"
    <3>1. action = "play" /\ state \in Since
      BY <1>3 DEF ActionSound, ToldSound
    <3> QED BY <3>1, Zenon DEF Since, ActionSound
  <2>2. /\ pausing' = TRUE /\ state' = "STOPPING"
        /\ Device!Send(sent)
        /\ action' = action /\ callback' = callback /\ success' = success
        /\ blocking' = blocking /\ left' = left /\ locCallback' = locCallback /\ locPending' = locPending
        /\ asked' = asked /\ queue' = queue /\ cause' = cause /\ second' = second /\ stream' = stream
        /\ last' = last /\ goal' = goal /\ written' = written /\ calls' = calls /\ aborted' = aborted
    BY <1>3, <2>1, Zenon
  <2>3. sent \in Device!Commands /\ "STOPPING" \in Device!States
    BY StateNames DEF Device!Stops, Device!Commands, Since
  <2>4. Flags'
    BY <1>1, <2>2 DEF Flags, Device!Send
  <2>5. Data'
    <3>1. commands' \in Seq(Device!Commands)
      BY <1>1, <2>2, <2>3, AppendProperties DEF Data, Device!Send
    <3> QED BY <1>1, <2>2, <2>3, <3>1, Zenon DEF Data
  <2>6. QueueSound'
    BY <2>1, <2>2 DEF QueueSound
  <2>7. ActionSound'
    BY <2>1, <2>2 DEF ActionSound, Since
  <2>8. ToldSound'
    BY <2>1, <2>2 DEF ToldSound, Since
  <2>9. ReadSound'
    BY <2>1, <2>2 DEF ReadSound
  <2>10. InStep'
    <3> SUFFICES ASSUME ~overlapped' PROVE InStep'
      BY DEF InStep
    <3>1. ~overlapped /\ commands = << >> /\ second = None /\ cause.of = None /\ commands' = <<sent>>
      BY <2>2, SentAlone
    <3>2. Listening
      BY <2>1, <3>1 DEF InStep, Waits, Finishes
    <3>3. <<action', state', sent>> \in Waits
      BY <2>1, <2>2 DEF Waits, Device!Stops
    <3>4. Waiting(sent)'
      <4>1. stream' \in {"music", None} /\ (Quiet' \/ Raised("end", None)' \/ Raised("error", None)')
        BY <2>2, <3>1, <3>2 DEF Listening, Quiet, Raised
      <4>2. Owes(<<sent>>, None)'
        BY <2>2, <3>1 DEF Owes
      <4> QED BY <2>2, <4>1, <4>2, Zenon DEF Waiting
    <3> QED BY <2>3, <3>3, <3>4 DEF InStep
  <2>11. aborted' => overlapped'
    BY <2>2 DEF Device!Send
  <2> QED BY <2>4, <2>5, <2>6, <2>7, <2>8, <2>9, <2>10, <2>11, TypesSplit
<1> QED BY <1>2, <1>3

\* A location is asked for once, so that no other callback is held or queued.
LEMMA LocationKeeps ==
  ASSUME DeviceInv, Device!GetPlaybackLocation
  PROVE  DeviceInv'
<1> USE DEF Device!GetPlaybackLocation, DeviceInv, Device!None, None, Device!Playing, Device!device,
            Device!history
<1>1. Flags /\ Data
  BY TypesSplit
<1>2. ~locCallback /\ ~locPending /\ ~Has(queue, "null") /\ ~Has(queue, "location")
  BY Zenon DEF QueueSound
<1>3. /\ asked' = TRUE /\ last = "play" /\ calls = <<TRUE>> /\ ~aborted
      /\ action' = action /\ state' = state /\ callback' = callback /\ success' = success
      /\ blocking' = blocking /\ left' = left /\ cause' = cause /\ second' = second /\ stream' = stream
      /\ last' = last /\ goal' = goal /\ written' = written /\ calls' = calls /\ pausing' = pausing
      /\ aborted' = aborted
  BY <1>2, Zenon
<1>4. CASE action = None
  <2>1. /\ queue' = Append(queue, "null") /\ locCallback' = locCallback /\ locPending' = locPending
        /\ overlapped' = overlapped /\ commands' = commands
    BY <1>2, <1>4, Zenon DEF Device!SendNothing
  <2>2. /\ queue' \in Seq(Entries) /\ Once(queue') /\ DoneLast(queue')
        /\ \A x \in Entries : Has(queue', x) <=> Has(queue, x) \/ x = "null"
    <3>1. queue \in Seq(Entries) /\ "null" \in Entries /\ Once(queue) /\ DoneLast(queue)
      BY <1>1 DEF Data, Entries, QueueSound
    <3> QED BY <1>2, <2>1, <3>1, Appended
  <2>3. /\ Has(queue', "null") /\ ~Has(queue', "location")
        /\ Has(queue', "done") <=> Has(queue, "done")
        /\ Has(queue', "first") <=> Has(queue, "first")
    BY <1>2, <2>2 DEF Entries
  <2>4. QueueSound'
    BY <1>2, <1>3, <2>1, <2>2, <2>3 DEF QueueSound
  <2>5. ActionSound'
    BY <1>3 DEF ActionSound
  <2>6. ToldSound'
    BY <1>3, <2>3 DEF ToldSound
  <2>7. ReadSound'
    BY <1>3 DEF ReadSound
  <2>8. InStep'
    BY <1>3, <2>1, InStepStays
  <2>9. Flags'
    BY <1>1, <1>3, <2>1 DEF Flags
  <2>10. Data'
    BY <1>1, <1>3, <2>1, <2>2, <2>3, AtMostThree DEF Data
  <2> QED BY <1>3, <2>4, <2>5, <2>6, <2>7, <2>8, <2>9, <2>10, TypesSplit
<1>5. CASE action # None
  <2>1. /\ queue' = queue /\ locCallback' = TRUE /\ locPending' = TRUE /\ Device!Send("GETLOCP")
    BY <1>2, <1>5, Zenon
  <2>2. action = "play" /\ state \in Since
    BY <1>3, <1>5 DEF ActionSound, ToldSound
  <2>3. QueueSound'
    BY <1>2, <1>3, <2>1 DEF QueueSound
  <2>4. ActionSound'
    BY <1>3 DEF ActionSound
  <2>5. ToldSound'
    BY <1>3, <2>1 DEF ToldSound
  <2>6. ReadSound'
    BY <1>3 DEF ReadSound
  <2>7. InStep'
    <3> SUFFICES ASSUME ~overlapped' PROVE InStep'
      BY DEF InStep
    <3>1. ~overlapped /\ commands = << >> /\ second = None /\ cause.of = None /\ commands' = <<"GETLOCP">>
      BY <2>1, SentAlone
    <3>2. state = "PLAYING" /\ Listening
      <4>1. \A sent \in Device!Commands : ~Waiting(sent) \/ state \in Before
        BY <2>2, <3>1 DEF Waiting, Owes, Raised, Device!Commands
      <4>2. \A sent \in Device!Commands : ~Finishing(sent)
        BY <3>1 DEF Finishing, Owes, Raised, Device!Commands
      <4> QED BY <2>2, <3>1, <4>1, <4>2, Zenon DEF InStep, Since, Before
    <3>3. Listening'
      BY <1>3, <2>1, <3>1, <3>2 DEF Listening, Quiet, Raised
    <3> QED BY <1>3, <2>2, <3>2, <3>3, Zenon DEF InStep
  <2>8. Flags'
    BY <1>1, <1>3, <2>1 DEF Flags, Device!Send
  <2>9. Data'
    <3>1. commands' \in Seq(Device!Commands)
      BY <1>1, <2>1, AppendProperties DEF Data, Device!Send, Device!Commands
    <3> QED BY <1>1, <1>3, <2>1, <3>1, Zenon DEF Data
  <2> QED BY <1>3, <2>3, <2>4, <2>5, <2>6, <2>7, <2>8, <2>9, TypesSplit
<1> QED BY <1>4, <1>5

\* What the main thread takes from the queue finds the function it calls.
LEMMA PumpKeeps ==
  ASSUME DeviceInv, Device!Pump
  PROVE  DeviceInv'
<1> USE DEF DeviceInv, Device!None, None
<1>1. Flags /\ Data
  BY TypesSplit
<1>2. /\ queue \in Seq(Entries) /\ queue # << >> /\ queue' = Tail(queue) /\ Once(queue) /\ DoneLast(queue)
  BY <1>1 DEF Data, QueueSound, Device!Pump
<1>3. /\ queue' \in Seq(Entries) /\ Once(queue') /\ DoneLast(queue')
      /\ Head(queue) \in Entries /\ Has(queue, Head(queue))
      /\ Head(queue) = "done" => ~Has(queue, "first")
      /\ \A x \in Entries : Has(queue', x) <=> Has(queue, x) /\ x # Head(queue)
  BY <1>2, Taken
<1>4. /\ action' = action /\ blocking' = blocking /\ left' = left /\ last' = last /\ goal' = goal
      /\ written' = written /\ pausing' = pausing /\ overlapped' = overlapped
      /\ cause' = cause /\ commands' = commands /\ second' = second /\ stream' = stream
  BY Zenon DEF Device!Pump, Device!drive
<1>5. ~aborted' /\ aborted' \in BOOLEAN /\ Len(queue') <= 3
  <2>1. Len(queue') <= 3
    BY <1>1, <1>2, HeadTailProperties DEF Data
  <2>2. ~aborted' /\ aborted' \in BOOLEAN
    BY <1>3, Zenon DEF Device!Pump, QueueSound
  <2> QED BY <2>1, <2>2
<1>6. CASE Head(queue) = "first"
  <2>1. /\ state' = state /\ callback' = callback /\ success' = success
        /\ locCallback' = locCallback /\ locPending' = locPending /\ asked' = asked
        /\ calls' = Append(calls, TRUE)
    BY <1>6, Zenon DEF Device!Pump, Device!location
  <2>2. last = "play" /\ calls = << >> /\ calls' = <<TRUE>> /\ state # "idle" /\ Has(queue, "first")
    BY <1>3, <1>6, <2>1, Calls, Zenon DEF QueueSound
  <2>3. /\ ~Has(queue', "first")
        /\ Has(queue', "done") <=> Has(queue, "done")
        /\ Has(queue', "location") <=> Has(queue, "location")
        /\ Has(queue', "null") <=> Has(queue, "null")
    BY <1>3, <1>6 DEF Entries
  <2>4. QueueSound'
    BY <1>3, <1>4, <2>1, <2>3 DEF QueueSound
  <2>5. ActionSound'
    BY <1>4, <2>1 DEF ActionSound
  <2>6. ToldSound'
    BY <1>4, <2>1, <2>2 DEF ToldSound
  <2>7. ReadSound'
    BY <1>4, <2>1, <2>2 DEF ReadSound
  <2>8. InStep'
    BY <1>4, <2>1, InStepStays
  <2>9. Flags'
    BY <1>1, <1>4, <1>5, <2>1 DEF Flags
  <2>10. Data'
    <3>1. calls' \in Seq(BOOLEAN) /\ Len(calls') <= 2
      BY <2>2, Calls, Zenon
    <3> QED BY <1>1, <1>3, <1>4, <1>5, <2>1, <3>1, Zenon DEF Data
  <2> QED BY <1>5, <2>4, <2>5, <2>6, <2>7, <2>8, <2>9, <2>10, TypesSplit
<1>7. CASE Head(queue) = "done"
  <2>1. /\ state' = "idle" /\ callback' = FALSE /\ success' = FALSE
        /\ locCallback' = locCallback /\ locPending' = locPending /\ asked' = asked
        /\ calls' = Append(calls, success)
    BY <1>7, Zenon DEF Device!Pump, Device!location, Device!ActionComplete
  <2>2. action = None /\ state # "idle" /\ ~Has(queue, "first") /\ last # None
    BY <1>3, <1>7 DEF QueueSound, ActionSound
  <2>3. /\ ~Has(queue', "done") /\ ~Has(queue', "first")
        /\ Has(queue', "location") <=> Has(queue, "location")
        /\ Has(queue', "null") <=> Has(queue, "null")
    BY <1>3, <1>7, <2>2 DEF Entries
  <2>4. QueueSound'
    BY <1>3, <1>4, <2>1, <2>2, <2>3 DEF QueueSound
  <2>5. ActionSound'
    BY <1>4, <2>1, <2>2 DEF ActionSound
  <2>6. \/ last = "play" /\ calls' \in {<<FALSE>>, <<TRUE, TRUE>>, <<TRUE, FALSE>>}
        \/ last # "play" /\ calls' = <<success>> /\ success \in BOOLEAN
    <3>1. success \in BOOLEAN
      BY <1>1, Zenon DEF Flags
    <3>2. /\ Append(<< >>, TRUE) = <<TRUE>> /\ Append(<< >>, FALSE) = <<FALSE>>
          /\ Append(<<TRUE>>, TRUE) = <<TRUE, TRUE>> /\ Append(<<TRUE>>, FALSE) = <<TRUE, FALSE>>
      BY Calls, Zenon
    <3>3. CASE last # "play"
      BY <2>1, <2>2, <3>1, <3>2, <3>3, Zenon DEF ToldSound
    <3>4. CASE last = "play"
      BY <2>1, <2>2, <3>1, <3>2, <3>4, Zenon DEF ToldSound
    <3> QED BY <3>3, <3>4
  <2>7. ToldSound'
    BY <1>4, <2>1, <2>2, <2>6 DEF ToldSound
  <2>8. ReadSound'
    <3>1. last = "read" /\ calls' = <<TRUE>> => left = 0
      <4>1. last = "read" /\ calls' = <<TRUE>> => success
        BY <2>6, Told, Zenon
      <4> QED BY <2>2, <4>1, Zenon DEF ReadSound
    <3> QED BY <1>4, <2>1, <2>2, <3>1, Zenon DEF ReadSound
  <2>9. InStep'
    <3> SUFFICES ASSUME ~overlapped' PROVE action' = None /\ AtRest'
      BY DEF InStep
    <3>1. AtRest
      BY <1>4, <2>2 DEF InStep, Waits, Finishes
    <3> QED BY <1>4, <2>2, <3>1, Zenon DEF AtRest, Owes, Quiet, Raised
  <2>10. Flags'
    BY <1>1, <1>4, <1>5, <2>1 DEF Flags
  <2>11. Data'
    <3>1. calls' \in Seq(BOOLEAN) /\ Len(calls') <= 2
      <4>1. success \in BOOLEAN
        BY <1>1, Zenon DEF Flags
      <4> QED BY <2>6, <4>1, Calls, Zenon
    <3>2. state' \in Device!States
      BY <2>1, StateNames
    <3> QED BY <1>1, <1>3, <1>4, <1>5, <3>1, <3>2, Zenon DEF Data
  <2> QED BY <1>5, <2>4, <2>5, <2>7, <2>8, <2>9, <2>10, <2>11, TypesSplit
<1>8. CASE Head(queue) \in {"location", "null"}
  <2>1. /\ state' = state /\ callback' = callback /\ success' = success /\ calls' = calls
        /\ locPending' = locPending /\ asked' = FALSE
        /\ locCallback' = (locCallback /\ Head(queue) = "null")
    BY <1>8, Zenon DEF Device!Pump
  <2>2. /\ ~Has(queue', Head(queue))
        /\ Has(queue', "done") <=> Has(queue, "done")
        /\ Has(queue', "first") <=> Has(queue, "first")
        /\ Has(queue', "null") => Has(queue, "null")
        /\ Has(queue', "location") => Has(queue, "location")
    BY <1>3, <1>8 DEF Entries
  <2>3. ~locCallback' /\ ~locPending /\ ~Has(queue', "null") /\ ~Has(queue', "location")
    <3>1. CASE Head(queue) = "location"
      BY <1>3, <2>1, <2>2, <3>1, Zenon DEF QueueSound
    <3>2. CASE Head(queue) = "null"
      BY <1>3, <2>1, <2>2, <3>2, Zenon DEF QueueSound
    <3> QED BY <1>8, <3>1, <3>2
  <2>4. QueueSound'
    BY <1>3, <1>4, <2>1, <2>2, <2>3 DEF QueueSound
  <2>5. ActionSound'
    BY <1>4, <2>1 DEF ActionSound
  <2>6. ToldSound'
    BY <1>4, <2>1, <2>2 DEF ToldSound
  <2>7. ReadSound'
    BY <1>4, <2>1 DEF ReadSound
  <2>8. InStep'
    BY <1>4, <2>1, InStepStays
  <2>9. Flags'
    BY <1>1, <1>4, <1>5, <2>1 DEF Flags
  <2>10. Data'
    BY <1>1, <1>3, <1>4, <1>5, <2>1, Zenon DEF Data
  <2> QED BY <1>5, <2>4, <2>5, <2>6, <2>7, <2>8, <2>9, <2>10, TypesSplit
<1> QED BY <1>3, <1>6, <1>7, <1>8 DEF Entries

LEMMA ReturnKeeps ==
  ASSUME DeviceInv, Device!BlockingReturns
  PROVE  DeviceInv'
<1> USE DEF DeviceInv, Device!None, None
<1>1. Flags /\ Data
  BY TypesSplit
<1>2. /\ blocking' = FALSE
      /\ action' = action /\ state' = state /\ callback' = callback /\ success' = success
      /\ left' = left /\ locCallback' = locCallback /\ locPending' = locPending
      /\ asked' = asked /\ queue' = queue /\ cause' = cause /\ second' = second /\ stream' = stream
      /\ last' = last /\ goal' = goal /\ written' = written /\ calls' = calls /\ pausing' = pausing
      /\ overlapped' = overlapped /\ aborted' = aborted /\ commands' = commands
  BY Zenon DEF Device!BlockingReturns, Device!location, Device!drive, Device!history
<1>3. QueueSound'
  BY <1>2 DEF QueueSound
<1>4. ActionSound'
  BY <1>2 DEF ActionSound
<1>5. ToldSound'
  BY <1>2 DEF ToldSound
<1>6. ReadSound'
  BY <1>2 DEF ReadSound
<1>7. InStep'
  BY <1>2, InStepStays
<1>8. Flags'
  BY <1>1, <1>2 DEF Flags
<1>9. Data'
  BY <1>1, <1>2, Zenon DEF Data
<1> QED BY <1>2, <1>3, <1>4, <1>5, <1>6, <1>7, <1>8, <1>9, TypesSplit

\* The end of an action: its completion is queued behind what is, or it is complete.
LEMMA EndKeeps ==
  ASSUME DeviceInv, action # None, ~aborted, NEW outcome \in BOOLEAN, NEW entries,
         Device!EndAction(outcome, entries),
         \/ entries = << >> /\ locPending' = locPending
         \/ entries = <<"location">> /\ action = "play" /\ locPending /\ locPending' = FALSE,
         cause' = Device!Quiet,
         second' = second, stream' = stream, last' = last, goal' = goal, pausing' = pausing,
         blocking' = blocking, left' = left, locCallback' = locCallback, asked' = asked,
         commands' = commands, written' = written, aborted' = aborted,
         action = "play" /\ outcome => state \in Since,
         action = "read" /\ outcome => left = 0,
         ~overlapped /\ ~Device!Outstanding => stream = None
  PROVE  DeviceInv'
<1> USE DEF DeviceInv, Device!None, None
<1>1. Flags /\ Data
  BY TypesSplit
<1>2. /\ action = last /\ state # "idle" /\ ~Has(queue, "done") /\ action' = None
      /\ overlapped' = (overlapped \/ Device!Outstanding)
  BY Zenon DEF ActionSound, QueueSound, Device!EndAction
<1>3. InStep'
  <2> SUFFICES ASSUME ~overlapped' PROVE action' = None /\ AtRest'
    BY DEF InStep
  <2>1. commands = << >> /\ second = None /\ stream = None
    BY <1>2, Zenon DEF Device!Outstanding
  <2>2. cause' = [is |-> None, of |-> None]
    BY DEF Device!Quiet
  <2> QED BY <1>2, <2>1, <2>2, Zenon DEF AtRest, Owes, Quiet, Raised
<1>4. overlapped' \in BOOLEAN /\ ~aborted' /\ aborted' \in BOOLEAN /\ locPending' \in BOOLEAN
  BY <1>1, <1>2, Zenon DEF Flags
<1>5. cause' \in [is : {None, "ack", "complete", "ready", "end", "error"}, of : Device!Commands \union {None}]
  BY DEF Device!Quiet
<1>6. CASE blocking
  <2>1. /\ callback' = FALSE /\ success' = FALSE /\ state' = "idle" /\ calls' = Append(calls, outcome)
        /\ queue' = queue
    BY <1>6, Zenon DEF Device!EndAction, Device!ActionComplete
  <2>2. last # "play" /\ calls = << >> /\ ~Has(queue, "first") /\ locPending' = locPending
    BY <1>2, <1>6, Zenon DEF ActionSound, ToldSound, QueueSound
  <2>3. calls' = <<outcome>> /\ calls' \in {<<TRUE>>, <<FALSE>>}
    BY <2>1, <2>2, Calls, Zenon
  <2>4. QueueSound'
    BY <1>2, <2>1, <2>2 DEF QueueSound
  <2>5. ActionSound'
    BY <1>2, <2>1, <2>2 DEF ActionSound
  <2>6. ToldSound'
    BY <1>2, <2>1, <2>2, <2>3 DEF ToldSound
  <2>7. ReadSound'
    <3>2. last = "read" /\ calls' = <<TRUE>> => left = 0
      <4>1. calls' = <<TRUE>> => outcome
        BY <2>3, Told, Zenon
      <4> QED BY <1>2, <4>1, Zenon
    <3> QED BY <1>2, <2>1, <3>2, Zenon DEF ReadSound
  <2>8. Flags'
    BY <1>1, <1>4, <2>1 DEF Flags
  <2>9. Data'
    <3>1. calls' \in Seq(BOOLEAN) /\ Len(calls') <= 2
      BY <2>3, Calls, Zenon
    <3>2. state' \in Device!States
      BY <2>1, StateNames
    <3> QED BY <1>1, <1>2, <1>5, <2>1, <3>1, <3>2, Zenon DEF Data
  <2> QED BY <1>3, <1>4, <2>4, <2>5, <2>6, <2>7, <2>8, <2>9, TypesSplit
<1>7. CASE ~blocking
  <2>1. /\ queue' = queue \o entries \o <<"done">> /\ success' = outcome
        /\ callback' = callback /\ state' = state /\ calls' = calls
    BY <1>7, Zenon DEF Device!EndAction
  <2>2. /\ queue' \in Seq(Entries) /\ Once(queue') /\ DoneLast(queue')
        /\ Has(queue', "done")
        /\ Has(queue', "first") <=> Has(queue, "first")
        /\ Has(queue', "null") <=> Has(queue, "null")
        /\ Has(queue', "location") <=> Has(queue, "location") \/ entries # << >>
    <3>1. /\ queue \in Seq(Entries) /\ Once(queue) /\ DoneLast(queue)
          /\ "done" \in Entries /\ "location" \in Entries /\ "first" \in Entries /\ "null" \in Entries
      BY <1>1 DEF Data, QueueSound, Entries
    <3>2. CASE entries = << >>
      <4>1. queue' = Append(queue, "done")
        BY <2>1, <3>1, <3>2
      <4>2. /\ queue' \in Seq(Entries) /\ Once(queue') /\ DoneLast(queue')
            /\ \A x \in Entries : Has(queue', x) <=> Has(queue, x) \/ x = "done"
        BY <1>2, <3>1, <4>1, Appended
      <4> QED BY <3>1, <3>2, <4>2
    <3>3. CASE entries = <<"location">> /\ locPending
      <4> DEFINE q == Append(queue, "location")
      <4>1. q \in Seq(Entries) /\ queue' = Append(q, "done")
        BY <2>1, <3>1, <3>3, AppendProperties
      <4>2. ~Has(queue, "location")
        BY <3>3, Zenon DEF QueueSound
      <4>3. /\ Once(q) /\ DoneLast(q)
            /\ \A x \in Entries : Has(q, x) <=> Has(queue, x) \/ x = "location"
        BY <3>1, <4>2, Appended
      <4> HIDE DEF q
      <4>4. ~Has(q, "done")
        BY <1>2, <3>1, <4>3
      <4>5. /\ queue' \in Seq(Entries) /\ Once(queue') /\ DoneLast(queue')
            /\ \A x \in Entries : Has(queue', x) <=> Has(q, x) \/ x = "done"
        BY <3>1, <4>1, <4>3, <4>4, Appended
      <4> QED BY <3>1, <3>3, <4>3, <4>5
    <3> QED BY <3>2, <3>3
  <2>3. QueueSound'
    <3>1. Has(queue', "location") <=> locCallback /\ ~locPending'
      <4>1. <<"location">> # << >>
        OBVIOUS
      <4>2. CASE entries = << >> /\ locPending' = locPending
        BY <2>2, <4>2 DEF QueueSound
      <4>3. CASE entries = <<"location">> /\ locPending /\ locPending' = FALSE
        BY <2>2, <4>1, <4>3, Zenon DEF QueueSound
      <4> QED BY <4>2, <4>3
    <3>2. locPending' => locCallback
      BY Zenon DEF QueueSound
    <3> QED BY <1>2, <2>1, <2>2, <3>1, <3>2 DEF QueueSound
  <2>4. ActionSound'
    BY <1>2, <2>1 DEF ActionSound
  <2>5. ToldSound'
    BY <1>2, <2>1, <2>2 DEF ToldSound
  <2>6. ReadSound'
    BY <1>2, <2>1 DEF ReadSound
  <2>7. Flags'
    BY <1>1, <1>4, <2>1 DEF Flags
  <2>8. Data'
    <3>1. Len(queue') <= 3
      <4>1. ~(Has(queue', "location") /\ Has(queue', "null"))
        BY <2>2, Zenon DEF QueueSound
      <4> QED BY <2>2, <4>1, AtMostThree
    <3> QED BY <1>1, <1>2, <1>5, <2>1, <2>2, <3>1, Zenon DEF Data
  <2> QED BY <1>3, <1>4, <2>3, <2>4, <2>5, <2>6, <2>7, <2>8, TypesSplit
<1> QED BY <1>6, <1>7

\* The interrupt handler, on an error and at the end of the music.
LEMMA ErrorKeeps ==
  ASSUME DeviceInv, Device!IrqError
  PROVE  DeviceInv'
<1> USE DEF DeviceInv, Device!None, None
<1>1. /\ action # None /\ ~aborted /\ cause.is = "error" /\ cause' = Device!Quiet
      /\ Device!EndAction(FALSE, << >>)
      /\ second' = second /\ stream' = stream /\ last' = last /\ goal' = goal /\ pausing' = pausing
      /\ blocking' = blocking /\ left' = left /\ locCallback' = locCallback /\ asked' = asked
      /\ commands' = commands /\ written' = written /\ aborted' = aborted /\ locPending' = locPending
  BY Zenon DEF Device!IrqError, Device!Taken, Device!Is, Device!location
<1>2. ~overlapped /\ ~Device!Outstanding => stream = None
  <2> SUFFICES ASSUME ~overlapped, commands = << >>, second = None PROVE stream = None
    BY Zenon DEF Device!Outstanding
  <2>1. CASE \E sent \in Device!Commands : Waiting(sent)
    BY <1>1, <2>1 DEF Waiting, Owes, Raised, Quiet
  <2>2. CASE \E sent \in Device!Commands : Finishing(sent)
    BY <1>1, <2>2 DEF Finishing, Owes, Raised, Quiet, Device!Commands
  <2>3. CASE Reading
    BY <1>1, <2>3 DEF Reading, Owes, Raised, Quiet
  <2>4. CASE Listening
    BY <1>1, <2>4 DEF Listening, Raised, Quiet
  <2> QED BY <1>1, <2>1, <2>2, <2>3, <2>4, Zenon DEF InStep
<1> QED BY <1>1, <1>2, EndKeeps, Zenon

LEMMA EndOfMusicKeeps ==
  ASSUME DeviceInv, Device!IrqEnd
  PROVE  DeviceInv'
<1> USE DEF DeviceInv, Device!None, None
<1>1. Flags /\ Data
  BY TypesSplit
<1>2. /\ action = "play" /\ ~aborted /\ cause.is = "end" /\ cause' = Device!Quiet
      /\ second' = second /\ stream' = stream /\ last' = last /\ goal' = goal /\ pausing' = pausing
      /\ blocking' = blocking /\ left' = left /\ locCallback' = locCallback /\ asked' = asked
      /\ commands' = commands /\ written' = written /\ aborted' = aborted
      /\ state \in {"PLAYING", "STOPPING"}
  BY Zenon DEF Device!IrqEnd, Device!Taken, Device!Is
<1>3. CASE state = "STOPPING"
  <2>1. /\ action' = action /\ state' = state /\ callback' = callback /\ success' = success /\ calls' = calls
        /\ queue' = queue /\ locPending' = locPending /\ overlapped' = overlapped
    BY <1>3, Zenon DEF Device!IrqEnd
  <2>2. QueueSound' /\ ActionSound' /\ ToldSound' /\ ReadSound'
    <3>1. QueueSound'
      BY <1>2, <2>1 DEF QueueSound
    <3>2. ActionSound'
      BY <1>2, <2>1 DEF ActionSound
    <3>3. ToldSound'
      BY <1>2, <2>1 DEF ToldSound
    <3>4. ReadSound'
      BY <1>2, <2>1 DEF ReadSound
    <3> QED BY <3>1, <3>2, <3>3, <3>4
  <2>3. Flags'
    BY <1>1, <1>2, <2>1 DEF Flags
  <2>4. Data'
    <3>1. cause' \in [is : {None, "ack", "complete", "ready", "end", "error"}, of : Device!Commands \union {None}]
      BY <1>2 DEF Device!Quiet
    <3> QED BY <1>1, <1>2, <2>1, <3>1, Zenon DEF Data
  <2>5. InStep'
    <3> SUFFICES ASSUME ~overlapped' PROVE InStep'
      BY DEF InStep
    <3>1. PICK sent \in Device!Commands : <<action, state, sent>> \in Waits /\ Waiting(sent)
      BY <1>2, <1>3, <2>1 DEF InStep, Finishes
    <3>2. Owes(<<sent>>, None) /\ stream \in {"music", None}
      BY <1>2, <1>3, <3>1 DEF Waiting, Raised
    <3>3. Waiting(sent)'
      <4>1. Quiet'
        BY <1>2 DEF Quiet, Raised, Device!Quiet
      <4> QED BY <1>2, <1>3, <2>1, <3>2, <4>1, Zenon DEF Waiting, Owes
    <3> QED BY <2>1, <3>1, <3>3, Zenon DEF InStep
  <2> QED BY <1>2, <2>1, <2>2, <2>3, <2>4, <2>5, TypesSplit
<1>4. CASE state = "PLAYING"
  <2>1. locPending' = FALSE /\ Device!EndAction(TRUE, IF locPending THEN <<"location">> ELSE << >>)
    BY <1>4 DEF Device!IrqEnd
  <2>2. ~overlapped => stream = None
    <3> SUFFICES ASSUME ~overlapped PROVE stream = None
      OBVIOUS
    <3>1. Listening
      BY <1>2, <1>4 DEF InStep, Waits, Finishes
    <3> QED BY <1>2, <3>1 DEF Listening, Raised, Quiet
  <2>3. state \in Since /\ action # None /\ action # "read"
    BY <1>2, <1>4 DEF Since
  <2>4. CASE locPending
    <3>1. Device!EndAction(TRUE, <<"location">>)
      BY <2>1, <2>4, Zenon
    <3> QED BY <1>2, <2>1, <2>2, <2>3, <2>4, <3>1, EndKeeps, Zenon
  <2>5. CASE ~locPending
    <3>1. Device!EndAction(TRUE, << >>) /\ locPending' = locPending
      BY <1>1, <2>1, <2>5, Zenon DEF Flags
    <3> QED BY <1>2, <2>2, <2>3, <3>1, EndKeeps, Zenon
  <2> QED BY <2>4, <2>5
<1> QED BY <1>2, <1>3, <1>4

\* A sector: the last one sends the pause.
LEMMA SectorKeeps ==
  ASSUME DeviceInv, Device!IrqSector
  PROVE  DeviceInv'
<1> USE DEF DeviceInv, Device!None, None
<1>1. Flags /\ Data
  BY TypesSplit
<1>2. /\ action = "read" /\ ~aborted /\ cause.is = "ready" /\ cause' = Device!Quiet
      /\ second' = second /\ stream' = stream /\ last' = last /\ goal' = goal /\ pausing' = pausing
      /\ blocking' = blocking /\ locCallback' = locCallback /\ locPending' = locPending /\ asked' = asked
      /\ action' = action /\ callback' = callback /\ success' = success /\ queue' = queue /\ calls' = calls
      /\ overlapped' = overlapped /\ aborted' = aborted
      /\ state \in {"READ_ACK", "PAUSE", "PAUSE_ACK"}
  BY Zenon DEF Device!IrqSector, Device!Taken, Device!Is, Device!location
<1>3. IF state = "READ_ACK"
        THEN /\ written' = written + 1 /\ left' = left - 1
             /\ state' = IF left = 1 THEN "PAUSE" ELSE state
             /\ commands' = IF left = 1 THEN Append(commands, "PAUSE") ELSE commands
        ELSE written' = written /\ left' = left /\ state' = state /\ commands' = commands
  BY DEF Device!IrqSector
<1>4. left \in Nat /\ goal \in Nat /\ written \in Nat /\ (state = "READ_ACK" => left # 0) /\ last = "read"
  BY <1>1, <1>2 DEF Data, ReadSound, ActionSound
<1>5. state' \in {"READ_ACK", "PAUSE", "PAUSE_ACK"}
  BY <1>2, <1>3
<1>6. QueueSound'
  BY <1>2, <1>5 DEF QueueSound
<1>7. ActionSound'
  BY <1>2, <1>5 DEF ActionSound, ReadStates
<1>8. ToldSound'
  BY <1>2, <1>5 DEF ToldSound
<1>9. ReadSound'
  <2>1. written' \in Nat /\ written' + left' = goal' /\ (left' = 0 <=> state' \in {"PAUSE", "PAUSE_ACK"})
    <3>1. CASE state = "READ_ACK"
      BY <1>2, <1>3, <1>4, <3>1 DEF ReadSound
    <3>2. CASE state # "READ_ACK"
      BY <1>2, <1>3, <1>4, <3>2 DEF ReadSound
    <3> QED BY <3>1, <3>2
  <2>2. calls' # <<TRUE>> /\ action' # None
    <3>1. <<TRUE>> # << >>
      OBVIOUS
    <3> QED BY <1>2, <1>4, <3>1 DEF ToldSound
  <2> QED BY <1>2, <1>4, <2>1, <2>2, Zenon DEF ReadSound
<1>10. Flags'
  BY <1>1, <1>2 DEF Flags
<1>11. Data'
  <2>1. cause' \in [is : {None, "ack", "complete", "ready", "end", "error"}, of : Device!Commands \union {None}]
    BY <1>2 DEF Device!Quiet
  <2>2. commands' \in Seq(Device!Commands)
    <3>1. commands \in Seq(Device!Commands) /\ "PAUSE" \in Device!Commands
      BY <1>1 DEF Data, Device!Commands
    <3>2. Append(commands, "PAUSE") \in Seq(Device!Commands)
      BY <3>1, AppendProperties, Zenon
    <3> QED BY <1>3, <3>1, <3>2, Zenon
  <2>3. left' \in 0 .. goal'
    BY <1>1, <1>2, <1>3, <1>4 DEF Data
  <2>4. state' \in Device!States
    BY <1>5, StateNames DEF ReadStates
  <2> QED BY <1>1, <1>2, <2>1, <2>2, <2>3, <2>4, Zenon DEF Data
<1>12. InStep'
  <2> SUFFICES ASSUME ~overlapped PROVE InStep'
    BY <1>2 DEF InStep
  <2>1. Quiet'
    BY <1>2 DEF Quiet, Raised, Device!Quiet
  <2>2. CASE state = "READ_ACK"
    <3>1. commands = << >> /\ second = None /\ stream = "sectors"
      <4>1. Reading
        BY <1>2, <2>2 DEF InStep, Waits, Finishes
      <4> QED BY <1>2, <4>1 DEF Reading, Owes, Raised
    <3>2. CASE left = 1
      <4>1. state' = "PAUSE" /\ commands' = <<"PAUSE">>
        BY <1>3, <2>2, <3>1, <3>2
      <4>2. Waiting("PAUSE")'
        BY <1>2, <2>1, <3>1, <4>1, Zenon DEF Waiting, Owes
      <4>3. "PAUSE" \in Device!Commands /\ <<action', state', "PAUSE">> \in Waits
        BY <1>2, <4>1 DEF Device!Commands, Waits
      <4> QED BY <4>2, <4>3, Zenon DEF InStep
    <3>3. CASE left # 1
      <4>1. state' = state /\ commands' = commands
        BY <1>3, <2>2, <3>3
      <4>2. Reading'
        BY <1>2, <2>1, <3>1, <4>1, Zenon DEF Reading, Owes
      <4> QED BY <1>2, <2>2, <4>1, <4>2, Zenon DEF InStep
    <3> QED BY <3>2, <3>3
  <2>3. CASE state = "PAUSE"
    <3>1. /\ "PAUSE" \in Device!Commands /\ <<action', state', "PAUSE">> \in Waits
          /\ Owes(<<"PAUSE">>, None) /\ stream = "sectors"
      BY <1>2, <1>3, <2>3 DEF InStep, Waits, Finishes, Waiting, Raised, Device!Commands
    <3>2. Waiting("PAUSE")'
      BY <1>2, <1>3, <2>1, <2>3, <3>1, Zenon DEF Waiting, Owes
    <3> QED BY <3>1, <3>2, Zenon DEF InStep
  <2>4. CASE state = "PAUSE_ACK"
    <3>1. /\ "PAUSE" \in Device!Commands /\ <<action', state', "PAUSE">> \in Finishes
          /\ Owes(<< >>, "PAUSE") /\ stream = "sectors"
      BY <1>2, <1>3, <2>4 DEF InStep, Waits, Finishes, Finishing, Raised, Device!Commands
    <3>2. Finishing("PAUSE")'
      BY <1>2, <1>3, <2>1, <2>4, <3>1, Zenon DEF Finishing, Owes
    <3> QED BY <3>1, <3>2, Zenon DEF InStep
  <2> QED BY <1>2, <2>2, <2>3, <2>4
<1> QED BY <1>2, <1>6, <1>7, <1>8, <1>9, <1>10, <1>11, <1>12, TypesSplit

\* The place of the head.
LEMMA HeadKeeps ==
  ASSUME DeviceInv, Device!IrqLocation
  PROVE  DeviceInv'
<1> USE DEF DeviceInv, Device!None, None
<1>1. Flags /\ Data
  BY TypesSplit
<1>2. /\ action = "play" /\ state = "PLAYING" /\ ~aborted /\ cause.of = "GETLOCP" /\ cause' = Device!Quiet
      /\ cause.is = "ack" /\ second' = second /\ stream' = stream /\ last' = last /\ goal' = goal /\ pausing' = pausing
      /\ blocking' = blocking /\ locCallback' = locCallback /\ asked' = asked
      /\ action' = action /\ state' = state /\ callback' = callback /\ success' = success /\ calls' = calls
      /\ left' = left /\ written' = written /\ commands' = commands
      /\ overlapped' = overlapped /\ aborted' = aborted
      /\ locPending /\ locPending' = FALSE /\ queue' = Append(queue, "location")
  BY Zenon DEF Device!IrqLocation, Device!Taken, Device!InPlay, Device!Is, Device!device
<1>3. /\ queue' \in Seq(Entries) /\ Once(queue') /\ DoneLast(queue')
      /\ \A x \in Entries : Has(queue', x) <=> Has(queue, x) \/ x = "location"
  <2>1. /\ queue \in Seq(Entries) /\ "location" \in Entries /\ Once(queue) /\ DoneLast(queue)
        /\ ~Has(queue, "location")
    BY <1>1, <1>2 DEF Data, Entries, QueueSound
  <2> QED BY <1>2, <2>1, Appended
<1>4. /\ Has(queue', "location") /\ locCallback /\ ~Has(queue', "null")
      /\ Has(queue', "done") <=> Has(queue, "done")
      /\ Has(queue', "first") <=> Has(queue, "first")
  BY <1>2, <1>3 DEF Entries, QueueSound
<1>5. QueueSound'
  BY <1>2, <1>3, <1>4 DEF QueueSound
<1>6. ActionSound'
  BY <1>2 DEF ActionSound
<1>7. ToldSound'
  BY <1>2, <1>4 DEF ToldSound
<1>8. ReadSound'
  BY <1>2 DEF ReadSound
<1>9. InStep'
  <2> SUFFICES ASSUME ~overlapped PROVE InStep'
    BY <1>2 DEF InStep
  <2>1. Quiet'
    BY <1>2 DEF Quiet, Raised, Device!Quiet
  <2>2. Listening
    BY <1>2 DEF InStep, Waits, Finishes
  <2>3. stream = "music" /\ commands = << >> /\ second = None
    BY <1>2, <2>2 DEF Listening, Raised, Quiet
  <2>4. Listening'
    BY <1>2, <2>1, <2>3, Zenon DEF Listening
  <2> QED BY <1>2, <2>4, Zenon DEF InStep
<1>10. Flags'
  BY <1>1, <1>2 DEF Flags
<1>11. Data'
  <2>1. cause' \in [is : {None, "ack", "complete", "ready", "end", "error"}, of : Device!Commands \union {None}]
    BY <1>2 DEF Device!Quiet
  <2>2. Len(queue') <= 3
    BY <1>3, <1>4, AtMostThree
  <2> QED BY <1>1, <1>2, <1>3, <2>1, <2>2, Zenon DEF Data
<1> QED BY <1>2, <1>5, <1>6, <1>7, <1>8, <1>9, <1>10, <1>11, TypesSplit

\* The table of replies: where each one leads, and what the drive is then asked for.
LEMMA Advances ==
  ASSUME NEW reply \in Device!Replies, reply.to # "done", reply.key = <<action, cause.is, state>>
  PROVE  /\ reply.to \in Device!States \ {"idle"} /\ reply.send \in Seq(Device!Commands)
         /\ action = "read" => reply.to \in ReadStates /\ (reply.to \in {"PAUSE", "PAUSE_ACK"} <=> state = "PAUSE")
         /\ action = "play" => reply.to \in Before \union Since
         /\ action = "play" => (reply.to \in Since <=> reply.to = "PLAYING" \/ state \in Since)
         /\ reply.to = "PLAYING" => action = "play" /\ state = "PLAY"
         /\ reply.to \in {"STOPPING", "STOPPING_ACK"} => state = "STOPPING"
<1> USE DEF Device!Replies, Device!ResetReplies, Device!TestReplies, Device!GetTNReplies,
            Device!ReadReplies, Device!PlayReplies, Device!On, Device!Ends
<1>1. reply.to \in Device!States \ {"idle"}
  BY StateNames DEF ReadStates, Before, Since
<1>2. reply.send \in Seq(Device!Commands)
  <2>1. reply.send = << >> \/ \E c \in Device!Commands : reply.send = <<c>>
    BY DEF Device!Commands
  <2>2. \A c \in Device!Commands : <<c>> \in Seq(Device!Commands)
    BY Told
  <2> QED BY <2>1, <2>2, EmptySeq, Zenon
<1>3. action = "read" => reply.to \in ReadStates /\ (reply.to \in {"PAUSE", "PAUSE_ACK"} <=> state = "PAUSE")
  BY DEF ReadStates
<1>4. /\ action = "play" => reply.to \in Before \union Since
      /\ action = "play" => (reply.to \in Since <=> reply.to = "PLAYING" \/ state \in Since)
  BY DEF Before, Since
<1>5. /\ reply.to = "PLAYING" => action = "play" /\ state = "PLAY"
      /\ reply.to \in {"STOPPING", "STOPPING_ACK"} => state = "STOPPING"
  OBVIOUS
<1> QED BY <1>1, <1>2, <1>3, <1>4, <1>5, Zenon

\* The acknowledgement of a command leads to the wait for its completion, to the next
\* command, or to what the drive does by itself.
Forward(reply, sent) ==
  \/ /\ sent \in Twice /\ <<action, reply.to, sent>> \in Finishes /\ reply.send = << >>
     /\ state = "PAUSE" <=> reply.to = "PAUSE_ACK"
     /\ state \notin {"READ", "PLAY"}
  \/ /\ sent \notin Twice /\ state \notin {"READ", "PAUSE", "PLAY"} /\ reply.to \notin {"PAUSE", "STOPPING"}
     /\ \E next \in Device!Commands : reply.send = <<next>> /\ <<action, reply.to, next>> \in Waits
  \/ sent \notin Twice /\ action = "read" /\ state = "READ" /\ reply.to = "READ_ACK" /\ reply.send = << >>
  \/ sent \notin Twice /\ action = "play" /\ state = "PLAY" /\ reply.to = "PLAYING" /\ reply.send = << >>

LEMMA AdvancesDrive ==
  ASSUME NEW reply \in Device!Replies, reply.to # "done", NEW sent, reply.key = <<action, cause.is, state>>
  PROVE  /\ cause.is = "ack" /\ <<action, state, sent>> \in Waits => Forward(reply, sent)
         /\ cause.is = "complete" =>
              action = "play" /\ state = "SEEK_ACK" /\ reply.to = "PLAY" /\ reply.send = <<"PLAY">>
         /\ cause.is \in {"ack", "complete"} /\ state # "PLAYING"
<1> USE DEF Device!Replies, Device!ResetReplies, Device!TestReplies, Device!GetTNReplies,
            Device!ReadReplies, Device!PlayReplies, Device!On, Device!Ends
<1>1. ASSUME cause.is = "ack", <<action, state, sent>> \in Waits PROVE Forward(reply, sent)
  BY <1>1 DEF Forward, Waits, Finishes, Twice, Device!Commands
<1>2. cause.is = "complete" =>
        action = "play" /\ state = "SEEK_ACK" /\ reply.to = "PLAY" /\ reply.send = <<"PLAY">>
  OBVIOUS
<1>3. cause.is \in {"ack", "complete"} /\ state # "PLAYING"
  OBVIOUS
<1> QED BY <1>1, <1>2, <1>3, Zenon

\* Where each action ends.
LEMMA Ending ==
  ASSUME NEW reply \in Device!Replies, reply.to = "done", reply.key = <<action, cause.is, state>>
  PROVE  /\ cause.is = "complete" \/ (cause.is = "ack" /\ action \in {"test", "getTN"} /\ state \in {"TEST", "GETTN"})
         /\ action = "play" => state = "STOPPING_ACK"
         /\ action = "read" => state = "PAUSE_ACK"
BY DEF Device!Replies, Device!ResetReplies, Device!TestReplies, Device!GetTNReplies,
       Device!ReadReplies, Device!PlayReplies, Device!On, Device!Ends

LEMMA ReplyKeeps ==
  ASSUME DeviceInv, Device!IrqReply
  PROVE  DeviceInv'
<1> USE DEF DeviceInv, Device!None, None
<1>1. Flags /\ Data
  BY TypesSplit
<1>2. /\ ~aborted /\ cause' = Device!Quiet
      /\ second' = second /\ stream' = stream /\ last' = last /\ goal' = goal /\ pausing' = pausing
      /\ blocking' = blocking /\ left' = left /\ asked' = asked /\ locCallback' = locCallback
      /\ locPending' = locPending /\ written' = written /\ aborted' = aborted
  BY Zenon DEF Device!IrqReply, Device!Taken, Device!location
<1>3. PICK reply \in Device!Replies :
        /\ reply.key = <<action, cause.is, state>>
        /\ IF reply.to = "done"
             THEN Device!EndAction(TRUE, << >>) /\ commands' = commands
             ELSE /\ state' = reply.to
                  /\ commands' = commands \o reply.send
                  /\ queue' = IF reply.to = "PLAYING" THEN Append(queue, "first") ELSE queue
                  /\ action' = action /\ callback' = callback /\ success' = success /\ calls' = calls
                  /\ overlapped' = overlapped
  BY Zenon DEF Device!IrqReply, Device!Key
<1>4. action # None /\ action = last /\ state # "idle"
  <2>1. action # None
    BY <1>3 DEF Device!Replies, Device!ResetReplies, Device!TestReplies, Device!GetTNReplies,
                Device!ReadReplies, Device!PlayReplies, Device!On, Device!Ends
  <2> QED BY <2>1, Zenon DEF ActionSound, QueueSound
<1>5. CASE reply.to = "done"
  <2>1. /\ cause.is = "complete" \/ (cause.is = "ack" /\ action \in {"test", "getTN"} /\ state \in {"TEST", "GETTN"})
        /\ action = "play" => state = "STOPPING_ACK"
        /\ action = "read" => state = "PAUSE_ACK"
    BY <1>3, <1>5, Ending
  <2>2. ~overlapped => stream = None
    <3> SUFFICES ASSUME ~overlapped PROVE stream = None
      OBVIOUS
    <3>1. CASE \E sent \in Device!Commands : Waiting(sent)
      BY <2>1, <3>1 DEF Waiting, Raised, Quiet
    <3>2. CASE \E sent \in Device!Commands : Finishing(sent)
      BY <2>1, <3>2 DEF Finishing, Raised, Quiet
    <3>3. ~(action = "read" /\ state = "READ_ACK" /\ Reading) /\ ~(action = "play" /\ state = "PLAYING" /\ Listening)
      BY <2>1
    <3> QED BY <1>4, <3>1, <3>2, <3>3, Zenon DEF InStep
  <2>3. action = "play" => state \in Since
    BY <2>1 DEF Since
  <2>4. action = "read" => left = 0
    BY <2>1 DEF ReadSound
  <2>5. Device!EndAction(TRUE, << >>) /\ commands' = commands /\ TRUE \in BOOLEAN
    BY <1>3, <1>5, Zenon
  <2> QED BY <1>2, <1>4, <2>2, <2>3, <2>4, <2>5, EndKeeps, Zenon
<1>6. CASE reply.to # "done"
  <2>0. reply.key = <<action, cause.is, state>>
    BY <1>3, Zenon
  <2>1. /\ state' = reply.to /\ commands' = commands \o reply.send
        /\ queue' = IF reply.to = "PLAYING" THEN Append(queue, "first") ELSE queue
        /\ action' = action /\ callback' = callback /\ success' = success /\ calls' = calls
        /\ overlapped' = overlapped
    BY <1>3, <1>6, Zenon
  <2>2. /\ reply.to \in Device!States \ {"idle"} /\ reply.send \in Seq(Device!Commands)
        /\ action = "read" => reply.to \in ReadStates /\ (reply.to \in {"PAUSE", "PAUSE_ACK"} <=> state = "PAUSE")
        /\ action = "play" => reply.to \in Before \union Since
        /\ action = "play" => (reply.to \in Since <=> reply.to = "PLAYING" \/ state \in Since)
        /\ reply.to = "PLAYING" => action = "play" /\ state = "PLAY"
        /\ reply.to \in {"STOPPING", "STOPPING_ACK"} => state = "STOPPING"
    BY <1>6, <2>0, Advances, Zenon
  <2>3. /\ queue' \in Seq(Entries) /\ Once(queue') /\ DoneLast(queue')
        /\ Has(queue', "done") <=> Has(queue, "done")
        /\ Has(queue', "location") <=> Has(queue, "location")
        /\ Has(queue', "null") <=> Has(queue, "null")
        /\ Has(queue', "first") <=> Has(queue, "first") \/ reply.to = "PLAYING"
        /\ reply.to = "PLAYING" => last = "play" /\ calls = << >>
    <3>1. queue \in Seq(Entries) /\ Once(queue) /\ DoneLast(queue)
      BY <1>1 DEF Data, QueueSound
    <3>2. CASE reply.to = "PLAYING"
      <4>1. last = "play" /\ calls = << >> /\ ~Has(queue, "first")
        <5>1. action = "play" /\ state \notin Since
          BY <2>2, <3>2 DEF Since
        <5> QED BY <1>4, <5>1 DEF ToldSound
      <4>2. ~Has(queue, "done")
        BY <1>4, Zenon DEF QueueSound
      <4>3. "first" \in Entries /\ "done" \in Entries /\ "location" \in Entries /\ "null" \in Entries
        BY DEF Entries
      <4>4. /\ queue' \in Seq(Entries) /\ Once(queue') /\ DoneLast(queue')
            /\ \A x \in Entries : Has(queue', x) <=> Has(queue, x) \/ x = "first"
        BY <2>1, <3>1, <3>2, <4>1, <4>2, <4>3, Appended
      <4> QED BY <3>2, <4>1, <4>3, <4>4
    <3>3. CASE reply.to # "PLAYING"
      BY <2>1, <3>1, <3>3, Zenon
    <3> QED BY <3>2, <3>3
  <2>4. QueueSound'
    BY <1>2, <1>4, <2>1, <2>2, <2>3 DEF QueueSound
  <2>5. ActionSound'
    <3>1. state' \in {"STOPPING", "STOPPING_ACK"} => pausing'
      BY <1>2, <2>1, <2>2 DEF ActionSound
    <3> QED BY <1>2, <1>4, <2>1, <2>2, <3>1 DEF ActionSound
  <2>6. ToldSound'
    BY <1>2, <1>4, <2>1, <2>2, <2>3 DEF ToldSound
  <2>7. ReadSound'
    <3>1. action = "read" => (left = 0 <=> state' \in {"PAUSE", "PAUSE_ACK"})
      <4>1. action = "read" => state # "PAUSE_ACK"
        BY <1>3, <1>6 DEF Device!Replies, Device!ResetReplies, Device!TestReplies, Device!GetTNReplies,
                Device!ReadReplies, Device!PlayReplies, Device!On, Device!Ends
      <4> QED BY <2>1, <2>2, <4>1 DEF ReadSound
    <3> QED BY <1>2, <1>4, <2>1, <3>1 DEF ReadSound
  <2>8. Flags'
    BY <1>1, <1>2, <2>1 DEF Flags
  <2>9. Data'
    <3>1. commands' \in Seq(Device!Commands)
      BY <1>1, <2>1, <2>2, ConcatProperties DEF Data
    <3>2. Len(queue') <= 3
      <4>1. ~(Has(queue', "location") /\ Has(queue', "null"))
        BY <2>3, Zenon DEF QueueSound
      <4> QED BY <2>3, <4>1, AtMostThree
    <3>3. cause' \in [is : {None, "ack", "complete", "ready", "end", "error"}, of : Device!Commands \union {None}]
      BY <1>2 DEF Device!Quiet
    <3>4. state' \in Device!States
      BY <2>1, <2>2
    <3> QED BY <1>1, <1>2, <2>1, <2>3, <3>1, <3>2, <3>3, <3>4, Zenon DEF Data
  <2>10. InStep'
    <3> SUFFICES ASSUME ~overlapped PROVE InStep'
      BY <2>1 DEF InStep
    <3>1. Quiet'
      BY <1>2 DEF Quiet, Raised, Device!Quiet
    <3>2. /\ cause.is \in {"ack", "complete"} /\ state # "PLAYING"
          /\ cause.is = "complete" => action = "play" /\ state = "SEEK_ACK" /\ reply.to = "PLAY" /\ reply.send = <<"PLAY">>
      BY <1>6, <2>0, AdvancesDrive
    <3>3. CASE \E sent \in Device!Commands : <<action, state, sent>> \in Waits /\ Waiting(sent)
      <4>1. PICK sent \in Device!Commands : <<action, state, sent>> \in Waits /\ Waiting(sent)
        BY <3>3
      <4>2. cause.is = "ack"
        BY <3>2, <4>1 DEF Waits
      <4>3. /\ commands = << >> /\ second = IF sent \in Twice THEN sent ELSE None
            /\ stream = IF state \in {"READ", "PAUSE"} THEN "sectors" ELSE IF state = "PLAY" THEN "music" ELSE None
        BY <4>1, <4>2 DEF Waiting, Owes, Raised, Quiet
      <4>4. commands' = reply.send
        BY <2>1, <2>2, <4>3
      <4>5. CASE /\ sent \in Twice /\ <<action, reply.to, sent>> \in Finishes /\ reply.send = << >>
                 /\ state = "PAUSE" <=> reply.to = "PAUSE_ACK"
                 /\ state \notin {"READ", "PLAY"}
        <5>1. Owes(<< >>, sent)' /\ stream' = IF state' = "PAUSE_ACK" THEN "sectors" ELSE None
          BY <1>2, <2>1, <4>3, <4>4, <4>5 DEF Owes
        <5>2. Finishing(sent)'
          BY <3>1, <5>1, Zenon DEF Finishing
        <5> QED BY <2>1, <4>5, <5>2, Zenon DEF InStep
      <4>6. CASE /\ sent \notin Twice /\ state \notin {"READ", "PAUSE", "PLAY"} /\ reply.to \notin {"PAUSE", "STOPPING"}
                 /\ \E next \in Device!Commands : reply.send = <<next>> /\ <<action, reply.to, next>> \in Waits
        <5>1. PICK next \in Device!Commands : reply.send = <<next>> /\ <<action, reply.to, next>> \in Waits
          BY <4>6
        <5>2. Owes(<<next>>, None)' /\ stream' = None /\ state' \notin {"PAUSE", "STOPPING"}
          BY <1>2, <2>1, <4>3, <4>4, <4>6, <5>1 DEF Owes
        <5>3. Waiting(next)'
          BY <3>1, <5>2, Zenon DEF Waiting
        <5> QED BY <2>1, <5>1, <5>3, Zenon DEF InStep
      <4>7. CASE /\ sent \notin Twice /\ action = "read" /\ state = "READ" /\ reply.to = "READ_ACK"
                 /\ reply.send = << >>
        <5>1. Owes(<< >>, None)' /\ stream' = "sectors"
          BY <1>2, <4>3, <4>4, <4>7 DEF Owes
        <5> QED BY <2>1, <3>1, <4>7, <5>1, Zenon DEF InStep, Reading
      <4>8. CASE /\ sent \notin Twice /\ action = "play" /\ state = "PLAY" /\ reply.to = "PLAYING"
                 /\ reply.send = << >>
        <5>1. commands' = << >> /\ second' = None /\ stream' = "music"
          BY <1>2, <4>3, <4>4, <4>8
        <5> QED BY <2>1, <3>1, <4>8, <5>1, Zenon DEF InStep, Listening
      <4>9. Forward(reply, sent)
        BY <1>6, <2>0, <4>1, <4>2, AdvancesDrive
      <4> QED BY <4>5, <4>6, <4>7, <4>8, <4>9, Zenon DEF Forward
    <3>4. CASE \E sent \in Device!Commands : <<action, state, sent>> \in Finishes /\ Finishing(sent)
      <4>1. PICK sent \in Device!Commands : <<action, state, sent>> \in Finishes /\ Finishing(sent)
        BY <3>4
      <4>2. commands = << >> /\ second = None /\ stream = None /\ cause.is = "complete"
        BY <3>2, <4>1 DEF Finishing, Owes, Raised, Quiet
      <4>3. commands' = <<"PLAY">> /\ state' = "PLAY" /\ action' = "play"
        BY <2>1, <3>2, <4>2
      <4>4. Waiting("PLAY")'
        BY <1>2, <3>1, <4>2, <4>3 DEF Waiting, Owes
      <4>5. "PLAY" \in Device!Commands /\ <<action', state', "PLAY">> \in Waits
        BY <4>3 DEF Device!Commands, Waits
      <4> QED BY <4>4, <4>5, Zenon DEF InStep
    <3>5. ~(action = "read" /\ state = "READ_ACK" /\ Reading)
      BY <3>2 DEF Reading, Raised, Quiet
    <3> QED BY <1>4, <3>2, <3>3, <3>4, <3>5, Zenon DEF InStep
  <2> QED BY <1>2, <2>1, <2>4, <2>5, <2>6, <2>7, <2>8, <2>9, <2>10, TypesSplit
<1> QED BY <1>5, <1>6

\* Every state that waits for the drive expects what the drive then says.
LEMMA Answered ==
  ASSUME NEW sent
  PROVE  /\ <<action, state, sent>> \in Waits => \E reply \in Device!Replies : reply.key = <<action, "ack", state>>
         /\ <<action, state, sent>> \in Finishes =>
              \E reply \in Device!Replies : reply.key = <<action, "complete", state>>
BY DEF Waits, Finishes, Device!Replies, Device!ResetReplies, Device!TestReplies, Device!GetTNReplies,
       Device!ReadReplies, Device!PlayReplies, Device!On, Device!Ends

\* An interrupt nothing waits for comes only after an overlap.
LEMMA AbortsKeep ==
  ASSUME DeviceInv, Device!IrqAborts
  PROVE  DeviceInv'
<1> USE DEF DeviceInv, Device!None, None
<1>1. Flags /\ Data
  BY TypesSplit
<1>2. /\ cause.is # None /\ cause' = Device!Quiet /\ aborted' = TRUE
      /\ second' = second /\ stream' = stream /\ last' = last /\ goal' = goal /\ pausing' = pausing
      /\ blocking' = blocking /\ left' = left /\ asked' = asked /\ locCallback' = locCallback
      /\ locPending' = locPending /\ written' = written /\ commands' = commands /\ queue' = queue
      /\ action' = action /\ state' = state /\ callback' = callback /\ success' = success /\ calls' = calls
      /\ overlapped' = overlapped
  BY Zenon DEF Device!IrqAborts, Device!Taken, Device!Is, Device!device, Device!location
<1>3. /\ ~ \E reply \in Device!Replies : reply.key = <<action, cause.is, state>>
      /\ ~(cause.is = "ready" /\ action = "read" /\ state \in {"READ_ACK", "PAUSE", "PAUSE_ACK"})
      /\ ~(cause.is = "ack" /\ action = "play" /\ state = "PLAYING" /\ cause.of = "GETLOCP" /\ locPending)
      /\ ~(cause.is = "end" /\ action = "play" /\ state \in {"PLAYING", "STOPPING"})
      /\ ~(cause.is = "error" /\ action # None)
  BY Zenon DEF Device!IrqAborts, Device!Is, Device!Expected, Device!Key, Device!InPlay
<1>4. overlapped
  <2> SUFFICES ASSUME ~overlapped PROVE FALSE
    OBVIOUS
  <2>1. CASE AtRest
    BY <1>2, <2>1 DEF AtRest, Quiet, Raised
  <2>2. CASE \E sent \in Device!Commands : <<action, state, sent>> \in Waits /\ Waiting(sent)
    <3>1. PICK sent \in Device!Commands : <<action, state, sent>> \in Waits /\ Waiting(sent)
      BY <2>2
    <3>2. cause.is # "ack"
      BY <1>3, <3>1, Answered, Zenon
    <3>3. action # None /\ (state = "PAUSE" => action = "read") /\ (state = "STOPPING" => action = "play")
      BY <3>1 DEF Waits
    <3> QED BY <1>2, <1>3, <3>1, <3>2, <3>3 DEF Waiting, Quiet, Raised
  <2>3. CASE \E sent \in Device!Commands : <<action, state, sent>> \in Finishes /\ Finishing(sent)
    <3>1. PICK sent \in Device!Commands : <<action, state, sent>> \in Finishes /\ Finishing(sent)
      BY <2>3
    <3>2. cause.is # "complete"
      BY <1>3, <3>1, Answered, Zenon
    <3>3. state = "PAUSE_ACK" => action = "read"
      BY <3>1 DEF Finishes
    <3> QED BY <1>2, <1>3, <3>1, <3>2, <3>3 DEF Finishing, Quiet, Raised
  <2>4. ~(action = "read" /\ state = "READ_ACK" /\ Reading)
    BY <1>2, <1>3 DEF Reading, Quiet, Raised
  <2>5. ~(action = "play" /\ state = "PLAYING" /\ Listening)
    BY <1>2, <1>3 DEF Listening, Quiet, Raised
  <2> QED BY <2>1, <2>2, <2>3, <2>4, <2>5, Zenon DEF InStep
<1>5. QueueSound'
  BY <1>2 DEF QueueSound
<1>6. ActionSound'
  BY <1>2 DEF ActionSound
<1>7. ToldSound'
  BY <1>2 DEF ToldSound
<1>8. ReadSound'
  BY <1>2 DEF ReadSound
<1>9. InStep'
  BY <1>2, <1>4, Zenon DEF InStep
<1>10. Flags'
  BY <1>1, <1>2 DEF Flags
<1>11. Data'
  <2>1. cause' \in [is : {None, "ack", "complete", "ready", "end", "error"}, of : Device!Commands \union {None}]
    BY <1>2 DEF Device!Quiet
  <2> QED BY <1>1, <1>2, <2>1, Zenon DEF Data
<1> QED BY <1>2, <1>4, <1>5, <1>6, <1>7, <1>8, <1>9, <1>10, <1>11, TypesSplit
----------------------------------------------------------------------------
\* What the drive does changes nothing of the driver.
LEMMA DriveKeeps ==
  ASSUME DeviceInv, NEW what \in {"ack", "complete", "ready", "end", "error"},
         NEW sent \in Device!Commands \union {None}, Device!Raise(what, sent),
         commands' \in Seq(Device!Commands), second' \in Device!Commands \union {None},
         stream' \in {None, "sectors", "music"}, InStep'
  PROVE  DeviceInv'
<1> USE DEF DeviceInv, Device!None, None
<1>1. Flags /\ Data
  BY TypesSplit
<1>2. /\ last' = last /\ goal' = goal /\ pausing' = pausing /\ aborted' = aborted
      /\ blocking' = blocking /\ left' = left /\ asked' = asked /\ locCallback' = locCallback
      /\ locPending' = locPending /\ written' = written /\ queue' = queue
      /\ action' = action /\ state' = state /\ callback' = callback /\ success' = success /\ calls' = calls
      /\ overlapped' = overlapped
  BY Zenon DEF Device!Raise, Device!device, Device!location, Device!history
<1>3. QueueSound'
  BY <1>2 DEF QueueSound
<1>4. ActionSound'
  BY <1>2 DEF ActionSound
<1>5. ToldSound'
  BY <1>2 DEF ToldSound
<1>6. ReadSound'
  BY <1>2 DEF ReadSound
<1>7. Flags'
  BY <1>1, <1>2 DEF Flags
<1>8. Data'
  <2>1. cause' \in [is : {None, "ack", "complete", "ready", "end", "error"}, of : Device!Commands \union {None}]
    BY DEF Device!Raise
  <2> QED BY <1>1, <1>2, <2>1, Zenon DEF Data
<1> QED BY <1>2, <1>3, <1>4, <1>5, <1>6, <1>7, <1>8, TypesSplit

LEMMA AnswerKeeps ==
  ASSUME DeviceInv, Device!Answer
  PROVE  DeviceInv'
<1> USE DEF Device!None, None
<1>1. Flags /\ Data
  BY TypesSplit DEF DeviceInv
<1>2. /\ commands # << >> /\ commands' = Tail(commands)
      /\ Head(commands) \in Device!Commands /\ commands' \in Seq(Device!Commands)
  BY <1>1, HeadTailProperties DEF Device!Answer, Data
<1>a. PICK c \in Device!Commands : c = Head(commands)
  BY <1>2
<1>3. \A what : Device!Raise(what, c) =>
        /\ action' = action /\ state' = state /\ locPending' = locPending /\ overlapped' = overlapped
        /\ cause.is = None /\ Raised(what, c)'
  BY Zenon DEF Device!Raise, Device!device, Device!location, Raised, Device!Is
<1>4. CASE /\ Device!Raise("ack", c)
           /\ second' = IF c \in {"INIT", "SEEKP"} \union Device!Stops THEN c ELSE second
           /\ stream' = IF c = "READN" THEN "sectors" ELSE IF c = "PLAY" THEN "music"
                        ELSE IF c \in {"STOP", "INIT"} \/ (c = "PAUSE" /\ stream = "music") THEN None ELSE stream
  <2>1. /\ second' = IF c \in Twice THEN c ELSE second
        /\ stream' = IF c = "READN" THEN "sectors" ELSE IF c = "PLAY" THEN "music"
                     ELSE IF c \in {"STOP", "INIT"} \/ (c = "PAUSE" /\ stream = "music") THEN None ELSE stream
    BY <1>4 DEF Twice, Device!Stops
  <2>2. second' \in Device!Commands \union {None} /\ stream' \in {None, "sectors", "music"}
    BY <1>1, <1>2, <2>1 DEF Data
  <2>3. /\ action' = action /\ state' = state /\ locPending' = locPending /\ overlapped' = overlapped
        /\ cause.is = None /\ Raised("ack", c)'
    BY <1>3, <1>4, Zenon
  <2>4. InStep'
    <3> SUFFICES ASSUME ~overlapped PROVE InStep'
      BY <2>3 DEF InStep
    <3>1. CASE \E sent \in Device!Commands : <<action, state, sent>> \in Waits /\ Waiting(sent)
      <4>1. PICK sent \in Device!Commands : <<action, state, sent>> \in Waits /\ Waiting(sent)
        BY <3>1
      <4>2. /\ Owes(<<sent>>, None)
            /\ \/ state = "PAUSE" /\ stream = "sectors"
               \/ state = "STOPPING" /\ stream \in {"music", None}
               \/ state \notin {"PAUSE", "STOPPING"} /\ stream = None
        BY <2>3, <4>1 DEF Waiting, Raised, Quiet
      <4>3. c = sent /\ commands' = << >> /\ second = None
        BY <1>2, <1>a, <4>2 DEF Owes
      <4>4. stream' = IF state \in {"READ", "PAUSE"} THEN "sectors" ELSE IF state = "PLAY" THEN "music" ELSE None
        BY <2>1, <4>1, <4>2, <4>3 DEF Waits
      <4>5. Owes(<< >>, IF sent \in Twice THEN sent ELSE None)'
        BY <2>1, <4>3 DEF Owes
      <4>6. Waiting(sent)'
        BY <2>3, <4>3, <4>4, <4>5, Zenon DEF Waiting
      <4> QED BY <2>3, <4>1, <4>6, Zenon DEF InStep
    <3>2. CASE action = "play" /\ state = "PLAYING" /\ Listening
      <4>1. commands = <<"GETLOCP">> /\ locPending /\ second = None /\ stream = "music"
        BY <1>2, <2>3, <3>2 DEF Listening, Raised, Quiet
      <4>2. c = "GETLOCP" /\ commands' = << >>
        BY <1>2, <1>a, <4>1
      <4>3. second' = None /\ stream' = "music"
        BY <2>1, <4>1, <4>2 DEF Twice
      <4>4. Listening'
        <5>1. Raised("ack", "GETLOCP")'
          BY <2>3, <4>2
        <5> QED BY <2>3, <4>1, <4>2, <4>3, <5>1, Zenon DEF Listening
      <4> QED BY <2>3, <3>2, <4>4, Zenon DEF InStep
    <3> QED BY <1>2, <3>1, <3>2, Zenon DEF DeviceInv, InStep, AtRest, Reading, Finishing, Owes
  <2> QED BY <1>2, <1>4, <2>2, <2>4, DriveKeeps
<1>5. CASE Device!Raise("error", c) /\ stream' = None /\ second' = second
  <2>1. /\ action' = action /\ state' = state /\ locPending' = locPending /\ overlapped' = overlapped
        /\ cause.is = None /\ Raised("error", c)'
    BY <1>3, <1>5, Zenon
  <2>2. InStep'
    <3> SUFFICES ASSUME ~overlapped PROVE InStep'
      BY <2>1 DEF InStep
    <3>1. CASE \E sent \in Device!Commands : <<action, state, sent>> \in Waits /\ Waiting(sent)
      <4>1. PICK sent \in Device!Commands : <<action, state, sent>> \in Waits /\ Waiting(sent)
        BY <3>1
      <4>2. Owes(<<sent>>, None)
        BY <2>1, <4>1 DEF Waiting, Raised, Quiet
      <4>3. c = sent /\ Owes(<< >>, None)'
        BY <1>2, <1>5, <1>a, <4>2 DEF Owes
      <4> QED BY <1>5, <2>1, <4>1, <4>3, Zenon DEF InStep, Waiting
    <3>2. CASE action = "play" /\ state = "PLAYING" /\ Listening
      <4>1. commands = <<"GETLOCP">> /\ second = None
        BY <1>2, <3>2 DEF Listening
      <4>2. c = "GETLOCP" /\ commands' = << >>
        BY <1>2, <1>a, <4>1
      <4>3. Listening'
        <5>1. Raised("error", "GETLOCP")' /\ second' = None /\ stream' = None
          BY <1>5, <2>1, <4>1, <4>2
        <5> QED BY <4>2, <5>1, Zenon DEF Listening
      <4> QED BY <2>1, <3>2, <4>3, Zenon DEF InStep
    <3> QED BY <1>2, <3>1, <3>2, Zenon DEF DeviceInv, InStep, AtRest, Reading, Finishing, Owes
  <2>3. second' \in Device!Commands \union {None} /\ stream' \in {None, "sectors", "music"}
    BY <1>1, <1>5 DEF Data
  <2> QED BY <1>2, <1>5, <2>2, <2>3, DriveKeeps
<1> QED BY <1>4, <1>5, <1>a, Zenon DEF Device!Answer

\* What the drive says, and what stays.
LEMMA Raises ==
  ASSUME NEW what, NEW sent, Device!Raise(what, sent)
  PROVE  /\ action' = action /\ state' = state /\ locPending' = locPending /\ overlapped' = overlapped
         /\ cause.is = None /\ Raised(what, sent)'
BY Zenon DEF Device!Raise, Device!device, Device!location, Raised, Device!Is, Device!None, None

LEMMA SecondAnswerKeeps ==
  ASSUME DeviceInv, Device!SecondAnswer
  PROVE  DeviceInv'
<1> USE DEF Device!None, None
<1>1. Flags /\ Data
  BY TypesSplit DEF DeviceInv
<1>2. PICK sent \in Device!Commands : second = sent
  BY <1>1 DEF Data, Device!SecondAnswer
<1>3. /\ Device!Raise("complete", sent) /\ second' = None /\ commands' = commands
      /\ stream' = IF sent = "PAUSE" THEN None ELSE stream
  BY <1>2, Zenon DEF Device!SecondAnswer
<1>4. /\ action' = action /\ state' = state /\ locPending' = locPending /\ overlapped' = overlapped
      /\ cause.is = None /\ Raised("complete", sent)'
  BY <1>3, Raises, Zenon
<1>5. second # None
  BY Zenon DEF Device!SecondAnswer
<1>6. InStep'
  <2> SUFFICES ASSUME ~overlapped PROVE InStep'
    BY <1>4 DEF InStep
  <2>1. CASE \E of \in Device!Commands : <<action, state, of>> \in Finishes /\ Finishing(of)
    <3>1. PICK of \in Device!Commands : <<action, state, of>> \in Finishes /\ Finishing(of)
      BY <2>1
    <3>2. of = sent /\ commands = << >> /\ (state = "PAUSE_ACK" \/ stream = None)
      BY <1>2, <1>5, <3>1 DEF Finishing, Owes
    <3>3. state = "PAUSE_ACK" => of = "PAUSE"
      BY <3>1 DEF Finishes
    <3>4. Owes(<< >>, None)' /\ stream' = None
      BY <1>3, <3>2, <3>3 DEF Owes
    <3> QED BY <1>4, <3>1, <3>2, <3>4, Zenon DEF InStep, Finishing
  <2>2. ~ \E of \in Device!Commands : <<action, state, of>> \in Waits /\ Waiting(of)
    <3> SUFFICES ASSUME NEW of \in Device!Commands, Waiting(of) PROVE FALSE
      OBVIOUS
    <3>1. cause.is = None /\ second # None
      BY <1>4, <1>5
    <3> QED BY <3>1 DEF Waiting, Owes, Raised
  <2> QED BY <1>5, <2>1, <2>2, Zenon DEF DeviceInv, InStep, AtRest, Reading, Listening, Owes
<1>7. /\ commands' \in Seq(Device!Commands) /\ second' \in Device!Commands \union {None}
      /\ stream' \in {None, "sectors", "music"}
  BY <1>1, <1>3 DEF Data
<1> QED BY <1>3, <1>6, <1>7, DriveKeeps

LEMMA SectorLands ==
  ASSUME DeviceInv, Device!Sector
  PROVE  DeviceInv'
<1> USE DEF Device!None, None
<1>1. Flags /\ Data
  BY TypesSplit DEF DeviceInv
<1>2. stream = "sectors" /\ Device!Raise("ready", None)
      /\ commands' = commands /\ second' = second /\ stream' = stream
  BY Zenon DEF Device!Sector
<1>3. /\ action' = action /\ state' = state /\ locPending' = locPending /\ overlapped' = overlapped
      /\ cause.is = None /\ Raised("ready", None)'
  BY <1>2, Raises, Zenon
<1>4. InStep'
  <2> SUFFICES ASSUME ~overlapped PROVE InStep'
    BY <1>3 DEF InStep
  <2>1. CASE \E sent \in Device!Commands : <<action, state, sent>> \in Waits /\ Waiting(sent)
    <3>1. PICK sent \in Device!Commands : <<action, state, sent>> \in Waits /\ Waiting(sent)
      BY <2>1
    <3>2. Owes(<<sent>>, None) /\ state = "PAUSE"
      BY <1>2, <1>3, <3>1 DEF Waiting, Raised, Quiet
    <3>3. Owes(<<sent>>, None)'
      BY <1>2, <3>2 DEF Owes
    <3> QED BY <1>2, <1>3, <3>1, <3>2, <3>3, Zenon DEF InStep, Waiting
  <2>2. CASE \E sent \in Device!Commands : <<action, state, sent>> \in Finishes /\ Finishing(sent)
    <3>1. PICK sent \in Device!Commands : <<action, state, sent>> \in Finishes /\ Finishing(sent)
      BY <2>2
    <3>2. Owes(<< >>, sent) /\ state = "PAUSE_ACK"
      BY <1>2, <1>3, <3>1 DEF Finishing, Raised, Quiet
    <3>3. Owes(<< >>, sent)'
      BY <1>2, <3>2 DEF Owes
    <3> QED BY <1>2, <1>3, <3>1, <3>2, <3>3, Zenon DEF InStep, Finishing
  <2>3. CASE action = "read" /\ state = "READ_ACK" /\ Reading
    <3>1. Owes(<< >>, None)'
      BY <1>2, <2>3 DEF Reading, Owes
    <3> QED BY <1>2, <1>3, <2>3, <3>1, Zenon DEF InStep, Reading
  <2> QED BY <1>2, <2>1, <2>2, <2>3, Zenon DEF DeviceInv, InStep, AtRest, Listening
<1>5. /\ commands' \in Seq(Device!Commands) /\ second' \in Device!Commands \union {None}
      /\ stream' \in {None, "sectors", "music"}
  BY <1>1, <1>2 DEF Data
<1> QED BY <1>2, <1>4, <1>5, DriveKeeps

LEMMA TrackEndsKeeps ==
  ASSUME DeviceInv, Device!TrackEnds
  PROVE  DeviceInv'
<1> USE DEF Device!None, None
<1>1. Flags /\ Data
  BY TypesSplit DEF DeviceInv
<1>2. stream = "music" /\ Device!Raise("end", None)
      /\ commands' = commands /\ second' = second /\ stream' = None
  BY Zenon DEF Device!TrackEnds
<1>3. /\ action' = action /\ state' = state /\ locPending' = locPending /\ overlapped' = overlapped
      /\ cause.is = None /\ Raised("end", None)'
  BY <1>2, Raises, Zenon
<1>4. InStep'
  <2> SUFFICES ASSUME ~overlapped PROVE InStep'
    BY <1>3 DEF InStep
  <2>1. CASE \E sent \in Device!Commands : <<action, state, sent>> \in Waits /\ Waiting(sent)
    <3>1. PICK sent \in Device!Commands : <<action, state, sent>> \in Waits /\ Waiting(sent)
      BY <2>1
    <3>2. Owes(<<sent>>, None) /\ state = "STOPPING"
      BY <1>2, <1>3, <3>1 DEF Waiting, Raised, Quiet
    <3>3. Owes(<<sent>>, None)'
      BY <1>2, <3>2 DEF Owes
    <3> QED BY <1>2, <1>3, <3>1, <3>2, <3>3, Zenon DEF InStep, Waiting
  <2>2. CASE action = "play" /\ state = "PLAYING" /\ Listening
    <3>1. Listening'
      BY <1>2, <1>3, <2>2, Zenon DEF Listening
    <3> QED BY <1>3, <2>2, <3>1, Zenon DEF InStep
  <2>3. ~ \E sent \in Device!Commands : <<action, state, sent>> \in Finishes /\ Finishing(sent)
    BY <1>2, <1>3 DEF Finishing, Raised
  <2> QED BY <1>2, <2>1, <2>2, <2>3, Zenon DEF DeviceInv, InStep, AtRest, Reading
<1>5. /\ commands' \in Seq(Device!Commands) /\ second' \in Device!Commands \union {None}
      /\ stream' \in {None, "sectors", "music"}
  BY <1>1, <1>2 DEF Data
<1> QED BY <1>2, <1>4, <1>5, DriveKeeps

LEMMA StreamFailsKeeps ==
  ASSUME DeviceInv, Device!StreamFails
  PROVE  DeviceInv'
<1> USE DEF Device!None, None
<1>1. Flags /\ Data
  BY TypesSplit DEF DeviceInv
<1>2. /\ stream \in {"sectors", "music"} /\ commands = << >> /\ second = None
      /\ Device!Raise("error", None)
      /\ commands' = commands /\ second' = second /\ stream' = None
  BY Zenon DEF Device!StreamFails
<1>3. /\ action' = action /\ state' = state /\ locPending' = locPending /\ overlapped' = overlapped
      /\ cause.is = None /\ Raised("error", None)'
  BY <1>2, Raises, Zenon
<1>4. InStep'
  <2> SUFFICES ASSUME ~overlapped PROVE InStep'
    BY <1>3 DEF InStep
  <2>1. CASE action = "read" /\ state = "READ_ACK" /\ Reading
    <3>1. Reading'
      BY <1>2, <1>3, Zenon DEF Reading, Owes
    <3> QED BY <1>3, <2>1, <3>1, Zenon DEF InStep
  <2>2. CASE action = "play" /\ state = "PLAYING" /\ Listening
    <3>1. Listening'
      BY <1>2, <1>3, Zenon DEF Listening
    <3> QED BY <1>3, <2>2, <3>1, Zenon DEF InStep
  <2>3. ~ \E sent \in Device!Commands : <<action, state, sent>> \in Waits /\ Waiting(sent)
    <3> SUFFICES ASSUME NEW sent \in Device!Commands, Waiting(sent) PROVE FALSE
      OBVIOUS
    <3>1. cause.is = None /\ commands = << >>
      BY <1>2, <1>3
    <3>2. ~Raised("ack", sent) /\ ~Raised("error", sent)
      BY <3>1 DEF Raised
    <3>3. commands # <<sent>>
      BY <3>1
    <3> QED BY <3>2, <3>3, Zenon DEF Waiting, Owes
  <2>4. ~ \E sent \in Device!Commands : <<action, state, sent>> \in Finishes /\ Finishing(sent)
    <3> SUFFICES ASSUME NEW sent \in Device!Commands, Finishing(sent) PROVE FALSE
      OBVIOUS
    <3>1. cause.is = None /\ second = None
      BY <1>2, <1>3
    <3>2. ~Raised("complete", sent)
      BY <3>1 DEF Raised
    <3>3. second # sent
      BY <3>1 DEF Device!Commands
    <3> QED BY <3>2, <3>3, Zenon DEF Finishing, Owes
  <2> QED BY <1>2, <2>1, <2>2, <2>3, <2>4, Zenon DEF DeviceInv, InStep, AtRest
<1>5. /\ commands' \in Seq(Device!Commands) /\ second' \in Device!Commands \union {None}
      /\ stream' \in {None, "sectors", "music"}
  BY <1>1, <1>2 DEF Data
<1> QED BY <1>2, <1>4, <1>5, DriveKeeps

----------------------------------------------------------------------------
\* A step of the driver.
LEMMA DeviceSteps ==
  ASSUME InputAssumption, DeviceInv, Device!Next
  PROVE  DeviceInv'
<1>1. CASE \E s \in Device!Starts : Device!Start(s[1], s[2], s[3])
  BY <1>1, StartKeeps
<1>2. CASE \E sent \in Device!Stops : Device!PauseCDDA(sent)
  BY <1>2, PauseKeeps
<1>3. CASE Device!Irq
  BY <1>3, ReplyKeeps, SectorKeeps, HeadKeeps, EndOfMusicKeeps, ErrorKeeps, AbortsKeep DEF Device!Irq
<1> QED
  BY <1>1, <1>2, <1>3, LocationKeeps, PumpKeeps, ReturnKeeps, AnswerKeeps, SecondAnswerKeeps, SectorLands,
     TrackEndsKeeps, StreamFailsKeeps, Zenon DEF Device!Next

LEMMA DeviceStays ==
  ASSUME DeviceInv, UNCHANGED deviceVars
  PROVE  DeviceInv'
<1>1. /\ action' = action /\ state' = state /\ callback' = callback /\ success' = success
      /\ blocking' = blocking /\ left' = left /\ locCallback' = locCallback /\ locPending' = locPending
      /\ queue' = queue /\ cause' = cause /\ commands' = commands /\ second' = second /\ stream' = stream
      /\ last' = last /\ goal' = goal /\ written' = written /\ calls' = calls /\ asked' = asked
      /\ pausing' = pausing /\ overlapped' = overlapped /\ aborted' = aborted
  BY Zenon DEF deviceVars
<1>2. Flags /\ Data /\ QueueSound /\ ActionSound /\ ToldSound /\ ReadSound /\ InStep /\ (aborted => overlapped)
  BY TypesSplit DEF DeviceInv
<1>3. QueueSound' /\ ActionSound' /\ ToldSound' /\ ReadSound'
  <2>1. QueueSound'
    BY <1>1, <1>2 DEF QueueSound
  <2>2. ActionSound'
    BY <1>1, <1>2 DEF ActionSound
  <2>3. ToldSound'
    BY <1>1, <1>2 DEF ToldSound
  <2>4. ReadSound'
    BY <1>1, <1>2 DEF ReadSound
  <2> QED BY <2>1, <2>2, <2>3, <2>4
<1>4. InStep'
  BY <1>1, <1>2, InStepStays, Zenon
<1>5. Flags'
  BY <1>1, <1>2 DEF Flags
<1>6. Data'
  BY <1>1, <1>2, Zenon DEF Data
<1>7. Device!TypeOK'
  BY <1>5, <1>6, TypesSplit
<1>8. aborted' => overlapped'
  BY <1>1, <1>2, Zenon
<1> QED BY <1>3, <1>4, <1>7, <1>8, Zenon DEF DeviceInv
----------------------------------------------------------------------------
\* What itob makes of a number of two digits, btoi undoes.
LEMMA Bcd ==
  ASSUME NEW i \in Nat, i < 160
  PROVE  /\ Table!itob(i) \in Nat /\ i <= Table!itob(i) /\ Table!itob(i) <= 255
         /\ Table!btoi(Table!itob(i)) = i
<1>1. PICK q \in 0 .. 15, r \in 0 .. 9 : i = 10 * q + r
  <2>1. i \in Nat /\ i < 160
    OBVIOUS
  <2>2. i = 10 * (i \div 10) + (i % 10)
    BY <2>1
  <2>3. i % 10 \in 0 .. 9
    BY <2>1
  <2>4. i \div 10 \in 0 .. 15
    BY <2>1
  <2> QED BY <2>2, <2>3, <2>4
<1>2. i \div 10 = q /\ i % 10 = r
  BY <1>1
<1>3. Table!itob(i) = q * 16 + r
  BY <1>2 DEF Table!itob
<1>4. (q * 16 + r) \div 16 = q /\ (q * 16 + r) % 16 = r
  OBVIOUS
<1> QED BY <1>1, <1>3, <1>4 DEF Table!btoi


\* The table of contents.
LEMMA TableStarts == DiscAssumption /\ Table!Init => TableInv
<1> SUFFICES ASSUME DiscAssumption, Table!Init PROVE TableInv
  OBVIOUS
<1>1. Table!TypeOK
  BY DEF Table!Init, DiscAssumption, Table!TypeOK, Table!Byte
<1> QED BY <1>1 DEF Table!Init, TableInv, Table!TocComplete

\* The drive has told the last track of the disc, in BCD.
LEMMA LastTrack ==
  ASSUME DiscAssumption, TableInv
  PROVE  /\ tracks \in 1 .. 99 /\ Table!itob(tracks) \in tracks .. 153
         /\ Table!itob(1) = 1
<1>1. tracks \in 1 .. 99
  BY DEF TableInv, Table!TypeOK, DiscAssumption
<1>2. PICK q \in 0 .. 9, r \in 0 .. 9 : tracks = 10 * q + r
  <2>1. tracks = 10 * (tracks \div 10) + (tracks % 10)
    BY <1>1
  <2>2. tracks % 10 \in 0 .. 9
    BY <1>1
  <2>3. tracks \div 10 \in 0 .. 9
    BY <1>1
  <2> QED BY <2>1, <2>2, <2>3
<1>3. tracks \div 10 = q /\ tracks % 10 = r
  BY <1>2
<1>4. Table!itob(tracks) = q * 16 + r
  BY <1>3 DEF Table!itob
<1>5. Table!itob(1) = 1
  BY DEF Table!itob
<1> QED BY <1>1, <1>2, <1>4, <1>5

LEMMA TrackKnownKeeps ==
  ASSUME DiscAssumption, TableInv, Table!TrackKnown
  PROVE  TableInv'
<1>1. /\ tocState = "GETTD" /\ Table!btoi(command) <= tracks
      /\ toc' = toc \union {<<current, Table!btoi(command)>>}
      /\ current' = current + 1
      /\ tracks' = tracks /\ counted' = counted /\ size' = size /\ lastTrack' = lastTrack
      /\ stash' = stash /\ room' = room
  BY DEF Table!TrackKnown
<1>2. IF current + 1 <= lastTrack /\ current + 1 < size
        THEN command' = Table!itob(current + 1) /\ tocState' = tocState /\ result' = result
        ELSE tocState' = "idle" /\ result' = "success" /\ command' = command
  BY DEF Table!TrackKnown
<1>3. /\ lastTrack = Table!itob(tracks) /\ command = Table!itob(current) /\ current \in 1 .. lastTrack
      /\ size > 1 => current < size
      /\ toc = {<<t, t>> : t \in 1 .. current - 1}
      /\ result = "none" /\ room > 0
      /\ size \in {room, Table!Smaller(room, 100)}
  BY <1>1 DEF TableInv
<1>4. tracks \in 1 .. 99 /\ lastTrack \in tracks .. 153
  BY <1>3, LastTrack
<1>a. current \in Nat /\ current < 160 /\ current + 1 \in Nat /\ current + 1 < 160
  BY <1>3, <1>4
<1>5. Table!btoi(command) = current /\ command \in 0 .. 255
  <2>1. Table!btoi(command) = current /\ command \in Nat /\ command <= 255
    BY <1>3, <1>a, Bcd, Zenon
  <2> QED BY <2>1
<1>6. Table!itob(current + 1) \in 0 .. 255
  <2>1. Table!itob(current + 1) \in Nat /\ Table!itob(current + 1) <= 255
    BY <1>a, Bcd, Zenon
  <2> QED BY <2>1
<1>7. toc' = {<<t, t>> : t \in 1 .. current' - 1}
  BY <1>1, <1>3, <1>4, <1>5
<1>8. Table!TypeOK
  BY DEF TableInv
<1>9. Table!TypeOK'
  <2>1. toc' \subseteq Table!Byte \X Table!Byte
    BY <1>1, <1>3, <1>4, <1>7 DEF Table!Byte
  <2>2. {current', lastTrack', command'} \subseteq Table!Byte
    BY <1>1, <1>2, <1>3, <1>4, <1>5, <1>6 DEF Table!Byte
  <2>3. tocState' \in {"idle", "GETTD"} /\ result' \in {"none", "success"}
    BY <1>1, <1>2, <1>3
  <2> QED BY <1>1, <1>8, <2>1, <2>2, <2>3 DEF Table!TypeOK
<1>10. 1 \notin Sizes => Table!TocComplete'
  <2> SUFFICES ASSUME 1 \notin Sizes, result' = "success" PROVE toc' = {<<t, t>> : t \in Table!Present'}
    BY DEF Table!TocComplete
  <2>1. room \in Nat /\ room > 1
    BY <1>3, <1>8 DEF Table!TypeOK, DiscAssumption
  <2>2. ~(current + 1 <= lastTrack /\ current + 1 < size) /\ current <= tracks
    BY <1>1, <1>2, <1>3, <1>5
  <2>3. current = Table!Smaller(tracks, room - 1)
    BY <1>3, <1>4, <2>1, <2>2 DEF Table!Smaller
  <2>4. Table!Present' = 1 .. current
    BY <1>1, <2>3 DEF Table!Present, Table!Smaller
  <2> QED BY <1>1, <1>3, <1>7, <2>4
<1>11. CASE current + 1 <= lastTrack /\ current + 1 < size
  BY <1>1, <1>2, <1>3, <1>4, <1>7, <1>9, <1>10, <1>11 DEF TableInv, Table!Smaller
<1>12. CASE ~(current + 1 <= lastTrack /\ current + 1 < size)
  BY <1>1, <1>2, <1>3, <1>9, <1>10, <1>12 DEF TableInv
<1> QED BY <1>11, <1>12


LEMMA TableSteps ==
  ASSUME DiscAssumption, TableInv, Table!Next
  PROVE  TableInv'
<1>1. Table!TypeOK /\ room \in Nat
  BY DEF TableInv, Table!TypeOK, DiscAssumption
<1> USE DEF TableInv, Table!TypeOK, Table!TocComplete, Table!Byte
<1>2. ASSUME NEW n \in Sizes, Table!ReadToc(n) PROVE TableInv'
  BY <1>1, <1>2 DEF Table!ReadToc, Table!Begin, DiscAssumption
<1>3. ASSUME NEW n \in Sizes, Table!ScheduleReadToc(n) PROVE TableInv'
  <2>1. CASE n = 0
    BY <1>1, <1>3, <2>1 DEF Table!ScheduleReadToc, DiscAssumption
  <2>2. CASE n # 0
    BY <1>1, <1>3, <2>2 DEF Table!ScheduleReadToc, DiscAssumption, Table!Smaller
  <2> QED BY <2>1, <2>2
<1>4. CASE Table!RunTask
  BY <1>1, <1>4 DEF Table!RunTask, Table!Begin, Table!Smaller
<1>5. CASE Table!TracksKnown
  <2>1. /\ tocState = "GETTN" /\ tocState' = "GETTD" /\ toc = {} /\ toc' = toc
        /\ current' = 1 /\ command' = 1 /\ lastTrack' = Table!itob(tracks) /\ Table!itob(1) = 1
        /\ tracks' = tracks /\ counted' = counted /\ size' = size /\ stash' = stash /\ room' = room
        /\ result' = result
    BY <1>5, LastTrack DEF Table!TracksKnown
  <2>2. lastTrack' \in 1 .. 153
    BY <2>1, LastTrack
  <2>3. toc' = {<<t, t>> : t \in 1 .. current' - 1}
    BY <2>1
  <2> QED BY <1>1, <2>1, <2>2, <2>3
<1>6. CASE Table!TrackMissing
  BY <1>1, <1>6 DEF Table!TrackMissing
<1>7. CASE Table!GetTocSize
  <2>1. Table!itob(tracks) \in 0 .. 255
    <3>1. tracks \in 1 .. 99 /\ Table!itob(tracks) \in tracks .. 153
      BY LastTrack, Zenon
    <3> QED BY <3>1
  <2> QED BY <1>1, <1>7, <2>1 DEF Table!GetTocSize
<1>8. CASE Table!Again
  BY <1>1, <1>8 DEF Table!Again
<1> QED BY <1>2, <1>3, <1>4, <1>5, <1>6, <1>7, <1>8, TrackKnownKeeps, Zenon DEF Table!Next

LEMMA TableStays ==
  ASSUME TableInv, UNCHANGED tableVars
  PROVE  TableInv'
<1>1. /\ tracks' = tracks /\ tocState' = tocState /\ size' = size /\ current' = current
      /\ lastTrack' = lastTrack /\ toc' = toc /\ stash' = stash /\ command' = command /\ room' = room
      /\ result' = result /\ counted' = counted
  BY Zenon DEF tableVars
<1> QED BY <1>1 DEF TableInv, Table!TypeOK, Table!TocComplete, Table!Present
----------------------------------------------------------------------------
\* The driver and the table keep their invariants.
THEOREM Invariance == Spec => [](DeviceInv /\ TableInv)
<1>1. Init => DeviceInv /\ TableInv
  BY DeviceStarts, TableStarts, InputAssumption, DiscAssumption, Zenon DEF Init
<1>2. DeviceInv /\ TableInv /\ [Next]_vars => (DeviceInv /\ TableInv)'
  <2> SUFFICES ASSUME DeviceInv /\ TableInv, [Next]_vars PROVE DeviceInv' /\ TableInv'
    OBVIOUS
  <2>1. CASE Act
    BY <2>1, InputAssumption, DeviceSteps, TableStays, Zenon DEF Act
  <2>2. CASE ReadTable
    BY <2>2, DiscAssumption, TableSteps, DeviceStays, Zenon DEF ReadTable
  <2>3. CASE UNCHANGED vars
    <3>1. UNCHANGED deviceVars /\ UNCHANGED tableVars
      BY <2>3, Zenon DEF vars
    <3> QED BY <3>1, DeviceStays, TableStays, Zenon
  <2> QED BY <2>1, <2>2, <2>3 DEF Next
<1> QED BY <1>1, <1>2, PTL DEF Spec

\* The fields of the driver, the kernel's queue and the drive agree at every
\* interrupt: each queued lambda finds the function it calls (cdrom-device.cpp 65-68,
\* 152-161, 193-206).
THEOREM Consistent == Spec => []FieldsAgree
<1>1. DeviceInv => FieldsAgree
  <2> SUFFICES ASSUME DeviceInv PROVE FieldsAgree
    OBVIOUS
  <2>1. QueueSound
    BY DEF DeviceInv
  <2>2. \A e : Device!Queued(e) <=> Has(queue, e)
    BY Zenon DEF Device!Queued, Has
  <2> QED BY <2>1, <2>2, Zenon DEF QueueSound, DoneLast, FieldsAgree, Device!FieldsAgree, Device!None, None
<1> QED BY <1>1, Invariance, PTL

\* An assert or an abort of the driver is reached only behind commands that
\* overlapped (cdrom-device.cpp 71-131).
THEOREM NoAborts == Spec => []NoAbort
<1>1. DeviceInv => NoAbort
  BY DEF DeviceInv, NoAbort, Device!NoAbort
<1> QED BY <1>1, Invariance, PTL

\* The callback of an action is called as often as documented, with true only for
\* what was done, and a read stores what it was asked for (cdrom-device.hh 326-341,
\* cdrom-device-read.cpp 67-94).
THEOREM Protocol == Spec => []CallbackProtocol
<1>1. DeviceInv /\ TableInv => CallbackProtocol
  <2> SUFFICES ASSUME DeviceInv, TableInv PROVE CallbackProtocol
    OBVIOUS
  <2>1. TypeOK
    BY DEF TypeOK, DeviceInv, TableInv
  <2>2. ToldSound /\ ReadSound /\ Data
    BY TypesSplit DEF DeviceInv
  <2>3. Device!CallbackProtocol
    <3>1. /\ calls = << >> => Len(calls) # 2
          /\ calls \in {<<TRUE>>, <<FALSE>>} => Len(calls) # 2 /\ calls # << >>
          /\ calls = <<FALSE>> => ~calls[1]
          /\ calls \in {<<TRUE, TRUE>>, <<TRUE, FALSE>>} => Len(calls) = 2 /\ calls[1] = TRUE /\ calls # << >>
      <4>1. 0 # 2 /\ 1 # 2
        OBVIOUS
      <4>2. calls = << >> => Len(calls) # 2
        BY <4>1, Lengths, Zenon
      <4>3. calls \in {<<TRUE>>, <<FALSE>>} => Len(calls) # 2 /\ calls # << >>
        BY <4>1, Lengths, Zenon
      <4>4. <<FALSE>>[1] = FALSE /\ <<TRUE, TRUE>>[1] = TRUE /\ <<TRUE, FALSE>>[1] = TRUE
        BY Lengths, Zenon
      <4>5. calls \in {<<TRUE, TRUE>>, <<TRUE, FALSE>>} => Len(calls) = 2 /\ calls[1] = TRUE /\ calls # << >>
        BY <4>4, Lengths, Zenon
      <4> QED BY <4>2, <4>3, <4>4, <4>5, Zenon
    <3>2. ASSUME Len(calls) = 2 PROVE last = "play" /\ calls[1]
      BY <2>2, <3>1, <3>2, Zenon DEF ToldSound
    <3>3. ASSUME state = "idle", last # None PROVE calls # << >> /\ (last = "play" => calls[1] = (Len(calls) = 2))
      <4>1. CASE last = "play" /\ calls = <<FALSE>>
        <5>1. calls[1] = FALSE
          BY <4>1, Lengths, Zenon
        <5>2. (Len(calls) = 2) = FALSE
          BY <3>1, <4>1, Zenon
        <5> QED BY <3>1, <4>1, <5>1, <5>2, Zenon
      <4>2. CASE last = "play" /\ calls \in {<<TRUE, TRUE>>, <<TRUE, FALSE>>}
        <5>1. (Len(calls) = 2) = TRUE
          BY <3>1, <4>2, Zenon
        <5> QED BY <3>1, <4>2, <5>1, Zenon
      <4> QED BY <2>2, <3>1, <3>3, <4>1, <4>2, Zenon DEF ToldSound
    <3> QED BY <3>2, <3>3, Zenon DEF Device!CallbackProtocol, None
  <2>4. Device!ReadExact
    <3>1. last = "read" /\ calls = <<TRUE>> => left = 0
      BY <2>2, Zenon DEF ReadSound
    <3>2. /\ written \in Nat /\ goal \in Nat /\ left \in 0 .. goal
          /\ IF last = "read" THEN written + left = goal ELSE written = 0 /\ goal = 0
      BY <2>2, InputAssumption DEF ReadSound, Data, InputAssumption
    <3>3. written <= goal /\ (left = 0 /\ last = "read" => written = goal)
      BY <3>2
    <3> QED BY <3>1, <3>3, Zenon DEF Device!ReadExact
  <2> QED BY <2>1, <2>3, <2>4 DEF CallbackProtocol
<1> QED BY <1>1, Invariance, PTL

\* A table that was read has each track of the disc it has room for, at its own
\* index, and nothing else (cdrom-device-toc.cpp 61-103), unless the buffer is a single
\* entry: the code then writes one past it.
THEOREM TocRead ==
  ASSUME 1 \notin Sizes
  PROVE  Spec => []TocComplete
<1>1. TableInv => TocComplete
  BY DEF TableInv, TocComplete
<1> QED BY <1>1, Invariance, PTL
============================================================================
