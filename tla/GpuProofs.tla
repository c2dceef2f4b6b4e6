----------------------------- MODULE GpuProofs -----------------------------
(***************************************************************************)
(* Theorems about the two parts of the GPU.  Its transfers, for every set of   *)
(* fragments and tables of every size, chained in every order; and its clock   *)
(* and timers, for every set of timers, modulus of the hardware counter,       *)
(* delays and number of scanlines.                                             *)
(* The types of the timers hold however deep pumpCallbacks is nested; that the *)
(* clock tracks the scanlines and that a single-use timer is called once hold  *)
(* while a callback does not pump again, and the second while none cancels     *)
(* itself.                                                                     *)
(***************************************************************************)
EXTENDS GpuChain, GpuTimers, SequenceTheorems, TLAPS


Callbacks == {"none", "flip", "block", "main"}

\* The header of n when m comes behind it, and when nothing does.
Points(h, m) == h.next = m /\ (h.marked <=> Over(m) \/ Stored(m) > Threshold) /\ (h.over <=> Over(m))

\* The chain that is being built: each header points at the next fragment.
BuildSound ==
  /\ \A i, j \in DOMAIN recorded : recorded[i] = recorded[j] => i = j
  /\ head = End <=> recorded = << >>
  /\ recorded # << >> =>
       /\ head = recorded[1] /\ (headOver <=> Over(head))
       /\ tail = recorded[Len(recorded)] /\ tailCount = Stored(tail)
  /\ \A i \in DOMAIN recorded : i + 1 \in DOMAIN recorded =>
       header[recorded[i]].count = Stored(recorded[i]) /\ Points(header[recorded[i]], recorded[i + 1])

\* The chain that is sent, or the fragment that is sent alone.
FlightSound ==
  /\ \A i \in DOMAIN sending : sending[i][2] = Words[sending[i][1]]
  /\ \/ \A i \in DOMAIN sending : i = 1 /\ sending[i][1] = Own
     \/ \A i \in DOMAIN sending :
          /\ sending[i][1] \in Node
          /\ header[sending[i][1]].count = Stored(sending[i][1])
          /\ IF i + 1 \in DOMAIN sending THEN Points(header[sending[i][1]], sending[i + 1][1])
             ELSE header[sending[i][1]].next = End
  /\ \A i \in DOMAIN sending : sending[i][1] \notin ToSet(recorded)

\* The engine is at the fragment behind those that were sent.
At == Len(sent) + 1
EngineSound ==
  /\ nextOver => next # End
  /\ callback = "none" <=> sending = << >>
  /\ callback = "none" => engine.mode = "off" /\ next = End /\ clearing = End
  /\ engine.mode # "off" =>
       /\ At \in DOMAIN sending /\ \A i \in DOMAIN sent : sent[i] = sending[i]
       /\ engine.node = sending[At][1]
       /\ clearing = End
  /\ engine.mode = "normal" =>
       /\ engine.words = Words[engine.node]
       /\ IF At + 1 \in DOMAIN sending THEN next = sending[At + 1][1] /\ (nextOver <=> Over(next))
          ELSE next = End
  /\ engine.mode = "linked" => engine.node \in Node /\ next = End /\ Words[engine.node] <= Threshold
  /\ engine.mode = "off" /\ callback # "none" => sent = sending /\ clearing # End /\ next = End

Inv == TypeOK /\ BuildSound /\ FlightSound /\ EngineSound

\* Who waits for the transfer, if none crosses the end of a frame.
OrderInv ==
  /\ ~aborted
  /\ waiting <=> callback = "block"
  /\ pc # "frame" => callback # "main"
  /\ pc = "swapped" => callback # "flip"
  /\ callback = "flip" => status = "TRANSFERRING"

\* The parity of the tables in the chain that is built, and those still to be
\* cleared behind the chain that is sent.
Building == IF pc = "swapped" THEN 1 - parity ELSE parity
Pending == IF pc = "swapped" THEN {} ELSE ToSet(otcs[1 - parity]) \union {clearing}
TablesInv ==
  /\ pc = "swapped" => callback = "none" /\ otcs[parity] = << >>
  /\ ToSet(otcs[Building]) = ToSet(recorded) \intersect Table
  /\ pc # "swapped" => ToSet(otcs[1 - parity]) \subseteq InFlight /\ (otcs[1 - parity] # << >> => callback = "flip")
  /\ clearing # End => callback = "flip" /\ clearing \in InFlight
  /\ dirty \subseteq ToSet(recorded) \union Pending

\* The types, the flags apart: the provers take these two ways.
Headers == [count : 0 .. 255, next : Node \union {End}, marked : BOOLEAN, over : BOOLEAN]
Flags ==
  /\ headOver \in BOOLEAN /\ nextOver \in BOOLEAN /\ waiting \in BOOLEAN /\ queued \in BOOLEAN
  /\ vblank \in BOOLEAN /\ aborted \in BOOLEAN
Data ==
  /\ head \in Node \union {End} /\ tail \in Node \union {End} /\ next \in Node \union {End}
  /\ tailCount \in 0 .. 255 /\ header \in [Node -> Headers]
  /\ recorded \in Seq(Node) /\ sending \in Seq(Fragments) /\ sent \in Seq(Fragments)
  /\ status \in {"IDLE", "TRANSFERRING", "TRANSFERRED"} /\ parity \in {0, 1}
  /\ otcs \in [{0, 1} -> Seq(Table)]
  /\ callback \in Callbacks
  /\ engine.mode \in {"off", "normal", "linked"}
  /\ clearing \in Table \union {End} /\ dirty \subseteq Table
  /\ pc \in {"frame", "flip", "swapped"}
----------------------------------------------------------------------------
LEMMA TypesSplit == /\ TypeOK <=> Flags /\ Data
                    /\ TypeOK' <=> Flags' /\ Data'
<1>1. {headOver, nextOver, waiting, queued, vblank, aborted} \subseteq BOOLEAN <=> Flags
  BY Zenon DEF Flags
<1>2. ({headOver, nextOver, waiting, queued, vblank, aborted} \subseteq BOOLEAN <=> Flags)'
  BY Zenon DEF Flags
<1>3. {head, tail, next} \subseteq Node \union {End} <=>
        head \in Node \union {End} /\ tail \in Node \union {End} /\ next \in Node \union {End}
  BY Zenon
<1>4. {head', tail', next'} \subseteq Node \union {End} <=>
        head' \in Node \union {End} /\ tail' \in Node \union {End} /\ next' \in Node \union {End}
  BY Zenon
<1>5. TypeOK <=> Flags /\ Data
  BY <1>1, <1>3, ZenonT(60) DEF TypeOK, Data, Headers, Callbacks
<1>6. TypeOK' <=> Flags' /\ Data'
  BY <1>2, <1>4, ZenonT(60) DEF TypeOK, Data, Headers, Callbacks
<1> QED BY <1>5, <1>6, Zenon

\* A header holds the size of its fragment in eight bits, and gives it back.
LEMMA Sixteen ==
  ASSUME NEW w \in Nat, w < 4096
  PROVE  /\ w \div 16 \in 0 .. 255 /\ (w % 16 = 0 => (w \div 16) * 16 = w)
         /\ w > 255 \/ w \in 0 .. 255
<1>1. w = 16 * (w \div 16) + (w % 16)
  OBVIOUS
<1>2. w \div 16 \in 0 .. 255
  OBVIOUS
<1>3. PICK q \in 0 .. 255 : q = w \div 16
  BY <1>2
<1>4. w % 16 = 0 => q * 16 = w
  BY <1>1, <1>3
<1> QED BY <1>2, <1>3, <1>4

LEMMA Sizes ==
  ASSUME NEW w \in Nat, Chainable(w)
  PROVE  /\ (IF w > MaxNodeWords THEN w \div Granularity ELSE w) \in 0 .. 255
         /\ w > MaxNodeWords => (IF w > MaxNodeWords THEN w \div Granularity ELSE w) * Granularity = w
<1>1. CASE w <= MaxNodeWords
  BY <1>1 DEF MaxNodeWords
<1>2. CASE w > MaxNodeWords
  <2>1. w < 4096 /\ w % 16 = 0
    BY <1>2 DEF MaxNodeWords, Granularity, Chainable
  <2> QED BY <1>2, <2>1, Sixteen DEF Granularity, MaxNodeWords
<1> QED BY <1>1, <1>2 DEF MaxNodeWords

LEMMA SizeKept ==
  ASSUME NEW n \in Node
  PROVE  /\ Words[n] \in Nat /\ Stored(n) \in 0 .. 255
         /\ Over(n) => Stored(n) * Granularity = Words[n]
         /\ ~Over(n) => Stored(n) = Words[n]
<1>1. Words[n] \in Nat /\ Chainable(Words[n])
  BY NodeAssumption DEF NodeAssumption
<1> QED BY <1>1, Sizes, Zenon DEF Stored, Over

LEMMA CountIsWords ==
  ASSUME NEW n \in Node, NEW h, NEW over \in BOOLEAN, h.count = Stored(n), over <=> Over(n)
  PROVE  CountOf(h, over) = Words[n]
BY SizeKept DEF CountOf

\* The link to a fragment tells what the handlers must know of it.
LEMMA Marked ==
  ASSUME NEW n \in Node
  PROVE  /\ Mark(n).marked \in BOOLEAN /\ Mark(n).over \in BOOLEAN
         /\ Mark(n).marked <=> Over(n) \/ Stored(n) > Threshold
         /\ Mark(n).over <=> Over(n)
<1>1. Over(n) \in BOOLEAN /\ (Over(n) \/ Stored(n) > Threshold) \in BOOLEAN
  BY DEF Over
<1> QED BY <1>1, Zenon DEF Mark

\* Sequences.
LEMMA Behind ==
  ASSUME NEW S, NEW s \in Seq(S), NEW n \in S
  PROVE  /\ Append(s, n) \in Seq(S) /\ Len(s) \in Nat
         /\ DOMAIN s = 1 .. Len(s) /\ DOMAIN Append(s, n) = 1 .. Len(s) + 1
         /\ Len(Append(s, n)) = Len(s) + 1
         /\ \A i \in 1 .. Len(s) : Append(s, n)[i] = s[i] /\ s[i] \in S
         /\ Append(s, n)[Len(s) + 1] = n
         /\ ToSet(Append(s, n)) = ToSet(s) \union {n}
<1> DEFINE r == Append(s, n)
<1>1. /\ r \in Seq(S) /\ Len(s) \in Nat /\ DOMAIN s = 1 .. Len(s) /\ DOMAIN r = 1 .. Len(s) + 1
      /\ Len(r) = Len(s) + 1 /\ \A i \in 1 .. Len(s) : r[i] = s[i] /\ s[i] \in S
      /\ r[Len(s) + 1] = n
  BY AppendProperties, LenProperties, ElementOfSeq
<1> HIDE DEF r
<1>2. \A x : x \in ToSet(r) <=> x \in ToSet(s) \union {n}
  <2> SUFFICES ASSUME NEW x PROVE (\E i \in DOMAIN r : x = r[i]) <=> (\E i \in DOMAIN s : x = s[i]) \/ x = n
    BY Zenon DEF ToSet
  <2>1. ASSUME NEW i \in DOMAIN r, x = r[i] PROVE (\E j \in DOMAIN s : x = s[j]) \/ x = n
    <3>1. i \in 1 .. Len(s) \/ i = Len(s) + 1
      BY <1>1, <2>1
    <3> QED BY <1>1, <2>1, <3>1
  <2>2. ASSUME NEW i \in DOMAIN s, x = s[i] PROVE \E j \in DOMAIN r : x = r[j]
    <3>1. i \in DOMAIN r /\ r[i] = s[i]
      BY <1>1, <2>2
    <3> QED BY <2>2, <3>1
  <2>3. Len(s) + 1 \in DOMAIN r
    BY <1>1
  <2> QED BY <1>1, <2>1, <2>2, <2>3, Zenon
<1>3. ToSet(r) = ToSet(s) \union {n}
  BY <1>2
<1> QED BY <1>1, <1>3 DEF r

LEMMA Advance ==
  ASSUME Data, Len(sent) + 1 \in DOMAIN sending, \A i \in DOMAIN sent : sent[i] = sending[i],
         sent' = Append(sent, sending[Len(sent) + 1])
  PROVE  /\ sent' \in Seq(Fragments) /\ Len(sent') = Len(sent) + 1 /\ Len(sent) \in Nat
         /\ \A i \in DOMAIN sent' : sent'[i] = sending[i]
         /\ (Len(sent) + 1) + 1 \notin DOMAIN sending => sent' = sending
<1>1. sending[Len(sent) + 1] \in Fragments
  BY ElementOfSeq, LenProperties DEF Data
<1>2. /\ sent' \in Seq(Fragments) /\ Len(sent') = Len(sent) + 1 /\ Len(sent) \in Nat
      /\ DOMAIN sent = 1 .. Len(sent) /\ DOMAIN sent' = 1 .. Len(sent) + 1
      /\ \A i \in 1 .. Len(sent) : sent'[i] = sent[i]
      /\ sent'[Len(sent) + 1] = sending[Len(sent) + 1]
  BY <1>1, Behind DEF Data
<1>3. \A i \in DOMAIN sent' : sent'[i] = sending[i]
  <2> SUFFICES ASSUME NEW i \in DOMAIN sent' PROVE sent'[i] = sending[i]
    OBVIOUS
  <2>1. i \in 1 .. Len(sent) \/ i = Len(sent) + 1
    BY <1>2
  <2> QED BY <1>2, <2>1
<1>4. (Len(sent) + 1) + 1 \notin DOMAIN sending => sent' = sending
  <2> SUFFICES ASSUME (Len(sent) + 1) + 1 \notin DOMAIN sending PROVE sent' = sending
    OBVIOUS
  <2>1. DOMAIN sending = 1 .. Len(sending) /\ Len(sending) \in Nat
    BY LenProperties DEF Data
  <2>2. \A a, b \in Nat : a + 1 \in 1 .. b /\ (a + 1) + 1 \notin 1 .. b => b = a + 1
    OBVIOUS
  <2>3. Len(sent) + 1 \in 1 .. Len(sending) /\ (Len(sent) + 1) + 1 \notin 1 .. Len(sending)
    BY <2>1, Zenon
  <2>4. Len(sending) = Len(sent) + 1
    BY <1>2, <2>1, <2>2, <2>3, Zenon
  <2> QED BY <1>2, <1>3, <2>4, SeqEqual DEF Data
<1> QED BY <1>2, <1>3, <1>4

\* What is sent and what it was chained with.
LEMMA Fragment ==
  ASSUME Data, NEW i \in DOMAIN sending, sending[i][2] = Words[sending[i][1]]
  PROVE  /\ sending[i][1] \in Node \union {Own}
         /\ sending[i] = <<sending[i][1], Words[sending[i][1]]>>
<1>1. sending[i] \in Fragments
  BY ElementOfSeq, LenProperties DEF Data
<1> QED BY <1>1 DEF Fragments

----------------------------------------------------------------------------
\* What a step that leaves the chains and the engine alone keeps.
LEMMA Quiet ==
  ASSUME BuildSound, FlightSound, EngineSound, UNCHANGED <<building, after, callback, sending, sent>>
  PROVE  BuildSound' /\ FlightSound' /\ EngineSound'
<1> USE DEF building, begun, after
<1>1. BuildSound'
  BY Zenon DEF BuildSound, Points
<1>2. FlightSound'
  BY Zenon DEF FlightSound, Points
<1>3. EngineSound'
  BY Zenon DEF EngineSound, At
<1> QED BY <1>1, <1>2, <1>3

LEMMA BuildFrame ==
  ASSUME BuildSound, UNCHANGED begun,
         \A i \in DOMAIN recorded : i + 1 \in DOMAIN recorded => header'[recorded[i]] = header[recorded[i]]
  PROVE  BuildSound'
<1> USE DEF begun
<1>1. (\A i \in DOMAIN recorded : i + 1 \in DOMAIN recorded =>
       header[recorded[i]].count = Stored(recorded[i]) /\ Points(header[recorded[i]], recorded[i + 1]))'
  BY Zenon DEF BuildSound, Points
<1> QED BY <1>1, Zenon DEF BuildSound

LEMMA FlightFrame ==
  ASSUME FlightSound, sending' = sending,
         \A i \in DOMAIN sending :
           /\ sending[i][1] \in Node => header'[sending[i][1]] = header[sending[i][1]]
           /\ sending[i][1] \notin ToSet(recorded')
  PROVE  FlightSound'
<1>1. (\A i \in DOMAIN sending : sending[i][2] = Words[sending[i][1]])'
  BY Zenon DEF FlightSound
<1>2. (\A i \in DOMAIN sending : sending[i][1] \notin ToSet(recorded))'
  BY Zenon
<1>3. CASE \A i \in DOMAIN sending : i = 1 /\ sending[i][1] = Own
  BY <1>1, <1>2, <1>3, Zenon DEF FlightSound
<1>4. CASE \A i \in DOMAIN sending :
             /\ sending[i][1] \in Node
             /\ header[sending[i][1]].count = Stored(sending[i][1])
             /\ IF i + 1 \in DOMAIN sending THEN Points(header[sending[i][1]], sending[i + 1][1])
                ELSE header[sending[i][1]].next = End
  <2>1. (\A i \in DOMAIN sending :
             /\ sending[i][1] \in Node
             /\ header[sending[i][1]].count = Stored(sending[i][1])
             /\ IF i + 1 \in DOMAIN sending THEN Points(header[sending[i][1]], sending[i + 1][1])
                ELSE header[sending[i][1]].next = End)'
    BY <1>4, Zenon DEF Points
  <2> QED BY <1>1, <1>2, <2>1, Zenon DEF FlightSound
<1> QED BY <1>3, <1>4, Zenon DEF FlightSound

----------------------------------------------------------------------------
\* The application chains a fragment.
LEMMA ChainKeeps ==
  ASSUME Flags, Data, BuildSound, FlightSound, EngineSound, NEW n \in Node, Chain(n)
  PROVE  BuildSound' /\ FlightSound' /\ EngineSound'
<1> DEFINE L == Len(recorded)
           r == Append(recorded, n)
<1>1. /\ L \in Nat /\ DOMAIN recorded = 1 .. L /\ DOMAIN r = 1 .. L + 1 /\ Len(r) = L + 1
      /\ \A i \in 1 .. L : r[i] = recorded[i] /\ recorded[i] \in Node
      /\ r[L + 1] = n /\ ToSet(r) = ToSet(recorded) \union {n}
  BY Behind DEF Data
<1>2. recorded' = r /\ tail' = n /\ tailCount' = Stored(n)
  BY Zenon DEF Chain
<1>3. n \notin ToSet(recorded) /\ n \notin InFlight
  BY Zenon DEF Chain
<1>4. UNCHANGED <<after, callback, sending, sent>>
  BY Zenon DEF Chain
<1>5. \A i \in 1 .. L : recorded[i] \in ToSet(recorded) /\ recorded[i] # n
  BY <1>1, <1>3, Zenon DEF ToSet
<1>6. head = End <=> L = 0
  BY <1>1, EmptySeq DEF BuildSound, Data
<1>7. L # 0 => /\ head = recorded[1] /\ (headOver <=> Over(head)) /\ tail = recorded[L]
               /\ tail \in ToSet(recorded) /\ tail \in Node /\ tailCount = Stored(tail)
  <2> SUFFICES ASSUME L # 0
               PROVE  /\ head = recorded[1] /\ (headOver <=> Over(head)) /\ tail = recorded[L]
                      /\ tail \in ToSet(recorded) /\ tail \in Node /\ tailCount = Stored(tail)
    OBVIOUS
  <2>1. recorded # << >>
    BY <1>6, Zenon DEF BuildSound
  <2>2. L \in 1 .. L
    BY <1>1
  <2> QED BY <1>1, <1>5, <2>1, <2>2, Zenon DEF BuildSound
<1>8. IF L = 0 THEN head' = n /\ headOver' = Over(n) /\ header' = header
      ELSE /\ header' = [header EXCEPT ![tail] =
                 [count |-> tailCount, next |-> n, marked |-> Mark(n).marked, over |-> Mark(n).over]]
           /\ head' = head /\ headOver' = headOver
  BY <1>6, Zenon DEF Chain
<1>9. \A m \in Node : m \notin ToSet(recorded) \/ L = 0 \/ m # tail => header'[m] = header[m]
  BY <1>7, <1>8 DEF Data
<1> HIDE DEF L, r
<1>10. BuildSound'
  <2>1. \A i, j \in 1 .. L + 1 : r[i] = r[j] => i = j
    <3>1. \A i \in 1 .. L + 1 : i \in 1 .. L \/ i = L + 1
      BY <1>1
    <3>2. \A i, j \in 1 .. L : recorded[i] = recorded[j] => i = j
      BY <1>1, Zenon DEF BuildSound
    <3> QED BY <1>1, <1>5, <3>1, <3>2, Zenon
  <2>2. head' # End /\ r # << >>
    <3>1. head' # End
      BY <1>6, <1>8, NodeAssumption, Zenon DEF NodeAssumption
    <3>2. L + 1 \in DOMAIN r
      BY <1>1
    <3>3. DOMAIN << >> = {}
      OBVIOUS
    <3> QED BY <3>1, <3>2, <3>3
  <2>3. head' = r[1] /\ (headOver' <=> Over(head'))
    <3>1. CASE L = 0
      BY <1>1, <1>8, <3>1
    <3>2. CASE L # 0
      <4>1. 1 \in 1 .. L
        BY <1>1, <3>2
      <4> QED BY <1>1, <1>7, <1>8, <3>2, <4>1, Zenon
    <3> QED BY <3>1, <3>2
  <2>4. tail' = r[Len(r)] /\ tailCount' = Stored(tail')
    BY <1>1, <1>2, Zenon
  <2>5. ASSUME NEW i \in 1 .. L + 1, i + 1 \in 1 .. L + 1
        PROVE  header'[r[i]].count = Stored(r[i]) /\ Points(header'[r[i]], r[i + 1])
    <3>1. i \in 1 .. L /\ L # 0 /\ L \in 1 .. L
      BY <1>1, <2>5
    <3>2. CASE i = L
      <4>1. header'[tail] = [count |-> tailCount, next |-> n, marked |-> Mark(n).marked, over |-> Mark(n).over]
        BY <1>7, <1>8, <3>1 DEF Data
      <4>2. /\ header'[tail].count = tailCount /\ header'[tail].next = n
            /\ header'[tail].marked = Mark(n).marked /\ header'[tail].over = Mark(n).over
        BY <4>1
      <4> QED BY <1>1, <1>7, <3>1, <3>2, <4>2, Marked, Zenon DEF Points
    <3>3. CASE i # L
      <4>1. i + 1 \in 1 .. L
        BY <1>1, <3>1, <3>3
      <4>2. recorded[i] # tail
        <5>1. tail = recorded[L]
          BY <1>7, <3>1, Zenon
        <5>2. \A k, m \in 1 .. L : recorded[k] = recorded[m] => k = m
          BY <1>1, Zenon DEF BuildSound
        <5> QED BY <3>1, <3>3, <5>1, <5>2, Zenon
      <4>3. header'[recorded[i]] = header[recorded[i]]
        BY <1>1, <1>9, <3>1, <4>2, Zenon
      <4> QED BY <1>1, <3>1, <4>1, <4>3, Zenon DEF BuildSound
    <3> QED BY <3>2, <3>3
  <2> QED BY <1>1, <1>2, <2>1, <2>2, <2>3, <2>4, <2>5, Zenon DEF BuildSound, Points
<1>11. FlightSound'
  <2>1. ASSUME NEW i \in DOMAIN sending
        PROVE  /\ sending[i][1] \in Node => header'[sending[i][1]] = header[sending[i][1]]
               /\ sending[i][1] \notin ToSet(recorded')
    <3>1. sending[i][1] \in InFlight
      BY Zenon DEF InFlight
    <3>2. sending[i][1] \notin ToSet(recorded) /\ sending[i][1] # n
      BY <1>3, <3>1, Zenon DEF FlightSound
    <3> QED BY <1>1, <1>2, <1>9, <3>2
  <2> QED BY <1>4, <2>1, FlightFrame, Zenon
<1>12. EngineSound'
  BY <1>4, Zenon DEF EngineSound, At, after
<1> QED BY <1>10, <1>11, <1>12

----------------------------------------------------------------------------
\* The chain that is about to be sent.
LEMMA Ends ==
  ASSUME Data, BuildSound, head # End
  PROVE  /\ Len(recorded) \in Nat /\ DOMAIN recorded = 1 .. Len(recorded)
         /\ 1 \in 1 .. Len(recorded) /\ Len(recorded) \in 1 .. Len(recorded)
         /\ \A i \in 1 .. Len(recorded) : recorded[i] \in Node /\ (recorded[i] = tail => i = Len(recorded))
         /\ head = recorded[1] /\ (headOver <=> Over(head)) /\ head \in Node
         /\ tail = recorded[Len(recorded)] /\ tailCount = Stored(tail) /\ tail \in Node
<1> DEFINE L == Len(recorded)
<1>1. L \in Nat /\ DOMAIN recorded = 1 .. L /\ \A i \in 1 .. L : recorded[i] \in Node
  BY ElementOfSeq, LenProperties DEF Data
<1>2. recorded # << >>
  BY Zenon DEF BuildSound
<1>3. L # 0
  BY <1>2, EmptySeq DEF Data
<1>4. 1 \in 1 .. L /\ L \in 1 .. L
  BY <1>1, <1>3
<1> HIDE DEF L
<1>5. head = recorded[1] /\ (headOver <=> Over(head)) /\ tail = recorded[L] /\ tailCount = Stored(tail)
  BY <1>2, Zenon DEF BuildSound, L
<1>6. \A i, j \in 1 .. L : recorded[i] = recorded[j] => i = j
  BY <1>1, Zenon DEF BuildSound
<1>7. \A i \in 1 .. L : recorded[i] = tail => i = L
  BY <1>4, <1>5, <1>6, Zenon
<1>8. head \in Node /\ tail \in Node
  BY <1>1, <1>4, <1>5, Zenon
<1> QED BY <1>1, <1>4, <1>5, <1>7, <1>8, Zenon DEF L

\* The chain is closed and its transfer begins.
LEMMA SendKeeps ==
  ASSUME Flags, Data, BuildSound, FlightSound, EngineSound, head # End,
         NEW whom \in {"flip", "block", "main"}, SendChainFor(whom)
  PROVE  /\ BuildSound' /\ FlightSound' /\ EngineSound'
         /\ header' \in [Node -> Headers]
         /\ \/ callback = "none" /\ ~(aborted' /\ ~aborted) /\ sending' \in Seq(Fragments)
            \/ callback # "none" /\ sending' = sending
<1> DEFINE L == Len(recorded)
           closed == [header EXCEPT ![tail] = [Blank EXCEPT !.count = tailCount]]
           count == CountOf(closed[head], headOver)
<1>1. /\ L \in Nat /\ DOMAIN recorded = 1 .. L /\ 1 \in 1 .. L /\ L \in 1 .. L
      /\ \A i \in 1 .. L : recorded[i] \in Node /\ (recorded[i] = tail => i = L)
      /\ head = recorded[1] /\ (headOver <=> Over(head)) /\ head \in Node
      /\ tail = recorded[L] /\ tailCount = Stored(tail) /\ tail \in Node
  BY Ends, Zenon
<1>2. header' = closed /\ UNCHANGED <<headOver, tailCount, clearing>>
  BY Zenon DEF SendChainFor
<1>3. /\ closed[tail].count = Stored(tail) /\ closed[tail].next = End
      /\ \A m \in Node : m # tail => closed[m] = header[m]
      /\ closed \in [Node -> Headers]
  <2> DEFINE ended == [Blank EXCEPT !.count = tailCount]
  <2>a. Blank \in Headers
    BY DEF Blank, Headers
  <2>1. ended \in Headers /\ ended.count = tailCount /\ ended.next = End
    BY <2>a DEF Headers, Data, Blank
  <2>2. closed = [header EXCEPT ![tail] = ended]
    BY Zenon
  <2> HIDE DEF ended, closed
  <2>3. closed[tail] = ended /\ (\A m \in Node : m # tail => closed[m] = header[m])
    BY <1>1, <2>2 DEF Data
  <2>4. closed \in [Node -> Headers]
    BY <1>1, <2>1, <2>2 DEF Data
  <2> QED BY <1>1, <2>1, <2>3, <2>4
<1>a. callback = "none" =>
        IF headOver \/ count > Threshold THEN Follow(closed[head]) /\ Normal(head, count)
        ELSE Linked(head) /\ UNCHANGED <<next, nextOver>>
  BY Zenon DEF SendChainFor
<1> HIDE DEF L, closed
<1>4. \A i \in 1 .. L :
        /\ closed[recorded[i]].count = Stored(recorded[i])
        /\ IF i + 1 \in 1 .. L THEN Points(closed[recorded[i]], recorded[i + 1])
           ELSE closed[recorded[i]].next = End
  <2> SUFFICES ASSUME NEW i \in 1 .. L
               PROVE  /\ closed[recorded[i]].count = Stored(recorded[i])
                      /\ IF i + 1 \in 1 .. L THEN Points(closed[recorded[i]], recorded[i + 1])
                         ELSE closed[recorded[i]].next = End
    OBVIOUS
  <2>1. CASE i = L
    <3>1. i + 1 \notin 1 .. L
      BY <1>1, <2>1
    <3> QED BY <1>1, <1>3, <2>1, <3>1, Zenon
  <2>2. CASE i # L
    <3>1. i + 1 \in 1 .. L
      BY <1>1, <2>2
    <3>2. closed[recorded[i]] = header[recorded[i]]
      BY <1>1, <1>3, <2>2, Zenon
    <3>3. header[recorded[i]].count = Stored(recorded[i]) /\ Points(header[recorded[i]], recorded[i + 1])
      BY <1>1, <3>1, Zenon DEF BuildSound
    <3> QED BY <3>1, <3>2, <3>3, Zenon
  <2> QED BY <2>1, <2>2
<1>5. CASE callback # "none"
  <2>1. UNCHANGED <<head, tail, recorded, callback, next, nextOver, engine, sending, sent>>
    BY <1>5, Zenon DEF SendChainFor
  <2>2. ASSUME NEW i \in DOMAIN recorded, i + 1 \in DOMAIN recorded
        PROVE  header'[recorded[i]] = header[recorded[i]]
    <3>1. i # L
      BY <1>1, <2>2
    <3> QED BY <1>1, <1>2, <1>3, <3>1, Zenon
  <2>3. BuildSound'
    BY <1>2, <2>1, <2>2, BuildFrame, Zenon DEF begun
  <2>4. ASSUME NEW i \in DOMAIN sending
        PROVE  /\ sending[i][1] \in Node => header'[sending[i][1]] = header[sending[i][1]]
               /\ sending[i][1] \notin ToSet(recorded')
    <3>1. sending[i][1] \notin ToSet(recorded) /\ tail \in ToSet(recorded)
      BY <1>1, Zenon DEF FlightSound, ToSet
    <3> QED BY <1>2, <1>3, <2>1, <3>1, Zenon
  <2>5. FlightSound'
    BY <2>1, <2>4, FlightFrame, Zenon
  <2>6. EngineSound'
    BY <1>2, <2>1, Zenon DEF EngineSound, At
  <2> QED BY <1>2, <1>3, <1>5, <2>1, <2>3, <2>5, <2>6, Zenon
<1>6. CASE callback = "none"
  <2>1. /\ head' = End /\ tail' = End /\ recorded' = << >> /\ callback' = whom
        /\ sending' = [i \in DOMAIN recorded |-> <<recorded[i], Words[recorded[i]]>>] /\ sent' = << >>
        /\ UNCHANGED aborted
    BY <1>6, Zenon DEF SendChainFor
  <2>2. IF headOver \/ count > Threshold THEN Follow(closed[head]) /\ Normal(head, count)
        ELSE Linked(head) /\ UNCHANGED <<next, nextOver>>
    BY <1>6, <1>a, Zenon
  <2>3. /\ DOMAIN sending' = 1 .. L
        /\ \A i \in 1 .. L : sending'[i][1] = recorded[i] /\ sending'[i][2] = Words[recorded[i]]
    BY <1>1, <2>1
  <2>4. ToSet(recorded') = {} /\ DOMAIN recorded' = {} /\ DOMAIN sent' = {} /\ Len(sent') = 0
    BY <2>1 DEF ToSet
  <2>5. sending' \in Seq(Fragments) /\ sending' # << >>
    <3>1. \A i \in 1 .. L : <<recorded[i], Words[recorded[i]]>> \in Fragments
      BY <1>1, NodeAssumption DEF Fragments, NodeAssumption
    <3>2. sending' \in [1 .. L -> Fragments]
      BY <1>1, <2>1, <3>1
    <3>3. sending' \in Seq(Fragments)
      BY <1>1, <3>2, SeqDef, Zenon
    <3> QED BY <1>1, <2>3, <3>3
  <2>6. BuildSound'
    BY <2>1, <2>4, Zenon DEF BuildSound
  <2>7. FlightSound'
    <3>1. (\A i \in DOMAIN sending :
          /\ sending[i][1] \in Node
          /\ header[sending[i][1]].count = Stored(sending[i][1])
          /\ IF i + 1 \in DOMAIN sending THEN Points(header[sending[i][1]], sending[i + 1][1])
             ELSE header[sending[i][1]].next = End)'
      <4>1. ASSUME NEW i \in 1 .. L
            PROVE  /\ sending'[i][1] \in Node
                   /\ header'[sending'[i][1]].count = Stored(sending'[i][1])
                   /\ IF i + 1 \in 1 .. L THEN Points(header'[sending'[i][1]], sending'[i + 1][1])
                      ELSE header'[sending'[i][1]].next = End
        <5>1. sending'[i][1] = recorded[i] /\ header' = closed /\ recorded[i] \in Node
          BY <1>1, <1>2, <2>3, Zenon
        <5>2. CASE i + 1 \in 1 .. L
          <6>1. sending'[i + 1][1] = recorded[i + 1]
            BY <2>3, <5>2, Zenon
          <6> QED BY <1>4, <5>1, <5>2, <6>1, Zenon
        <5>3. CASE i + 1 \notin 1 .. L
          BY <1>4, <5>1, <5>3, Zenon
        <5> QED BY <5>2, <5>3
      <4> QED BY <2>3, <4>1, Zenon DEF Points
    <3>2. (\A i \in DOMAIN sending : sending[i][2] = Words[sending[i][1]])'
      BY <2>3, Zenon
    <3>3. (\A i \in DOMAIN sending : sending[i][1] \notin ToSet(recorded))'
      BY <2>4, Zenon
    <3> QED BY <3>1, <3>2, <3>3, Zenon DEF FlightSound
  <2>8. next = End /\ clearing = End
    BY <1>6, Zenon DEF EngineSound
  <2>9. Len(sent') + 1 = 1 /\ At' = 1 /\ At' \in DOMAIN sending'
    <3>1. Len(sent') + 1 = 1
      BY <2>4
    <3> QED BY <1>1, <2>3, <3>1, Zenon DEF At
  <2>10. count = Words[head]
    <3>1. closed[head].count = Stored(head)
      BY <1>1, <1>4, Zenon
    <3> QED BY <1>1, <3>1, CountIsWords, Zenon DEF Flags
  <2> HIDE DEF count
  <2>11. EngineSound'
    <3>a. callback' # "none" /\ clearing' = End /\ sent' = << >>
      BY <1>2, <2>1, <2>8
    <3>1. CASE headOver \/ count > Threshold
      <4>1. /\ next' = closed[head].next /\ nextOver' = (closed[head].next # End /\ closed[head].over)
            /\ engine' = [mode |-> "normal", node |-> head, words |-> count]
        BY <2>2, <3>1, Zenon DEF Follow, Normal
      <4>2. engine'.mode = "normal" /\ engine'.node = head /\ engine'.words = Words[head]
        BY <2>10, <4>1
      <4>3. IF 2 \in 1 .. L THEN next' = recorded[2] /\ (nextOver' <=> Over(next')) ELSE next' = End
        <5>1. IF 2 \in 1 .. L THEN Points(closed[head], recorded[2]) ELSE closed[head].next = End
          BY <1>1, <1>4
        <5>2. 2 \in 1 .. L => recorded[2] # End
          BY <1>1, NodeAssumption, Zenon DEF NodeAssumption
        <5> QED BY <4>1, <5>1, <5>2, Zenon DEF Points
      <4>4. nextOver' => next' # End
        BY <4>1, Zenon
      <4>5. At' + 1 = 2
        BY <2>9
      <4>6. engine'.mode # "off" /\ engine'.mode # "linked"
        BY <4>2
      <4>7. IF At' + 1 \in DOMAIN sending' THEN next' = sending'[At' + 1][1] /\ (nextOver' <=> Over(next'))
            ELSE next' = End
        BY <2>3, <4>3, <4>5, Zenon
      <4>8. engine'.node = sending'[At'][1]
        BY <1>1, <2>3, <2>9, <4>2, Zenon
      <4> QED BY <2>4, <2>5, <2>9, <3>a, <4>2, <4>4, <4>6, <4>7, <4>8, Zenon DEF EngineSound
    <3>2. CASE ~(headOver \/ count > Threshold)
      <4>1. engine' = [mode |-> "linked", node |-> head] /\ UNCHANGED <<next, nextOver>>
        BY <2>2, <3>2, Zenon DEF Linked
      <4>2. engine'.mode = "linked" /\ engine'.node = head
        BY <4>1
      <4>3. Words[head] <= Threshold
        <5>1. Words[head] \in Nat
          BY <1>1, SizeKept, Zenon
        <5>2. ~(Words[head] > Threshold)
          BY <2>10, <3>2, Zenon
        <5> QED BY <5>1, <5>2 DEF Threshold
      <4>4. nextOver' => next' # End
        BY <4>1, Zenon DEF EngineSound
      <4>5. engine'.mode # "off" /\ engine'.mode # "normal"
        BY <4>2
      <4> QED BY <1>1, <2>3, <2>4, <2>5, <2>8, <2>9, <3>a, <4>1, <4>2, <4>3, <4>4, <4>5, Zenon DEF EngineSound
    <3> QED BY <3>1, <3>2
  <2> QED BY <1>2, <1>3, <1>6, <2>1, <2>5, <2>6, <2>7, <2>11, Zenon
<1> QED BY <1>5, <1>6

\* A fragment is sent alone.
LEMMA SendFragmentKeeps ==
  ASSUME Flags, Data, BuildSound, FlightSound, EngineSound, NEW whom \in {"block", "main"}, SendFragment(whom)
  PROVE  BuildSound' /\ FlightSound' /\ EngineSound' /\ sending' \in Seq(Fragments) /\ callback = "none"
<1>1. /\ callback' = whom /\ callback = "none" /\ UNCHANGED <<building, next, nextOver, clearing>>
      /\ sending' = <<<<Own, Words[Own]>>>> /\ sent' = << >>
      /\ engine' = [mode |-> "normal", node |-> Own, words |-> Words[Own]]
  BY Zenon DEF SendFragment, MayTransfer, Normal
<1>2. UNCHANGED <<begun, header>>
  BY <1>1, Zenon DEF building
<1>3. BuildSound'
  BY <1>2, BuildFrame, Zenon
<1>4. /\ sending' \in Seq(Fragments) /\ DOMAIN sending' = {1} /\ sending'[1] = <<Own, Words[Own]>>
      /\ sending' # << >>
  <2>1. <<Own, Words[Own]>> \in Fragments
    BY NodeAssumption DEF Fragments, NodeAssumption
  <2>2. DOMAIN sending' = {1} /\ sending'[1] = <<Own, Words[Own]>>
    BY <1>1
  <2>3. sending' \in Seq(Fragments)
    BY <1>1, <2>1
  <2>4. DOMAIN << >> = {} /\ 1 \notin {}
    OBVIOUS
  <2> QED BY <2>2, <2>3, <2>4, Zenon
<1>5. sending'[1][1] = Own /\ sending'[1][2] = Words[Own]
  BY <1>4
<1>6. FlightSound'
  <2>1. Own \notin ToSet(recorded)
    <3>1. \A i \in DOMAIN recorded : recorded[i] \in Node
      BY ElementOfSeq, LenProperties DEF Data
    <3> QED BY <3>1, NodeAssumption, Zenon DEF ToSet, NodeAssumption
  <2>2. (\A i \in DOMAIN sending : i = 1 /\ sending[i][1] = Own)'
    BY <1>4, <1>5, Zenon
  <2>3. (\A i \in DOMAIN sending : sending[i][2] = Words[sending[i][1]])'
    BY <1>4, <1>5, Zenon
  <2>4. (\A i \in DOMAIN sending : sending[i][1] \notin ToSet(recorded))'
    BY <1>2, <1>4, <1>5, <2>1, Zenon DEF begun
  <2> QED BY <2>2, <2>3, <2>4, Zenon DEF FlightSound
<1>7. EngineSound'
  <2>1. next = End /\ clearing = End /\ ~nextOver
    BY <1>1, Zenon DEF EngineSound
  <2>2. engine'.mode = "normal" /\ engine'.node = Own /\ engine'.words = Words[Own]
    BY <1>1
  <2>3. engine'.mode # "off" /\ engine'.mode # "linked" /\ callback' # "none"
    BY <1>1, <2>2
  <2>4. Len(sent') = 0 /\ DOMAIN sent' = {}
    BY <1>1
  <2>5. Len(sent') + 1 = 1 /\ 1 + 1 \notin {1}
    BY <2>4
  <2> QED BY <1>1, <1>4, <1>5, <2>1, <2>2, <2>3, <2>4, <2>5, Zenon DEF EngineSound, At
<1> QED BY <1>1, <1>3, <1>4, <1>6, <1>7, Zenon

----------------------------------------------------------------------------
\* All has been sent: the next table is cleared, or the callback is called.
LEMMA CheckKeeps ==
  ASSUME Flags, Data, BuildSound, FlightSound, EngineSound, CheckOTC,
         UNCHANGED begun, next' = End, ~nextOver', callback # "none", engine'.mode = "off", sent' = sending
  PROVE  /\ BuildSound' /\ FlightSound' /\ EngineSound'
         /\ header' \in [Node -> Headers] /\ otcs' \in [{0, 1} -> Seq(Table)] /\ clearing' \in Table \union {End}
         /\ sending' = sending \/ sending' = << >>
<1>1. engine'.mode # "normal" /\ engine'.mode # "linked"
  OBVIOUS
<1>2. 1 - parity \in {0, 1}
  BY DEF Data
<1>3. CASE otcs[1 - parity] # << >>
  <2>1. /\ clearing' = Head(otcs[1 - parity]) /\ otcs' = [otcs EXCEPT ![1 - parity] = Tail(@)]
        /\ UNCHANGED <<callback, waiting, queued, status, sending, header>>
    BY <1>3, Zenon DEF CheckOTC
  <2>2. otcs[1 - parity] \in Seq(Table)
    BY <1>2, Zenon DEF Data
  <2>3. Head(otcs[1 - parity]) \in Table /\ Tail(otcs[1 - parity]) \in Seq(Table)
    BY <1>3, <2>2, HeadTailProperties, Zenon
  <2>4. otcs' \in [{0, 1} -> Seq(Table)]
    BY <1>2, <2>1, <2>3, Zenon DEF Data
  <2>5. clearing' # End
    BY <2>1, <2>3, NodeAssumption, Zenon DEF NodeAssumption
  <2>6. BuildSound'
    BY <2>1, BuildFrame, Zenon
  <2>7. FlightSound'
    BY <2>1, FlightFrame, Zenon DEF FlightSound, begun
  <2>8. EngineSound'
    BY <1>1, <2>1, <2>5, Zenon DEF EngineSound
  <2> QED BY <2>1, <2>3, <2>4, <2>6, <2>7, <2>8, Zenon DEF Data
<1>4. CASE otcs[1 - parity] = << >>
  <2>1. /\ callback' = "none" /\ sending' = << >> /\ clearing' = End /\ UNCHANGED otcs
        /\ header' = [n \in Node |-> IF n \in InFlight THEN Blank ELSE header[n]]
    BY <1>4, Zenon DEF CheckOTC
  <2>2. \A i \in DOMAIN recorded : recorded[i] \in Node
    BY ElementOfSeq, LenProperties DEF Data
  <2>3. \A i \in DOMAIN recorded : recorded[i] \notin InFlight
    BY Zenon DEF FlightSound, InFlight, ToSet
  <2>4. \A i \in DOMAIN recorded : header'[recorded[i]] = header[recorded[i]]
    BY <2>1, <2>2, <2>3, Zenon
  <2>5. BuildSound'
    BY <2>4, BuildFrame, Zenon
  <2>6. DOMAIN sending' = {}
    BY <2>1
  <2>7. FlightSound'
    BY <2>6, Zenon DEF FlightSound
  <2>8. EngineSound'
    BY <1>1, <2>1, Zenon DEF EngineSound
  <2>9. header' \in [Node -> Headers]
    <3>1. Blank \in Headers
      BY DEF Blank, Headers
    <3>2. \A n \in Node : header[n] \in Headers
      BY DEF Data
    <3> QED BY <2>1, <3>1, <3>2
  <2> QED BY <2>1, <2>5, <2>7, <2>8, <2>9, Zenon DEF Data
<1> QED BY <1>3, <1>4, Zenon

----------------------------------------------------------------------------
\* Where the engine is, and what is behind it.
LEMMA EngineAt ==
  ASSUME Data, FlightSound, EngineSound, engine.mode # "off"
  PROVE  /\ At \in Nat \ {0} /\ At \in DOMAIN sending /\ engine.node = sending[At][1]
         /\ engine.node \in Node \union {Own} /\ callback # "none" /\ clearing = End
         /\ engine.node \in Node \/ At + 1 \in DOMAIN sending =>
              \A i \in DOMAIN sending :
                /\ sending[i][1] \in Node
                /\ header[sending[i][1]].count = Stored(sending[i][1])
                /\ IF i + 1 \in DOMAIN sending THEN Points(header[sending[i][1]], sending[i + 1][1])
                   ELSE header[sending[i][1]].next = End
<1>1. Len(sent) \in Nat
  BY LenProperties DEF Data
<1>2. At \in Nat \ {0} /\ At + 1 # 1
  BY <1>1 DEF At
<1>3. At \in DOMAIN sending /\ engine.node = sending[At][1] /\ clearing = End
  BY Zenon DEF EngineSound
<1>4. callback # "none"
  BY Zenon DEF EngineSound
<1>5. engine.node \in Node \union {Own}
  BY <1>3, Fragment, Zenon DEF FlightSound
<1>6. CASE \A i \in DOMAIN sending : i = 1 /\ sending[i][1] = Own
  <2>1. engine.node \notin Node /\ At + 1 \notin DOMAIN sending
    BY <1>2, <1>3, <1>6, NodeAssumption, Zenon DEF NodeAssumption
  <2> QED BY <1>2, <1>3, <1>4, <1>5, <2>1, Zenon
<1>7. CASE ~(\A i \in DOMAIN sending : i = 1 /\ sending[i][1] = Own)
  BY <1>2, <1>3, <1>4, <1>5, <1>7, Zenon DEF FlightSound
<1> QED BY <1>6, <1>7

\* What follows when a fragment has been sent.
LEMMA SentOne ==
  ASSUME Data, FlightSound, EngineSound, engine.mode # "off",
         sent' = Append(sent, <<engine.node, Words[engine.node]>>)
  PROVE  /\ sent' \in Seq(Fragments) /\ At' = At + 1 /\ \A i \in DOMAIN sent' : sent'[i] = sending[i]
         /\ At + 1 \notin DOMAIN sending => sent' = sending
<1>1. At \in DOMAIN sending /\ engine.node = sending[At][1]
  BY EngineAt, Zenon
<1>2. sending[At] = <<engine.node, Words[engine.node]>>
  BY <1>1, Fragment, Zenon DEF FlightSound
<1>3. Len(sent) + 1 \in DOMAIN sending /\ \A i \in DOMAIN sent : sent[i] = sending[i]
  BY <1>1, Zenon DEF EngineSound, At
<1>4. sent' = Append(sent, sending[Len(sent) + 1])
  BY <1>2, Zenon DEF At
<1>6. /\ sent' \in Seq(Fragments) /\ Len(sent') = Len(sent) + 1
      /\ \A i \in DOMAIN sent' : sent'[i] = sending[i]
      /\ (Len(sent) + 1) + 1 \notin DOMAIN sending => sent' = sending
  BY <1>3, <1>4, Advance, Zenon
<1>7. At = Len(sent) + 1 /\ At' = Len(sent') + 1
  BY DEF At
<1>8. At' = At + 1
  BY <1>6, <1>7, Zenon
<1> QED BY <1>6, <1>7, <1>8, Zenon

\* The controller walks on.
LEMMA WalkKeeps ==
  ASSUME Flags, Data, BuildSound, FlightSound, EngineSound, Walk
  PROVE  BuildSound' /\ FlightSound' /\ EngineSound' /\ sent' \in Seq(Fragments)
<1> DEFINE a == engine.node
           h == header[a]
           b == sending[At + 1][1]
<1>1. /\ engine.mode = "linked" /\ h.next # End /\ ~h.marked /\ sent' = Append(sent, <<a, h.count>>)
      /\ engine' = [mode |-> "linked", node |-> h.next]
      /\ UNCHANGED <<building, next, nextOver, clearing, callback, sending>>
  BY Zenon DEF Walk, Linked
<1>2. engine.mode # "off"
  BY <1>1
<1>3. a \in Node /\ next = End /\ ~nextOver /\ Words[a] <= Threshold
  BY <1>1, Zenon DEF EngineSound
<1>4. At \in Nat /\ At \in DOMAIN sending /\ a = sending[At][1] /\ callback # "none" /\ clearing = End
  BY <1>2, EngineAt, Zenon
<1>5. \A i \in DOMAIN sending :
        /\ sending[i][1] \in Node
        /\ header[sending[i][1]].count = Stored(sending[i][1])
        /\ IF i + 1 \in DOMAIN sending THEN Points(header[sending[i][1]], sending[i + 1][1])
           ELSE header[sending[i][1]].next = End
  BY <1>2, <1>3, EngineAt, Zenon
<1>6. At + 1 \in DOMAIN sending /\ Points(h, b) /\ h.count = Stored(a) /\ b \in Node
  BY <1>1, <1>4, <1>5, Zenon
<1>7. h.next = b /\ ~Over(b) /\ ~(Stored(b) > Threshold)
  BY <1>1, <1>6, Zenon DEF Points
<1>8. Words[b] <= Threshold
  <2>1. Words[b] \in Nat /\ Stored(b) = Words[b]
    BY <1>6, <1>7, SizeKept, Zenon
  <2> QED BY <1>7, <2>1 DEF Threshold
<1>9. h.count = Words[a]
  <2>1. Words[a] \in Nat /\ (~Over(a) => Stored(a) = Words[a])
    BY <1>3, SizeKept, Zenon
  <2>2. ~Over(a)
    BY <1>3, <2>1 DEF Over, Threshold, MaxNodeWords
  <2> QED BY <1>6, <2>1, <2>2, Zenon
<1>10. sent' \in Seq(Fragments) /\ At' = At + 1 /\ \A i \in DOMAIN sent' : sent'[i] = sending[i]
  BY <1>1, <1>2, <1>9, SentOne, Zenon
<1>11. engine'.mode = "linked" /\ engine'.node = b
  BY <1>1, <1>7
<1>12. engine'.mode # "off" /\ engine'.mode # "normal"
  BY <1>11
<1> HIDE DEF a, h
<1>13. BuildSound' /\ FlightSound'
  <2>1. UNCHANGED <<begun, header>>
    BY <1>1, Zenon DEF building
  <2>2. BuildSound'
    BY <2>1, BuildFrame, Zenon
  <2>3. FlightSound'
    BY <1>1, <2>1, FlightFrame, Zenon DEF FlightSound, begun
  <2> QED BY <2>2, <2>3
<1>14. EngineSound'
  <2>1. sending' # << >> /\ callback' # "none"
    BY <1>1, <1>4, Zenon DEF EngineSound
  <2>2. /\ At' \in DOMAIN sending' /\ engine'.node = sending'[At'][1] /\ engine'.node \in Node
        /\ Words[engine'.node] <= Threshold /\ \A i \in DOMAIN sent' : sent'[i] = sending'[i]
        /\ next' = End /\ ~nextOver' /\ clearing' = End
    BY <1>1, <1>3, <1>4, <1>6, <1>8, <1>10, <1>11, Zenon
  <2> QED BY <1>11, <1>12, <2>1, <2>2, Zenon DEF EngineSound
<1> QED BY <1>10, <1>13, <1>14

\* The handler sends the fragment behind: both ways of coming to it.
LEMMA NextNormal ==
  ASSUME Flags, Data, FlightSound, EngineSound, engine.mode # "off", At + 1 \in DOMAIN sending,
         sent' = Append(sent, <<engine.node, Words[engine.node]>>),
         NEW b, b = sending[At + 1][1], NEW over \in BOOLEAN, over <=> Over(b),
         Follow(header[b]), Normal(b, CountOf(header[b], over)), UNCHANGED <<clearing, callback, sending>>
  PROVE  EngineSound'
<1>1. /\ At \in Nat /\ At \in DOMAIN sending /\ callback # "none" /\ clearing = End
      /\ \A i \in DOMAIN sending :
           /\ sending[i][1] \in Node
           /\ header[sending[i][1]].count = Stored(sending[i][1])
           /\ IF i + 1 \in DOMAIN sending THEN Points(header[sending[i][1]], sending[i + 1][1])
              ELSE header[sending[i][1]].next = End
  BY EngineAt, Zenon
<1>2. At' = At + 1 /\ \A i \in DOMAIN sent' : sent'[i] = sending[i]
  BY SentOne, Zenon
<1>3. /\ b \in Node /\ header[b].count = Stored(b)
      /\ IF (At + 1) + 1 \in DOMAIN sending THEN Points(header[b], sending[(At + 1) + 1][1])
         ELSE header[b].next = End
      /\ (At + 1) + 1 \in DOMAIN sending => sending[(At + 1) + 1][1] \in Node
  BY <1>1, Zenon
<1>4. CountOf(header[b], over) = Words[b]
  BY <1>3, CountIsWords, Zenon
<1>5. /\ next' = header[b].next /\ nextOver' = (header[b].next # End /\ header[b].over)
      /\ engine' = [mode |-> "normal", node |-> b, words |-> Words[b]]
  BY <1>4, Zenon DEF Follow, Normal
<1>6. engine'.mode = "normal" /\ engine'.node = b /\ engine'.words = Words[b]
  BY <1>5
<1>7. engine'.mode # "off" /\ engine'.mode # "linked"
  BY <1>6
<1>8. IF At' + 1 \in DOMAIN sending THEN next' = sending[At' + 1][1] /\ (nextOver' <=> Over(next'))
      ELSE next' = End
  <2>1. CASE (At + 1) + 1 \in DOMAIN sending
    <3>1. Points(header[b], sending[(At + 1) + 1][1]) /\ sending[(At + 1) + 1][1] # End
      BY <1>3, <2>1, NodeAssumption, Zenon DEF NodeAssumption
    <3> QED BY <1>2, <1>5, <2>1, <3>1, Zenon DEF Points
  <2>2. CASE (At + 1) + 1 \notin DOMAIN sending
    BY <1>2, <1>3, <1>5, <2>2, Zenon
  <2> QED BY <2>1, <2>2
<1>9. nextOver' => next' # End
  BY <1>5, Zenon
<1>10. sending # << >> /\ callback' # "none" /\ clearing' = End
  BY <1>1, Zenon DEF EngineSound
<1> QED BY <1>2, <1>6, <1>7, <1>8, <1>9, <1>10, Zenon DEF EngineSound

\* What the handlers leave alone of the chains when the transfer goes on.
LEMMA GoOnKeeps ==
  ASSUME BuildSound, FlightSound, GoOn, UNCHANGED begun
  PROVE  BuildSound' /\ FlightSound' /\ UNCHANGED <<clearing, otcs, callback, header, sending>>
<1>1. UNCHANGED <<clearing, otcs, callback, header, sending>>
  BY Zenon DEF GoOn
<1>2. BuildSound'
  BY <1>1, BuildFrame, Zenon
<1>3. FlightSound'
  BY <1>1, FlightFrame, Zenon DEF FlightSound, begun
<1> QED BY <1>1, <1>2, <1>3

\* What a handler leaves behind, whichever way it goes.
HandlerKeeps ==
  /\ BuildSound' /\ FlightSound' /\ EngineSound'
  /\ header' \in [Node -> Headers] /\ otcs' \in [{0, 1} -> Seq(Table)] /\ clearing' \in Table \union {End}
  /\ sent' \in Seq(Fragments)
  /\ sending' = sending \/ (sending' = << >> /\ sent' = sending)

\* A block has been sent.
LEMMA NormalDoneKeeps ==
  ASSUME Flags, Data, BuildSound, FlightSound, EngineSound, NormalDone
  PROVE  HandlerKeeps
<1>1. engine.mode = "normal" /\ sent' = Append(sent, <<engine.node, engine.words>>) /\ UNCHANGED begun
  BY Zenon DEF NormalDone
<1>2. engine.mode # "off"
  BY <1>1
<1>3. /\ engine.words = Words[engine.node]
      /\ IF At + 1 \in DOMAIN sending THEN next = sending[At + 1][1] /\ (nextOver <=> Over(next))
         ELSE next = End
  BY <1>1, Zenon DEF EngineSound
<1>4. /\ sent' \in Seq(Fragments) /\ At' = At + 1 /\ \A i \in DOMAIN sent' : sent'[i] = sending[i]
      /\ At + 1 \notin DOMAIN sending => sent' = sending
  BY <1>1, <1>2, <1>3, SentOne, Zenon
<1>5. callback # "none" /\ clearing = End
  BY <1>2, EngineAt, Zenon
<1>6. CASE next = End
  <2>1. engine' = Off /\ CheckOTC /\ UNCHANGED <<next, nextOver>>
    BY <1>6, Zenon DEF NormalDone, Finish
  <2>2. engine'.mode = "off"
    BY <2>1 DEF Off
  <2>3. next' = End /\ ~nextOver'
    BY <1>6, <2>1, Zenon DEF EngineSound
  <2>4. At + 1 \notin DOMAIN sending
    <3>1. ASSUME At + 1 \in DOMAIN sending PROVE FALSE
      <4>1. sending[At + 1][1] \in Node
        BY <1>2, <3>1, EngineAt, Zenon
      <4> QED BY <1>3, <1>6, <3>1, <4>1, NodeAssumption, Zenon DEF NodeAssumption
    <3> QED BY <3>1
  <2> QED BY <1>1, <1>4, <1>5, <2>1, <2>2, <2>3, <2>4, CheckKeeps, Zenon DEF HandlerKeeps
<1>7. CASE next # End
  <2> DEFINE count == CountOf(header[next], nextOver)
  <2>1. /\ GoOn
        /\ IF nextOver \/ count > Threshold THEN Follow(header[next]) /\ Normal(next, count)
           ELSE next' = End /\ nextOver' = FALSE /\ Linked(next)
    BY <1>7, Zenon DEF NormalDone
  <2>2. At + 1 \in DOMAIN sending /\ next = sending[At + 1][1] /\ (nextOver <=> Over(next)) /\ nextOver \in BOOLEAN
    BY <1>3, <1>7, Zenon DEF Flags
  <2>3. BuildSound' /\ FlightSound' /\ UNCHANGED <<clearing, otcs, callback, header, sending>>
    BY <1>1, <2>1, GoOnKeeps, Zenon
  <2>4. next \in Node /\ header[next].count = Stored(next)
    BY <1>2, <2>2, EngineAt, Zenon
  <2>5. count = Words[next]
    BY <2>2, <2>4, CountIsWords, Zenon
  <2>6. EngineSound'
    <3>1. CASE nextOver \/ count > Threshold
      <4>1. Follow(header[next]) /\ Normal(next, count)
        BY <2>1, <3>1, Zenon
      <4>2. sent' = Append(sent, <<engine.node, Words[engine.node]>>)
        BY <1>1, <1>3, Zenon
      <4> QED BY <1>2, <2>2, <2>3, <4>1, <4>2, NextNormal, Zenon
    <3>2. CASE ~(nextOver \/ count > Threshold)
      <4>1. next' = End /\ nextOver' = FALSE /\ engine' = [mode |-> "linked", node |-> next]
        BY <2>1, <3>2, Zenon DEF Linked
      <4>2. engine'.mode = "linked" /\ engine'.node = next
        BY <4>1
      <4>3. engine'.mode # "off" /\ engine'.mode # "normal"
        BY <4>2
      <4>4. Words[next] <= Threshold
        <5>1. Words[next] \in Nat /\ ~(Words[next] > Threshold)
          BY <2>4, <2>5, <3>2, SizeKept, Zenon
        <5> QED BY <5>1 DEF Threshold
      <4>5. sending # << >>
        BY <1>5, Zenon DEF EngineSound
      <4>6. /\ At' \in DOMAIN sending' /\ engine'.node = sending'[At'][1] /\ engine'.node \in Node
            /\ Words[engine'.node] <= Threshold /\ \A i \in DOMAIN sent' : sent'[i] = sending'[i]
            /\ ~nextOver' /\ clearing' = End /\ callback' # "none" /\ sending' # << >>
        BY <1>4, <1>5, <2>2, <2>3, <2>4, <4>1, <4>2, <4>4, <4>5, Zenon
      <4> QED BY <4>1, <4>2, <4>3, <4>6, Zenon DEF EngineSound
    <3> QED BY <3>1, <3>2
  <2> QED BY <1>4, <2>3, <2>6, Zenon DEF HandlerKeeps, Data
<1> QED BY <1>6, <1>7

\* The controller has stopped.
LEMMA LinkedDoneKeeps ==
  ASSUME Flags, Data, BuildSound, FlightSound, EngineSound, LinkedDone
  PROVE  HandlerKeeps
<1> DEFINE a == engine.node
           h == header[a]
           b == sending[At + 1][1]
<1>1. /\ engine.mode = "linked" /\ (h.next = End \/ h.marked) /\ sent' = Append(sent, <<a, h.count>>)
      /\ UNCHANGED begun
      /\ IF h.next = End THEN Finish
         ELSE /\ Follow(header[h.next]) /\ Normal(h.next, CountOf(header[h.next], h.over)) /\ GoOn
  BY Zenon DEF LinkedDone
<1>2. engine.mode # "off"
  BY <1>1
<1>3. a \in Node /\ next = End /\ ~nextOver /\ Words[a] <= Threshold
  BY <1>1, Zenon DEF EngineSound
<1>4. At \in Nat /\ At \in DOMAIN sending /\ a = sending[At][1] /\ callback # "none" /\ clearing = End
  BY <1>2, EngineAt, Zenon
<1>5. \A i \in DOMAIN sending :
        /\ sending[i][1] \in Node
        /\ header[sending[i][1]].count = Stored(sending[i][1])
        /\ IF i + 1 \in DOMAIN sending THEN Points(header[sending[i][1]], sending[i + 1][1])
           ELSE header[sending[i][1]].next = End
  BY <1>2, <1>3, EngineAt, Zenon
<1>6. /\ h.count = Stored(a)
      /\ IF At + 1 \in DOMAIN sending THEN Points(h, b) /\ b \in Node ELSE h.next = End
  BY <1>4, <1>5, Zenon
<1>7. h.count = Words[a]
  <2>1. Words[a] \in Nat /\ (~Over(a) => Stored(a) = Words[a])
    BY <1>3, SizeKept, Zenon
  <2>2. ~Over(a)
    BY <1>3, <2>1 DEF Over, Threshold, MaxNodeWords
  <2> QED BY <1>6, <2>1, <2>2, Zenon
<1>8. sent' = Append(sent, <<engine.node, Words[engine.node]>>)
  BY <1>1, <1>7, Zenon
<1>9. /\ sent' \in Seq(Fragments) /\ At' = At + 1 /\ \A i \in DOMAIN sent' : sent'[i] = sending[i]
      /\ At + 1 \notin DOMAIN sending => sent' = sending
  BY <1>2, <1>8, SentOne, Zenon
<1>10. CASE h.next = End
  <2>1. engine' = Off /\ CheckOTC /\ UNCHANGED <<next, nextOver>>
    BY <1>1, <1>10, Zenon DEF Finish
  <2>2. engine'.mode = "off"
    BY <2>1 DEF Off
  <2>3. next' = End /\ ~nextOver'
    BY <1>3, <2>1, Zenon
  <2>4. At + 1 \notin DOMAIN sending
    BY <1>6, <1>10, NodeAssumption, Zenon DEF Points, NodeAssumption
  <2> QED BY <1>1, <1>4, <1>9, <2>1, <2>2, <2>3, <2>4, CheckKeeps, Zenon DEF HandlerKeeps
<1>11. CASE h.next # End
  <2>1. Follow(header[h.next]) /\ Normal(h.next, CountOf(header[h.next], h.over)) /\ GoOn
    BY <1>1, <1>11, Zenon
  <2>2. BuildSound' /\ FlightSound' /\ UNCHANGED <<clearing, otcs, callback, header, sending>>
    BY <1>1, <2>1, GoOnKeeps, Zenon
  <2>3. At + 1 \in DOMAIN sending /\ h.next = b /\ (h.over <=> Over(b)) /\ b \in Node
    BY <1>6, <1>11, Zenon DEF Points
  <2>4. h.over \in BOOLEAN
    <3>1. h \in Headers
      BY <1>3 DEF Data
    <3> QED BY <3>1 DEF Headers
  <2>5. Follow(header[b]) /\ Normal(b, CountOf(header[b], h.over))
    BY <2>1, <2>3, Zenon
  <2>6. EngineSound'
    BY <1>2, <1>8, <2>2, <2>3, <2>4, <2>5, NextNormal, Zenon
  <2> QED BY <1>9, <2>2, <2>6, Zenon DEF HandlerKeeps, Data
<1> QED BY <1>10, <1>11

\* A table has been cleared.
LEMMA OtcDoneKeeps ==
  ASSUME Flags, Data, BuildSound, FlightSound, EngineSound, OtcDone
  PROVE  HandlerKeeps
<1>1. clearing # End /\ CheckOTC /\ UNCHANGED <<begun, next, nextOver, engine, sent>>
  BY Zenon DEF OtcDone
<1>2. engine.mode = "off" /\ callback # "none"
  BY <1>1, Zenon DEF EngineSound
<1>3. sent = sending /\ next = End /\ ~nextOver
  BY <1>2, Zenon DEF EngineSound
<1>4. engine'.mode = "off" /\ next' = End /\ ~nextOver' /\ sent' = sending
  BY <1>1, <1>2, <1>3, Zenon
<1>5. sent' \in Seq(Fragments)
  BY <1>4, Zenon DEF Data
<1> QED BY <1>1, <1>2, <1>4, <1>5, CheckKeeps, Zenon DEF HandlerKeeps

----------------------------------------------------------------------------
\* The types.
LEMMA CheckTypes ==
  ASSUME Flags, Data, CheckOTC
  PROVE  /\ waiting' \in BOOLEAN /\ queued' \in BOOLEAN
         /\ callback' \in Callbacks /\ status' \in {"IDLE", "TRANSFERRING", "TRANSFERRED"}
<1>1. CASE otcs[1 - parity] # << >>
  BY <1>1, Zenon DEF CheckOTC, Flags, Data
<1>2. CASE otcs[1 - parity] = << >>
  <2>1. /\ waiting' = (waiting /\ callback # "block") /\ queued' = (queued \/ callback = "main")
        /\ callback' = "none" /\ status' = IF callback = "flip" THEN "TRANSFERRED" ELSE status
    BY <1>2, Zenon DEF CheckOTC
  <2>2. waiting' \in BOOLEAN /\ queued' \in BOOLEAN
    BY <2>1, Zenon DEF Flags
  <2> QED BY <2>1, <2>2, Zenon DEF Data, Callbacks
<1> QED BY <1>1, <1>2, Zenon

LEMMA FollowTypes ==
  ASSUME Data, NEW n \in Node, Follow(header[n])
  PROVE  next' \in Node \union {End} /\ nextOver' \in BOOLEAN
<1>1. header[n].next \in Node \union {End} /\ header[n].over \in BOOLEAN
  <2>1. header[n] \in Headers
    BY DEF Data
  <2> QED BY <2>1 DEF Headers
<1>2. next' = header[n].next /\ nextOver' = (header[n].next # End /\ header[n].over)
  BY Zenon DEF Follow
<1>3. nextOver' \in BOOLEAN
  BY <1>2, Zenon
<1> QED BY <1>1, <1>2, <1>3, Zenon

LEMMA HandlerTypes ==
  ASSUME Flags, Data, EngineSound, NormalDone \/ LinkedDone \/ OtcDone, HandlerKeeps
  PROVE  Flags' /\ Data'
<1> DEFINE Engines ==
      /\ next' \in Node \union {End} /\ nextOver' \in BOOLEAN /\ engine'.mode \in {"off", "normal", "linked"}
      /\ waiting' \in BOOLEAN /\ queued' \in BOOLEAN
      /\ callback' \in Callbacks /\ status' \in {"IDLE", "TRANSFERRING", "TRANSFERRED"}
<1>1. Off.mode = "off" /\ \A n, w : [mode |-> "normal", node |-> n, words |-> w].mode = "normal"
                       /\ [mode |-> "linked", node |-> n].mode = "linked"
  BY DEF Off
<1>2. ASSUME Finish PROVE Engines
  <2>1. engine' = Off /\ CheckOTC /\ UNCHANGED <<next, nextOver>>
    BY <1>2, Zenon DEF Finish
  <2> QED BY <1>1, <2>1, CheckTypes, Zenon DEF Flags, Data
<1>3. ASSUME GoOn PROVE /\ waiting' \in BOOLEAN /\ queued' \in BOOLEAN
                        /\ callback' \in Callbacks /\ status' \in {"IDLE", "TRANSFERRING", "TRANSFERRED"}
  BY <1>3, Zenon DEF GoOn, Flags, Data
<1>4. ASSUME NormalDone PROVE Engines
  <2>1. CASE next = End
    BY <1>2, <1>4, <2>1, Zenon DEF NormalDone
  <2>2. CASE next # End
    <3> DEFINE count == CountOf(header[next], nextOver)
    <3>1. /\ GoOn
          /\ IF nextOver \/ count > Threshold THEN Follow(header[next]) /\ Normal(next, count)
             ELSE next' = End /\ nextOver' = FALSE /\ Linked(next)
      BY <1>4, <2>2, Zenon DEF NormalDone
    <3>2. next \in Node
      BY <2>2, Zenon DEF Data
    <3>3. CASE nextOver \/ count > Threshold
      <4>1. Follow(header[next]) /\ engine' = [mode |-> "normal", node |-> next, words |-> count]
        BY <3>1, <3>3, Zenon DEF Normal
      <4> QED BY <1>1, <1>3, <3>1, <3>2, <4>1, FollowTypes, Zenon
    <3>4. CASE ~(nextOver \/ count > Threshold)
      <4>1. next' = End /\ nextOver' = FALSE /\ engine' = [mode |-> "linked", node |-> next]
        BY <3>1, <3>4, Zenon DEF Linked
      <4> QED BY <1>1, <1>3, <3>1, <4>1, Zenon
    <3> QED BY <3>3, <3>4
  <2> QED BY <2>1, <2>2
<1>5. ASSUME LinkedDone PROVE Engines
  <2> DEFINE h == header[engine.node]
  <2>1. CASE h.next = End
    BY <1>2, <1>5, <2>1, Zenon DEF LinkedDone
  <2>2. CASE h.next # End
    <3>1. /\ Follow(header[h.next]) /\ GoOn
          /\ engine' = [mode |-> "normal", node |-> h.next, words |-> CountOf(header[h.next], h.over)]
      BY <1>5, <2>2, Zenon DEF LinkedDone, Normal
    <3>2. h.next \in Node
      <4>1. engine.node \in Node
        BY <1>5, Zenon DEF LinkedDone, EngineSound
      <4>2. h \in Headers
        BY <4>1 DEF Data
      <4> QED BY <2>2, <4>2 DEF Headers
    <3> QED BY <1>1, <1>3, <3>1, <3>2, FollowTypes, Zenon
  <2> QED BY <2>1, <2>2
<1>6. ASSUME OtcDone PROVE Engines
  BY <1>6, CheckTypes, Zenon DEF OtcDone, Flags, Data
<1>7. Engines
  BY <1>4, <1>5, <1>6
<1>8. UNCHANGED <<begun, parity, pc, vblank, aborted>> /\ dirty' \subseteq dirty
  BY Zenon DEF NormalDone, LinkedDone, OtcDone
<1>9. sending' \in Seq(Fragments)
  <2>1. << >> \in Seq(Fragments)
    OBVIOUS
  <2> QED BY <2>1, Zenon DEF HandlerKeeps, Data
<1>10. Flags'
  BY <1>7, <1>8, Zenon DEF Flags, begun
<1>11. Data'
  BY <1>7, <1>8, <1>9, Zenon DEF Data, begun, HandlerKeeps
<1> QED BY <1>10, <1>11

LEMMA ChainTypes ==
  ASSUME Flags, Data, BuildSound, NEW n \in Node, Chain(n)
  PROVE  Flags' /\ Data'
<1>1. /\ recorded' = Append(recorded, n) /\ tail' = n /\ tailCount' = Stored(n)
      /\ UNCHANGED <<after, status, parity, callback, main, queued, sending, sent, aborted>>
  BY Zenon DEF Chain
<1>2. recorded' \in Seq(Node)
  BY <1>1, Behind DEF Data
<1>3. tailCount' \in 0 .. 255
  BY <1>1, SizeKept, Zenon
<1>4. Over(n) \in BOOLEAN
  BY DEF Over
<1>5. header' \in [Node -> Headers]
  <2> DEFINE link == [count |-> tailCount, next |-> n, marked |-> Mark(n).marked, over |-> Mark(n).over]
  <2>1. header' = header \/ header' = [header EXCEPT ![tail] = link]
    BY Zenon DEF Chain
  <2>2. link \in Headers
    BY Marked DEF Headers, Data
  <2> HIDE DEF link
  <2> QED BY <2>1, <2>2 DEF Data
<1>6. head' \in Node \union {End} /\ headOver' \in BOOLEAN
  BY <1>4, Zenon DEF Chain, Flags, Data
<1>7. dirty' \subseteq Table
  BY Zenon DEF Chain, Data
<1>8. otcs' \in [{0, 1} -> Seq(Table)]
  <2>1. CASE n \in Table
    <3>1. parity \in {0, 1} /\ otcs[parity] \in Seq(Table)
      BY DEF Data
    <3>2. Append(otcs[parity], n) \in Seq(Table)
      BY <2>1, <3>1, Behind, Zenon
    <3>3. otcs' = [otcs EXCEPT ![parity] = Append(otcs[parity], n)]
      BY <2>1, Zenon DEF Chain
    <3> QED BY <3>1, <3>2, <3>3, Zenon DEF Data
  <2>2. CASE n \notin Table
    BY <2>2, Zenon DEF Chain, Data
  <2> QED BY <2>1, <2>2
<1>9. Flags'
  BY <1>1, <1>6, Zenon DEF Flags, after, main
<1>10. Data'
  BY <1>1, <1>2, <1>3, <1>5, <1>6, <1>7, <1>8, Zenon DEF Data, after, main
<1> QED BY <1>9, <1>10

LEMMA SendTypes ==
  ASSUME Flags, Data, BuildSound, head # End, NEW whom \in {"flip", "block", "main"}, SendChainFor(whom),
         header' \in [Node -> Headers], sending' \in Seq(Fragments)
  PROVE  /\ headOver' \in BOOLEAN /\ nextOver' \in BOOLEAN /\ aborted' \in BOOLEAN
         /\ head' \in Node \union {End} /\ tail' \in Node \union {End} /\ next' \in Node \union {End}
         /\ tailCount' \in 0 .. 255 /\ header' \in [Node -> Headers]
         /\ recorded' \in Seq(Node) /\ sending' \in Seq(Fragments) /\ sent' \in Seq(Fragments)
         /\ callback' \in Callbacks /\ engine'.mode \in {"off", "normal", "linked"}
         /\ clearing' \in Table \union {End}
<1> DEFINE closed == [header EXCEPT ![tail] = [Blank EXCEPT !.count = tailCount]]
           count == CountOf(closed[head], headOver)
<1>1. header' = closed /\ UNCHANGED <<headOver, tailCount, clearing>>
  BY Zenon DEF SendChainFor
<1>2. head \in Node
  BY Zenon DEF Data
<1>3. << >> \in Seq(Node) /\ << >> \in Seq(Fragments)
  OBVIOUS
<1>4. CASE callback # "none"
  <2>1. UNCHANGED <<head, tail, recorded, callback, next, nextOver, engine, sending, sent>> /\ aborted' = TRUE
    BY <1>4, Zenon DEF SendChainFor
  <2> QED BY <1>1, <2>1, Zenon DEF Flags, Data
<1>5. CASE callback = "none"
  <2>1. head' = End /\ tail' = End /\ recorded' = << >> /\ callback' = whom /\ sent' = << >> /\ UNCHANGED aborted
    BY <1>5, Zenon DEF SendChainFor
  <2>2. IF headOver \/ count > Threshold THEN Follow(closed[head]) /\ Normal(head, count)
        ELSE Linked(head) /\ UNCHANGED <<next, nextOver>>
    BY <1>5, Zenon DEF SendChainFor
  <2>3. closed[head] \in Headers
    BY <1>1, <1>2
  <2> HIDE DEF closed
  <2>4. next' \in Node \union {End} /\ nextOver' \in BOOLEAN
    <3>1. CASE headOver \/ count > Threshold
      <4>1. next' = closed[head].next /\ nextOver' = (closed[head].next # End /\ closed[head].over)
        BY <2>2, <3>1, Zenon DEF Follow
      <4>2. closed[head].next \in Node \union {End}
        BY <2>3 DEF Headers
      <4> QED BY <4>1, <4>2, Zenon
    <3>2. CASE ~(headOver \/ count > Threshold)
      BY <2>2, <3>2, Zenon DEF Flags, Data
    <3> QED BY <3>1, <3>2
  <2>5. engine'.mode \in {"off", "normal", "linked"}
    <3>1. CASE headOver \/ count > Threshold
      <4>1. engine' = [mode |-> "normal", node |-> head, words |-> count]
        BY <2>2, <3>1, Zenon DEF Normal
      <4> QED BY <4>1
    <3>2. CASE ~(headOver \/ count > Threshold)
      <4>1. engine' = [mode |-> "linked", node |-> head]
        BY <2>2, <3>2, Zenon DEF Linked
      <4> QED BY <4>1
    <3> QED BY <3>1, <3>2
  <2> QED BY <1>1, <1>3, <2>1, <2>4, <2>5, Zenon DEF Flags, Data, Callbacks
<1> QED BY <1>4, <1>5

----------------------------------------------------------------------------
\* What every step keeps, and what it sends.
Kept ==
  /\ Flags' /\ Data' /\ BuildSound' /\ FlightSound' /\ EngineSound'
  /\ sending # << >> => sending' = sending \/ (sending' = << >> /\ sent' = sending)

LEMMA QuietKept ==
  ASSUME Flags, Data, BuildSound, FlightSound, EngineSound,
         UNCHANGED <<building, after, callback, sending, sent, otcs, parity, dirty, aborted>>,
         waiting' \in BOOLEAN, queued' \in BOOLEAN, vblank' \in BOOLEAN,
         status' \in {"IDLE", "TRANSFERRING", "TRANSFERRED"}, pc' \in {"frame", "flip", "swapped"}
  PROVE  Kept
<1>1. BuildSound' /\ FlightSound' /\ EngineSound'
  BY Quiet, Zenon
<1>2. Flags'
  BY Zenon DEF Flags, building, begun, after
<1>3. Data'
  BY Zenon DEF Data, building, begun, after
<1> QED BY <1>1, <1>2, <1>3, Zenon DEF Kept

LEMMA SendKept ==
  ASSUME Flags, Data, BuildSound, FlightSound, EngineSound, head # End,
         NEW whom \in {"flip", "block", "main"}, SendChainFor(whom),
         UNCHANGED <<parity, otcs, vblank, queued, dirty>>, waiting' \in BOOLEAN,
         status' \in {"IDLE", "TRANSFERRING", "TRANSFERRED"}, pc' \in {"frame", "flip", "swapped"}
  PROVE  Kept
<1>1. /\ BuildSound' /\ FlightSound' /\ EngineSound' /\ header' \in [Node -> Headers]
      /\ \/ callback = "none" /\ sending' \in Seq(Fragments)
         \/ callback # "none" /\ sending' = sending
  BY SendKeeps, Zenon
<1>2. sending' \in Seq(Fragments) /\ (sending # << >> => sending' = sending)
  BY <1>1, Zenon DEF EngineSound, Data
<1>3. /\ headOver' \in BOOLEAN /\ nextOver' \in BOOLEAN /\ aborted' \in BOOLEAN
      /\ head' \in Node \union {End} /\ tail' \in Node \union {End} /\ next' \in Node \union {End}
      /\ tailCount' \in 0 .. 255 /\ header' \in [Node -> Headers]
      /\ recorded' \in Seq(Node) /\ sending' \in Seq(Fragments) /\ sent' \in Seq(Fragments)
      /\ callback' \in Callbacks /\ engine'.mode \in {"off", "normal", "linked"}
      /\ clearing' \in Table \union {End}
  BY <1>1, <1>2, SendTypes, Zenon
<1>4. Flags'
  BY <1>3, Zenon DEF Flags
<1>5. Data'
  BY <1>3, Zenon DEF Data
<1> QED BY <1>1, <1>2, <1>4, <1>5, Zenon DEF Kept

LEMMA FragmentKept ==
  ASSUME Flags, Data, BuildSound, FlightSound, EngineSound, NEW whom \in {"block", "main"}, SendFragment(whom)
  PROVE  Kept
<1>1. BuildSound' /\ FlightSound' /\ EngineSound' /\ sending' \in Seq(Fragments) /\ callback = "none"
  BY SendFragmentKeeps, Zenon
<1>2. /\ callback' = whom /\ sent' = << >> /\ waiting' = (whom = "block")
      /\ engine' = [mode |-> "normal", node |-> Own, words |-> Words[Own]]
      /\ UNCHANGED <<building, next, nextOver, clearing, status, parity, otcs, pc, vblank, queued, dirty, aborted>>
  BY Zenon DEF SendFragment, Normal
<1>3. sending = << >>
  BY <1>1, Zenon DEF EngineSound
<1>4. engine'.mode \in {"off", "normal", "linked"} /\ sent' \in Seq(Fragments)
  BY <1>2
<1>5. Flags'
  <2>1. waiting' \in BOOLEAN
    BY <1>2, Zenon
  <2> QED BY <1>2, <2>1, Zenon DEF Flags, building, begun
<1>6. Data'
  BY <1>1, <1>2, <1>4, Zenon DEF Data, Callbacks, building, begun
<1> QED BY <1>1, <1>3, <1>5, <1>6, Zenon DEF Kept

LEMMA WalkKept ==
  ASSUME Flags, Data, BuildSound, FlightSound, EngineSound, Walk
  PROVE  Kept
<1>1. BuildSound' /\ FlightSound' /\ EngineSound' /\ sent' \in Seq(Fragments)
  BY WalkKeeps, Zenon
<1>2. /\ UNCHANGED <<building, next, nextOver, clearing, status, parity, otcs, callback, main,
                     queued, dirty, sending, aborted>>
      /\ engine' = [mode |-> "linked", node |-> header[engine.node].next]
  BY Zenon DEF Walk, Linked
<1>3. engine'.mode \in {"off", "normal", "linked"}
  BY <1>2
<1>4. Flags'
  BY <1>2, Zenon DEF Flags, building, begun, main
<1>5. Data'
  BY <1>1, <1>2, <1>3, Zenon DEF Data, building, begun, main
<1> QED BY <1>1, <1>2, <1>4, <1>5, Zenon DEF Kept

LEMMA StepKept ==
  ASSUME Flags, Data, BuildSound, FlightSound, EngineSound, [Next]_vars
  PROVE  Kept
<1>1. ASSUME NEW n \in Node, Chain(n) PROVE Kept
  <2>1. BuildSound' /\ FlightSound' /\ EngineSound' /\ Flags' /\ Data'
    BY <1>1, ChainKeeps, ChainTypes, Zenon
  <2> QED BY <1>1, <2>1, Zenon DEF Kept, Chain
<1>2. ASSUME NEW whom \in {"block", "main"}, SendChain(whom) PROVE Kept
  <2>1. /\ head # End /\ SendChainFor(whom) /\ waiting' = (whom = "block")
        /\ UNCHANGED <<status, parity, otcs, pc, vblank, queued, dirty>>
    BY <1>2, Zenon DEF SendChain
  <2>2. waiting' \in BOOLEAN /\ status' \in {"IDLE", "TRANSFERRING", "TRANSFERRED"}
        /\ pc' \in {"frame", "flip", "swapped"}
    BY <2>1, Zenon DEF Data
  <2> QED BY <2>1, <2>2, SendKept, Zenon
<1>3. ASSUME NEW whom \in {"block", "main"}, SendFragment(whom) PROVE Kept
  BY <1>3, FragmentKept, Zenon
<1>4. CASE EndFrame
  BY <1>4, QuietKept, Zenon DEF EndFrame, Flags, Data
<1>5. CASE Flip
  <2>1. parity' \in {0, 1}
    BY <1>5 DEF Flip, Data
  <2>2. UNCHANGED <<building, after, otcs, callback, waiting, queued, dirty, sending, sent, aborted>>
        /\ status' = "IDLE" /\ vblank' = FALSE /\ pc' = "swapped"
    BY <1>5, Zenon DEF Flip
  <2>3. BuildSound' /\ FlightSound' /\ EngineSound'
    BY <2>2, Quiet, Zenon
  <2>4. Flags'
    BY <2>2, Zenon DEF Flags, building, begun, after
  <2>5. Data'
    BY <2>1, <2>2, Zenon DEF Data, building, begun, after
  <2> QED BY <2>2, <2>3, <2>4, <2>5, Zenon DEF Kept
<1>6. CASE FlipSend
  <2>1. pc' = "frame" /\ UNCHANGED <<parity, otcs, waiting, vblank, queued, dirty>>
    BY <1>6, Zenon DEF FlipSend
  <2>2. CASE head = End
    BY <1>6, <2>1, <2>2, QuietKept, Zenon DEF FlipSend, Flags, Data
  <2>3. CASE head # End
    <3>1. status' = "TRANSFERRING" /\ SendChainFor("flip") /\ waiting' \in BOOLEAN
      BY <1>6, <2>1, <2>3, Zenon DEF FlipSend, Flags
    <3> QED BY <2>1, <2>3, <3>1, SendKept, Zenon
  <2> QED BY <2>2, <2>3
<1>7. CASE Pump
  BY <1>7, QuietKept, Zenon DEF Pump, main, Flags, Data
<1>8. CASE VBlank
  BY <1>8, QuietKept, Zenon DEF VBlank, Flags, Data
<1>9. CASE Walk
  BY <1>9, WalkKept, Zenon
<1>10. CASE NormalDone \/ LinkedDone \/ OtcDone
  <2>1. HandlerKeeps
    BY <1>10, NormalDoneKeeps, LinkedDoneKeeps, OtcDoneKeeps, Zenon
  <2>2. Flags' /\ Data'
    BY <1>10, <2>1, HandlerTypes, Zenon
  <2> QED BY <2>1, <2>2, Zenon DEF HandlerKeeps, Kept
<1>11. CASE UNCHANGED vars
  <2>1. UNCHANGED <<building, after, status, parity, otcs, callback, main, queued, dirty, sending, sent, aborted>>
    BY <1>11, Zenon DEF vars
  <2> QED BY <2>1, QuietKept, Zenon DEF main, Flags, Data
<1> QED BY <1>1, <1>2, <1>3, <1>4, <1>5, <1>6, <1>7, <1>8, <1>9, <1>10, <1>11, Zenon DEF Next

LEMMA InitInv == Init => Inv
<1> SUFFICES ASSUME Init PROVE Inv
  OBVIOUS
<1>1. DOMAIN << >> = {} /\ << >> \in Seq(Node) /\ << >> \in Seq(Fragments) /\ << >> \in Seq(Table)
  OBVIOUS
<1>2. Blank \in Headers /\ Off.mode = "off" /\ 0 \in 0 .. 255
  BY DEF Blank, Headers, Off
<1>3. Flags
  BY Zenon DEF Init, Flags
<1>4. Data
  <2>1. header \in [Node -> Headers] /\ otcs \in [{0, 1} -> Seq(Table)]
    BY <1>1, <1>2 DEF Init
  <2> QED BY <1>1, <1>2, <2>1, Zenon DEF Init, Data, Callbacks
<1>5. BuildSound
  BY <1>1, Zenon DEF Init, BuildSound
<1>6. FlightSound
  BY <1>1, Zenon DEF Init, FlightSound
<1>7. EngineSound
  <2>1. engine.mode = "off" /\ engine.mode # "normal" /\ engine.mode # "linked"
    BY <1>2 DEF Init
  <2> QED BY <2>1, Zenon DEF Init, EngineSound
<1> QED BY <1>3, <1>4, <1>5, <1>6, <1>7, TypesSplit, Zenon DEF Inv

\* The transfers are well-typed, and the engine is where the chain says it is,
\* whatever the application does.
THEOREM Invariance == Spec => []Inv
<1>1. Inv /\ [Next]_vars => Inv'
  BY StepKept, TypesSplit, Zenon DEF Inv, Kept
<1> QED BY <1>1, InitInv, PTL DEF Spec

\* What is sent is what was chained, in order, each fragment once and whole
\* (gpu.cpp 185-252, 504-570).
THEOREM ChainSent == Spec => SentAsChained
<1>1. Inv /\ [Next]_vars =>
        (sending # << >> =>
           /\ IsPrefix(sent', sending)
           /\ clearing' # End \/ sending' = << >> => sent' = sending)
  <2> SUFFICES ASSUME Inv, [Next]_vars, sending # << >>
               PROVE  /\ IsPrefix(sent', sending)
                      /\ clearing' # End \/ sending' = << >> => sent' = sending
    OBVIOUS
  <2>1. Kept /\ Data /\ EngineSound
    BY StepKept, TypesSplit, Zenon DEF Inv
  <2>2. ASSUME sent' = sending PROVE IsPrefix(sent', sending)
    <3>1. Len(sending) \in Nat
      BY <2>1, LenProperties DEF Data
    <3> QED BY <2>2, <3>1 DEF IsPrefix
  <2>3. CASE sending' = << >>
    BY <2>1, <2>2, <2>3, Zenon DEF Kept
  <2>4. CASE sending' # << >>
    <3>1. sending' = sending /\ callback' # "none"
      BY <2>1, <2>4, Zenon DEF Kept, EngineSound
    <3>2. CASE engine'.mode = "off"
      <4>1. sent' = sending
        BY <2>1, <3>1, <3>2, Zenon DEF Kept, EngineSound
      <4> QED BY <2>2, <4>1
    <3>3. CASE engine'.mode # "off"
      <4>1. /\ Len(sent') + 1 \in DOMAIN sending /\ \A i \in DOMAIN sent' : sent'[i] = sending[i]
            /\ clearing' = End
        BY <2>1, <3>1, <3>3, Zenon DEF Kept, EngineSound, At
      <4>2. sent' \in Seq(Fragments) /\ sending \in Seq(Fragments)
        BY <2>1, Zenon DEF Kept, Data
      <4>3. /\ Len(sent') \in Nat /\ DOMAIN sent' = 1 .. Len(sent')
            /\ Len(sending) \in Nat /\ DOMAIN sending = 1 .. Len(sending)
        BY <4>2, LenProperties
      <4>4. Len(sent') <= Len(sending)
        BY <4>1, <4>3
      <4>5. SubSeq(sent', 1, Len(sent')) = SubSeq(sending, 1, Len(sent'))
        BY <4>1, <4>2, <4>3, <4>4
      <4> QED BY <2>4, <4>1, <4>4, <4>5, Zenon DEF IsPrefix
    <3> QED BY <3>2, <3>3
  <2> QED BY <2>3, <2>4
<1> QED BY <1>1, Invariance, PTL DEF Spec, SentAsChained

----------------------------------------------------------------------------
\* Who waits for the transfer, when no upload goes on across frames.
LEMMA CheckOrder ==
  ASSUME Flags, Data, OrderInv, CheckOTC, UNCHANGED <<pc, aborted>>
  PROVE  OrderInv' /\ (callback' = callback \/ callback' = "none")
<1>1. CASE otcs[1 - parity] # << >>
  BY <1>1, Zenon DEF CheckOTC, OrderInv
<1>2. CASE otcs[1 - parity] = << >>
  <2>1. waiting' = (waiting /\ callback # "block") /\ callback' = "none"
    BY <1>2, Zenon DEF CheckOTC
  <2>2. ~waiting' /\ callback' # "block" /\ callback' # "main" /\ callback' # "flip"
    BY <2>1, Zenon DEF OrderInv
  <2> QED BY <2>1, <2>2, Zenon DEF OrderInv
<1> QED BY <1>1, <1>2, Zenon

LEMMA OrderKept ==
  ASSUME "across" \notin Habits, Flags, Data, OrderInv, [Next]_vars
  PROVE  OrderInv'
<1>1. ASSUME NEW n \in Node, Chain(n) PROVE OrderInv'
  BY <1>1, Zenon DEF Chain, OrderInv, main
<1>2. ASSUME NEW whom \in {"block", "main"}, SendChain(whom) PROVE OrderInv'
  <2>1. callback = "none" /\ pc = "frame" /\ waiting' = (whom = "block") /\ UNCHANGED <<pc, status>>
    BY <1>2, Zenon DEF SendChain, MayTransfer
  <2>2. callback' = whom /\ UNCHANGED aborted
    BY <1>2, <2>1, Zenon DEF SendChain, SendChainFor
  <2>3. whom # "flip"
    OBVIOUS
  <2> QED BY <2>1, <2>2, <2>3, Zenon DEF OrderInv
<1>3. ASSUME NEW whom \in {"block", "main"}, SendFragment(whom) PROVE OrderInv'
  <2>1. /\ callback' = whom /\ waiting' = (whom = "block") /\ UNCHANGED <<pc, status, aborted>>
        /\ pc = "frame" \/ whom = "block"
    BY <1>3, Zenon DEF SendFragment
  <2>2. whom # "flip" /\ (whom = "block" => whom # "main")
    OBVIOUS
  <2> QED BY <2>1, <2>2, Zenon DEF OrderInv
<1>4. CASE EndFrame
  <2>1. ~waiting /\ callback # "main" /\ pc' = "flip" /\ UNCHANGED <<callback, waiting, status, aborted>>
    BY <1>4, Zenon DEF EndFrame, Working
  <2>2. pc' # "swapped"
    BY <2>1
  <2> QED BY <2>1, <2>2, Zenon DEF OrderInv
<1>5. CASE Flip
  <2>1. pc = "flip" /\ status # "TRANSFERRING" /\ UNCHANGED <<callback, waiting, aborted>>
    BY <1>5, Zenon DEF Flip
  <2>2. pc # "frame"
    BY <2>1
  <2> QED BY <2>1, <2>2, Zenon DEF OrderInv
<1>6. CASE FlipSend
  <2>1. pc = "swapped" /\ ~waiting /\ pc' = "frame" /\ UNCHANGED waiting
    BY <1>6, Zenon DEF FlipSend, Working
  <2>2. pc # "frame" /\ pc' # "swapped"
    BY <2>1
  <2>3. callback = "none"
    <3>1. callback # "block" /\ callback # "main" /\ callback # "flip"
      BY <2>1, <2>2, Zenon DEF OrderInv
    <3> QED BY <3>1 DEF Data, Callbacks
  <2>4. CASE head = End
    <3>1. UNCHANGED <<callback, status, aborted>>
      BY <1>6, <2>4, Zenon DEF FlipSend
    <3> QED BY <2>1, <2>2, <3>1, Zenon DEF OrderInv
  <2>5. CASE head # End
    <3>1. status' = "TRANSFERRING" /\ SendChainFor("flip")
      BY <1>6, <2>5, Zenon DEF FlipSend
    <3>2. callback' = "flip" /\ UNCHANGED aborted
      BY <2>3, <3>1, Zenon DEF SendChainFor
    <3>3. callback' # "block"
      BY <3>2
    <3> QED BY <2>1, <2>2, <3>1, <3>2, <3>3, Zenon DEF OrderInv
  <2> QED BY <2>4, <2>5
<1>7. CASE Pump \/ VBlank \/ Walk \/ UNCHANGED vars
  <2>1. UNCHANGED <<pc, waiting, callback, status, aborted>>
    BY <1>7, Zenon DEF Pump, VBlank, Walk, main, vars
  <2> QED BY <2>1, Zenon DEF OrderInv
<1>8. CASE NormalDone \/ LinkedDone \/ OtcDone
  <2>1. UNCHANGED <<pc, aborted>>
    BY <1>8, Zenon DEF NormalDone, LinkedDone, OtcDone
  <2>2. CheckOTC \/ GoOn
    BY <1>8, Zenon DEF NormalDone, LinkedDone, OtcDone, Finish
  <2>3. CASE CheckOTC
    BY <2>1, <2>3, CheckOrder, Zenon
  <2>4. CASE GoOn
    BY <2>1, <2>4, Zenon DEF GoOn, OrderInv
  <2> QED BY <2>2, <2>3, <2>4
<1> QED BY <1>1, <1>2, <1>3, <1>4, <1>5, <1>6, <1>7, <1>8, Zenon DEF Next

\* One transfer at a time, by an engine that can do it (gpu.cpp 547, 558), when
\* the application ends no frame with an upload on its way.
THEOREM OneAtATime ==
  ASSUME "across" \notin Habits
  PROVE  Spec => []OneTransfer
<1>1. Init => OrderInv
  <2> SUFFICES ASSUME Init PROVE OrderInv
    OBVIOUS
  <2>1. callback # "block" /\ callback # "main" /\ callback # "flip"
    BY DEF Init
  <2> QED BY <2>1, Zenon DEF Init, OrderInv
<1>2. Inv /\ OrderInv /\ [Next]_vars => OrderInv'
  BY OrderKept, TypesSplit, Zenon DEF Inv
<1>3. Inv /\ OrderInv => OneTransfer
  BY Zenon DEF Inv, EngineSound, OrderInv, OneTransfer, ControllerFits
<1> QED BY <1>1, <1>2, <1>3, Invariance, PTL DEF Spec

----------------------------------------------------------------------------
\* The tables of the chains, when the application has none of the habits.
LEMMA SetOf ==
  ASSUME NEW S, NEW s \in Seq(S)
  PROVE  /\ ToSet(<< >>) = {} /\ (ToSet(s) = {} => s = << >>)
         /\ s # << >> => ToSet(s) = {Head(s)} \union ToSet(Tail(s))
<1>1. ToSet(<< >>) = {}
  BY DEF ToSet
<1>2. Len(s) \in Nat /\ DOMAIN s = 1 .. Len(s)
  BY LenProperties
<1>3. ASSUME s # << >> PROVE 1 \in DOMAIN s /\ Len(s) > 0
  BY <1>2, <1>3, EmptySeq
<1>4. ToSet(s) = {} => s = << >>
  BY <1>3, Zenon DEF ToSet
<1>5. ASSUME s # << >> PROVE ToSet(s) = {Head(s)} \union ToSet(Tail(s))
  <2> DEFINE t == Tail(s)
  <2>1. /\ t \in Seq(S) /\ Len(t) = Len(s) - 1 /\ Head(s) = s[1]
        /\ DOMAIN t = 1 .. Len(s) - 1 /\ \A i \in 1 .. Len(s) - 1 : t[i] = s[i + 1]
    BY <1>2, <1>3, <1>5, HeadTailProperties, LenProperties
  <2> HIDE DEF t
  <2>2. ASSUME NEW x \in ToSet(s) PROVE x \in {Head(s)} \union ToSet(t)
    <3>1. PICK i \in DOMAIN s : x = s[i]
      BY <2>2, Zenon DEF ToSet
    <3>2. CASE i = 1
      BY <2>1, <3>1, <3>2
    <3>3. CASE i # 1
      <4>1. i - 1 \in DOMAIN t /\ t[i - 1] = s[i]
        BY <1>2, <2>1, <3>1, <3>3
      <4> QED BY <3>1, <4>1, Zenon DEF ToSet
    <3> QED BY <3>2, <3>3
  <2>3. ASSUME NEW x \in ToSet(t) PROVE x \in ToSet(s)
    <3>1. PICK i \in DOMAIN t : x = t[i]
      BY <2>3, Zenon DEF ToSet
    <3>2. i + 1 \in DOMAIN s /\ t[i] = s[i + 1]
      BY <1>2, <2>1, <3>1
    <3> QED BY <3>1, <3>2, Zenon DEF ToSet
  <2>4. Head(s) \in ToSet(s)
    BY <1>3, <1>5, <2>1, Zenon DEF ToSet
  <2> QED BY <2>2, <2>3, <2>4, Zenon DEF t
<1> QED BY <1>1, <1>4, <1>5

LEMMA Parity ==
  ASSUME Data
  PROVE  /\ parity \in {0, 1} /\ 1 - parity \in {0, 1} /\ 1 - parity # parity /\ 1 - (1 - parity) = parity
         /\ otcs[parity] \in Seq(Table) /\ otcs[1 - parity] \in Seq(Table)
<1>1. parity \in {0, 1} /\ 1 - parity \in {0, 1} /\ 1 - parity # parity /\ 1 - (1 - parity) = parity
  BY DEF Data
<1> QED BY <1>1, Zenon DEF Data

LEMMA NotEnd == ASSUME Data PROVE End \notin Table /\ End \notin dirty
BY NodeAssumption, Zenon DEF NodeAssumption, Data

\* What a step that touches no table keeps.
LEMMA TablesFrame ==
  ASSUME TablesInv, UNCHANGED <<recorded, sending, otcs, parity, clearing, dirty, callback>>,
         pc' = pc \/ (pc # "swapped" /\ pc' # "swapped")
  PROVE  TablesInv'
<1>1. Building' = Building /\ Pending' = Pending /\ InFlight' = InFlight
  BY Zenon DEF Building, Pending, InFlight
<1>2. pc = "swapped" <=> pc' = "swapped"
  BY Zenon
<1> QED BY <1>1, <1>2, Zenon DEF TablesInv

LEMMA TablesChain ==
  ASSUME Flags, Data, BuildSound, TablesInv, NEW n \in Node, Chain(n)
  PROVE  TablesInv'
<1>1. /\ pc = "frame" /\ recorded' = Append(recorded, n)
      /\ UNCHANGED <<clearing, parity, callback, pc, sending>>
  BY Zenon DEF Chain, after, main
<1>2. pc # "swapped" /\ pc' # "swapped"
  BY <1>1
<1>3. ToSet(recorded') = ToSet(recorded) \union {n}
  BY <1>1, Behind DEF Data
<1>4. Building = parity /\ Building' = parity /\ InFlight' = InFlight
  BY <1>1, <1>2, Zenon DEF Building, InFlight
<1>5. /\ otcs'[1 - parity] = otcs[1 - parity]
      /\ ToSet(otcs'[parity]) = IF n \in Table THEN ToSet(otcs[parity]) \union {n} ELSE ToSet(otcs[parity])
  <2>1. CASE n \in Table
    <3>1. otcs' = [otcs EXCEPT ![parity] = Append(otcs[parity], n)]
      BY <2>1, Zenon DEF Chain
    <3>2. otcs'[parity] = Append(otcs[parity], n) /\ otcs'[1 - parity] = otcs[1 - parity]
      BY <3>1, Parity, Zenon DEF Data
    <3>3. ToSet(otcs'[parity]) = ToSet(otcs[parity]) \union {n}
      <4>1. otcs[parity] \in Seq(Table)
        BY Parity, Zenon
      <4>2. ToSet(Append(otcs[parity], n)) = ToSet(otcs[parity]) \union {n}
        BY <2>1, <4>1, Behind
      <4> QED BY <3>2, <4>2, Zenon
    <3> QED BY <2>1, <3>2, <3>3
  <2>2. CASE n \notin Table
    BY <2>2, Zenon DEF Chain
  <2> QED BY <2>1, <2>2
<1>6. dirty' = IF n \in Table THEN dirty \union {n} ELSE dirty
  BY Zenon DEF Chain
<1>7. ToSet(otcs'[parity]) = ToSet(recorded') \intersect Table
  BY <1>3, <1>4, <1>5 DEF TablesInv
<1>8. Pending' = Pending /\ ToSet(otcs'[1 - parity]) \subseteq InFlight
      /\ (otcs'[1 - parity] # << >> => callback = "flip")
  BY <1>1, <1>2, <1>5, Zenon DEF Pending, TablesInv
<1>9. dirty' \subseteq ToSet(recorded') \union Pending'
  BY <1>3, <1>6, <1>8, Zenon DEF TablesInv
<1> QED BY <1>1, <1>2, <1>4, <1>7, <1>8, <1>9, Zenon DEF TablesInv

\* Nothing is on its way: no table waits to be cleared.
LEMMA TablesIdle ==
  ASSUME Data, EngineSound, TablesInv, callback = "none", pc # "swapped"
  PROVE  otcs[1 - parity] = << >> /\ clearing = End /\ dirty \subseteq ToSet(recorded)
<1>1. clearing = End
  BY Zenon DEF EngineSound
<1>2. callback # "flip"
  OBVIOUS
<1>3. otcs[1 - parity] = << >>
  BY <1>2, Zenon DEF TablesInv
<1>4. ToSet(otcs[1 - parity]) = {}
  BY <1>3 DEF ToSet
<1>5. dirty \subseteq ToSet(recorded) \union {End}
  BY <1>1, <1>4, Zenon DEF TablesInv, Pending
<1> QED BY <1>1, <1>3, <1>5, NotEnd, Zenon

\* A transfer that the application starts touches no table.
LEMMA TablesSent ==
  ASSUME Data, EngineSound, TablesInv, callback = "none", pc # "swapped",
         UNCHANGED <<otcs, parity, pc, dirty, clearing>>,
         ToSet(recorded') \intersect Table = ToSet(recorded) \intersect Table
  PROVE  TablesInv'
<1>1. otcs[1 - parity] = << >> /\ clearing = End /\ dirty \subseteq ToSet(recorded)
  BY TablesIdle, Zenon
<1>2. pc' # "swapped" /\ Building = parity /\ Building' = parity
  BY Zenon DEF Building
<1>3. ToSet(otcs[parity]) = ToSet(recorded') \intersect Table
  BY <1>2, Zenon DEF TablesInv
<1>4. otcs'[1 - parity'] = << >> /\ ToSet(otcs'[1 - parity']) = {}
  BY <1>1 DEF ToSet
<1>5. ToSet(otcs'[Building']) = ToSet(recorded') \intersect Table
  BY <1>2, <1>3, Zenon
<1>6. dirty' \subseteq ToSet(recorded')
  BY <1>1, Zenon DEF Data
<1> QED BY <1>1, <1>2, <1>4, <1>5, <1>6, Zenon DEF TablesInv

\* The parity changes while nothing is on its way.
LEMMA TablesFlip ==
  ASSUME Data, EngineSound, OrderInv, TablesInv, Flip
  PROVE  TablesInv'
<1>1. /\ pc = "flip" /\ ~waiting /\ status # "TRANSFERRING" /\ parity' = 1 - parity /\ pc' = "swapped"
      /\ UNCHANGED <<otcs, clearing, callback, sending, recorded, dirty>>
  BY Zenon DEF Flip, Working, building, begun, after
<1>2. pc # "frame" /\ pc # "swapped"
  BY <1>1
<1>3. callback = "none"
  <2>1. callback # "block" /\ callback # "main" /\ callback # "flip"
    BY <1>1, <1>2, Zenon DEF OrderInv
  <2> QED BY <2>1 DEF Data, Callbacks
<1>4. otcs[1 - parity] = << >> /\ clearing = End /\ dirty \subseteq ToSet(recorded)
  BY <1>2, <1>3, TablesIdle, Zenon
<1>5. 1 - (1 - parity) = parity
  BY Parity, Zenon
<1>6. Building = parity /\ Building' = parity
  BY <1>1, <1>2, <1>5, Zenon DEF Building
<1> QED BY <1>1, <1>3, <1>4, <1>6, Zenon DEF TablesInv

\* The chain of the frame is sent, with the tables of the parity it was built in.
LEMMA TablesFlipSend ==
  ASSUME Data, BuildSound, EngineSound, TablesInv, FlipSend
  PROVE  TablesInv'
<1>1. pc = "swapped" /\ pc' = "frame" /\ UNCHANGED <<parity, otcs, dirty>>
  BY Zenon DEF FlipSend
<1>2. pc' # "swapped" /\ Building = 1 - parity /\ Building' = parity
  BY <1>1 DEF Building
<1>3. callback = "none" /\ otcs[parity] = << >> /\ clearing = End
  BY <1>1, Zenon DEF TablesInv, EngineSound
<1>4. /\ ToSet(otcs[1 - parity]) = ToSet(recorded) \intersect Table
      /\ dirty \subseteq ToSet(recorded)
  BY <1>1, <1>2, Zenon DEF TablesInv, Pending
<1>5. ToSet(<< >>) = {} /\ ToSet(otcs[parity]) = {} /\ (ToSet(otcs[1 - parity]) = {} => otcs[1 - parity] = << >>)
  BY <1>3, Parity, SetOf, Zenon
<1>6. CASE head = End
  <2>1. UNCHANGED <<recorded, clearing, callback, sending>> /\ recorded = << >>
    BY <1>6, Zenon DEF FlipSend, building, begun, after, BuildSound
  <2>2. ToSet(otcs[1 - parity]) = {} /\ otcs[1 - parity] = << >> /\ dirty = {}
    BY <1>4, <1>5, <2>1, Zenon
  <2> QED BY <1>1, <1>2, <1>3, <1>5, <2>1, <2>2, Zenon DEF TablesInv
<1>7. CASE head # End
  <2>1. /\ recorded' = << >> /\ callback' = "flip" /\ clearing' = clearing
        /\ sending' = [i \in DOMAIN recorded |-> <<recorded[i], Words[recorded[i]]>>]
    BY <1>3, <1>7, Zenon DEF FlipSend, SendChainFor
  <2>2. InFlight' = ToSet(recorded)
    <3>1. DOMAIN sending' = DOMAIN recorded /\ \A i \in DOMAIN recorded : sending'[i][1] = recorded[i]
      BY <2>1
    <3> QED BY <3>1, Zenon DEF InFlight, ToSet
  <2>3. dirty \subseteq ToSet(otcs[1 - parity])
    BY <1>4, Zenon DEF Data
  <2>4. ToSet(recorded') = {}
    BY <1>5, <2>1, Zenon
  <2>5. dirty' \subseteq Pending'
    BY <1>1, <1>2, <2>3, Zenon DEF Pending
  <2> QED BY <1>1, <1>2, <1>3, <1>4, <1>5, <2>1, <2>2, <2>4, <2>5, Zenon DEF TablesInv
<1> QED BY <1>6, <1>7

\* The tables that were sent are cleared one after the other.
LEMMA TablesCheck ==
  ASSUME Data, TablesInv, CheckOTC, callback # "none", UNCHANGED <<recorded, parity, pc>>,
         dirty' = dirty \ {clearing}
  PROVE  TablesInv'
<1>1. pc # "swapped" /\ pc' # "swapped" /\ Building = parity /\ Building' = parity
  BY Zenon DEF TablesInv, Building
<1>2. ToSet(otcs[parity]) = ToSet(recorded) \intersect Table
  BY <1>1, Zenon DEF TablesInv
<1>3. dirty' \subseteq ToSet(recorded) \union ToSet(otcs[1 - parity])
  BY <1>1, Zenon DEF TablesInv, Pending
<1>4. CASE otcs[1 - parity] # << >>
  <2>1. /\ clearing' = Head(otcs[1 - parity]) /\ otcs' = [otcs EXCEPT ![1 - parity] = Tail(@)]
        /\ UNCHANGED <<callback, sending>>
    BY <1>4, Zenon DEF CheckOTC
  <2>2. otcs'[parity] = otcs[parity] /\ otcs'[1 - parity] = Tail(otcs[1 - parity])
    BY <2>1, Parity, Zenon DEF Data
  <2>3. ToSet(otcs[1 - parity]) = {Head(otcs[1 - parity])} \union ToSet(Tail(otcs[1 - parity]))
    BY <1>4, Parity, SetOf, Zenon
  <2>4. callback = "flip" /\ ToSet(otcs[1 - parity]) \subseteq InFlight /\ InFlight' = InFlight
    BY <1>1, <1>4, <2>1, Zenon DEF TablesInv, InFlight
  <2>5. ToSet(otcs'[1 - parity]) \subseteq InFlight /\ clearing' \in InFlight
    BY <2>1, <2>2, <2>3, <2>4, Zenon
  <2>6. dirty' \subseteq ToSet(recorded') \union Pending'
    BY <1>1, <1>3, <2>1, <2>2, <2>3, Zenon DEF Pending
  <2> QED BY <1>1, <1>2, <2>1, <2>2, <2>4, <2>5, <2>6, Zenon DEF TablesInv
<1>5. CASE otcs[1 - parity] = << >>
  <2>1. clearing' = End /\ UNCHANGED otcs
    BY <1>5, Zenon DEF CheckOTC
  <2>2. ToSet(otcs[1 - parity]) = {}
    BY <1>5 DEF ToSet
  <2>3. dirty' \subseteq ToSet(recorded')
    BY <1>3, <2>2, Zenon
  <2> QED BY <1>1, <1>2, <1>5, <2>1, <2>2, <2>3, Zenon DEF TablesInv
<1> QED BY <1>4, <1>5

LEMMA TablesKept ==
  ASSUME Habits = {}, Flags, Data, BuildSound, FlightSound, EngineSound, OrderInv, TablesInv, [Next]_vars
  PROVE  TablesInv'
<1>1. ASSUME NEW n \in Node, Chain(n) PROVE TablesInv'
  BY <1>1, TablesChain, Zenon
<1>2. ASSUME NEW whom \in {"block", "main"}, SendChain(whom) PROVE TablesInv'
  <2>1. callback = "none" /\ pc = "frame" /\ UNCHANGED <<otcs, parity, pc, dirty, clearing>>
    BY <1>2, Zenon DEF SendChain, MayTransfer, SendChainFor
  <2>2. pc # "swapped"
    BY <2>1
  <2>3. Table \intersect ToSet(recorded) = {}
    BY <1>2, Zenon DEF SendChain
  <2>4. ToSet(recorded') = {}
    <3>1. recorded' = << >>
      BY <1>2, <2>1, Zenon DEF SendChain, SendChainFor
    <3> QED BY <3>1 DEF ToSet
  <2>5. ToSet(recorded') \intersect Table = ToSet(recorded) \intersect Table
    BY <2>3, <2>4, Zenon
  <2> QED BY <2>1, <2>2, <2>5, TablesSent, Zenon
<1>3. ASSUME NEW whom \in {"block", "main"}, SendFragment(whom) PROVE TablesInv'
  <2>1. /\ callback = "none" /\ pc = "frame" /\ UNCHANGED <<otcs, parity, pc, dirty, clearing>>
        /\ UNCHANGED recorded
    BY <1>3, Zenon DEF SendFragment, MayTransfer, building, begun
  <2>2. pc # "swapped"
    BY <2>1
  <2> QED BY <2>1, <2>2, TablesSent, Zenon
<1>4. CASE EndFrame
  <2>1. /\ UNCHANGED <<recorded, sending, otcs, parity, clearing, dirty, callback>>
        /\ pc = "frame" /\ pc' = "flip"
    BY <1>4, Zenon DEF EndFrame, building, begun, after
  <2>2. pc # "swapped" /\ pc' # "swapped"
    BY <2>1
  <2> QED BY <2>1, <2>2, TablesFrame, Zenon
<1>5. CASE Flip
  BY <1>5, TablesFlip, Zenon
<1>6. CASE FlipSend
  BY <1>6, TablesFlipSend, Zenon
<1>7. CASE Pump \/ VBlank \/ Walk \/ UNCHANGED vars
  <2>1. UNCHANGED <<recorded, sending, otcs, parity, clearing, dirty, callback, pc>>
    BY <1>7, Zenon DEF Pump, VBlank, Walk, vars, building, begun, after, main
  <2> QED BY <2>1, TablesFrame, Zenon
<1>8. CASE NormalDone \/ LinkedDone \/ OtcDone
  <2>1. UNCHANGED <<recorded, parity, pc>>
    BY <1>8, Zenon DEF NormalDone, LinkedDone, OtcDone, begun
  <2>2. callback # "none" /\ dirty' = dirty \ {clearing}
    <3>1. CASE NormalDone \/ LinkedDone
      <4>1. engine.mode # "off" /\ dirty' = dirty
        <5>1. (engine.mode = "normal" \/ engine.mode = "linked") /\ dirty' = dirty
          BY <3>1, Zenon DEF NormalDone, LinkedDone
        <5> QED BY <5>1
      <4>2. callback # "none" /\ clearing = End
        BY <4>1, EngineAt, Zenon
      <4> QED BY <4>1, <4>2, NotEnd, Zenon
    <3>2. CASE OtcDone
      BY <3>2, Zenon DEF OtcDone, EngineSound
    <3> QED BY <1>8, <3>1, <3>2, Zenon
  <2>3. CheckOTC \/ GoOn
    BY <1>8, Zenon DEF NormalDone, LinkedDone, OtcDone, Finish
  <2>4. CASE CheckOTC
    BY <2>1, <2>2, <2>4, TablesCheck, Zenon
  <2>5. CASE GoOn /\ ~CheckOTC
    <3>1. UNCHANGED <<sending, otcs, clearing, callback>>
      BY <2>5, Zenon DEF GoOn
    <3>2. dirty' = dirty
      BY <1>8, <2>5, Zenon DEF NormalDone, LinkedDone, OtcDone
    <3> QED BY <2>1, <3>1, <3>2, TablesFrame, Zenon
  <2> QED BY <2>3, <2>4, <2>5, Zenon
<1> QED BY <1>1, <1>2, <1>3, <1>4, <1>5, <1>6, <1>7, <1>8, Zenon DEF Next

\* "The ordering table will be cleared automatically after the transfer is
\* complete" (gpu.hh 373), and none before, for an application with none of the
\* habits: each of them breaks it.
THEOREM TablesReady ==
  ASSUME Habits = {}
  PROVE  Spec => []TablesCleared
<1>1. Init => OrderInv /\ TablesInv
  <2> SUFFICES ASSUME Init PROVE OrderInv /\ TablesInv
    OBVIOUS
  <2>1. callback # "block" /\ callback # "main" /\ callback # "flip"
    BY DEF Init
  <2>2. OrderInv
    BY <2>1, Zenon DEF Init, OrderInv
  <2>3. pc # "swapped" /\ ToSet(<< >>) = {} /\ clearing = End /\ dirty = {} /\ recorded = << >>
    BY DEF Init, ToSet
  <2>4. parity \in {0, 1} /\ 1 - parity \in {0, 1}
    BY DEF Init
  <2>5. otcs[parity] = << >> /\ otcs[1 - parity] = << >>
    BY <2>4, Zenon DEF Init
  <2>6. TablesInv
    BY <2>3, <2>5, Zenon DEF TablesInv, Building
  <2> QED BY <2>2, <2>6
<1>2. "across" \notin Habits
  OBVIOUS
<1>3. Inv /\ OrderInv /\ TablesInv /\ [Next]_vars => OrderInv' /\ TablesInv'
  BY <1>2, OrderKept, TablesKept, TypesSplit, Zenon DEF Inv
<1>4. Inv /\ TablesInv => TablesCleared
  <2> SUFFICES ASSUME Inv, TablesInv PROVE TablesCleared
    OBVIOUS
  <2>1. Data /\ TypeOK /\ FlightSound
    BY TypesSplit, Zenon DEF Inv
  <2>2. \A x \in InFlight : x \notin ToSet(recorded)
    BY <2>1, Zenon DEF FlightSound, InFlight
  <2>3. ClearedAfterSending
    BY <2>2, Zenon DEF TablesInv, ClearedAfterSending
  <2>4. Pending \subseteq InFlight \union {End}
    BY Zenon DEF TablesInv, Pending
  <2>5. dirty \subseteq ToSet(recorded) \union InFlight
    BY <2>1, <2>4, NotEnd, Zenon DEF TablesInv
  <2> QED BY <2>1, <2>3, <2>5, Zenon DEF TablesCleared
<1> QED BY <1>1, <1>3, <1>4, Invariance, PTL DEF Spec

-----------------------------------------------------------------------------
(* The clock and the timers.                                                 *)


Fields == [deadline : Int, period : Nat, remaining : Int, paused : BOOLEAN]
Scanning == [at : {"timer"}, timer : Timer, hsync : Nat, time : Nat]
Draining == [at : {"kernel"}, hsync : Nat]
Activation == {NoPump} \union Scanning \union Draining

\* TimersTypeOK, with what its steps need to know of the nodes and the activations, and
\* the one thing asked of the program: that it pumps while the counter goes round.
Types ==
  /\ TimersTypeOK
  /\ real - read < Wrap
  /\ order \in Seq(Timer)
  /\ timer \in [Timer -> Fields]
  /\ pump \in [Level -> Activation]

\* The activation under way remembers the counter for the program to keep.
ClockInv ==
  /\ now = read
  /\ depth = 0 => last = now % Wrap
  /\ depth = 1 => pump[1].hsync % Wrap = now % Wrap

\* A timer has been called since it was armed only while its callback runs, and
\* its node is then in the list: a single-use timer leaves it on return.
OnceInv ==
  /\ ~broken
  /\ \A t \in Timer :
       IF InCallback(t) THEN t \in Live /\ calls[t] = (IF timer[t].period = 0 THEN 1 ELSE 0)
                        ELSE calls[t] = 0
----------------------------------------------------------------------------
\* Erasing a node keeps the others, in their order and once each.
LEMMA RemoveAtProperties ==
  ASSUME NEW S, NEW s \in Seq(S), IsInjective(s), NEW i \in 1 .. Len(s)
  PROVE  /\ RemoveAt(s, i) \in Seq(S)
         /\ IsInjective(RemoveAt(s, i))
         /\ ToSet(RemoveAt(s, i)) = ToSet(s) \ {s[i]}
<1> DEFINE n == Len(s)
           front == SubSeq(s, 1, i - 1)
           back == SubSeq(s, i + 1, n)
           r == RemoveAt(s, i)
<1>1. n \in Nat /\ i \in 1 .. n /\ DOMAIN s = 1 .. n /\ \A j \in 1 .. n : s[j] \in S
  BY LenProperties, ElementOfSeq
<1> HIDE DEF n
<1>2. /\ front \in Seq(S) /\ Len(front) = i - 1
      /\ \A j \in 1 .. i - 1 : front[j] = s[j]
  <2>1. /\ front \in Seq(S) /\ Len(front) = IF 1 <= i - 1 THEN i - 1 - 1 + 1 ELSE 0
        /\ \A j \in 1 .. i - 1 - 1 + 1 : front[j] = s[1 + j - 1]
    BY <1>1, SubSeqProperties
  <2>2. ASSUME NEW j \in 1 .. i - 1 PROVE front[j] = s[j]
    <3>1. j \in 1 .. i - 1 - 1 + 1 /\ 1 + j - 1 = j
      BY <1>1
    <3>2. QED
      BY <2>1, <3>1
  <2>3. QED
    BY <1>1, <2>1, <2>2
<1>3. /\ back \in Seq(S) /\ Len(back) = n - i
      /\ \A j \in 1 .. n - i : back[j] = s[i + j]
  <2>1. /\ back \in Seq(S) /\ Len(back) = IF i + 1 <= n THEN n - (i + 1) + 1 ELSE 0
        /\ \A j \in 1 .. n - (i + 1) + 1 : back[j] = s[i + 1 + j - 1]
    BY <1>1, SubSeqProperties
  <2>2. ASSUME NEW j \in 1 .. n - i PROVE back[j] = s[i + j]
    <3>1. j \in 1 .. n - (i + 1) + 1 /\ i + 1 + j - 1 = i + j
      BY <1>1
    <3>2. QED
      BY <2>1, <3>1
  <2>3. QED
    BY <1>1, <2>1, <2>2
<1>4. r = front \o back
  BY DEF RemoveAt, n
<1> HIDE DEF front, back, r
<1>5. /\ r \in Seq(S) /\ Len(r) = n - 1 /\ DOMAIN r = 1 .. n - 1
      /\ \A j \in 1 .. n - 1 : r[j] = IF j < i THEN s[j] ELSE s[j + 1]
  <2>1. /\ r \in Seq(S) /\ Len(r) = Len(front) + Len(back)
        /\ \A j \in 1 .. Len(front) + Len(back) :
             r[j] = IF j <= Len(front) THEN front[j] ELSE back[j - Len(front)]
    BY <1>2, <1>3, <1>4, ConcatProperties
  <2>2. Len(r) = n - 1 /\ DOMAIN r = 1 .. n - 1
    BY <1>1, <1>2, <1>3, <2>1, LenProperties
  <2>3. ASSUME NEW j \in 1 .. n - 1 PROVE r[j] = IF j < i THEN s[j] ELSE s[j + 1]
    <3>1. r[j] = IF j <= i - 1 THEN front[j] ELSE back[j - (i - 1)]
      BY <1>1, <1>2, <1>3, <2>1
    <3>2. CASE j < i
      BY <1>1, <1>2, <3>1, <3>2
    <3>3. CASE i <= j
      <4>1. j - (i - 1) \in 1 .. n - i /\ i + (j - (i - 1)) = j + 1
        BY <1>1, <3>3
      <4>2. QED
        BY <1>1, <1>3, <3>1, <3>3, <4>1
    <3>4. QED
      BY <1>1, <3>2, <3>3
  <2>4. QED
    BY <2>1, <2>2, <2>3
<1> DEFINE from(j) == IF j < i THEN j ELSE j + 1
<1>6. \A j \in 1 .. n - 1 : from(j) \in 1 .. n /\ from(j) # i /\ r[j] = s[from(j)]
  BY <1>1, <1>5
<1>7. \A j, k \in 1 .. n - 1 : from(j) = from(k) => j = k
  BY <1>1
<1>8. \A k \in 1 .. n : k # i => \E j \in 1 .. n - 1 : from(j) = k
  <2> SUFFICES ASSUME NEW k \in 1 .. n, k # i PROVE \E j \in 1 .. n - 1 : from(j) = k
    OBVIOUS
  <2>1. CASE k < i
    <3>1. k \in 1 .. n - 1 /\ from(k) = k
      BY <1>1, <2>1
    <3>2. QED
      BY <3>1
  <2>2. CASE k > i
    <3>1. k - 1 \in 1 .. n - 1 /\ from(k - 1) = k
      BY <1>1, <2>2
    <3>2. QED
      BY <3>1
  <2>3. QED
    BY <1>1, <2>1, <2>2
<1> HIDE DEF from
<1>9. IsInjective(r)
  <2> SUFFICES ASSUME NEW a \in 1 .. n - 1, NEW b \in 1 .. n - 1, r[a] = r[b] PROVE a = b
    BY <1>5 DEF IsInjective
  <2>1. from(a) \in 1 .. n /\ from(b) \in 1 .. n /\ s[from(a)] = s[from(b)]
    BY <1>6
  <2>2. from(a) = from(b)
    BY <1>1, <2>1 DEF IsInjective
  <2>3. QED
    BY <1>7, <2>2
<1>10. ToSet(r) = ToSet(s) \ {s[i]}
  <2>1. ASSUME NEW x \in ToSet(r) PROVE x \in ToSet(s) \ {s[i]}
    <3>1. PICK j \in 1 .. n - 1 : x = s[from(j)] /\ from(j) \in 1 .. n /\ from(j) # i
      BY <1>5, <1>6, <2>1 DEF ToSet
    <3>2. QED
      BY <1>1, <3>1 DEF ToSet, IsInjective
  <2>2. ASSUME NEW x \in ToSet(s) \ {s[i]} PROVE x \in ToSet(r)
    <3>1. PICK k \in 1 .. n : s[k] = x /\ k # i
      BY <1>1, <2>2 DEF ToSet
    <3>2. PICK j \in 1 .. n - 1 : from(j) = k
      BY <1>8, <3>1
    <3>3. QED
      BY <1>5, <1>6, <3>1, <3>2 DEF ToSet
  <2>3. QED
    BY <2>1, <2>2
<1>11. QED
  BY <1>5, <1>9, <1>10 DEF r

\* Arming a timer that is not in the list adds its node once.
LEMMA AppendNode ==
  ASSUME NEW S, NEW s \in Seq(S), IsInjective(s), NEW x \in S, x \notin ToSet(s)
  PROVE  /\ Append(s, x) \in Seq(S)
         /\ IsInjective(Append(s, x))
         /\ ToSet(Append(s, x)) = ToSet(s) \union {x}
<1> DEFINE n == Len(s)
           r == Append(s, x)
<1>1. n \in Nat /\ DOMAIN s = 1 .. n
  BY LenProperties
<1>2. /\ r \in Seq(S) /\ Len(r) = n + 1
      /\ \A j \in 1 .. n : r[j] = s[j]
      /\ r[n + 1] = x
  BY AppendProperties
<1>3. DOMAIN r = 1 .. n + 1
  BY <1>2, LenProperties
<1> HIDE DEF n, r
<1>4. IsInjective(r)
  BY <1>1, <1>2, <1>3 DEF IsInjective, ToSet
<1>5. ToSet(r) = ToSet(s) \union {x}
  BY <1>1, <1>2, <1>3 DEF ToSet
<1>6. QED
  BY <1>2, <1>4, <1>5 DEF r
----------------------------------------------------------------------------
(***************************************************************************)
(* What the loop of pumpCallbacks does to the timers and to its activation.  *)
(***************************************************************************)
\* Activation l calls timer t, found with these fields and this count of calls.
CallsTimer(l, t, fields, count) ==
  /\ pump'[l].at = "timer" /\ pump'[l].timer = t
  /\ timer'[t].period = fields[t].period
  /\ calls'[t] = IF fields[t].period = 0 /\ count[t] < 2 THEN count[t] + 1 ELSE count[t]
  /\ \A u \in Timer : u # t => timer'[u] = fields[u] /\ calls'[u] = count[u]

\* Activation l is done with the timers, which it leaves as they are.
LeavesTimers(l, fields, count) ==
  pump'[l].at = "kernel" /\ timer' = fields /\ calls' = count

\* Activation l goes on with the counter it has read, whatever the others do.
StaysTyped(l, p) ==
  /\ pump' \in [Level -> Activation]
  /\ \A m \in Level : m # l => pump'[m] = pump[m]
  /\ pump'[l].hsync = p.hsync
  /\ timer' \in [Timer -> Fields] /\ calls' \in [Timer -> 0 .. 2]

\* The loop calls a timer of the list, or goes on to the callbacks of the kernel
\* (gpu.cpp 665-682).
LEMMA ScanOutcome ==
  ASSUME NEW l \in Level, NEW p \in [at : {"timer"}, timer : Timer \union {{}}, hsync : Nat, time : Nat],
         NEW nodes \in Seq(Timer), NEW i \in Nat \ {0},
         NEW fields \in [Timer -> Fields], NEW count \in [Timer -> 0 .. 2],
         pump \in [Level -> Activation], Scan(l, p, nodes, i, fields, count)
  PROVE  /\ StaysTyped(l, p)
         /\ \/ LeavesTimers(l, fields, count)
            \/ \E t \in ToSet(nodes) : CallsTimer(l, t, fields, count)
<1> DEFINE due == {j \in i .. Len(nodes) : Due(fields[nodes[j]], p.time)}
           drain == [at |-> "kernel", hsync |-> p.hsync]
           Drains == pump' = [pump EXCEPT ![l] = drain] /\ timer' = fields /\ calls' = count
           Picks(j) ==
             /\ pump' = [pump EXCEPT ![l] = [p EXCEPT !.timer = nodes[j]]]
             /\ timer' = [fields EXCEPT ![nodes[j]].deadline = @ + fields[nodes[j]].period]
             /\ calls' = [count EXCEPT ![nodes[j]] =
                            IF fields[nodes[j]].period = 0 /\ @ < 2 THEN @ + 1 ELSE @]
<1>1. CASE Drains
  <2>1. drain \in Activation /\ drain.at = "kernel" /\ drain.hsync = p.hsync
    BY DEF Activation, Draining
  <2> HIDE DEF drain
  <2>2. QED
    BY <1>1, <2>1 DEF StaysTyped, LeavesTimers
<1>2. ASSUME NEW j \in due, Picks(j)
      PROVE  StaysTyped(l, p) /\ \E t \in ToSet(nodes) : CallsTimer(l, t, fields, count)
  <2> DEFINE t == nodes[j]
             q == [p EXCEPT !.timer = t]
             node == [fields[t] EXCEPT !.deadline = @ + fields[t].period]
  <2>1. t \in Timer /\ t \in ToSet(nodes)
    BY LenProperties, ElementOfSeq DEF ToSet
  <2>2. q \in Activation /\ q.at = "timer" /\ q.timer = t /\ q.hsync = p.hsync
    BY <2>1 DEF Activation, Scanning
  <2>3. node \in Fields /\ node.period = fields[t].period
    <3> HIDE DEF t
    <3>1. PICK f \in Fields : f = fields[t]
      BY <2>1
    <3>2. f.deadline + f.period \in Int
      BY DEF Fields
    <3>3. [f EXCEPT !.deadline = @ + f.period] \in Fields
      BY <3>2 DEF Fields
    <3>4. [f EXCEPT !.deadline = @ + f.period].period = f.period
      BY DEF Fields
    <3>5. QED
      BY <3>1, <3>3, <3>4
  <2>4. /\ pump' = [pump EXCEPT ![l] = q]
        /\ timer' = [fields EXCEPT ![t] = node]
        /\ calls' = [count EXCEPT ![t] = IF fields[t].period = 0 /\ @ < 2 THEN @ + 1 ELSE @]
    BY <1>2
  <2> HIDE DEF t, q, node
  <2>5. StaysTyped(l, p)
    BY <2>1, <2>2, <2>3, <2>4 DEF StaysTyped
  <2>6. CallsTimer(l, t, fields, count)
    BY <2>1, <2>2, <2>3, <2>4 DEF CallsTimer
  <2>7. QED
    BY <2>1, <2>5, <2>6
<1>3. Drains \/ \E j \in due : Picks(j)
  BY DEF Scan
<1>4. QED
  BY <1>1, <1>2, <1>3

\* Pausing, resuming and changing the period touch one node of the list, and
\* never make a periodic timer of a single-use one or the reverse.
LEMMA NodeAdjusted ==
  ASSUME Types, NEW t \in Timer,
         \/ PauseTimer(t) \/ ResumeTimer(t)
         \/ \E period \in Delays, reset \in BOOLEAN : ChangeTimerPeriod(t, period, reset)
  PROVE  \E node \in Fields :
           /\ timer' = [timer EXCEPT ![t] = node]
           /\ node.period = 0 <=> timer[t].period = 0
           /\ t \in Live /\ UNCHANGED <<order, calls>>
<1>1. PICK f \in Fields : f = timer[t]
  BY DEF Types
<1>2. timer \in [Timer -> Fields] /\ now \in Nat
  BY DEF Types, TimersTypeOK
<1>3. f.deadline \in Int /\ f.period \in Nat /\ f.remaining \in Int
  BY DEF Fields
<1>4. CASE PauseTimer(t)
  <2>1. PICK r \in Int, d \in Int : r = f.deadline - now /\ d = 0
    BY <1>2, <1>3
  <2>2. /\ timer' = [timer EXCEPT ![t].paused = TRUE, ![t].remaining = timer[t].deadline - now,
                                  ![t].deadline = 0]
        /\ t \in Live /\ UNCHANGED <<order, calls>>
    BY <1>4 DEF PauseTimer
  <2>3. timer' = [timer EXCEPT ![t] = [f EXCEPT !.paused = TRUE, !.remaining = r, !.deadline = d]]
    BY <1>1, <1>2, <2>1, <2>2
  <2>4. /\ [f EXCEPT !.paused = TRUE, !.remaining = r, !.deadline = d] \in Fields
        /\ [f EXCEPT !.paused = TRUE, !.remaining = r, !.deadline = d].period = f.period
    BY DEF Fields
  <2>5. QED
    BY <1>1, <2>2, <2>3, <2>4
<1>5. CASE ResumeTimer(t)
  <2>1. PICK r \in Int, d \in Int : r = 0 /\ d = now + f.remaining
    BY <1>2, <1>3
  <2>2. /\ timer' = [timer EXCEPT ![t].paused = FALSE, ![t].remaining = 0,
                                  ![t].deadline = now + timer[t].remaining]
        /\ t \in Live /\ UNCHANGED <<order, calls>>
    BY <1>5 DEF ResumeTimer
  <2>3. timer' = [timer EXCEPT ![t] = [f EXCEPT !.paused = FALSE, !.remaining = r, !.deadline = d]]
    BY <1>1, <1>2, <2>1, <2>2
  <2>4. /\ [f EXCEPT !.paused = FALSE, !.remaining = r, !.deadline = d] \in Fields
        /\ [f EXCEPT !.paused = FALSE, !.remaining = r, !.deadline = d].period = f.period
    BY DEF Fields
  <2>5. QED
    BY <1>1, <2>2, <2>3, <2>4
<1>6. ASSUME NEW period \in Delays, NEW reset \in BOOLEAN, ChangeTimerPeriod(t, period, reset)
      PROVE  \E node \in Fields :
               /\ timer' = [timer EXCEPT ![t] = node]
               /\ node.period = 0 <=> timer[t].period = 0
               /\ t \in Live /\ UNCHANGED <<order, calls>>
  <2>1. period \in Nat /\ period # 0
    BY ClockAssumption
  <2>2. now + period \in Int /\ f.deadline + (period - f.period) \in Int
    BY <1>2, <1>3, <2>1
  <2>3. PICK d \in Int : d = IF reset THEN now + period ELSE f.deadline + (period - f.period)
    BY <2>2, Zenon
  <2>4. /\ timer' = [timer EXCEPT
              ![t].period = period,
              ![t].deadline = IF reset THEN now + period ELSE @ + (period - timer[t].period)]
        /\ timer[t].period # 0 /\ t \in Live /\ UNCHANGED <<order, calls>>
    BY <1>6 DEF ChangeTimerPeriod
  <2>5. timer' = [timer EXCEPT ![t] = [f EXCEPT !.period = period, !.deadline = d]]
    BY <1>1, <1>2, <2>3, <2>4
  <2>6. /\ [f EXCEPT !.period = period, !.deadline = d] \in Fields
        /\ [f EXCEPT !.period = period, !.deadline = d].period = period
    BY <2>1 DEF Fields
  <2>7. QED
    BY <1>1, <2>1, <2>4, <2>5, <2>6
<1>7. QED
  BY <1>4, <1>5, <1>6

\* The counter read by an activation, and the time it makes of it.
LEMMA CounterRead ==
  ASSUME Types
  PROVE  /\ HSync(real % Wrap) \in Nat /\ HSync(real % Wrap) >= last
         /\ now + (HSync(real % Wrap) - last) \in Nat
<1> DEFINE c == real % Wrap
<1>1. Wrap \in Nat \ {0} /\ real \in Nat /\ last \in 0 .. Wrap - 1 /\ now \in Nat
  BY ClockAssumption DEF Types, TimersTypeOK
<1>2. c \in 0 .. Wrap - 1
  BY <1>1
<1> HIDE DEF c
<1>3. HSync(c) \in Nat /\ HSync(c) >= last
  BY <1>1, <1>2 DEF HSync
<1>4. QED
  BY <1>1, <1>3 DEF c

\* At reset nothing is armed and nothing pumps.
LEMMA InitTypes == TimersInit => Types
<1> SUFFICES ASSUME TimersInit PROVE Types
  OBVIOUS
<1> USE ClockAssumption
<1>1. order \in Seq(Timer) /\ Live = {} /\ IsInjective(order)
  BY EmptySeq DEF TimersInit, Live, ToSet, IsInjective
<1>2. timer \in [Timer -> Fields] /\ \A t \in Timer : timer[t] = Unused
  BY DEF TimersInit, Fields, Unused
<1>3. pump \in [Level -> Activation] /\ \A l \in Level : pump[l].at = "off" /\ l > depth
  BY DEF TimersInit, Activation, NoPump, Level
<1>4. real = 0 /\ read = 0 /\ last \in 0 .. Wrap - 1 /\ now \in Nat /\ depth \in 0 .. MaxDepth
  BY DEF TimersInit
<1>5. calls \in [Timer -> 0 .. 2]
  BY DEF TimersInit
<1>6. broken \in BOOLEAN
  BY DEF TimersInit
<1>7. \A t \in Timer : timer[t].deadline \in Int /\ timer[t].remaining \in Int
  BY <1>2 DEF Unused
<1>8. TimersTypeOK
  BY <1>1, <1>2, <1>3, <1>4, <1>5, <1>6, <1>7 DEF TimersTypeOK
<1>9. QED
  BY <1>1, <1>2, <1>3, <1>4, <1>8 DEF Types

\* The list and its nodes, once the rest of the types is known.
LEMMA ListTyped ==
  ASSUME Types, UNCHANGED <<real, read, last, now, depth, pump, broken>>,
         order' \in Seq(Timer), IsInjective(order'),
         timer' \in [Timer -> Fields], calls' \in [Timer -> 0 .. 2],
         \A u \in Timer : u \notin ToSet(order') => timer'[u] = Unused
  PROVE  Types'
<1>1. ToSet(order') \subseteq Timer
  BY LenProperties, ElementOfSeq DEF ToSet
<1>2. \A u \in Timer : timer'[u].deadline \in Int /\ timer'[u].remaining \in Int
  BY DEF Fields
<1>3. TimersTypeOK'
  BY <1>1, <1>2, Zenon DEF Types, TimersTypeOK, Live
<1>4. QED
  BY <1>3 DEF Types

\* What the application does to the list (gpu.cpp 597-649) keeps the types.
LEMMA ListTypes ==
  ASSUME Types, NEW t \in Timer,
         \/ \E delay \in Delays : Arm(t, delay, 0) \/ Arm(t, delay, delay)
         \/ CancelTimer(t) \/ PauseTimer(t) \/ ResumeTimer(t)
         \/ \E period \in Delays, reset \in BOOLEAN : ChangeTimerPeriod(t, period, reset)
  PROVE  Types'
<1> USE ClockAssumption
<1>1. UNCHANGED <<real, read, last, now, depth, pump, broken>>
  BY DEF Arm, CancelTimer, PauseTimer, ResumeTimer, ChangeTimerPeriod, clock
<1>2. /\ timer \in [Timer -> Fields] /\ calls \in [Timer -> 0 .. 2] /\ now \in Nat
      /\ order \in Seq(Timer) /\ IsInjective(order)
      /\ \A u \in Timer : u \notin ToSet(order) => timer[u] = Unused
  BY DEF Types, TimersTypeOK, Live
<1>3. Unused \in Fields
  BY DEF Fields, Unused
<1>4. ASSUME NEW delay \in Delays, NEW period \in Delays \union {0}, Arm(t, delay, period)
      PROVE  Types'
  <2>1. /\ order' \in Seq(Timer) /\ IsInjective(order')
        /\ ToSet(order') = ToSet(order) \union {t}
    BY <1>2, <1>4, AppendNode, ZenonT(60) DEF Arm, Live
  <2>2. PICK d \in Int, p \in Nat : d = now + delay /\ p = period
    BY <1>2
  <2>3. PICK node \in Fields : node = [Unused EXCEPT !.deadline = d, !.period = p]
    BY <1>3 DEF Fields
  <2>4. timer' = [timer EXCEPT ![t] = node] /\ calls' = [calls EXCEPT ![t] = 0]
    BY <1>4, <2>2, <2>3 DEF Arm
  <2>5. timer' \in [Timer -> Fields] /\ calls' \in [Timer -> 0 .. 2]
    BY <1>2, <2>4
  <2>6. \A u \in Timer : u \notin ToSet(order') => timer'[u] = Unused
    BY <1>2, <2>1, <2>4
  <2>7. QED
    BY <1>1, <2>1, <2>5, <2>6, ListTyped
<1>5. CASE CancelTimer(t)
  <2>1. PICK i \in DOMAIN order : order[i] = t /\ order' = RemoveAt(order, i)
    BY <1>5 DEF CancelTimer, Erase
  <2>2. /\ order' \in Seq(Timer) /\ IsInjective(order')
        /\ ToSet(order') = ToSet(order) \ {t}
    BY <1>2, <2>1, LenProperties, RemoveAtProperties
  <2>3. timer' = [timer EXCEPT ![t] = Unused] /\ calls' = [calls EXCEPT ![t] = 0]
    BY <1>5 DEF CancelTimer, Erase
  <2>4. timer' \in [Timer -> Fields] /\ calls' \in [Timer -> 0 .. 2]
    BY <1>2, <1>3, <2>3
  <2>5. \A u \in Timer : u \notin ToSet(order') => timer'[u] = Unused
    BY <1>2, <2>2, <2>3
  <2>6. QED
    BY <1>1, <2>2, <2>4, <2>5, ListTyped
<1>6. CASE \/ PauseTimer(t) \/ ResumeTimer(t)
           \/ \E period \in Delays, reset \in BOOLEAN : ChangeTimerPeriod(t, period, reset)
  <2>1. PICK node \in Fields : /\ timer' = [timer EXCEPT ![t] = node]
                               /\ t \in Live /\ UNCHANGED <<order, calls>>
    BY <1>6, NodeAdjusted
  <2>2. timer' \in [Timer -> Fields] /\ calls' \in [Timer -> 0 .. 2]
    BY <1>2, <2>1
  <2>3. \A u \in Timer : u \notin ToSet(order') => timer'[u] = Unused
    BY <1>2, <2>1 DEF Live
  <2>4. QED
    BY <1>1, <1>2, <2>1, <2>2, <2>3, ListTyped
<1>7. QED
  BY <1>4, <1>5, <1>6

\* Activation l has scanned a list in which only the listed nodes are in use.
Scanned(l, p, fields, count) ==
  /\ StaysTyped(l, p)
  /\ \/ LeavesTimers(l, fields, count)
     \/ \E t \in ToSet(order') : CallsTimer(l, t, fields, count)

\* A scan keeps the types.
LEMMA ScanTypes ==
  ASSUME Types, NEW l \in Level, l = depth \/ l = depth + 1,
         NEW p, NEW fields, NEW count, Scanned(l, p, fields, count),
         order' \in Seq(Timer), IsInjective(order'),
         \A u \in Timer : u \notin ToSet(order') => fields[u] = Unused,
         depth' = l, UNCHANGED <<real, last, broken>>, read' = read \/ read' = real, now' \in Nat
  PROVE  Types'
<1> USE ClockAssumption
<1>1. /\ pump' \in [Level -> Activation] /\ timer' \in [Timer -> Fields]
      /\ calls' \in [Timer -> 0 .. 2] /\ \A m \in Level : m # l => pump'[m] = pump[m]
  BY DEF Scanned, StaysTyped
<1>2. ToSet(order') \subseteq Timer
  BY LenProperties, ElementOfSeq DEF ToSet
<1>3. \A u \in Timer : timer'[u].deadline \in Int /\ timer'[u].remaining \in Int
  BY <1>1 DEF Fields
<1>4. \A u \in Timer : u \notin ToSet(order') => timer'[u] = Unused
  BY DEF Scanned, LeavesTimers, CallsTimer
<1>5. pump'[l].at \in {"timer", "kernel"}
  BY DEF Scanned, LeavesTimers, CallsTimer
<1>6. depth' \in 0 .. MaxDepth
  BY DEF Level
<1>7. \A m \in Level : pump'[m].at = "off" <=> m > depth'
  <2> SUFFICES ASSUME NEW m \in Level PROVE pump'[m].at = "off" <=> m > depth'
    OBVIOUS
  <2>1. depth \in Nat /\ (pump[m].at = "off" <=> m > depth)
    BY DEF Types, TimersTypeOK
  <2>2. CASE m = l
    BY <1>5, <2>1, <2>2 DEF Level
  <2>3. CASE m # l
    BY <1>1, <2>1, <2>3 DEF Level
  <2>4. QED
    BY <2>2, <2>3
<1>8. /\ real' \in 0 .. MaxTime /\ read' \in 0 .. real' /\ real' - read' < Wrap
      /\ last' \in 0 .. Wrap - 1
  BY DEF Types, TimersTypeOK
<1>9. broken' \in BOOLEAN
  BY DEF Types, TimersTypeOK
<1>10. TimersTypeOK'
  BY <1>1, <1>2, <1>3, <1>4, <1>6, <1>7, <1>8, <1>9, Zenon DEF TimersTypeOK, Live
<1>11. QED
  BY <1>1, <1>8, <1>10 DEF Types

\* A pump reads the counter and scans the list from its first node.
LEMMA PumpOutcome ==
  ASSUME Types, PumpCallbacks
  PROVE  /\ depth + 1 \in Level /\ depth' = depth + 1
         /\ UNCHANGED <<real, last, order, broken>> /\ read' = real
         /\ now' = now + (HSync(real % Wrap) - last) /\ now' \in Nat
         /\ \E p : p.hsync = HSync(real % Wrap) /\ Scanned(depth + 1, p, timer, calls)
<1> DEFINE hsync == HSync(real % Wrap)
           time == now + (hsync - last)
           p == [at |-> "timer", timer |-> {}, hsync |-> hsync, time |-> time]
<1>1. hsync \in Nat /\ time \in Nat
  BY CounterRead
<1>2. /\ now' = time /\ Scan(depth + 1, p, order, 1, timer, calls)
      /\ depth < MaxDepth /\ read' = real /\ depth' = depth + 1
      /\ UNCHANGED <<real, last, order, broken>>
  BY DEF PumpCallbacks
<1>3. depth + 1 \in Level
  BY <1>2, ClockAssumption DEF Types, TimersTypeOK, Level
<1> HIDE DEF hsync, time
<1>4. p \in [at : {"timer"}, timer : Timer \union {{}}, hsync : Nat, time : Nat] /\ p.hsync = hsync
  BY <1>1
<1> HIDE DEF p
<1>5. /\ order \in Seq(Timer) /\ timer \in [Timer -> Fields] /\ calls \in [Timer -> 0 .. 2]
      /\ pump \in [Level -> Activation]
  BY DEF Types, TimersTypeOK
<1>6. Scanned(depth + 1, p, timer, calls)
  <2>1. /\ StaysTyped(depth + 1, p)
        /\ \/ LeavesTimers(depth + 1, timer, calls)
           \/ \E t \in ToSet(order) : CallsTimer(depth + 1, t, timer, calls)
    BY <1>2, <1>3, <1>4, <1>5, ScanOutcome
  <2>2. QED
    BY <1>2, <2>1 DEF Scanned
<1>7. QED
  BY <1>1, <1>2, <1>3, <1>4, <1>6 DEF hsync, time

\* When a callback returns, the scan goes on behind a periodic timer, or from the
\* first node once a single-use timer has been erased; a node that is gone is a
\* broken iterator.
LEMMA ReturnOutcome ==
  ASSUME Types, TimerReturns
  PROVE  /\ depth \in Level /\ pump[depth].at = "timer" /\ pump[depth].timer \in Timer
         /\ UNCHANGED <<real, read, last, now, depth>>
         /\ LET t == pump[depth].timer IN
            \/ t \notin Live /\ broken' = TRUE /\ UNCHANGED <<order, timer, calls, pump>>
            \/ /\ t \in Live /\ timer[t].period # 0 /\ UNCHANGED <<order, broken>>
               /\ Scanned(depth, pump[depth], timer, calls)
            \/ /\ t \in Live /\ timer[t].period = 0 /\ UNCHANGED broken
               /\ order' \in Seq(Timer) /\ IsInjective(order') /\ ToSet(order') = Live \ {t}
               /\ Scanned(depth, pump[depth], [timer EXCEPT ![t] = Unused], [calls EXCEPT ![t] = 0])
<1> DEFINE t == pump[depth].timer
           fields == [timer EXCEPT ![t] = Unused]
           count == [calls EXCEPT ![t] = 0]
<1>1. depth \in Level /\ pump[depth].at = "timer" /\ UNCHANGED <<real, read, last, now, depth>>
  BY DEF TimerReturns, Types, TimersTypeOK, Level, clock
<1>2. /\ order \in Seq(Timer) /\ timer \in [Timer -> Fields] /\ calls \in [Timer -> 0 .. 2]
      /\ pump \in [Level -> Activation] /\ IsInjective(order)
  BY DEF Types, TimersTypeOK
<1>3. pump[depth] \in Scanning
  BY <1>1, <1>2 DEF Activation, NoPump, Draining
<1>4. pump[depth] \in [at : {"timer"}, timer : Timer \union {{}}, hsync : Nat, time : Nat] /\ t \in Timer
  BY <1>3 DEF Scanning
<1>5. CASE t \notin Live
  BY <1>1, <1>4, <1>5 DEF TimerReturns, list
<1>6. CASE t \in Live /\ timer[t].period # 0
  <2>1. /\ \E i \in DOMAIN order : Scan(depth, pump[depth], order, i + 1, timer, calls)
        /\ UNCHANGED <<order, broken>>
    BY <1>6 DEF TimerReturns
  <2>2. PICK i \in Nat \ {0} : Scan(depth, pump[depth], order, i, timer, calls)
    BY <1>2, <2>1, LenProperties
  <2>3. Scanned(depth, pump[depth], timer, calls)
    <3>1. /\ StaysTyped(depth, pump[depth])
          /\ \/ LeavesTimers(depth, timer, calls)
             \/ \E u \in ToSet(order) : CallsTimer(depth, u, timer, calls)
      BY <1>1, <1>2, <1>4, <2>2, ScanOutcome
    <3>2. QED
      BY <2>1, <3>1 DEF Scanned
  <2>4. QED
    BY <1>1, <1>4, <1>6, <2>1, <2>3
<1>7. CASE t \in Live /\ timer[t].period = 0
  <2>1. PICK i \in DOMAIN order :
          /\ order[i] = t /\ order' = RemoveAt(order, i)
          /\ Scan(depth, pump[depth], RemoveAt(order, i), 1, fields, count)
          /\ UNCHANGED broken
    BY <1>7 DEF TimerReturns
  <2>2. order' \in Seq(Timer) /\ IsInjective(order') /\ ToSet(order') = Live \ {t}
    BY <1>2, <2>1, LenProperties, RemoveAtProperties DEF Live
  <2>3. fields \in [Timer -> Fields] /\ count \in [Timer -> 0 .. 2]
    <3>1. Unused \in Fields
      BY DEF Unused, Fields
    <3>2. fields \in [Timer -> Fields]
      BY <1>2, <1>4, <3>1
    <3>3. count \in [Timer -> 0 .. 2]
      BY <1>2, <1>4
    <3>4. QED
      BY <3>2, <3>3
  <2> HIDE DEF fields, count
  <2>4. Scanned(depth, pump[depth], fields, count)
    <3>1. PICK j \in Nat \ {0} : Scan(depth, pump[depth], order', j, fields, count)
      BY <2>1
    <3>2. /\ StaysTyped(depth, pump[depth])
          /\ \/ LeavesTimers(depth, fields, count)
             \/ \E u \in ToSet(order') : CallsTimer(depth, u, fields, count)
      BY <1>1, <1>2, <1>4, <2>2, <2>3, <3>1, ScanOutcome
    <3>3. QED
      BY <3>2 DEF Scanned
  <2>5. QED
    BY <1>1, <1>4, <1>7, <2>1, <2>2, <2>4 DEF fields, count
<1>8. QED
  BY <1>5, <1>6, <1>7

\* Every step keeps the types, whatever the callbacks do and however deep they pump.
LEMMA StepTypes == Types /\ [TimersNext]_timersVars => Types'
<1> SUFFICES ASSUME Types, [TimersNext]_timersVars PROVE Types'
  OBVIOUS
<1> USE ClockAssumption
<1>1. CASE Tick
  <2>1. /\ real' = real + 1 /\ real < MaxTime /\ real + 1 - read < Wrap
        /\ UNCHANGED <<read, last, now, order, timer, calls, depth, pump, broken>>
    BY <1>1 DEF Tick, list
  <2>2. real' \in 0 .. MaxTime /\ read' \in 0 .. real' /\ real' - read' < Wrap
    BY <2>1 DEF Types, TimersTypeOK
  <2>3. TimersTypeOK'
    BY <2>1, <2>2, Zenon DEF Types, TimersTypeOK, Live
  <2>4. QED
    BY <2>1, <2>2, <2>3 DEF Types
<1>2. ASSUME NEW t \in Timer,
             \/ \E delay \in Delays : Arm(t, delay, 0) \/ Arm(t, delay, delay)
             \/ CancelTimer(t) \/ PauseTimer(t) \/ ResumeTimer(t)
             \/ \E period \in Delays, reset \in BOOLEAN : ChangeTimerPeriod(t, period, reset)
      PROVE  Types'
  BY <1>2, ListTypes
<1>3. CASE PumpCallbacks
  <2>1. /\ depth + 1 \in Level /\ depth' = depth + 1
        /\ UNCHANGED <<real, last, order, broken>> /\ read' = real /\ now' \in Nat
        /\ \E p : Scanned(depth + 1, p, timer, calls)
    BY <1>3, PumpOutcome
  <2>2. /\ order' \in Seq(Timer) /\ IsInjective(order')
        /\ \A u \in Timer : u \notin ToSet(order') => timer[u] = Unused
    BY <2>1 DEF Types, TimersTypeOK, Live
  <2>3. QED
    BY <2>1, <2>2, ScanTypes
<1>4. CASE TimerReturns
  <2> DEFINE t == pump[depth].timer
             fields == [timer EXCEPT ![t] = Unused]
             count == [calls EXCEPT ![t] = 0]
  <2>1. /\ depth \in Level /\ UNCHANGED <<real, read, last, now, depth>>
        /\ t \in Timer /\ now' \in Nat
    BY <1>4, ReturnOutcome DEF Types, TimersTypeOK
  <2>2. CASE t \notin Live /\ broken' = TRUE /\ UNCHANGED <<order, timer, calls, pump>>
    <3>1. UNCHANGED <<real, read, last, now, depth, order, timer, calls, pump>> /\ broken' = TRUE
      BY <2>1, <2>2
    <3>2. QED
      BY <3>1, Zenon DEF Types, TimersTypeOK, Live
  <2>3. CASE UNCHANGED <<order, broken>> /\ Scanned(depth, pump[depth], timer, calls)
    <3>1. /\ order' \in Seq(Timer) /\ IsInjective(order')
          /\ \A u \in Timer : u \notin ToSet(order') => timer[u] = Unused
      BY <2>3 DEF Types, TimersTypeOK, Live
    <3>2. QED
      BY <2>1, <2>3, <3>1, ScanTypes
  <2>4. CASE /\ UNCHANGED broken /\ order' \in Seq(Timer) /\ IsInjective(order')
             /\ ToSet(order') = Live \ {t} /\ Scanned(depth, pump[depth], fields, count)
    <3>1. \A u \in Timer : u \notin ToSet(order') => fields[u] = Unused
      BY <2>1, <2>4 DEF Types, TimersTypeOK
    <3> HIDE DEF fields, count
    <3>2. QED
      BY <2>1, <2>4, <3>1, ScanTypes
  <2>5. QED
    BY <1>4, <2>2, <2>3, <2>4, ReturnOutcome
<1>5. CASE PumpReturns
  <2>1. /\ depth \in Level /\ depth' = depth - 1
        /\ last' = pump[depth].hsync % Wrap /\ pump' = [pump EXCEPT ![depth] = NoPump]
        /\ UNCHANGED <<real, read, now, order, timer, calls, broken>>
    BY <1>5 DEF PumpReturns, Types, TimersTypeOK, Level, list
  <2>2. pump[depth].hsync \in Nat
    <3>1. pump[depth] \in Activation /\ pump[depth].at = "kernel"
      BY <1>5, <2>1 DEF PumpReturns, Types
    <3>2. QED
      BY <3>1 DEF Activation, NoPump, Scanning, Draining
  <2>3. last' \in 0 .. Wrap - 1 /\ depth' \in 0 .. MaxDepth
    BY <2>1, <2>2 DEF Level
  <2>4. pump' \in [Level -> Activation]
    <3>1. NoPump \in Activation
      BY DEF Activation
    <3>2. QED
      BY <2>1, <3>1 DEF Types
  <2>5. \A m \in Level : pump'[m].at = "off" <=> m > depth'
    <3> SUFFICES ASSUME NEW m \in Level PROVE pump'[m].at = "off" <=> m > depth'
      OBVIOUS
    <3>1. pump[m].at = "off" <=> m > depth
      BY DEF Types, TimersTypeOK
    <3>2. CASE m = depth
      BY <2>1, <3>2 DEF Types, NoPump, Level
    <3>3. CASE m # depth
      BY <2>1, <3>1, <3>3 DEF Types, Level
    <3>4. QED
      BY <3>2, <3>3
  <2>6. TimersTypeOK'
    BY <2>1, <2>3, <2>5, Zenon DEF Types, TimersTypeOK, Live
  <2>7. QED
    BY <2>1, <2>4, <2>6 DEF Types
<1>6. CASE UNCHANGED timersVars
  BY <1>6, Zenon DEF timersVars, clock, list, Types, TimersTypeOK, Live
<1>7. QED
  BY <1>1, <1>2, <1>3, <1>4, <1>5, <1>6 DEF TimersNext

\* The types, and nothing but listed timers in use, for every depth to which
\* callbacks pump again and whether or not they cancel themselves.
THEOREM TypeCorrect == TimersSpec => []TimersTypeOK
<1>1. Types => TimersTypeOK
  BY DEF Types
<1>2. QED
  BY <1>1, InitTypes, StepTypes, PTL DEF TimersSpec
----------------------------------------------------------------------------
(***************************************************************************)
(* The clock, while a callback does not pump again.                         *)
(***************************************************************************)
\* Quotient and remainder.
LEMMA Division ==
  ASSUME NEW w \in Nat, w > 0, NEW a \in Nat
  PROVE  /\ a \div w \in Nat /\ a % w \in 0 .. w - 1
         /\ a = w * (a \div w) + (a % w)
<1>1. a = w * (a \div w) + (a % w)
  BY Z3T(30)
<1>2. a \div w \in Nat
  OBVIOUS
<1>3. a % w \in 0 .. w - 1
  OBVIOUS
<1>4. QED
  BY <1>1, <1>2, <1>3

\* A counter that went round less than once since it was last read gives the
\* scanlines in between, and the low bits of what was made of it are its own.
LEMMA HSyncAdvance ==
  ASSUME Types, last = read % Wrap
  PROVE  /\ HSync(real % Wrap) - last = real - read
         /\ HSync(real % Wrap) % Wrap = real % Wrap
<1> DEFINE x == real \div Wrap
           y == real % Wrap
           p == read \div Wrap
           q == read % Wrap
<1>1. /\ Wrap \in Nat /\ Wrap > 0 /\ real \in Nat /\ read \in Nat
      /\ read <= real /\ real - read < Wrap
  BY ClockAssumption DEF Types, TimersTypeOK
<1>2. x \in Nat /\ y \in 0 .. Wrap - 1 /\ real = Wrap * x + y
  BY <1>1, Division
<1>3. p \in Nat /\ q \in 0 .. Wrap - 1 /\ read = Wrap * p + q
  BY <1>1, Division
<1>4. last = q /\ HSync(real % Wrap) = IF y < q THEN y + Wrap ELSE y
  BY DEF HSync
<1> HIDE DEF x, y, p, q
<1>5. IF y < q THEN y + Wrap - q = real - read ELSE y - q = real - read
  <2>1. CASE x = p
    BY <1>1, <1>2, <1>3, <2>1
  <2>2. CASE x = p + 1
    <3>1. Wrap * x = Wrap * p + Wrap
      BY <1>1, <1>3, <2>2
    <3>2. QED
      BY <1>1, <1>2, <1>3, <3>1
  <2>3. CASE x >= p + 2
    <3>1. Wrap * x >= Wrap * p + 2 * Wrap
      BY <1>1, <1>2, <1>3, <2>3
    <3>2. QED
      BY <1>1, <1>2, <1>3, <3>1
  <2>4. CASE x < p
    <3>1. Wrap * x + Wrap <= Wrap * p
      BY <1>1, <1>2, <1>3, <2>4
    <3>2. QED
      BY <1>1, <1>2, <1>3, <3>1
  <2>5. QED
    BY <1>2, <1>3, <2>1, <2>2, <2>3, <2>4
<1>6. HSync(real % Wrap) - last = real - read
  BY <1>1, <1>2, <1>3, <1>4, <1>5
<1>7. (y + Wrap) % Wrap = y /\ y % Wrap = y
  BY <1>1, <1>2
<1>8. HSync(real % Wrap) % Wrap = y
  BY <1>4, <1>7
<1>9. QED
  BY <1>6, <1>8 DEF y

\* Where activations do not nest, the one under way has added all that passed.
LEMMA StepClock ==
  ASSUME MaxDepth = 1, Types, ClockInv, [TimersNext]_timersVars
  PROVE  ClockInv'
<1>1. depth \in {0, 1} /\ Level = {1} /\ now \in Nat /\ real \in Nat /\ read \in Nat
  BY DEF Types, TimersTypeOK, Level
<1>2. CASE PumpCallbacks
  <2>1. /\ depth = 0 /\ depth' = 1 /\ read' = real
        /\ now' = now + (HSync(real % Wrap) - last)
    BY <1>1, <1>2, PumpOutcome
  <2>2. pump'[1].hsync = HSync(real % Wrap)
    BY <1>2, <2>1, PumpOutcome DEF Scanned, StaysTyped
  <2>3. now' = real /\ HSync(real % Wrap) % Wrap = real % Wrap
    BY <1>1, <2>1, HSyncAdvance DEF ClockInv
  <2>4. QED
    BY <2>1, <2>2, <2>3 DEF ClockInv
<1>3. CASE TimerReturns
  <2>1. UNCHANGED <<now, read, last, depth>> /\ depth = 1
    BY <1>1, <1>3, ReturnOutcome
  <2>2. pump'[1].hsync = pump[1].hsync
    BY <1>3, <2>1, ReturnOutcome DEF Scanned, StaysTyped
  <2>3. QED
    BY <2>1, <2>2 DEF ClockInv
<1>4. CASE PumpReturns
  BY <1>1, <1>4 DEF PumpReturns, ClockInv
<1>5. ASSUME UNCHANGED <<now, read, last, depth, pump>> PROVE ClockInv'
  BY <1>5 DEF ClockInv
<1>6. CASE Tick
  BY <1>5, <1>6 DEF Tick
<1>7. ASSUME NEW t \in Timer,
             \/ \E delay \in Delays : Arm(t, delay, 0) \/ Arm(t, delay, delay)
             \/ CancelTimer(t) \/ PauseTimer(t) \/ ResumeTimer(t)
             \/ \E period \in Delays, reset \in BOOLEAN : ChangeTimerPeriod(t, period, reset)
      PROVE  ClockInv'
  BY <1>5, <1>7 DEF Arm, CancelTimer, PauseTimer, ResumeTimer, ChangeTimerPeriod, clock
<1>8. CASE UNCHANGED timersVars
  BY <1>5, <1>8 DEF timersVars, clock
<1>9. QED
  BY <1>2, <1>3, <1>4, <1>6, <1>7, <1>8 DEF TimersNext

\* While a callback does not pump again, m_currentTime is the scanlines that have
\* passed when the counter was read: none is lost or counted twice as the 16-bit
\* counter goes round, for any modulus and any delays (gpu.cpp 652-663 and 683).
THEOREM ClockKept ==
  ASSUME MaxDepth = 1
  PROVE  TimersSpec => []ClockTracks
<1>1. TimersInit => ClockInv
  <2>1. 0 % Wrap = 0
    BY ClockAssumption
  <2>2. QED
    BY <2>1 DEF TimersInit, ClockInv
<1>2. Types /\ ClockInv /\ [TimersNext]_timersVars => ClockInv'
  BY StepClock
<1>3. Types /\ ClockInv => ClockTracks
  BY DEF Types, ClockInv, ClockTracks
<1>4. QED
  BY <1>1, <1>2, <1>3, InitTypes, StepTypes, PTL DEF TimersSpec
----------------------------------------------------------------------------
(***************************************************************************)
(* Single-use timers, while a callback neither pumps again nor cancels the   *)
(* timer it is called for.                                                   *)
(***************************************************************************)
\* Outside an activation's call no timer is in a callback; inside, one is.
LEMMA OneCallback ==
  ASSUME MaxDepth = 1, Types, NEW t
  PROVE  InCallback(t) <=> depth = 1 /\ pump[1].at = "timer" /\ pump[1].timer = t
<1>1. depth \in {0, 1}
  BY DEF Types, TimersTypeOK
<1>2. QED
  BY <1>1 DEF InCallback

\* A scan calls a timer for the first time since it was armed, or none.
LEMMA ScanOnce ==
  ASSUME MaxDepth = 1, Types', depth' = 1, NEW p, NEW fields, NEW count,
         Scanned(1, p, fields, count), \A t \in Timer : count[t] = 0, ~broken'
  PROVE  OnceInv'
<1>1. \A t \in Timer : InCallback(t)' <=> pump'[1].at = "timer" /\ pump'[1].timer = t
  BY DEF InCallback
<1>2. ToSet(order') \subseteq Timer
  BY DEF Types, TimersTypeOK, Live
<1>3. CASE LeavesTimers(1, fields, count)
  BY <1>1, <1>3 DEF OnceInv, LeavesTimers
<1>4. CASE \E t \in ToSet(order') : CallsTimer(1, t, fields, count)
  <2>1. PICK t \in ToSet(order') : CallsTimer(1, t, fields, count)
    BY <1>4
  <2>2. /\ pump'[1].at = "timer" /\ pump'[1].timer = t /\ t \in Timer
        /\ calls'[t] = IF timer'[t].period = 0 THEN 1 ELSE 0
        /\ \A u \in Timer : u # t => calls'[u] = 0
    BY <1>2, <2>1 DEF CallsTimer
  <2>3. QED
    BY <1>1, <2>1, <2>2 DEF OnceInv, Live
<1>5. QED
  BY <1>3, <1>4 DEF Scanned

\* No step calls a timer that has been called, or loses the one that is.
LEMMA StepOnce ==
  ASSUME MaxDepth = 1, ~CancelsItself, Types, OnceInv, [TimersNext]_timersVars
  PROVE  OnceInv'
<1>1. Types'
  BY StepTypes
<1>2. depth \in {0, 1} /\ Level = {1}
  BY DEF Types, TimersTypeOK, Level
<1>3. CASE PumpCallbacks
  <2>1. depth = 0 /\ depth' = 1 /\ UNCHANGED broken
    BY <1>2, <1>3, PumpOutcome
  <2>2. PICK p : Scanned(1, p, timer, calls)
    BY <1>3, <2>1, PumpOutcome
  <2>3. \A t \in Timer : calls[t] = 0
    BY <2>1, OneCallback DEF OnceInv
  <2>4. QED
    BY <1>1, <2>1, <2>2, <2>3, ScanOnce DEF OnceInv
<1>4. CASE TimerReturns
  <2> DEFINE t == pump[1].timer
             fields == [timer EXCEPT ![t] = Unused]
             count == [calls EXCEPT ![t] = 0]
  <2>1. depth = 1 /\ depth' = 1 /\ pump[1].at = "timer" /\ t \in Timer
    BY <1>2, <1>4, ReturnOutcome
  <2>2. InCallback(t) /\ \A u \in Timer : u # t => ~InCallback(u)
    BY <2>1, OneCallback
  <2>3. /\ t \in Live /\ calls[t] = IF timer[t].period = 0 THEN 1 ELSE 0
        /\ \A u \in Timer : u # t => calls[u] = 0
    BY <2>1, <2>2 DEF OnceInv
  <2>4. CASE timer[t].period # 0 /\ UNCHANGED broken /\ Scanned(1, pump[1], timer, calls)
    <3>1. \A u \in Timer : calls[u] = 0
      BY <2>1, <2>3, <2>4
    <3>2. QED
      BY <1>1, <2>1, <2>4, <3>1, ScanOnce DEF OnceInv
  <2>5. CASE UNCHANGED broken /\ Scanned(1, pump[1], fields, count)
    <3>1. \A u \in Timer : count[u] = 0
      BY <2>1, <2>3 DEF Types, TimersTypeOK
    <3> HIDE DEF fields, count
    <3>2. QED
      BY <1>1, <2>1, <2>5, <3>1, ScanOnce DEF OnceInv
  <2>6. QED
    BY <1>4, <2>1, <2>3, <2>4, <2>5, ReturnOutcome
<1>5. CASE PumpReturns
  <2>1. depth = 1 /\ depth' = 0 /\ pump[1].at = "kernel" /\ UNCHANGED <<calls, broken>>
    BY <1>2, <1>5 DEF PumpReturns, list
  <2>2. \A t \in Timer : ~InCallback(t) /\ ~InCallback(t)'
    BY <2>1, OneCallback DEF InCallback
  <2>3. QED
    BY <2>1, <2>2 DEF OnceInv
<1>6. ASSUME NEW t \in Timer, UNCHANGED <<depth, pump, broken>>,
             \A u \in Timer : u # t => calls'[u] = calls[u] /\ timer'[u].period = timer[u].period
                                       /\ (u \in Live => u \in Live'),
             \/ ~InCallback(t) /\ calls'[t] = 0
             \/ UNCHANGED <<calls, order>> /\ (timer'[t].period = 0 <=> timer[t].period = 0)
      PROVE  OnceInv'
  <2>1. \A u : InCallback(u)' <=> InCallback(u)
    BY <1>6 DEF InCallback
  <2>2. QED
    BY <1>6, <2>1 DEF OnceInv, Live
<1>7. ASSUME NEW t \in Timer, NEW delay \in Delays, NEW period \in Delays \union {0},
             Arm(t, delay, period)
      PROVE  OnceInv'
  <2>1. t \notin Live /\ UNCHANGED <<depth, pump, broken>>
    BY <1>7 DEF Arm
  <2>2. ~InCallback(t)
    BY <2>1 DEF OnceInv
  <2>3. Live' = Live \union {t}
    BY <1>7, AppendNode DEF Arm, Live, Types, TimersTypeOK
  <2>4. /\ timer \in [Timer -> Fields] /\ calls \in [Timer -> 0 .. 2]
        /\ \E node : timer' = [timer EXCEPT ![t] = node] /\ calls' = [calls EXCEPT ![t] = 0]
    BY <1>7 DEF Arm, Types, TimersTypeOK
  <2>5. QED
    BY <1>6, <2>1, <2>2, <2>3, <2>4
<1>8. ASSUME NEW t \in Timer, CancelTimer(t) PROVE OnceInv'
  <2>1. ~InCallback(t) /\ UNCHANGED <<depth, pump, broken>>
    BY <1>8 DEF CancelTimer
  <2>2. PICK i \in DOMAIN order : order[i] = t /\ order' = RemoveAt(order, i)
    BY <1>8 DEF CancelTimer, Erase
  <2>3. Live' = Live \ {t}
    BY <2>2, LenProperties, RemoveAtProperties DEF Live, Types, TimersTypeOK
  <2>4. /\ timer \in [Timer -> Fields] /\ calls \in [Timer -> 0 .. 2]
        /\ timer' = [timer EXCEPT ![t] = Unused] /\ calls' = [calls EXCEPT ![t] = 0]
    BY <1>8 DEF CancelTimer, Erase, Types, TimersTypeOK
  <2>5. QED
    BY <1>6, <2>1, <2>3, <2>4
<1>9. ASSUME NEW t \in Timer,
             \/ PauseTimer(t) \/ ResumeTimer(t)
             \/ \E period \in Delays, reset \in BOOLEAN : ChangeTimerPeriod(t, period, reset)
      PROVE  OnceInv'
  <2>1. PICK node \in Fields :
          /\ timer' = [timer EXCEPT ![t] = node]
          /\ node.period = 0 <=> timer[t].period = 0
          /\ UNCHANGED <<order, calls>>
    BY <1>9, NodeAdjusted
  <2>2. timer \in [Timer -> Fields] /\ UNCHANGED <<depth, pump, broken>>
    BY <1>9 DEF PauseTimer, ResumeTimer, ChangeTimerPeriod, Types
  <2>3. QED
    BY <1>6, <2>1, <2>2 DEF Live
<1>10. CASE Tick \/ UNCHANGED timersVars
  <2>1. UNCHANGED <<order, timer, calls, depth, pump, broken>>
    BY <1>10 DEF Tick, timersVars, list
  <2>2. QED
    BY <2>1 DEF OnceInv, InCallback, Live
<1>11. QED
  BY <1>3, <1>4, <1>5, <1>7, <1>8, <1>9, <1>10 DEF TimersNext

\* A single-use timer is called at most once for each time it is armed, and no
\* iterator outlives its node, for any timers armed, cancelled, paused and resumed
\* in and out of callbacks that do neither of the two things that would break it
\* (gpu.cpp 667-679).
THEOREM SingleUse ==
  ASSUME MaxDepth = 1, ~CancelsItself
  PROVE  TimersSpec => []SingleUseOnce
<1>1. TimersInit => OnceInv
  BY DEF TimersInit, OnceInv, InCallback
<1>2. Types /\ OnceInv /\ [TimersNext]_timersVars => OnceInv'
  BY StepOnce
<1>3. OnceInv => SingleUseOnce
  BY DEF OnceInv, SingleUseOnce
<1>4. QED
  BY <1>1, <1>2, <1>3, InitTypes, StepTypes, PTL DEF TimersSpec
=============================================================================
