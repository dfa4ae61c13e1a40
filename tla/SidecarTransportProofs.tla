------------------------- MODULE SidecarTransportProofs -------------------------
(***************************************************************************)
(* The invariants of SidecarTransport and of its EventBuffer, for every    *)
(* set of requests and keys, every size of the buffer and every number of  *)
(* faults and automatic restarts.                                          *)
(*                                                                         *)
(* TransportInv has three parts.  ChildInv: the process that runs is the   *)
(* child of the session, and a start that has waited goes on only when     *)
(* there is none.  Session: where starting, stopping and the recovery can  *)
(* be at the same time, which is what makes the status and the pending     *)
(* requests belong to that child.  Buffer: the buffer holds one event of a *)
(* key, with the latest version, and the numbers in it are consecutive;    *)
(* what the pump has taken is overtaken only by what is in the buffer.     *)
(***************************************************************************)
EXTENDS SidecarTransport, TLAPS, FiniteSetTheorems, SequenceTheorems

(***************************************************************************)
(* The processes.                                                          *)
(***************************************************************************)
\* The process that runs is the child of the session.
ChildInv == /\ generation \in Nat \ {0} /\ link \in Link
            /\ link.child \in {0, generation}
            /\ alive = IF link.child = 0 THEN {} ELSE {link.child}
            /\ starting = "reaped" => link.child = 0

\* The application starts with one.
LEMMA ChildInvInit == Init => ChildInv
  BY DEF Init, ChildInv, Link

\* The next child is spawned when the last one has ended.
LEMMA SpawnsStep ==
  ASSUME ChildInv, link.child = 0, NEW d, Spawns(d) PROVE ChildInv'
<1>1. generation' = generation + 1 /\ generation' \in Nat \ {0}
  BY DEF Spawns, ChildInv
<1>2. CASE /\ link' = [link EXCEPT !.child = generation', !.open = TRUE, !.failed = FALSE,
                                   !.expected = FALSE, !.killed = FALSE]
           /\ alive' = alive \cup {generation'}
           /\ starting' = "handshake"
  BY <1>1, <1>2 DEF ChildInv, Link
<1>3. CASE /\ link' = [link EXCEPT !.failed = FALSE, !.expected = FALSE]
           /\ starting' = "rejected"
           /\ UNCHANGED alive
  BY <1>1, <1>3 DEF ChildInv, Link
<1>. QED BY <1>2, <1>3 DEF Spawns

\* stopSession, whoever asks for it.
LEMMA StopSessionStep ==
  ASSUME ChildInv, NEW s, NEW d, StopSession(s, d), UNCHANGED <<generation, alive>>,
         s = "reaped" => link.child = 0
  PROVE  ChildInv'
<1>1. link \in Link /\ Writable \in BOOLEAN /\ starting' = s
  BY DEF ChildInv, Writable, StopSession, Link
<1>2. CASE link' = link
  BY <1>1, <1>2 DEF ChildInv
<1>3. CASE link' = [link EXCEPT !.expected = TRUE, !.state = "stopped", !.open = Writable]
  <2>1. link' \in Link /\ link'.child = link.child
    BY <1>1, <1>3 DEF Link
  <2>. QED BY <1>1, <2>1 DEF ChildInv
<1>. QED BY <1>2, <1>3 DEF StopSession

\* onExit, in a session that fails and in one that is stopped or has failed.
LEMMA ExitsStep == ASSUME ChildInv, Exits PROVE ChildInv'
<1>1. link.child # 0 /\ alive' = {} /\ UNCHANGED generation
  BY DEF Exits, ChildInv
<1>2. CASE ~link.expected /\ ~link.failed
  <2>1. FailConnection(0, Unstarted)
    BY <1>2 DEF Exits, ExitOf
  <2>2. link' \in Link /\ link'.child = 0
    BY <2>1 DEF FailConnection, ChildInv, Link
  <2>. QED BY <1>1, <2>2 DEF ChildInv
<1>3. CASE link.expected \/ link.failed
  <2>1. link' = [link EXCEPT !.child = 0]
    BY <1>3 DEF Exits, ExitOf
  <2>2. link' \in Link /\ link'.child = 0
    BY <2>1 DEF ChildInv, Link
  <2>. QED BY <1>1, <2>2 DEF ChildInv
<1>. QED BY <1>2, <1>3

\* Every step keeps it; only a spawn and an exit change it.
LEMMA ChildInvNext == ChildInv /\ [Next]_vars => ChildInv'
<1> SUFFICES ASSUME ChildInv, [Next]_vars PROVE ChildInv'
  OBVIOUS
<1>1. CASE Restarts
  BY <1>1, StopSessionStep DEF Restarts, ChildInv
<1>2. CASE StopReturns
  BY <1>2 DEF StopReturns, ChildInv
<1>3. CASE StartCalls
  <2>1. CASE desk.closing
    BY <1>3, <2>1 DEF StartCalls, ChildInv
  <2>2. CASE ~desk.closing /\ link.child = 0
    BY <1>3, <2>2, SpawnsStep DEF StartCalls, StartOnce
  <2>3. CASE ~desk.closing /\ link.child # 0
    BY <1>3, <2>3 DEF StartCalls, StartOnce, ChildInv
  <2>. QED BY <2>1, <2>2, <2>3
<1>4. CASE Reaped
  BY <1>4, SpawnsStep DEF Reaped, ChildInv
<1>5. CASE Catches
  BY <1>5, StopSessionStep DEF Catches
<1>6. CASE StartReturns
  BY <1>6 DEF StartReturns, ChildInv, Link
<1>7. CASE Fetches
  BY <1>7 DEF Fetches, NotRunning, FindsNone, ChildInv, Link
<1>8. CASE Drains
  BY <1>8 DEF Drains, ChildInv
<1>9. CASE ServiceLost
  BY <1>9 DEF ServiceLost, ChildInv
<1>10. CASE HandshakeFails
  BY <1>10 DEF HandshakeFails, ChildInv
<1>11. CASE HandshakeAnswered
  BY <1>11 DEF HandshakeAnswered, FailConnection, ChildInv, Link
<1>12. ASSUME NEW r \in Request, Asks(r) PROVE ChildInv'
  BY <1>12 DEF Asks, NotRunning, FindsNone, ChildInv, Link
<1>13. ASSUME NEW r \in Request \cup {Assets}, Answers(r) PROVE ChildInv'
  BY <1>13 DEF Answers, ChildInv, Link
<1>14. ASSUME NEW r \in Request \cup {Assets}, TimesOut(r) PROVE ChildInv'
  BY <1>14 DEF TimesOut, ChildInv, Link
<1>15. CASE ConnectionFails
  BY <1>15 DEF ConnectionFails, FailConnection, Unstarted, ChildInv, Link
<1>16. CASE Exits
  BY <1>16, ExitsStep
<1>17. CASE StopReplied
  BY <1>17 DEF StopReplied, ChildInv, Link
<1>18. CASE StopTimesOut
  BY <1>18 DEF StopTimesOut, ChildInv, Link
<1>19. CASE ReapTimesOut
  BY <1>19 DEF ReapTimesOut, ChildInv, Link
<1>20. CASE Loads
  BY <1>20 DEF Loads, ChildInv
<1>21. CASE LoadFails
  BY <1>21 DEF LoadFails, ChildInv
<1>22. CASE Reloads
  BY <1>22 DEF Reloads, ChildInv
<1>23. CASE Forgets
  BY <1>23 DEF Forgets, ChildInv
<1>24. CASE Quits
  BY <1>24 DEF Quits, ChildInv
<1>25. CASE WillQuit
  BY <1>25, StopSessionStep DEF WillQuit, Unstarted, ChildInv
<1>26. CASE Greets
  BY <1>26 DEF Greets, transportVars, ChildInv
<1>27. CASE Events
  BY <1>27 DEF Events, transportVars, ChildInv
<1>28. CASE UNCHANGED vars
  BY <1>28 DEF vars, transportVars, ChildInv
<1>. QED
  BY <1>1, <1>2, <1>3, <1>4, <1>5, <1>6, <1>7, <1>8, <1>9, <1>10, <1>11, <1>12, <1>13, <1>14, <1>15,
     <1>16, <1>17, <1>18, <1>19, <1>20, <1>21, <1>22, <1>23, <1>24, <1>25, <1>26, <1>27, <1>28
  DEF Next, Continues, HandshakeEnds

(***************************************************************************)
(* The event buffer.                                                       *)
(***************************************************************************)
\* The pump holds an event while it sends one.
HandOK == hand # None <=> pump = "sending"

\* The buffer holds at most one event of a replaceable key.
OneEach ==
  \A i, j \in DOMAIN queue : queue[i].key \in Key /\ queue[i].key = queue[j].key => i = j

\* What is in the buffer is up to date, and what the pump has taken is, or is overtaken.
UpToDate ==
  /\ \A i \in DOMAIN queue :
       queue[i].key \in Key => queue[i].version = latest[queue[i].key]
  /\ hand # None /\ hand.key \in Key /\ hand.version # latest[hand.key]
       => \E i \in DOMAIN queue : queue[i].key \in {Resync, hand.key}

\* The number in front of the buffer.
Front == IF hand = None THEN last ELSE hand.seq

\* The numbers of what is on its way are consecutive, up to the one given out last.
Numbered ==
  pump # "ended" =>
    /\ hand # None => (hand.key = Resync \/ hand.seq = last + 1)
    /\ \A i \in DOMAIN queue :
         \/ queue[i].key = Resync
         \/ queue[i].seq = 1 + (IF i = 1 THEN Front ELSE queue[i - 1].seq)
    /\ sequence = IF queue = <<>> THEN Front ELSE queue[Len(queue)].seq

Buffer == EventTypeOK /\ HandOK /\ OneEach /\ UpToDate /\ Numbered

\* Covered, with the event in the pump's hand apart from those in the buffer.
Underway ==
  \A k \in Key : \/ known[k] = latest[k]
                 \/ closed \/ pump = "ended"
                 \/ hand # None /\ hand.key = Resync
                 \/ hand # None /\ hand.key = k /\ hand.version = latest[k]
                 \/ \E i \in DOMAIN queue : queue[i].key \in {Resync, k}

\* What an event holds.
LEMMA EventFields ==
  ASSUME NEW e \in Event
  PROVE  /\ e.seq \in 1 .. MaxSequence /\ e.key \in Key \cup {Resync, Notice}
         /\ e.version \in 0 .. MaxVersion /\ e # None
BY EventAssumption DEF Event

\* An event with its fields is one.
LEMMA QueuedIsEvent ==
  ASSUME NEW s \in 1 .. MaxSequence, NEW k \in Key \cup {Resync, Notice}, NEW v \in 0 .. MaxVersion
  PROVE  /\ Queued(s, k, v) \in Event
         /\ Queued(s, k, v).seq = s /\ Queued(s, k, v).key = k /\ Queued(s, k, v).version = v
BY DEF Queued, Event

\* The buffer as a sequence of events.
LEMMA QueueFacts ==
  ASSUME EventTypeOK
  PROVE  /\ queue \in Seq(Event) /\ Len(queue) \in Nat /\ DOMAIN queue = 1 .. Len(queue)
         /\ queue = <<>> <=> Len(queue) = 0
         /\ \A i \in DOMAIN queue : /\ queue[i] \in Event /\ queue[i].seq \in 1 .. MaxSequence
                                    /\ queue[i].key \in Key \cup {Resync, Notice}
<1>1. queue \in Seq(Event)
  BY DEF EventTypeOK
<1>2. \A i \in DOMAIN queue : queue[i] \in Event
  BY <1>1
<1> QED  BY <1>1, <1>2, EventFields

\* A new event goes to the end of the buffer.
LEMMA AppendFacts ==
  ASSUME EventTypeOK, NEW e \in Event, queue' = Append(queue, e)
  PROVE  /\ queue' \in Seq(Event) /\ Len(queue') = Len(queue) + 1 /\ queue' # <<>>
         /\ DOMAIN queue' = 1 .. Len(queue) + 1
         /\ \A i \in 1 .. Len(queue) : queue'[i] = queue[i]
         /\ queue'[Len(queue) + 1] = e
<1>1. queue \in Seq(Event) /\ Len(queue) \in Nat
  BY QueueFacts
<1> QED  BY <1>1

\* The buffer is replaced with one event.
LEMMA SingleFacts ==
  ASSUME NEW e \in Event, queue' = <<e>>
  PROVE  /\ queue' \in Seq(Event) /\ Len(queue') = 1 /\ queue' # <<>>
         /\ DOMAIN queue' = {1} /\ queue'[1] = e
OBVIOUS

\* Newer data for an event of the buffer.
LEMMA ReplaceFacts ==
  ASSUME EventTypeOK, NEW i \in DOMAIN queue, NEW v \in 0 .. MaxVersion,
         queue' = [queue EXCEPT ![i].version = v]
  PROVE  /\ queue' \in Seq(Event) /\ Len(queue') = Len(queue) /\ DOMAIN queue' = DOMAIN queue
         /\ \A j \in DOMAIN queue : /\ queue'[j].seq = queue[j].seq /\ queue'[j].key = queue[j].key
                                    /\ queue'[j].version = IF j = i THEN v ELSE queue[j].version
<1>1. /\ queue \in Seq(Event) /\ Len(queue) \in Nat /\ DOMAIN queue = 1 .. Len(queue)
      /\ \A j \in DOMAIN queue : queue[j] \in Event
  BY QueueFacts
<1> DEFINE e == [queue[i] EXCEPT !.version = v]
<1>2. /\ e \in Event /\ e.seq = queue[i].seq /\ e.key = queue[i].key /\ e.version = v
  BY <1>1 DEF Event
<1>3. queue' = [queue EXCEPT ![i] = e]
  OBVIOUS
<1> HIDE DEF e
<1>4. /\ queue' \in Seq(Event) /\ Len(queue') = Len(queue)
      /\ \A j \in 1 .. Len(queue) : queue'[j] = IF j = i THEN e ELSE queue[j]
  BY <1>1, <1>2, <1>3, ExceptSeq
<1> QED  BY <1>1, <1>2, <1>4

\* The pump takes the first event.
LEMMA TakeFacts ==
  ASSUME EventTypeOK, queue # <<>>, queue' = Tail(queue)
  PROVE  /\ queue' \in Seq(Event) /\ Len(queue') = Len(queue) - 1
         /\ DOMAIN queue' = 1 .. Len(queue) - 1 /\ Head(queue) = queue[1] /\ queue[1] \in Event
         /\ \A j \in DOMAIN queue' : j + 1 \in DOMAIN queue /\ queue'[j] = queue[j + 1]
<1>1. queue \in Seq(Event) /\ Len(queue) \in Nat /\ Len(queue) # 0
  BY QueueFacts
<1> QED  BY <1>1

\* The versions after the key of an event has changed.
Changed(k, v) == /\ latest' \in [Key -> 0 .. MaxVersion]
                 /\ \A q \in Key : latest'[q] = IF q = k THEN v ELSE latest[q]

\* A marker replaces all that is in the buffer.
LEMMA ResyncedKeeps ==
  ASSUME Buffer, NEW s \in Nat, s + 1 <= MaxSequence, Resynced(s), sequence <= s,
         UNCHANGED <<closed, hand, known, last>>, latest' \in [Key -> 0 .. MaxVersion],
         pump' \in {"none", "ready", "idle", "sending", "draining", "ended"},
         pump' = "sending" <=> pump = "sending"
  PROVE  Buffer' /\ Underway'
<1> DEFINE e == Queued(s + 1, Resync, 0)
<1>1. EventTypeOK /\ MaxSequence \in Nat /\ MaxVersion \in Nat /\ MaxQueued \in Nat \ {0}
      /\ Resync \notin Key
  BY EventAssumption DEF Buffer
<1>2. e \in Event /\ e.seq = s + 1 /\ e.key = Resync
  BY <1>1, QueuedIsEvent
<1>3. queue' = <<e>> /\ sequence' = s + 1
  BY DEF Resynced
<1> HIDE DEF e
<1>4. /\ queue' \in Seq(Event) /\ Len(queue') = 1 /\ queue' # <<>>
      /\ DOMAIN queue' = {1} /\ queue'[1].key = Resync /\ queue'[1].seq = sequence'
  BY <1>2, <1>3, SingleFacts
<1>5. EventTypeOK'
  BY <1>1, <1>3, <1>4 DEF EventTypeOK
<1>6. HandOK' /\ OneEach' /\ UpToDate'
  BY <1>1, <1>4 DEF Buffer, HandOK, OneEach, UpToDate
<1>7. Numbered'
  <2>1. pump' # "ended" /\ hand # None => (hand.key = Resync \/ hand.seq = last + 1)
    BY DEF Buffer, HandOK, Numbered
  <2> QED  BY <1>4, <2>1 DEF Numbered
<1>8. Underway'
  BY <1>4 DEF Underway
<1> QED  BY <1>5, <1>6, <1>7, <1>8 DEF Buffer

\* An event that replaces nothing is put at the end.
LEMMA AppendKeeps ==
  ASSUME Buffer, NEW k \in Key \cup {Notice}, NEW v \in 0 .. MaxVersion, Changed(k, v),
         k \in Key => QueuedAt(k) = {},
         Len(queue) < MaxQueued, sequence + 1 <= MaxSequence,
         queue' = Append(queue, Queued(sequence + 1, k, v)), sequence' = sequence + 1,
         UNCHANGED <<closed, pump, hand, known, last>>
  PROVE  Buffer' /\ (Underway => Underway')
<1> DEFINE e == Queued(sequence + 1, k, v)
<1>1. EventTypeOK /\ MaxSequence \in Nat /\ MaxVersion \in Nat /\ MaxQueued \in Nat \ {0}
      /\ Notice \notin Key /\ Notice # Resync /\ Resync \notin Key
  BY EventAssumption DEF Buffer
<1>2. sequence \in Nat /\ last \in Nat /\ latest \in [Key -> 0 .. MaxVersion]
  BY <1>1 DEF EventTypeOK
<1>3. e \in Event /\ e.seq = sequence + 1 /\ e.key = k /\ e.version = v
  <2>1. sequence + 1 \in 1 .. MaxSequence /\ k \in Key \cup {Resync, Notice}
    BY <1>1, <1>2
  <2> QED  BY <2>1, QueuedIsEvent
<1>4. queue' = Append(queue, e)
  OBVIOUS
<1> HIDE DEF e
<1>5. /\ queue' \in Seq(Event) /\ Len(queue') = Len(queue) + 1 /\ queue' # <<>>
      /\ DOMAIN queue' = 1 .. Len(queue) + 1 /\ DOMAIN queue = 1 .. Len(queue)
      /\ \A i \in 1 .. Len(queue) : queue'[i] = queue[i]
      /\ queue'[Len(queue) + 1] = e /\ Len(queue) \in Nat
      /\ queue = <<>> <=> Len(queue) = 0
  BY <1>1, <1>3, <1>4, AppendFacts, QueueFacts
<1>6. EventTypeOK'
  BY <1>1, <1>2, <1>5 DEF EventTypeOK, Changed
<1>7. \A i \in DOMAIN queue : k \in Key => queue[i].key # k
  BY DEF QueuedAt
<1>8. HandOK' /\ OneEach'
  BY <1>3, <1>5, <1>7 DEF Buffer, HandOK, OneEach
<1>9. UpToDate'
  <2>1. ASSUME NEW i \in DOMAIN queue', queue'[i].key \in Key
        PROVE  queue'[i].version = latest'[queue'[i].key]
    <3>1. CASE i = Len(queue) + 1
      BY <1>3, <1>5, <2>1, <3>1 DEF Changed
    <3>2. CASE i # Len(queue) + 1
      <4>1. i \in DOMAIN queue /\ queue'[i] = queue[i] /\ queue[i].key # k
        BY <1>5, <1>7, <2>1, <3>2
      <4> QED  BY <2>1, <4>1 DEF Changed, Buffer, UpToDate
    <3> QED  BY <3>1, <3>2
  <2>2. ASSUME hand' # None, hand'.key \in Key, hand'.version # latest'[hand'.key]
        PROVE  \E i \in DOMAIN queue' : queue'[i].key \in {Resync, hand'.key}
    <3>1. CASE hand.key = k
      BY <1>3, <1>5, <3>1
    <3>2. CASE hand.key # k
      <4>1. hand # None /\ hand.key \in Key /\ hand.version # latest[hand.key]
        BY <2>2, <3>2 DEF Changed
      <4>2. PICK i \in DOMAIN queue : queue[i].key \in {Resync, hand.key}
        BY <4>1 DEF Buffer, UpToDate
      <4> QED  BY <1>5, <4>2
    <3> QED  BY <3>1, <3>2
  <2> QED  BY <2>1, <2>2 DEF UpToDate
<1>10. Numbered'
  <2> SUFFICES ASSUME pump # "ended"  PROVE Numbered'
    BY DEF Numbered
  <2>1. /\ hand # None => (hand.key = Resync \/ hand.seq = last + 1)
        /\ \A i \in DOMAIN queue :
             \/ queue[i].key = Resync
             \/ queue[i].seq = 1 + (IF i = 1 THEN Front ELSE queue[i - 1].seq)
        /\ sequence = IF queue = <<>> THEN Front ELSE queue[Len(queue)].seq
    BY DEF Buffer, Numbered
  <2>2. Front' = Front
    BY DEF Front
  <2>3. ASSUME NEW i \in DOMAIN queue'
        PROVE  \/ queue'[i].key = Resync
               \/ queue'[i].seq = 1 + (IF i = 1 THEN Front ELSE queue'[i - 1].seq)
    <3>1. CASE i = Len(queue) + 1
      <4>1. queue'[i].seq = sequence + 1
        BY <1>3, <1>5, <3>1
      <4>2. sequence = IF i = 1 THEN Front ELSE queue'[i - 1].seq
        <5>1. CASE Len(queue) = 0
          BY <1>5, <2>1, <3>1, <5>1
        <5>2. CASE Len(queue) # 0
          <6>1. i # 1 /\ i - 1 = Len(queue) /\ Len(queue) \in 1 .. Len(queue)
            BY <1>5, <3>1, <5>2
          <6>2. queue'[i - 1] = queue[Len(queue)] /\ queue # <<>>
            BY <1>5, <5>2, <6>1
          <6> QED  BY <2>1, <6>1, <6>2
        <5> QED  BY <5>1, <5>2
      <4> QED  BY <1>2, <4>1, <4>2
    <3>2. CASE i # Len(queue) + 1
      <4>1. i \in DOMAIN queue /\ queue'[i] = queue[i] /\ (i # 1 => queue'[i - 1] = queue[i - 1])
        BY <1>5, <2>3, <3>2
      <4> QED  BY <2>1, <4>1
    <3> QED  BY <3>1, <3>2
  <2> QED  BY <1>3, <1>5, <2>1, <2>2, <2>3 DEF Numbered
<1>11. ASSUME Underway  PROVE Underway'
  <2> SUFFICES ASSUME NEW q \in Key,
                      ~(closed \/ pump = "ended" \/ (hand # None /\ hand.key = Resync))
               PROVE  \/ known[q] = latest'[q]
                      \/ hand # None /\ hand.key = q /\ hand.version = latest'[q]
                      \/ \E i \in DOMAIN queue' : queue'[i].key \in {Resync, q}
    BY DEF Underway
  <2>1. CASE q = k
    BY <1>3, <1>5, <2>1
  <2>2. CASE q # k
    <3>1. latest'[q] = latest[q]
      BY <2>2 DEF Changed
    <3>2. \/ known[q] = latest[q]
          \/ hand # None /\ hand.key = q /\ hand.version = latest[q]
          \/ \E i \in DOMAIN queue : queue[i].key \in {Resync, q}
      BY <1>11 DEF Underway
    <3> QED  BY <1>5, <3>1, <3>2
  <2> QED  BY <2>1, <2>2
<1> QED  BY <1>6, <1>8, <1>9, <1>10, <1>11 DEF Buffer

\* An event of the buffer gets newer data.
LEMMA ReplacedKeeps ==
  ASSUME Buffer, NEW k \in Key, NEW v \in 0 .. MaxVersion, Changed(k, v),
         NEW i \in QueuedAt(k), Replaced(i, v), UNCHANGED <<closed, pump, hand, known, last>>
  PROVE  Buffer' /\ (Underway => Underway')
<1>1. EventTypeOK /\ Resync \notin Key /\ i \in DOMAIN queue /\ queue[i].key = k
  BY EventAssumption DEF Buffer, QueuedAt
<1>2. /\ queue' \in Seq(Event) /\ Len(queue') = Len(queue) /\ DOMAIN queue' = DOMAIN queue
      /\ \A j \in DOMAIN queue : /\ queue'[j].seq = queue[j].seq /\ queue'[j].key = queue[j].key
                                 /\ queue'[j].version = IF j = i THEN v ELSE queue[j].version
      /\ sequence' = sequence
  BY <1>1, ReplaceFacts DEF Replaced
<1>3. /\ Len(queue) \in Nat /\ DOMAIN queue = 1 .. Len(queue)
      /\ queue = <<>> <=> Len(queue) = 0
      /\ queue' = <<>> <=> Len(queue') = 0
  BY <1>1, <1>2, QueueFacts, EmptySeq
<1>4. EventTypeOK'
  BY <1>1, <1>2 DEF EventTypeOK, Changed
<1>5. HandOK' /\ OneEach'
  BY <1>2 DEF Buffer, HandOK, OneEach
<1>6. UpToDate'
  <2>1. ASSUME NEW j \in DOMAIN queue', queue'[j].key \in Key
        PROVE  queue'[j].version = latest'[queue'[j].key]
    <3>1. CASE j = i
      BY <1>1, <1>2, <3>1 DEF Changed
    <3>2. CASE j # i
      <4>1. j \in DOMAIN queue /\ queue[j].key \in Key /\ queue[j].key # k
        BY <1>1, <1>2, <2>1, <3>2 DEF Buffer, OneEach
      <4> QED  BY <1>2, <3>2, <4>1 DEF Changed, Buffer, UpToDate
    <3> QED  BY <3>1, <3>2
  <2>2. ASSUME hand' # None, hand'.key \in Key, hand'.version # latest'[hand'.key]
        PROVE  \E j \in DOMAIN queue' : queue'[j].key \in {Resync, hand'.key}
    <3>1. CASE hand.key = k
      BY <1>1, <1>2, <3>1
    <3>2. CASE hand.key # k
      <4>1. hand # None /\ hand.key \in Key /\ hand.version # latest[hand.key]
        BY <2>2, <3>2 DEF Changed
      <4>2. PICK j \in DOMAIN queue : queue[j].key \in {Resync, hand.key}
        BY <4>1 DEF Buffer, UpToDate
      <4> QED  BY <1>2, <4>2
    <3> QED  BY <3>1, <3>2
  <2> QED  BY <2>1, <2>2 DEF UpToDate
<1>7. Numbered'
  <2> SUFFICES ASSUME pump # "ended"  PROVE Numbered'
    BY DEF Numbered
  <2>1. /\ hand # None => (hand.key = Resync \/ hand.seq = last + 1)
        /\ \A j \in DOMAIN queue :
             \/ queue[j].key = Resync
             \/ queue[j].seq = 1 + (IF j = 1 THEN Front ELSE queue[j - 1].seq)
        /\ sequence = IF queue = <<>> THEN Front ELSE queue[Len(queue)].seq
    BY DEF Buffer, Numbered
  <2>2. Front' = Front
    BY DEF Front
  <2>3. ASSUME NEW j \in DOMAIN queue'
        PROVE  \/ queue'[j].key = Resync
               \/ queue'[j].seq = 1 + (IF j = 1 THEN Front ELSE queue'[j - 1].seq)
    <3>1. j \in DOMAIN queue /\ (j # 1 => j - 1 \in DOMAIN queue)
      BY <1>2, <1>3, <2>3
    <3> QED  BY <1>2, <2>1, <3>1
  <2> QED  BY <1>2, <1>3, <2>1, <2>2, <2>3 DEF Numbered
<1>8. Underway => Underway'
  <2> SUFFICES ASSUME Underway, NEW q \in Key,
                      ~(closed \/ pump = "ended" \/ (hand # None /\ hand.key = Resync))
               PROVE  \/ known[q] = latest'[q]
                      \/ hand # None /\ hand.key = q /\ hand.version = latest'[q]
                      \/ \E j \in DOMAIN queue' : queue'[j].key \in {Resync, q}
    BY DEF Underway
  <2>1. CASE q = k
    BY <1>1, <1>2, <2>1
  <2>2. CASE q # k
    <3>1. latest'[q] = latest[q]
      BY <2>2 DEF Changed
    <3>2. \/ known[q] = latest[q]
          \/ hand # None /\ hand.key = q /\ hand.version = latest[q]
          \/ \E j \in DOMAIN queue : queue[j].key \in {Resync, q}
      BY DEF Underway
    <3> QED  BY <1>2, <3>1, <3>2
  <2> QED  BY <2>1, <2>2
<1> QED  BY <1>4, <1>5, <1>6, <1>7, <1>8 DEF Buffer

\* publish: in the place of the queued event of its key, at its end, or as a marker.
LEMMA PublishKeeps ==
  ASSUME Buffer, NEW k \in Key, NEW fits \in BOOLEAN, Publish(k, fits)
  PROVE  Buffer' /\ (Underway => Underway')
<1>1. EventTypeOK /\ sequence + 2 <= MaxSequence /\ UNCHANGED <<closed, pump, hand, known, last>>
  BY DEF Buffer, Publish
<1>2. sequence \in Nat /\ latest \in [Key -> 0 .. MaxVersion] /\ MaxVersion \in Nat
      /\ MaxSequence \in Nat /\ MaxQueued \in Nat /\ Len(queue) \in Nat
  BY <1>1, EventAssumption, QueueFacts DEF EventTypeOK
<1>3. latest[k] + 1 \in 0 .. MaxVersion /\ latest' = [latest EXCEPT ![k] = latest[k] + 1]
  BY <1>2 DEF Publish
<1>4. Changed(k, latest'[k]) /\ latest'[k] \in 0 .. MaxVersion
  BY <1>2, <1>3 DEF Changed
<1>5. pump' \in {"none", "ready", "idle", "sending", "draining", "ended"}
      /\ (pump' = "sending" <=> pump = "sending")
  BY <1>1 DEF EventTypeOK
<1>6. ASSUME QueuedAt(k) = {}, Appended(k, latest'[k], fits)
      PROVE  Buffer' /\ (Underway => Underway')
  <2>1. ASSUME Len(queue) < MaxQueued, sequence' = sequence + 1,
               queue' = Append(queue, Queued(sequence + 1, k, latest'[k]))
        PROVE  Buffer' /\ (Underway => Underway')
    BY <1>1, <1>2, <1>4, <1>6, <2>1, AppendKeeps
  <2>2. ASSUME Resynced(sequence + 1)
        PROVE  Buffer' /\ Underway'
    <3>1. sequence + 1 \in Nat /\ (sequence + 1) + 1 <= MaxSequence /\ sequence <= sequence + 1
      BY <1>1, <1>2
    <3> QED  BY <1>1, <1>4, <1>5, <2>2, <3>1, ResyncedKeeps DEF Changed
  <2> QED  BY <1>6, <2>1, <2>2 DEF Appended
<1>7. ASSUME NEW i \in QueuedAt(k), Replaced(i, latest'[k])
      PROVE  Buffer' /\ (Underway => Underway')
  BY <1>1, <1>4, <1>7, ReplacedKeeps
<1>8. ASSUME Resynced(sequence)
      PROVE  Buffer' /\ Underway'
  <2>1. sequence + 1 <= MaxSequence /\ sequence <= sequence
    BY <1>1, <1>2
  <2> QED  BY <1>1, <1>2, <1>4, <1>5, <1>8, <2>1, ResyncedKeeps DEF Changed
<1> QED  BY <1>6, <1>7, <1>8 DEF Publish

\* A notification goes to the end, or makes room for a marker.
LEMMA PublishNoticeKeeps ==
  ASSUME Buffer, NEW fits \in BOOLEAN, PublishNotice(fits)
  PROVE  Buffer' /\ (Underway => Underway')
<1>1. /\ EventTypeOK /\ sequence + 2 <= MaxSequence
      /\ UNCHANGED <<closed, pump, hand, latest, known, last>> /\ Appended(Notice, 0, fits)
  BY DEF Buffer, PublishNotice
<1>2. sequence \in Nat /\ latest \in [Key -> 0 .. MaxVersion] /\ MaxVersion \in Nat
      /\ MaxSequence \in Nat /\ Notice \notin Key
  BY <1>1, EventAssumption DEF EventTypeOK
<1>3. Changed(Notice, 0) /\ 0 \in 0 .. MaxVersion
  BY <1>1, <1>2 DEF Changed
<1>4. pump' \in {"none", "ready", "idle", "sending", "draining", "ended"}
      /\ (pump' = "sending" <=> pump = "sending")
  BY <1>1 DEF EventTypeOK
<1>5. ASSUME Len(queue) < MaxQueued, sequence' = sequence + 1,
             queue' = Append(queue, Queued(sequence + 1, Notice, 0))
      PROVE  Buffer' /\ (Underway => Underway')
  <2>1. Notice \in Key \cup {Notice} /\ sequence + 1 <= MaxSequence
    BY <1>1, <1>2
  <2> QED  BY <1>1, <1>2, <1>3, <1>5, <2>1, AppendKeeps
<1>6. ASSUME Resynced(sequence + 1)
      PROVE  Buffer' /\ Underway'
  <2>1. sequence + 1 \in Nat /\ (sequence + 1) + 1 <= MaxSequence /\ sequence <= sequence + 1
    BY <1>1, <1>2
  <2> QED  BY <1>1, <1>3, <1>4, <1>6, <2>1, ResyncedKeeps DEF Changed
<1> QED  BY <1>1, <1>5, <1>6 DEF Appended

\* The buffer as it was, with the pump where it holds nothing.
LEMMA PumpGoesOn ==
  ASSUME Buffer, UNCHANGED <<queue, sequence, hand, latest, last>>, hand = None,
         known' \in [Key -> 0 .. MaxVersion], closed' \in BOOLEAN,
         pump' \in {"none", "ready", "idle", "draining", "ended"},
         pump = "ended" => pump' = "ended"
  PROVE  Buffer'
<1>1. EventTypeOK' /\ HandOK'
  BY DEF Buffer, EventTypeOK, HandOK
<1>2. OneEach' /\ UpToDate' /\ Numbered'
  BY DEF Buffer, OneEach, UpToDate, Numbered, Front
<1> QED  BY <1>1, <1>2 DEF Buffer

\* A smaller budget, which an event may exceed.
LEMMA SetLimitsKeeps ==
  ASSUME Buffer, SetLimits
  PROVE  Buffer' /\ (Underway => Underway')
<1>1. /\ EventTypeOK /\ pump = "none" /\ pump' = "ready" /\ hand = None
      /\ UNCHANGED <<closed, hand, latest, known, last>>
  BY DEF Buffer, SetLimits, HandOK
<1>2. ASSUME UNCHANGED <<queue, sequence>>
      PROVE  Buffer' /\ (Underway => Underway')
  <2>1. Buffer'
    BY <1>1, <1>2, PumpGoesOn DEF EventTypeOK
  <2>2. Underway => Underway'
    BY <1>1, <1>2 DEF Underway
  <2> QED  BY <2>1, <2>2
<1>3. ASSUME sequence < MaxSequence, Resynced(sequence)
      PROVE  Buffer' /\ Underway'
  <2>1. sequence \in Nat /\ sequence + 1 <= MaxSequence /\ sequence <= sequence
    BY <1>1, <1>3, EventAssumption DEF EventTypeOK
  <2>2. latest' \in [Key -> 0 .. MaxVersion]
    BY <1>1 DEF EventTypeOK
  <2> QED  BY <1>1, <1>3, <2>1, <2>2, ResyncedKeeps
<1> QED  BY <1>2, <1>3 DEF SetLimits

\* The pump takes the event in front.
LEMMA TakeKeeps ==
  ASSUME Buffer, Take
  PROVE  Buffer' /\ (Underway => Underway')
<1>1. /\ EventTypeOK /\ pump = "idle" /\ queue # <<>> /\ hand' = queue[1] /\ queue' = Tail(queue)
      /\ pump' = "sending" /\ UNCHANGED <<sequence, closed, latest, known, last>> /\ hand = None
  BY DEF Buffer, Take, HandOK
<1>2. /\ queue' \in Seq(Event) /\ Len(queue') = Len(queue) - 1
      /\ DOMAIN queue' = 1 .. Len(queue) - 1 /\ queue[1] \in Event
      /\ \A j \in DOMAIN queue' : j + 1 \in DOMAIN queue /\ queue'[j] = queue[j + 1]
  BY <1>1, TakeFacts
<1>3. /\ Len(queue) \in Nat /\ Len(queue) # 0 /\ DOMAIN queue = 1 .. Len(queue)
      /\ queue' = <<>> <=> Len(queue') = 0
      /\ hand' # None /\ \A i \in DOMAIN queue : queue[i].seq \in Nat
  <2>1. /\ Len(queue) \in Nat /\ Len(queue) # 0 /\ DOMAIN queue = 1 .. Len(queue)
        /\ \A i \in DOMAIN queue : queue[i].seq \in Nat
    BY <1>1, QueueFacts, EventAssumption
  <2>2. queue' = <<>> <=> Len(queue') = 0
    BY <1>2, EmptySeq
  <2>3. hand' # None
    BY <1>1, <1>2, EventFields
  <2> QED  BY <2>1, <2>2, <2>3
<1>4. EventTypeOK' /\ HandOK'
  BY <1>1, <1>2, <1>3, EventAssumption DEF EventTypeOK, HandOK
<1>5. OneEach'
  <2> SUFFICES ASSUME NEW i \in DOMAIN queue', NEW j \in DOMAIN queue',
                      queue'[i].key \in Key, queue'[i].key = queue'[j].key
               PROVE  i = j
    BY DEF OneEach
  <2>1. i + 1 = j + 1
    BY <1>2 DEF Buffer, OneEach
  <2> QED  BY <1>2, <1>3, <2>1
<1>6. UpToDate'
  <2>1. \A i \in DOMAIN queue : queue[i].key \in Key => queue[i].version = latest[queue[i].key]
    BY DEF Buffer, UpToDate
  <2>2. \A i \in DOMAIN queue' : queue'[i].key \in Key => queue'[i].version = latest[queue'[i].key]
    BY <1>2, <2>1
  <2>3. 1 \in DOMAIN queue
    BY <1>3
  <2> QED  BY <1>1, <2>1, <2>2, <2>3 DEF UpToDate
<1>7. Numbered'
  <2>1. /\ \A i \in DOMAIN queue :
             \/ queue[i].key = Resync
             \/ queue[i].seq = 1 + (IF i = 1 THEN last ELSE queue[i - 1].seq)
        /\ sequence = queue[Len(queue)].seq
    BY <1>1 DEF Buffer, Numbered, Front
  <2>2. hand'.key = Resync \/ hand'.seq = last' + 1
    <3>1. last \in Nat /\ 1 \in DOMAIN queue
      BY <1>1, <1>3, EventAssumption DEF EventTypeOK
    <3> QED  BY <1>1, <1>3, <2>1, <3>1
  <2>3. Front' = queue[1].seq
    BY <1>1, <1>3 DEF Front
  <2>4. ASSUME NEW i \in DOMAIN queue'
        PROVE  \/ queue'[i].key = Resync
               \/ queue'[i].seq = 1 + (IF i = 1 THEN queue[1].seq ELSE queue'[i - 1].seq)
    <3>1. i + 1 \in DOMAIN queue /\ queue'[i] = queue[i + 1] /\ i \in Nat /\ i + 1 # 1
      BY <1>2, <1>3, <2>4
    <3>2. queue[(i + 1) - 1] = IF i = 1 THEN queue[1] ELSE queue'[i - 1]
      <4>1. i # 1 => i - 1 \in DOMAIN queue' /\ (i - 1) + 1 = i
        BY <1>2, <1>3, <2>4
      <4> QED  BY <1>2, <3>1, <4>1
    <3> QED  BY <2>1, <3>1, <3>2
  <2>5. sequence = IF queue' = <<>> THEN queue[1].seq ELSE queue'[Len(queue')].seq
    <3>1. CASE Len(queue) = 1
      BY <1>2, <1>3, <2>1, <3>1
    <3>2. CASE Len(queue) # 1
      <4>1. Len(queue') \in DOMAIN queue' /\ Len(queue') + 1 = Len(queue) /\ queue' # <<>>
        BY <1>2, <1>3, <3>2
      <4> QED  BY <1>2, <2>1, <4>1
    <3> QED  BY <3>1, <3>2
  <2> QED  BY <1>1, <2>2, <2>3, <2>4, <2>5 DEF Numbered
<1>8. ASSUME Underway  PROVE Underway'
  <2> SUFFICES ASSUME NEW q \in Key, ~closed
               PROVE  \/ known[q] = latest[q]
                      \/ hand' # None /\ hand'.key = Resync
                      \/ hand' # None /\ hand'.key = q /\ hand'.version = latest[q]
                      \/ \E i \in DOMAIN queue' : queue'[i].key \in {Resync, q}
    BY <1>1 DEF Underway
  <2>1. known[q] = latest[q] \/ \E i \in DOMAIN queue : queue[i].key \in {Resync, q}
    BY <1>1, <1>8 DEF Underway
  <2>2. ASSUME NEW i \in DOMAIN queue, queue[i].key \in {Resync, q}, i # 1
        PROVE  \E j \in DOMAIN queue' : queue'[j].key \in {Resync, q}
    <3>1. i - 1 \in DOMAIN queue' /\ (i - 1) + 1 = i
      BY <1>2, <1>3, <2>2
    <3> QED  BY <1>2, <2>2, <3>1
  <2>3. queue[1].key = q => queue[1].version = latest[q]
    BY <1>3 DEF Buffer, UpToDate
  <2> QED  BY <1>1, <1>3, <2>1, <2>2, <2>3
<1> QED  BY <1>4, <1>5, <1>6, <1>7, <1>8 DEF Buffer

\* The client reads the event that was in the pump's hand.
LEMMA DeliverKeeps ==
  ASSUME Buffer, Deliver
  PROVE  Buffer' /\ (Underway => Underway')
<1>1. /\ EventTypeOK /\ pump = "sending" /\ pump' = "draining" /\ hand' = None /\ hand # None
      /\ last' = hand.seq /\ UNCHANGED <<queue, sequence, closed, latest>>
  BY DEF Buffer, Deliver, HandOK
<1>2. /\ hand \in Event /\ hand.seq \in 0 .. MaxSequence /\ hand.version \in 0 .. MaxVersion
      /\ hand.key \in Key \cup {Resync, Notice}
  <2>1. hand \in Event
    BY <1>1 DEF EventTypeOK
  <2>2. MaxSequence \in Nat /\ hand.seq \in 1 .. MaxSequence
    BY <2>1, EventFields, EventAssumption
  <2> QED  BY <2>1, <2>2, EventFields
<1>3. /\ \/ known' = latest
         \/ known' = [k \in Key |-> IF k = hand.key THEN hand.version ELSE known[k]]
      /\ hand.key = Resync => known' = latest
  BY DEF Deliver
<1>4. known' \in [Key -> 0 .. MaxVersion]
  BY <1>1, <1>2, <1>3 DEF EventTypeOK
<1>5. EventTypeOK' /\ HandOK'
  BY <1>1, <1>2, <1>4 DEF EventTypeOK, HandOK
<1>6. OneEach' /\ UpToDate'
  BY <1>1 DEF Buffer, OneEach, UpToDate
<1>7. Numbered'
  <2>1. Front' = Front
    BY <1>1 DEF Front
  <2> QED  BY <1>1, <2>1 DEF Buffer, Numbered
<1>8. ASSUME Underway  PROVE Underway'
  <2> SUFFICES ASSUME NEW q \in Key, ~closed
               PROVE  \/ known'[q] = latest[q]
                      \/ \E i \in DOMAIN queue : queue[i].key \in {Resync, q}
    BY <1>1 DEF Underway
  <2>1. CASE known' = latest
    BY <2>1
  <2>2. CASE known' = [k \in Key |-> IF k = hand.key THEN hand.version ELSE known[k]]
    <3>1. CASE hand.key = q
      <4>1. known'[q] = hand.version
        BY <2>2, <3>1
      <4> QED  BY <1>1, <3>1, <4>1 DEF Buffer, UpToDate
    <3>2. CASE hand.key # q /\ hand.key # Resync
      <4>1. known'[q] = known[q]
        BY <2>2, <3>2
      <4> QED  BY <1>1, <1>8, <3>2, <4>1 DEF Underway
    <3>3. CASE hand.key = Resync
      BY <1>3, <3>3
    <3> QED  BY <3>1, <3>2, <3>3
  <2> QED  BY <1>3, <2>1, <2>2
<1> QED  BY <1>5, <1>6, <1>7, <1>8 DEF Buffer

\* The window reads everything anew, or nothing.
Reads == /\ known' = known \/ known' = latest
         /\ UNCHANGED <<queue, sequence, closed, pump, hand, latest, last>>

\* A new child: its buffer is empty and gives out numbers from the start.
Fresh == /\ queue' = <<>> /\ sequence' = 0 /\ hand' = None /\ last' = 0
         /\ closed' = FALSE /\ pump' = "none"
         /\ UNCHANGED <<latest, known>>

\* All that happens to the buffer of a child while it is the child.
BufferStep == \/ \E k \in Key, fits \in BOOLEAN : Publish(k, fits)
              \/ \E fits \in BOOLEAN : PublishNotice(fits)
              \/ SetLimits \/ StartPump \/ Take \/ Deliver \/ Drained \/ PumpEnds \/ Close
              \/ ServiceGone \/ Reads

\* The buffer ends with the pump.
LEMMA EndKeeps ==
  ASSUME Buffer, PumpEnds \/ Close \/ ServiceGone
  PROVE  Buffer' /\ Underway'
<1>1. /\ EventTypeOK /\ pump' = "ended" /\ hand' = None /\ closed' \in BOOLEAN
      /\ UNCHANGED <<sequence, latest, known, last>>
      /\ queue' = <<>> \/ queue' = queue
  BY DEF Buffer, EventTypeOK, PumpEnds, Close, ServiceGone
<1>2. /\ queue' \in Seq(Event) /\ Len(queue') <= MaxQueued /\ OneEach'
      /\ \A i \in DOMAIN queue' :
           queue'[i].key \in Key => queue'[i].version = latest[queue'[i].key]
  <2>1. CASE queue' = queue
    BY <1>1, <2>1 DEF Buffer, EventTypeOK, OneEach, UpToDate
  <2>2. CASE queue' = <<>>
    BY <2>2, EventAssumption DEF OneEach
  <2> QED  BY <1>1, <2>1, <2>2
<1>3. EventTypeOK' /\ HandOK'
  BY <1>1, <1>2 DEF EventTypeOK, HandOK
<1>4. UpToDate' /\ Numbered' /\ Underway'
  BY <1>1, <1>2 DEF UpToDate, Numbered, Underway
<1> QED  BY <1>2, <1>3, <1>4 DEF Buffer

\* Every step of the buffer keeps its invariant, and loses no change silently.
LEMMA BufferStepKeeps ==
  ASSUME Buffer, BufferStep
  PROVE  Buffer' /\ (Underway => Underway')
<1>1. EventTypeOK /\ HandOK
  BY DEF Buffer
<1>2. ASSUME StartPump \/ Drained  PROVE Buffer' /\ (Underway => Underway')
  <2>1. /\ UNCHANGED <<queue, sequence, closed, hand, latest, known, last>> /\ hand = None
        /\ pump # "ended" /\ pump' = "idle"
    BY <1>1, <1>2 DEF StartPump, Drained, HandOK
  <2>2. Buffer'
    BY <1>1, <2>1, PumpGoesOn DEF EventTypeOK
  <2>3. Underway => Underway'
    BY <2>1 DEF Underway
  <2> QED  BY <2>2, <2>3
<1>3. ASSUME Reads  PROVE Buffer' /\ (Underway => Underway')
  <2>1. Buffer'
    <3>1. known' \in [Key -> 0 .. MaxVersion]
      BY <1>1, <1>3 DEF Reads, EventTypeOK
    <3>2. EventTypeOK' /\ HandOK'
      BY <1>1, <1>3, <3>1 DEF Reads, EventTypeOK, HandOK
    <3> QED  BY <1>3, <3>2 DEF Reads, Buffer, OneEach, UpToDate, Numbered, Front
  <2>2. Underway => Underway'
    BY <1>3 DEF Reads, Underway
  <2> QED  BY <2>1, <2>2
<1> QED  BY <1>2, <1>3, PublishKeeps, PublishNoticeKeeps, SetLimitsKeeps, TakeKeeps, DeliverKeeps,
            EndKeeps DEF BufferStep

\* A buffer with nothing in it.
LEMMA EmptyBuffer ==
  /\ <<>> \in Seq(Event) /\ Len(<<>>) <= MaxQueued
  /\ 0 \in 0 .. MaxSequence /\ 0 \in 0 .. MaxVersion
<1>1. MaxQueued \in Nat /\ MaxSequence \in Nat /\ MaxVersion \in Nat
  BY EventAssumption
<1>2. <<>> \in Seq(Event) /\ Len(<<>>) = 0
  BY EmptySeq
<1> QED  BY <1>1, <1>2

\* The buffer of a new child.
LEMMA FreshKeeps ==
  ASSUME Buffer, Fresh
  PROVE  Buffer'
<1>1. /\ queue' = <<>> /\ sequence' = 0 /\ hand' = None /\ last' = 0 /\ closed' = FALSE
      /\ pump' = "none" /\ latest' \in [Key -> 0 .. MaxVersion]
      /\ known' \in [Key -> 0 .. MaxVersion]
  BY DEF Buffer, EventTypeOK, Fresh
<1>2. EventTypeOK'
  BY <1>1, EmptyBuffer DEF EventTypeOK
<1> QED  BY <1>2 DEF Buffer, Fresh, HandOK, OneEach, UpToDate, Numbered, Front

\* The buffer of the first child.
LEMMA BufferInit ==
  ASSUME EventInit
  PROVE  Buffer /\ Underway
<1>1. [k \in Key |-> 0] \in [Key -> 0 .. MaxVersion]
  BY EmptyBuffer
<1>2. EventTypeOK
  BY <1>1, EmptyBuffer DEF EventTypeOK, EventInit
<1> QED  BY <1>2 DEF Buffer, EventInit, HandOK, OneEach, UpToDate, Numbered, Front, Underway

\* What is on its way, event by event.
LEMMA OutgoingFacts ==
  ASSUME EventTypeOK
  PROVE  /\ hand = None => Outgoing = queue
         /\ hand # None => /\ DOMAIN Outgoing = 1 .. Len(queue) + 1 /\ Outgoing[1] = hand
                           /\ \A i \in DOMAIN queue : Outgoing[i + 1] = queue[i]
<1>1. queue \in Seq(Event) /\ Len(queue) \in Nat /\ DOMAIN queue = 1 .. Len(queue)
  BY QueueFacts
<1>2. ASSUME hand # None
      PROVE  /\ DOMAIN Outgoing = 1 .. Len(queue) + 1 /\ Outgoing[1] = hand
             /\ \A i \in DOMAIN queue : Outgoing[i + 1] = queue[i]
  <2>1. hand \in Event /\ <<hand>> \in Seq(Event) /\ Len(<<hand>>) = 1
    BY <1>2 DEF EventTypeOK
  <2>2. Outgoing = <<hand>> \o queue
    BY <1>2 DEF Outgoing
  <2>3. /\ Outgoing \in Seq(Event) /\ Len(Outgoing) = 1 + Len(queue)
        /\ \A i \in 1 .. 1 + Len(queue) :
             Outgoing[i] = IF i <= 1 THEN <<hand>>[i] ELSE queue[i - 1]
    BY <1>1, <2>1, <2>2, ConcatProperties
  <2> QED  BY <1>1, <2>3
<1> QED  BY <1>2 DEF Outgoing

\* The invariant of the buffer gives the numbers their order.
LEMMA NumbersFollow ==
  ASSUME Buffer
  PROVE  Contiguous
<1>1. EventTypeOK /\ Numbered
  BY DEF Buffer
<1>2. queue \in Seq(Event) /\ Len(queue) \in Nat /\ DOMAIN queue = 1 .. Len(queue)
      /\ \A i \in DOMAIN queue : queue[i].seq \in Nat
  BY <1>1, QueueFacts, EventAssumption
<1>3. SUFFICES ASSUME pump # "ended", NEW i \in DOMAIN Outgoing
               PROVE  \/ Outgoing[i].key = Resync
                      \/ Outgoing[i].seq = 1 + (IF i = 1 THEN last ELSE Outgoing[i - 1].seq)
  BY DEF Contiguous
<1>4. CASE hand = None
  BY <1>1, <1>3, <1>4, OutgoingFacts DEF Numbered, Front
<1>5. CASE hand # None
  <2>1. /\ DOMAIN Outgoing = 1 .. Len(queue) + 1 /\ Outgoing[1] = hand
        /\ \A j \in DOMAIN queue : Outgoing[j + 1] = queue[j]
    BY <1>1, <1>5, OutgoingFacts
  <2>2. CASE i = 1
    <3>1. last \in Nat /\ (hand.key = Resync \/ hand.seq = last + 1)
      BY <1>1, <1>3, <1>5, EventAssumption DEF Numbered, EventTypeOK
    <3> QED  BY <2>1, <2>2, <3>1
  <2>3. CASE i # 1
    <3>1. i - 1 \in DOMAIN queue /\ (i - 1) + 1 = i
      BY <1>2, <1>3, <2>1, <2>3
    <3>2. \/ queue[i - 1].key = Resync
          \/ queue[i - 1].seq = 1 + (IF i - 1 = 1 THEN hand.seq ELSE queue[(i - 1) - 1].seq)
      BY <1>1, <1>3, <1>5, <3>1 DEF Numbered, Front
    <3>3. Outgoing[i - 1] = IF i - 1 = 1 THEN hand ELSE queue[(i - 1) - 1]
      <4>1. i - 1 # 1 => (i - 1) - 1 \in DOMAIN queue /\ ((i - 1) - 1) + 1 = i - 1
        BY <1>2, <3>1
      <4> QED  BY <2>1, <4>1
    <3> QED  BY <2>1, <2>3, <3>1, <3>2, <3>3
  <2> QED  BY <2>2, <2>3
<1> QED  BY <1>4, <1>5

\* What is underway is on its way.
LEMMA UnderwayIsCovered ==
  ASSUME Buffer, Underway
  PROVE  Covered
<1>1. EventTypeOK
  BY DEF Buffer
<1>2. queue \in Seq(Event) /\ Len(queue) \in Nat /\ DOMAIN queue = 1 .. Len(queue)
  BY <1>1, QueueFacts
<1>3. SUFFICES ASSUME NEW k \in Key, known[k] # latest[k], ~closed, pump # "ended"
               PROVE  \E i \in DOMAIN Outgoing :
                        \/ Outgoing[i].key = Resync
                        \/ Outgoing[i].key = k /\ Outgoing[i].version = latest[k]
  BY DEF Covered
<1>4. CASE hand # None /\ (hand.key = Resync \/ (hand.key = k /\ hand.version = latest[k]))
  <2>1. 1 \in DOMAIN Outgoing /\ Outgoing[1] = hand
    BY <1>1, <1>2, <1>4, OutgoingFacts
  <2> QED  BY <1>4, <2>1
<1>5. ASSUME NEW i \in DOMAIN queue, queue[i].key \in {Resync, k}
      PROVE  \E j \in DOMAIN Outgoing :
               \/ Outgoing[j].key = Resync
               \/ Outgoing[j].key = k /\ Outgoing[j].version = latest[k]
  <2>1. queue[i].key = k => queue[i].version = latest[k]
    BY <1>5 DEF Buffer, UpToDate
  <2>2. \E j \in DOMAIN Outgoing : Outgoing[j] = queue[i]
    <3>1. CASE hand = None
      BY <1>1, <3>1, OutgoingFacts
    <3>2. CASE hand # None
      <4>1. i + 1 \in DOMAIN Outgoing /\ Outgoing[i + 1] = queue[i]
        BY <1>1, <1>2, <3>2, OutgoingFacts
      <4> QED  BY <4>1
    <3> QED  BY <3>1, <3>2
  <2> QED  BY <1>5, <2>1, <2>2
<1> QED  BY <1>3, <1>4, <1>5 DEF Underway

(***************************************************************************)
(* The session.                                                            *)
(***************************************************************************)
Starts == {"no", "reap", "reaped", "handshake", "catch", "settling", "resolved", "rejected"}

Typed == /\ desk \in Desk /\ req \in [Request \cup {Assets} -> Pending]
         /\ starting \in Starts /\ stop \in {"no", "reply", "exit", "ended"}
         /\ lost \in BOOLEAN /\ faults \in Nat

\* Where the recovery is while a start, a stop or a fetch that it waits for goes on.
DeskFollows == /\ starting # "no" => desk.at = "starting"
               /\ req[Assets].at = "pending" => desk.at = "assets"
               /\ desk.at = "stopping" => stop # "no"
               /\ desk.at = "start" => stop = "no" /\ ~Writable

\* A session that starts is not being stopped, unless the application quits; the one
\* before it is over.
Quitting == stop \in {"exit", "ended"} /\ desk.quit = "stopping"
StartFollows ==
  /\ starting = "handshake" => /\ ~link.failed /\ link.child # 0
                               /\ \/ stop = "no" /\ ~link.expected
                                  \/ stop = "ended" /\ Quitting
  /\ starting = "resolved" => stop = "no" /\ (link.failed \/ (link.child # 0 /\ ~link.expected))
  /\ starting = "reap" => ~Writable /\ (stop = "no" \/ Quitting)
  /\ starting = "reaped" => stop = "no" \/ (stop = "ended" /\ Quitting)

\* Nothing is written to a session that has been told to end.
StopEnds ==
  /\ stop \in {"exit", "ended"} => \/ ~Writable
                                   \/ starting = "handshake" /\ desk.quit = "stopping"
  /\ link.expected => ~Writable \/ stop = "reply"

\* The status says connected only while the session lives.
StatusOK == link.state = "connected" =>
              /\ starting = "no" /\ stop = "no" /\ desk.at \notin {"start", "stopping"}
              /\ link.child # 0 /\ ~link.failed /\ ~link.expected

\* What waits for an answer waits for this child, and nothing has ended it.
AskedOK == \A r \in Request \cup {Assets} :
             req[r].at = "pending" /\ ~req[r].late =>
               req[r].gen = link.child /\ link.child # 0 /\ ~link.failed /\ ~link.expected

Session == DeskFollows /\ StartFollows /\ StopEnds /\ StatusOK /\ AskedOK

SessionInv == ChildInv /\ Typed /\ (Running => Session)

\* What a record of the desk holds.
LEMMA DeskFields ==
  ASSUME NEW d \in Desk
  PROVE  /\ d.at \in {"idle", "restart", "stopping", "start", "starting", "fetch", "assets",
                      "loading", "failing", "drained"}
         /\ d.restarts \in Nat /\ d.booted \in BOOLEAN
         /\ d.quit \in {"no", "quitting", "stopping", "gone"}
BY DEF Desk

\* A recovery that fails, or the start of the application.
LEMMA GivesFacts ==
  ASSUME NEW d \in Desk
  PROVE  /\ Gives(d) \in Desk /\ Gives(d).document = d.document
         /\ Gives(d).quit \in {d.quit, "gone"}
         /\ Gives(d).quit # "gone" => Gives(d).at = "failing"
<1>1. CASE d.booted
  <2>1. Gives(d) = [d EXCEPT !.at = "failing"]
    BY <1>1 DEF Gives
  <2>2. [d EXCEPT !.at = "failing"] \in Desk
    BY DEF Desk
  <2> QED  BY <2>1, <2>2 DEF Desk
<1>2. CASE ~d.booted
  <2>1. Gives(d) = [d EXCEPT !.quit = "gone"]
    BY <1>2 DEF Gives
  <2>2. [d EXCEPT !.quit = "gone"] \in Desk
    BY DEF Desk
  <2> QED  BY <2>1, <2>2 DEF Desk
<1> QED  BY <1>1, <1>2

\* A recovery is asked for.
LEMMA RecoverFacts ==
  ASSUME NEW d \in Desk
  PROVE  /\ Recover(d) \in Desk /\ Recover(d).document = d.document /\ Recover(d).quit = d.quit
         /\ Recover(d).at = IF d.at = "idle" THEN "restart" ELSE d.at
<1>1. [d EXCEPT !.at = "restart"] \in Desk /\ [d EXCEPT !.again = TRUE] \in Desk
  BY DEF Desk
<1> QED  BY <1>1 DEF Recover, Desk

\* One round of the policy may ask for a recovery.
LEMMA PolicyRoundFacts ==
  ASSUME NEW d \in Desk
  PROVE  /\ PolicyRound(d) \in Desk /\ PolicyRound(d).document = d.document
         /\ PolicyRound(d).quit = d.quit
         /\ PolicyRound(d).at \in {d.at, IF d.at = "idle" THEN "restart" ELSE d.at}
<1> DEFINE e == [d EXCEPT !.policy = "waiting", !.recovery = "restarting", !.restarts = @ + 1]
           over == [d EXCEPT !.policy = "idle", !.recovery = "idle"]
           fails == [d EXCEPT !.policy = "idle", !.recovery = "failed"]
<1>1. /\ e \in Desk /\ e.document = d.document /\ e.quit = d.quit /\ e.at = d.at
      /\ over \in Desk /\ over.document = d.document /\ over.quit = d.quit /\ over.at = d.at
      /\ fails \in Desk /\ fails.document = d.document /\ fails.quit = d.quit /\ fails.at = d.at
  <2>1. d.restarts + 1 \in Nat
    BY DeskFields
  <2>2. e \in Desk /\ e.document = d.document /\ e.quit = d.quit /\ e.at = d.at
    BY <2>1 DEF Desk
  <2>3. over \in Desk /\ over.document = d.document /\ over.quit = d.quit /\ over.at = d.at
    BY DEF Desk
  <2>4. fails \in Desk /\ fails.document = d.document /\ fails.quit = d.quit /\ fails.at = d.at
    BY DEF Desk
  <2> QED  BY <2>2, <2>3, <2>4
<1>2. PolicyRound(d) \in {over, fails, Recover(e)}
  BY DEF PolicyRound
<1> HIDE DEF e, over, fails
<1> QED  BY <1>1, <1>2, RecoverFacts

\* The policy's restart has returned.
LEMMA ReturnedFacts ==
  ASSUME NEW d \in Desk
  PROVE  /\ Returned(d) \in Desk /\ Returned(d).document = d.document
         /\ Returned(d).quit = d.quit
         /\ Returned(d).at \in {d.at, IF d.at = "idle" THEN "restart" ELSE d.at}
<1> DEFINE over == [d EXCEPT !.policy = "idle", !.recovery = "idle"]
<1>1. over \in Desk /\ over.document = d.document /\ over.quit = d.quit /\ over.at = d.at
  BY DEF Desk
<1>2. Returned(d) \in {d, over, PolicyRound(d)}
  BY DEF Returned
<1> HIDE DEF over
<1> QED  BY <1>1, <1>2, PolicyRoundFacts

\* The request for the assets is rejected with the rest.
LEMMA AssetsLostFacts ==
  ASSUME NEW d \in Desk
  PROVE  /\ AssetsLost(d) \in Desk /\ AssetsLost(d).document = d.document
         /\ AssetsLost(d).quit \in {d.quit, "gone"}
         /\ AssetsLost(d).quit # "gone" => AssetsLost(d).at \in {d.at, "failing"}
         /\ req[Assets].at # "pending" => AssetsLost(d) = d
BY GivesFacts DEF AssetsLost

\* Rejected requests wait for nothing.
LEMMA RejectedFacts ==
  ASSUME Typed
  PROVE  /\ Rejected \in [Request \cup {Assets} -> Pending]
         /\ \A r \in Request \cup {Assets} : Rejected[r].at # "pending"
<1>1. Settled \in Pending /\ Settled.at # "pending"
  BY DEF Settled, Pending
<1>2. DOMAIN req = Request \cup {Assets} /\ \A r \in Request \cup {Assets} : req[r] \in Pending
  BY DEF Typed
<1>3. Rejected = [r \in Request \cup {Assets} |-> IF req[r].at = "pending" THEN Settled ELSE req[r]]
  BY <1>2 DEF Rejected
<1>4. \A r \in Request \cup {Assets} :
        (IF req[r].at = "pending" THEN Settled ELSE req[r]) \in Pending
  BY <1>1, <1>2
<1> QED  BY <1>1, <1>3, <1>4

\* A step that leaves the session alone: requests are sent and settled, and the recovery
\* goes on where it waits for no start.
LEMMA GoesOn ==
  ASSUME SessionInv, Running, UNCHANGED <<generation, starting, stop>>,
         lost' \in BOOLEAN, faults' \in Nat,
         link'.child = link.child, link'.open = link.open, link'.failed = link.failed,
         link'.expected = link.expected, link'.state = link.state,
         desk' \in Desk, desk.quit = "stopping" => desk'.quit \in {"stopping", "gone"},
         desk'.quit # "gone" =>
           desk'.at = desk.at \/ (desk.at # "starting" /\ desk'.at \notin {"start", "stopping"}),
         req' \in [Request \cup {Assets} -> Pending],
         \A r \in Request \cup {Assets} :
           \/ req'[r] = req[r] \/ req'[r].at # "pending"
           \/ req'[r].gen = generation /\ Writable /\ req'[r].late = (stop # "no"),
         desk'.quit # "gone" /\ req'[Assets].at = "pending" => desk'.at = "assets"
  PROVE  Typed' /\ (Running' => Session')
<1>1. Typed /\ ChildInv /\ Session
  BY DEF SessionInv
<1>2. Typed'
  BY <1>1 DEF Typed
<1>3. ASSUME desk'.quit # "gone"  PROVE Session'
  <2>1. Writable' = Writable
    BY DEF Writable
  <2>2. DeskFollows'
    BY <1>1, <1>3, <2>1 DEF DeskFollows, Session
  <2>3. StartFollows' /\ StopEnds'
    BY <1>1, <1>3, <2>1 DEF StartFollows, StopEnds, Quitting, Session
  <2>4. StatusOK'
    BY <1>1, <1>3 DEF StatusOK, Session
  <2>5. AskedOK'
    <3> SUFFICES ASSUME NEW r \in Request \cup {Assets}, req'[r].at = "pending", ~req'[r].late
                 PROVE  req'[r].gen = link.child /\ link.child # 0 /\ ~link.failed /\ ~link.expected
      BY DEF AskedOK
    <3>1. CASE req'[r] = req[r]
      BY <1>1, <3>1 DEF AskedOK, Session
    <3>2. CASE req'[r].gen = generation /\ Writable /\ req'[r].late = (stop # "no")
      BY <1>1, <3>2 DEF StopEnds, Session, Writable, ChildInv
    <3> QED  BY <3>1, <3>2
  <2> QED  BY <2>2, <2>3, <2>4, <2>5 DEF Session
<1> QED  BY <1>2, <1>3 DEF Running

\* The connection fails, or the child is gone: all that is pending is rejected.
LEMMA FailConnectionKeeps ==
  ASSUME SessionInv, Running, NEW child \in {0, link.child}, NEW s \in Starts,
         FailConnection(child, s), faults' \in Nat,
         \/ s = Unstarted
         \/ s = "resolved" /\ starting = "handshake" /\ stop = "no"
  PROVE  Typed' /\ (Running' => Session')
<1>1. Typed /\ ChildInv /\ Session /\ link \in Link /\ desk \in Desk
  BY DEF SessionInv, ChildInv, Typed
<1>2. /\ link'.child = child /\ link'.failed = TRUE /\ link'.state = "stopped"
      /\ link'.expected = link.expected
  BY <1>1 DEF FailConnection, Link
<1>3. /\ req' \in [Request \cup {Assets} -> Pending]
      /\ \A r \in Request \cup {Assets} : req'[r].at # "pending"
  BY <1>1, RejectedFacts DEF FailConnection
<1>4. /\ stop' = IF stop = "reply" THEN "exit" ELSE stop
      /\ starting' = s
  BY DEF FailConnection
<1>5. /\ desk' \in Desk /\ desk'.quit = AssetsLost(desk).quit
      /\ desk'.at = AssetsLost(desk).at
  <2>1. AssetsLost(desk) \in Desk
    BY <1>1, AssetsLostFacts
  <2>2. (AssetsLost(desk).report \/ Crashes) \in BOOLEAN
    BY <2>1 DEF Desk
  <2>3. desk' = [AssetsLost(desk) EXCEPT !.report = AssetsLost(desk).report \/ Crashes]
    BY DEF FailConnection
  <2>4. \A d \in Desk, b \in BOOLEAN : /\ [d EXCEPT !.report = b] \in Desk
                                       /\ [d EXCEPT !.report = b].quit = d.quit
                                       /\ [d EXCEPT !.report = b].at = d.at
    BY DEF Desk
  <2> QED  BY <2>1, <2>2, <2>3, <2>4
<1>6. lost' \in BOOLEAN
  BY <1>1 DEF FailConnection, Typed
<1>7. Typed'
  BY <1>1, <1>3, <1>4, <1>5, <1>6 DEF Typed
<1>8. ASSUME desk'.quit # "gone"  PROVE Session'
  <2>1. /\ ~Writable' /\ desk'.at \in {desk.at, "failing"} /\ desk'.quit = desk.quit
        /\ req[Assets].at # "pending" => desk'.at = desk.at
        /\ s # "no" => starting # "no"
        /\ s \notin {"handshake"} /\ (s \in {"reap", "reaped"} => s = starting)
        /\ s = "resolved" => starting = s \/ stop = "no"
    BY <1>1, <1>2, <1>5, <1>8, AssetsLostFacts DEF Writable, Unstarted
  <2>2. DeskFollows'
    BY <1>1, <1>3, <1>4, <2>1 DEF DeskFollows, Session
  <2>3. StartFollows' /\ StopEnds'
    BY <1>1, <1>2, <1>4, <2>1 DEF StartFollows, StopEnds, Quitting, Session
  <2>4. StatusOK' /\ AskedOK'
    BY <1>2, <1>3 DEF StatusOK, AskedOK
  <2> QED  BY <2>2, <2>3, <2>4 DEF Session
<1> QED  BY <1>7, <1>8 DEF Running

\* A stop begins, or joins the one under way.
LEMMA StopSessionKeeps ==
  ASSUME SessionInv, Running, NEW s \in Starts, NEW d \in Desk, StopSession(s, d),
         UNCHANGED <<generation, lost, faults>>,
         s \notin {"handshake", "resolved"}, s = "no" <=> starting = "no",
         s \in {"reap", "reaped"} => s = starting,
         starting = "handshake" => desk.quit # "stopping",
         desk.at # "start",
         d.at = desk.at \/ (starting = "no" /\ d.at = "stopping" /\ desk.at = "restart"),
         d.quit \in {desk.quit, "stopping"},
         s \in {"reap", "reaped"} => d.quit = "stopping"
  PROVE  Typed' /\ (Running' => Session')
<1>1. Typed /\ ChildInv /\ Session /\ link \in Link /\ desk \in Desk
  BY DEF SessionInv, ChildInv, Typed
<1>2. starting' = s
  BY DEF StopSession
<1>3. ASSUME stop # "no", desk' = d, UNCHANGED <<link, stop, req>>
      PROVE  Typed' /\ (Running' => Session')
  <2>1. Typed'
    BY <1>1, <1>2, <1>3 DEF Typed
  <2>2. Writable' = Writable
    BY <1>3 DEF Writable
  <2>3. DeskFollows'
    BY <1>1, <1>2, <1>3, <2>2 DEF DeskFollows, Session
  <2>4. StartFollows'
    BY <1>1, <1>2, <1>3, <2>2 DEF StartFollows, Quitting, Session
  <2>5. StopEnds' /\ StatusOK' /\ AskedOK'
    BY <1>1, <1>2, <1>3, <2>2 DEF StopEnds, StatusOK, AskedOK, Session
  <2> QED  BY <2>1, <2>3, <2>4, <2>5 DEF Session
<1>4. ASSUME stop = "no",
             link' = [link EXCEPT !.expected = TRUE, !.state = "stopped", !.open = Writable],
             stop' = IF link.child = 0 THEN "ended" ELSE IF Writable THEN "reply" ELSE "exit",
             req' = Rejected, desk' = AssetsLost(d)
      PROVE  Typed' /\ (Running' => Session')
  <2>1. /\ link'.child = link.child /\ link'.state = "stopped" /\ link'.failed = link.failed
        /\ link'.open = Writable
    BY <1>1, <1>4 DEF Link
  <2>2. /\ req' \in [Request \cup {Assets} -> Pending]
        /\ \A r \in Request \cup {Assets} : req'[r].at # "pending"
    BY <1>1, <1>4, RejectedFacts
  <2>3. /\ desk' \in Desk /\ stop' \in {"reply", "exit", "ended"}
        /\ desk'.quit # "gone" => /\ desk'.at \in {d.at, "failing"} /\ desk'.quit = d.quit
                                  /\ req[Assets].at # "pending" => desk'.at = d.at
    BY <1>4, AssetsLostFacts
  <2>4. Typed'
    BY <1>1, <1>2, <2>2, <2>3 DEF Typed
  <2>5. ASSUME desk'.quit # "gone"  PROVE Session'
    <3>1. /\ ~Writable => ~Writable' /\ stop' # "reply"
          /\ stop' # "reply" => ~Writable'
          /\ s = "reaped" => stop' = "ended"
      BY <1>1, <1>4, <2>1 DEF Writable, ChildInv
    <3>2. DeskFollows'
      BY <1>1, <1>2, <2>2, <2>3, <2>5 DEF DeskFollows, Session
    <3>3. StartFollows'
      BY <1>1, <1>2, <2>3, <2>5, <3>1 DEF StartFollows, Quitting, Session
    <3>4. StopEnds'
      BY <2>3, <3>1 DEF StopEnds
    <3>5. StatusOK' /\ AskedOK'
      BY <2>1, <2>2 DEF StatusOK, AskedOK
    <3> QED  BY <3>2, <3>3, <3>4, <3>5 DEF Session
  <2> QED  BY <2>4, <2>5 DEF Running
<1> QED  BY <1>3, <1>4 DEF StopSession

\* A new child, or none: nothing waits for an answer of the last one.
LEMMA SpawnKeeps ==
  ASSUME SessionInv, Running, NEW d \in Desk, Spawns(d), link.child = 0,
         link.state = "stopped", d.at = "starting", d.quit = desk.quit,
         req[Assets].at # "pending", stop = "no" \/ (stop = "ended" /\ desk.quit = "stopping")
  PROVE  Typed' /\ (Running' => Session')
<1>1. Typed /\ ChildInv /\ Session /\ link \in Link
  BY DEF SessionInv, ChildInv, Typed
<1>2. /\ desk' = d /\ UNCHANGED <<stop, req, lost>> /\ starting' \in {"handshake", "rejected"}
      /\ generation' # 0
  BY <1>1 DEF Spawns, ChildInv
<1>3. faults' \in Nat
  BY <1>1 DEF Spawns, Fault, Typed
<1>4. Typed'
  BY <1>1, <1>2, <1>3 DEF Typed, Starts
<1>5. /\ link'.failed = FALSE /\ link'.expected = FALSE /\ link'.state = "stopped"
      /\ starting' = "handshake" => link'.child # 0
      /\ starting' = "rejected" => link'.child = 0
  <2>1. ASSUME link' = [link EXCEPT !.child = generation', !.open = TRUE, !.failed = FALSE,
                                    !.expected = FALSE, !.killed = FALSE]
        PROVE  /\ link'.failed = FALSE /\ link'.expected = FALSE /\ link'.state = "stopped"
               /\ link'.child = generation'
    BY <1>1, <2>1 DEF Link
  <2>2. ASSUME link' = [link EXCEPT !.failed = FALSE, !.expected = FALSE]
        PROVE  /\ link'.failed = FALSE /\ link'.expected = FALSE /\ link'.state = "stopped"
               /\ link'.child = 0
    BY <1>1, <2>2 DEF Link
  <2> QED  BY <1>2, <2>1, <2>2 DEF Spawns
<1>6. DeskFollows'
  BY <1>2 DEF DeskFollows
<1>7. StartFollows'
  BY <1>2, <1>5 DEF StartFollows, Quitting
<1>8. StopEnds'
  BY <1>2, <1>5 DEF StopEnds, Writable
<1>9. StatusOK' /\ AskedOK'
  BY <1>1, <1>2, <1>5 DEF StatusOK, AskedOK, Session
<1> QED  BY <1>4, <1>6, <1>7, <1>8, <1>9 DEF Session

\* The end of the child.
LEMMA ExitsKeeps ==
  ASSUME SessionInv, Running, Exits
  PROVE  Typed' /\ (Running' => Session')
<1>1. Typed /\ ChildInv /\ Session /\ link \in Link /\ desk \in Desk /\ Outside
  BY DEF SessionInv, ChildInv, Typed, Exits
<1>2. faults' \in Nat
  BY <1>1 DEF Exits, Fault, Typed
<1>3. starting \notin {"reaped", "catch", "resolved", "rejected"} /\ stop # "ended"
      /\ desk.at \notin {"restart", "start", "fetch", "drained"}
  BY <1>1 DEF Outside, Settling
<1>4. ASSUME FailConnection(0, Unstarted)
      PROVE  Typed' /\ (Running' => Session')
  <2>1. Unstarted \in Starts
    BY <1>1 DEF Unstarted, Typed, Starts
  <2> QED  BY <1>2, <1>4, <2>1, FailConnectionKeeps
<1>5. ASSUME link.expected \/ link.failed, link' = [link EXCEPT !.child = 0],
             stop' = IF stop = "exit" THEN "ended" ELSE stop,
             starting' = IF starting = "reap" THEN "reaped" ELSE starting,
             UNCHANGED <<req, desk, lost>>
      PROVE  Typed' /\ (Running' => Session')
  <2>1. /\ link'.child = 0 /\ link'.failed = link.failed /\ link'.expected = link.expected
        /\ link'.state = link.state /\ ~Writable'
    BY <1>1, <1>5 DEF Link, Writable
  <2>2. Typed'
    BY <1>1, <1>2, <1>5 DEF Typed, Starts
  <2>3. DeskFollows'
    BY <1>1, <1>5, <2>1 DEF DeskFollows, Session
  <2>4. StartFollows' /\ StopEnds'
    BY <1>1, <1>3, <1>5, <2>1 DEF StartFollows, StopEnds, Quitting, Session
  <2>5. StatusOK' /\ AskedOK'
    BY <1>1, <1>5, <2>1 DEF StatusOK, AskedOK, Session
  <2> QED  BY <2>2, <2>3, <2>4, <2>5 DEF Session
<1> QED  BY <1>4, <1>5 DEF Exits, ExitOf

\* The steps of a stop.
LEMMA StopStepKeeps ==
  ASSUME SessionInv, Running, StopReplied \/ StopTimesOut \/ StopReturns
  PROVE  Typed' /\ (Running' => Session')
<1>1. Typed /\ ChildInv /\ Session /\ link \in Link /\ desk \in Desk
  BY DEF SessionInv, ChildInv, Typed
<1>2. ASSUME StopReplied  PROVE Typed' /\ (Running' => Session')
  <2>1. /\ stop = "reply" /\ stop' = IF link.child = 0 THEN "ended" ELSE "exit"
        /\ UNCHANGED <<starting, req, desk, lost, faults>>
        /\ link' = [link EXCEPT !.open = FALSE]
    BY <1>2 DEF StopReplied
  <2>2. /\ link'.child = link.child /\ link'.failed = link.failed
        /\ link'.expected = link.expected /\ link'.state = link.state /\ ~Writable'
    BY <1>1, <2>1 DEF Link, Writable
  <2>3. Typed'
    BY <1>1, <2>1 DEF Typed
  <2>4. DeskFollows' /\ StatusOK' /\ AskedOK'
    BY <1>1, <2>1, <2>2 DEF DeskFollows, StatusOK, AskedOK, Session
  <2>5. StartFollows' /\ StopEnds'
    BY <1>1, <2>1, <2>2 DEF StartFollows, StopEnds, Quitting, Session
  <2> QED  BY <2>3, <2>4, <2>5 DEF Session
<1>3. ASSUME StopTimesOut  PROVE Typed' /\ (Running' => Session')
  <2>1. /\ stop = "exit" /\ stop' = "ended" /\ UNCHANGED <<starting, req, desk, lost>>
        /\ link' = [link EXCEPT !.killed = TRUE] /\ faults' \in Nat
    BY <1>1, <1>3 DEF StopTimesOut, Fault, Typed
  <2>2. /\ link'.child = link.child /\ link'.failed = link.failed /\ link'.open = link.open
        /\ link'.expected = link.expected /\ link'.state = link.state /\ Writable' = Writable
    BY <1>1, <2>1 DEF Link, Writable
  <2>3. Typed'
    BY <1>1, <2>1 DEF Typed
  <2>4. DeskFollows' /\ StatusOK' /\ AskedOK'
    BY <1>1, <2>1, <2>2 DEF DeskFollows, StatusOK, AskedOK, Session
  <2>5. StartFollows' /\ StopEnds'
    BY <1>1, <2>1, <2>2 DEF StartFollows, StopEnds, Quitting, Session
  <2> QED  BY <2>3, <2>4, <2>5 DEF Session
<1>4. ASSUME StopReturns  PROVE Typed' /\ (Running' => Session')
  <2>1. /\ stop = "ended" /\ stop' = "no" /\ UNCHANGED <<link, req, lost, faults>>
        /\ starting' = IF starting = "settling" THEN "rejected" ELSE starting
        /\ desk' = IF desk.quit = "stopping" THEN [desk EXCEPT !.quit = "gone"]
                   ELSE IF desk.at = "stopping" THEN [desk EXCEPT !.at = "start"]
                   ELSE desk
    BY <1>4 DEF StopReturns
  <2>2. /\ desk' \in Desk /\ (desk.quit = "stopping" => desk'.quit = "gone")
        /\ desk.quit # "stopping" =>
             desk'.quit = desk.quit /\ desk'.at = IF desk.at = "stopping" THEN "start" ELSE desk.at
    <3>1. [desk EXCEPT !.quit = "gone"] \in Desk /\ [desk EXCEPT !.at = "start"] \in Desk
      BY <1>1 DEF Desk
    <3> QED  BY <1>1, <2>1, <3>1 DEF Desk
  <2>3. Typed'
    BY <1>1, <2>1, <2>2 DEF Typed, Starts
  <2>4. ASSUME desk'.quit # "gone"  PROVE Session'
    <3>1. desk.quit # "stopping" /\ Writable' = Writable
      BY <2>1, <2>2, <2>4 DEF Writable
    <3>2. DeskFollows'
      BY <1>1, <2>1, <2>2, <3>1 DEF DeskFollows, StopEnds, Session
    <3>3. StartFollows' /\ StopEnds'
      BY <1>1, <2>1, <2>2, <3>1 DEF StartFollows, StopEnds, Quitting, Session
    <3>4. StatusOK' /\ AskedOK'
      BY <1>1, <2>1, <2>2 DEF StatusOK, AskedOK, Session
    <3> QED  BY <3>2, <3>3, <3>4 DEF Session
  <2> QED  BY <2>3, <2>4 DEF Running
<1> QED  BY <1>2, <1>3, <1>4

\* start goes on: it spawns the child or waits for the last one to end.
LEMMA StartStepKeeps ==
  ASSUME SessionInv, Running, StartCalls \/ Reaped \/ ReapTimesOut
  PROVE  Typed' /\ (Running' => Session')
<1>1. Typed /\ ChildInv /\ Session /\ link \in Link /\ desk \in Desk
  BY DEF SessionInv, ChildInv, Typed
<1>2. link.state # "connected" => link.state = "stopped"
  BY <1>1 DEF Link
<1>3. ASSUME Reaped  PROVE Typed' /\ (Running' => Session')
  <2>1. /\ Spawns(desk) /\ link.child = 0 /\ link.state = "stopped" /\ desk.at = "starting"
        /\ req[Assets].at # "pending" /\ (stop = "no" \/ (stop = "ended" /\ desk.quit = "stopping"))
    BY <1>1, <1>2, <1>3 DEF Reaped, ChildInv, StatusOK, DeskFollows, StartFollows, Quitting, Session
  <2> QED  BY <1>1, <2>1, SpawnKeeps
<1>4. ASSUME StartCalls, desk.closing  PROVE Typed' /\ (Running' => Session')
  <2>1. /\ desk' = Gives(desk) /\ UNCHANGED <<generation, link, starting, stop, req, lost, faults>>
        /\ desk.at = "start"
    BY <1>4 DEF StartCalls
  <2>2. /\ desk' \in Desk /\ desk'.quit \in {desk.quit, "gone"}
        /\ desk'.quit # "gone" => desk'.at = "failing"
    BY <1>1, <2>1, GivesFacts
  <2>3. req[Assets].at # "pending"
    BY <1>1, <2>1 DEF DeskFollows, Session
  <2> QED  BY <1>1, <2>1, <2>2, <2>3, GoesOn DEF Typed
<1>5. ASSUME StartCalls, ~desk.closing  PROVE Typed' /\ (Running' => Session')
  <2> DEFINE d == [desk EXCEPT !.at = "starting"]
  <2>1. d \in Desk /\ d.at = "starting" /\ d.quit = desk.quit
    BY <1>1 DEF Desk
  <2>2. /\ desk.at = "start" /\ starting = "no" /\ link.state = "stopped"
        /\ req[Assets].at # "pending" /\ stop = "no" /\ ~Writable
    BY <1>1, <1>2, <1>5 DEF StartCalls, DeskFollows, StatusOK, Session
  <2>3. StartOnce(d)
    BY <1>5 DEF StartCalls
  <2> HIDE DEF d
  <2>4. ASSUME link.child = 0, Spawns(d)  PROVE Typed' /\ (Running' => Session')
    BY <2>1, <2>2, <2>4, SpawnKeeps
  <2>5. ASSUME desk' = d, starting' = "reap",
               UNCHANGED <<generation, link, stop, req, lost, faults>>
        PROVE  Typed' /\ (Running' => Session')
    <3>1. Typed'
      BY <1>1, <2>1, <2>5 DEF Typed, Starts
    <3>2. Writable' = Writable
      BY <2>5 DEF Writable
    <3>3. DeskFollows' /\ StartFollows' /\ StopEnds' /\ StatusOK'
      BY <1>1, <2>1, <2>2, <2>5, <3>2
      DEF DeskFollows, StartFollows, StopEnds, StatusOK, Quitting, Session
    <3>4. AskedOK'
      BY <1>1, <2>5 DEF AskedOK, Session
    <3> QED  BY <3>1, <3>3, <3>4 DEF Session
  <2> QED  BY <2>3, <2>4, <2>5 DEF StartOnce
<1>6. ASSUME ReapTimesOut  PROVE Typed' /\ (Running' => Session')
  <2>1. /\ starting = "reap" /\ starting' = "rejected" /\ UNCHANGED <<stop, req, desk, lost>>
        /\ link' = [link EXCEPT !.killed = TRUE] /\ faults' \in Nat
    BY <1>1, <1>6 DEF ReapTimesOut, Fault, Typed
  <2>2. /\ link'.child = link.child /\ link'.failed = link.failed /\ link'.open = link.open
        /\ link'.expected = link.expected /\ link'.state = link.state /\ Writable' = Writable
    BY <1>1, <2>1 DEF Link, Writable
  <2>3. Typed'
    BY <1>1, <2>1 DEF Typed, Starts
  <2>4. DeskFollows' /\ StatusOK' /\ AskedOK'
    BY <1>1, <2>1, <2>2 DEF DeskFollows, StatusOK, AskedOK, Session
  <2>5. StartFollows' /\ StopEnds'
    BY <1>1, <2>1, <2>2 DEF StartFollows, StopEnds, Session
  <2> QED  BY <2>3, <2>4, <2>5 DEF Session
<1> QED  BY <1>3, <1>4, <1>5, <1>6

\* The handshake is answered or fails, and start returns or throws.
LEMMA HandshakeKeeps ==
  ASSUME SessionInv, Running, HandshakeAnswered \/ HandshakeFails \/ StartReturns
  PROVE  Typed' /\ (Running' => Session')
<1>1. Typed /\ ChildInv /\ Session /\ link \in Link /\ desk \in Desk
  BY DEF SessionInv, ChildInv, Typed
<1>2. ASSUME HandshakeAnswered \/ HandshakeFails  PROVE Typed' /\ (Running' => Session')
  <2>1. /\ starting = "handshake" /\ stop = "no" /\ faults' \in Nat
        /\ ~link.failed /\ link.child # 0 /\ ~link.expected
    BY <1>1, <1>2 DEF HandshakeAnswered, HandshakeFails, Outside, Settling, Fault, Typed,
                      StartFollows, Session
  <2>2. ASSUME FailConnection(link.child, "resolved")  PROVE Typed' /\ (Running' => Session')
    <3>1. "resolved" \in Starts
      BY DEF Starts
    <3> QED  BY <2>1, <2>2, <3>1, FailConnectionKeeps
  <2>3. ASSUME starting' \in {"resolved", "catch"}, UNCHANGED <<link, stop, req, desk, lost>>
        PROVE  Typed' /\ (Running' => Session')
    <3>1. Typed'
      BY <1>1, <2>1, <2>3 DEF Typed, Starts
    <3>2. Writable' = Writable
      BY <2>3 DEF Writable
    <3>3. DeskFollows' /\ StartFollows' /\ StopEnds' /\ StatusOK'
      BY <1>1, <2>1, <2>3, <3>2
      DEF DeskFollows, StartFollows, StopEnds, StatusOK, Session
    <3>4. AskedOK'
      BY <1>1, <2>3 DEF AskedOK, Session
    <3> QED  BY <3>1, <3>3, <3>4 DEF Session
  <2> QED  BY <1>2, <2>2, <2>3 DEF HandshakeAnswered, HandshakeFails
<1>3. ASSUME StartReturns  PROVE Typed' /\ (Running' => Session')
  <2>1. /\ starting \in {"resolved", "rejected"} /\ starting' = "no"
        /\ UNCHANGED <<stop, req, faults>> /\ lost' = (lost /\ ~Connects)
    BY <1>3 DEF StartReturns
  <2>2. /\ link'.child = link.child /\ link'.failed = link.failed /\ link'.open = link.open
        /\ link'.expected = link.expected
        /\ link'.state = "connected" => link.state = "connected" \/ Connects
    BY <1>1, <1>3 DEF StartReturns, Link
  <2>3. /\ desk' \in Desk /\ desk'.quit \in {desk.quit, "gone"}
        /\ desk'.quit # "gone" => desk'.at \in {"fetch", "failing"}
    <3> DEFINE d == [desk EXCEPT !.recovery = IF Connects /\ @ = "failed" THEN "idle" ELSE @]
    <3>1. d \in Desk /\ d.quit = desk.quit
      BY <1>1 DEF Desk
    <3>2. desk' = IF starting = "resolved" THEN [d EXCEPT !.at = "fetch"] ELSE Gives(d)
      BY <1>3 DEF StartReturns
    <3> HIDE DEF d
    <3>3. /\ [d EXCEPT !.at = "fetch"] \in Desk /\ [d EXCEPT !.at = "fetch"].quit = d.quit
          /\ [d EXCEPT !.at = "fetch"].at = "fetch"
      BY <3>1 DEF Desk
    <3> QED  BY <3>1, <3>2, <3>3, GivesFacts
  <2>4. lost' \in BOOLEAN
    BY <1>1, <2>1 DEF Typed
  <2>5. Typed'
    BY <1>1, <2>1, <2>3, <2>4 DEF Typed, Starts
  <2>6. ASSUME desk'.quit # "gone"  PROVE Session'
    <3>1. Writable' = Writable
      BY <2>2 DEF Writable
    <3>2. DeskFollows' /\ StartFollows' /\ StopEnds'
      BY <1>1, <2>1, <2>2, <2>3, <2>6, <3>1
      DEF DeskFollows, StartFollows, StopEnds, Session
    <3>3. StatusOK'
      BY <1>1, <2>1, <2>2, <2>3, <2>6 DEF StatusOK, StartFollows, Connects, Session
    <3>4. AskedOK'
      BY <1>1, <2>1, <2>2 DEF AskedOK, Session
    <3> QED  BY <3>2, <3>3, <3>4 DEF Session
  <2> QED  BY <2>5, <2>6 DEF Running
<1> QED  BY <1>2, <1>3

\* A stop that a recovery, a failed start or the end of the application asks for.
LEMMA AskStopKeeps ==
  ASSUME SessionInv, Running, Restarts \/ Catches \/ WillQuit
  PROVE  Typed' /\ (Running' => Session')
<1>1. Typed /\ ChildInv /\ Session /\ link \in Link /\ desk \in Desk
  BY DEF SessionInv, ChildInv, Typed
<1>2. ASSUME Restarts, desk.closing  PROVE Typed' /\ (Running' => Session')
  <2>1. /\ desk' = Gives(desk) /\ UNCHANGED <<generation, link, starting, stop, req, lost, faults>>
        /\ desk.at = "restart"
    BY <1>2 DEF Restarts
  <2>2. /\ desk' \in Desk /\ desk'.quit \in {desk.quit, "gone"}
        /\ desk'.quit # "gone" => desk'.at = "failing"
    BY <1>1, <2>1, GivesFacts
  <2>3. req[Assets].at # "pending"
    BY <1>1, <2>1 DEF DeskFollows, Session
  <2> QED  BY <1>1, <2>1, <2>2, <2>3, GoesOn DEF Typed
<1>3. ASSUME Restarts, ~desk.closing  PROVE Typed' /\ (Running' => Session')
  <2> DEFINE d == [desk EXCEPT !.at = "stopping"]
  <2>1. d \in Desk /\ d.at = "stopping" /\ d.quit = desk.quit
    BY <1>1 DEF Desk
  <2>2. /\ desk.at = "restart" /\ StopSession(starting, d) /\ UNCHANGED <<generation, lost, faults>>
    BY <1>3 DEF Restarts
  <2>3. starting = "no" /\ "no" \in Starts
    BY <1>1, <2>2 DEF DeskFollows, Session, Starts
  <2> HIDE DEF d
  <2> QED  BY <2>1, <2>2, <2>3, StopSessionKeeps
<1>4. ASSUME Catches  PROVE Typed' /\ (Running' => Session')
  <2>1. /\ starting = "catch" /\ StopSession("settling", desk)
        /\ UNCHANGED <<generation, lost, faults>> /\ "settling" \in Starts
    BY <1>4 DEF Catches, Starts
  <2>2. desk.at # "start"
    BY <1>1, <2>1 DEF DeskFollows, Session
  <2> QED  BY <1>1, <2>1, <2>2, StopSessionKeeps
<1>5. ASSUME WillQuit  PROVE Typed' /\ (Running' => Session')
  <2> DEFINE d == [desk EXCEPT !.quit = "stopping", !.closing = TRUE]
  <2>1. d \in Desk /\ d.at = desk.at /\ d.quit = "stopping"
    BY <1>1 DEF Desk
  <2>2. /\ StopSession(Unstarted, d) /\ UNCHANGED <<generation, lost, faults>>
        /\ desk.quit = "quitting" /\ desk.at # "start" /\ starting # "resolved"
    BY <1>5 DEF WillQuit, Outside, Settling
  <2>3. /\ Unstarted \in Starts /\ Unstarted \notin {"handshake", "resolved"}
        /\ Unstarted = "no" <=> starting = "no"
        /\ Unstarted \in {"reap", "reaped"} => Unstarted = starting
    BY <1>1, <2>2 DEF Unstarted, Typed, Starts
  <2> HIDE DEF d
  <2> QED  BY <2>1, <2>2, <2>3, StopSessionKeeps
<1> QED  BY <1>2, <1>3, <1>4, <1>5

\* A request that finds no service.
LEMMA NotRunningFacts ==
  ASSUME link \in Link, NEW d \in Desk, NotRunning(d)
  PROVE  /\ link'.child = link.child /\ link'.open = link.open /\ link'.failed = link.failed
         /\ link'.expected = link.expected /\ link'.state = link.state
         /\ desk' \in Desk /\ desk'.at = d.at /\ desk'.quit = d.quit /\ desk'.document = d.document
<1>1. link' = [link EXCEPT !.notified = link.notified \/ ~FindsNone]
      /\ desk' = [d EXCEPT !.report = d.report \/ ~FindsNone]
  BY DEF NotRunning
<1>2. (d.report \/ ~FindsNone) \in BOOLEAN
  BY DEF Desk
<1>3. \A b \in BOOLEAN : /\ [d EXCEPT !.report = b] \in Desk
                         /\ [d EXCEPT !.report = b].at = d.at
                         /\ [d EXCEPT !.report = b].quit = d.quit
                         /\ [d EXCEPT !.report = b].document = d.document
  BY DEF Desk
<1>4. \A b : LET l == [link EXCEPT !.notified = b]
             IN /\ l.child = link.child /\ l.open = link.open /\ l.failed = link.failed
                /\ l.expected = link.expected /\ l.state = link.state
  BY DEF Link
<1> QED  BY <1>1, <1>2, <1>3, <1>4

\* Requests are sent, answered and given up.
LEMMA RequestKeeps ==
  ASSUME SessionInv, Running, NEW r \in Request \cup {Assets},
         (r \in Request /\ Asks(r)) \/ Answers(r) \/ TimesOut(r)
  PROVE  Typed' /\ (Running' => Session')
<1>1. /\ Typed /\ ChildInv /\ Session /\ link \in Link /\ desk \in Desk
      /\ lost \in BOOLEAN /\ faults \in Nat /\ req \in [Request \cup {Assets} -> Pending]
  BY DEF SessionInv, ChildInv, Typed
<1>2. /\ Sent \in Pending /\ Sent.gen = generation /\ Sent.late = (stop # "no")
      /\ Settled \in Pending /\ Settled.at # "pending"
  BY <1>1 DEF Sent, Settled, Pending, ChildInv
<1>3. \A s \in Pending :
        /\ [req EXCEPT ![r] = s] \in [Request \cup {Assets} -> Pending]
        /\ [req EXCEPT ![r] = s][r] = s
        /\ \A q \in Request \cup {Assets} : q # r => [req EXCEPT ![r] = s][q] = req[q]
  BY <1>1
<1>4. req[Assets].at = "pending" => desk.at = "assets"
  BY <1>1 DEF DeskFollows, Session
<1>5. ASSUME r \in Request, Asks(r)  PROVE Typed' /\ (Running' => Session')
  <2>1. r # Assets /\ UNCHANGED <<generation, starting, stop, lost, faults>>
    BY <1>5, TransportAssumption DEF Asks
  <2>2. ASSUME Writable, req' = [req EXCEPT ![r] = Sent], UNCHANGED <<link, desk>>
        PROVE  Typed' /\ (Running' => Session')
    <3>1. /\ req' \in [Request \cup {Assets} -> Pending] /\ req'[r] = Sent
          /\ \A q \in Request \cup {Assets} : q # r => req'[q] = req[q]
      BY <1>2, <1>3, <2>2
    <3> QED  BY <1>1, <1>2, <1>4, <2>1, <2>2, <3>1, GoesOn
  <2>3. ASSUME req' = [req EXCEPT ![r] = Settled], NotRunning(desk)
        PROVE  Typed' /\ (Running' => Session')
    <3>1. /\ req' \in [Request \cup {Assets} -> Pending] /\ req'[r] = Settled
          /\ \A q \in Request \cup {Assets} : q # r => req'[q] = req[q]
      BY <1>2, <1>3, <2>3
    <3>2. /\ link'.child = link.child /\ link'.open = link.open /\ link'.failed = link.failed
          /\ link'.expected = link.expected /\ link'.state = link.state
          /\ desk' \in Desk /\ desk'.at = desk.at /\ desk'.quit = desk.quit
      BY <1>1, <2>3, NotRunningFacts
    <3> QED  BY <1>1, <1>2, <1>4, <2>1, <3>1, <3>2, GoesOn
  <2> QED  BY <1>5, <2>2, <2>3 DEF Asks
<1>6. ASSUME Answers(r) \/ TimesOut(r)  PROVE Typed' /\ (Running' => Session')
  <2>1. /\ req' = [req EXCEPT ![r] = Settled] /\ req[r].at = "pending"
        /\ UNCHANGED <<generation, link, starting, stop, lost, faults>>
    BY <1>6 DEF Answers, TimesOut
  <2>2. /\ req' \in [Request \cup {Assets} -> Pending] /\ req'[r] = Settled
        /\ \A q \in Request \cup {Assets} : q # r => req'[q] = req[q]
    BY <1>2, <1>3, <2>1
  <2>3. /\ desk' \in Desk /\ desk'.quit \in {desk.quit, "gone"}
        /\ r # Assets => desk' = desk
        /\ desk'.quit # "gone" => \/ desk'.at = desk.at
                                  \/ r = Assets /\ desk'.at \in {"loading", "idle", "failing"}
    <3>1. ASSUME Answers(r)
          PROVE  /\ desk' \in Desk /\ desk'.quit = desk.quit
                 /\ r # Assets => desk' = desk
                 /\ r = Assets => desk'.at \in {"loading", "idle"}
      <4>1. desk' = IF r # Assets THEN desk
                    ELSE IF desk.booted THEN [desk EXCEPT !.at = "loading"]
                    ELSE [desk EXCEPT !.booted = TRUE, !.at = "idle", !.document = generation]
        BY <3>1 DEF Answers
      <4>2. LET d == [desk EXCEPT !.at = "loading"]
            IN d \in Desk /\ d.quit = desk.quit /\ d.at = "loading"
        BY <1>1 DEF Desk
      <4>3. LET d == [desk EXCEPT !.booted = TRUE, !.at = "idle", !.document = generation]
            IN d \in Desk /\ d.quit = desk.quit /\ d.at = "idle"
        BY <1>1 DEF Desk, ChildInv
      <4> QED  BY <1>1, <4>1, <4>2, <4>3
    <3>2. ASSUME TimesOut(r)
          PROVE  desk' = IF r = Assets THEN Gives(desk) ELSE desk
      BY <3>2 DEF TimesOut
    <3> QED  BY <1>1, <1>6, <3>1, <3>2, GivesFacts
  <2>4. r = Assets => desk.at # "starting"
    BY <1>4, <2>1
  <2> QED  BY <1>1, <1>2, <1>4, <2>1, <2>2, <2>3, <2>4, GoesOn
<1> QED  BY <1>5, <1>6

\* The recovery goes on where it waits for neither a start nor a stop.
LEMMA RecoveryKeeps ==
  ASSUME SessionInv, Running,
         \/ Fetches \/ Loads \/ LoadFails \/ Drains \/ ServiceLost
         \/ Reloads \/ Forgets \/ Quits
  PROVE  Typed' /\ (Running' => Session')
<1>1. /\ Typed /\ ChildInv /\ Session /\ link \in Link /\ desk \in Desk
      /\ lost \in BOOLEAN /\ faults \in Nat /\ req \in [Request \cup {Assets} -> Pending]
  BY DEF SessionInv, ChildInv, Typed
<1>2. /\ req[Assets].at = "pending" => desk.at = "assets"
      /\ UNCHANGED <<generation, starting, stop, lost>> /\ faults' \in Nat
  BY <1>1 DEF DeskFollows, Session, Fetches, Loads, LoadFails, Drains, ServiceLost, Reloads,
              Forgets, Quits, Fault
<1>3. ASSUME Fetches  PROVE Typed' /\ (Running' => Session')
  <2>1. desk.at = "fetch"
    BY <1>3 DEF Fetches
  <2>2. ASSUME Writable, req' = [req EXCEPT ![Assets] = Sent],
               desk' = [desk EXCEPT !.at = "assets"], UNCHANGED link
        PROVE  Typed' /\ (Running' => Session')
    <3>1. Sent \in Pending /\ Sent.gen = generation /\ Sent.late = (stop # "no")
      BY <1>1 DEF Sent, Pending, ChildInv
    <3>2. /\ req' \in [Request \cup {Assets} -> Pending] /\ req'[Assets] = Sent
          /\ \A q \in Request \cup {Assets} : q # Assets => req'[q] = req[q]
      BY <1>1, <2>2, <3>1
    <3>3. desk' \in Desk /\ desk'.at = "assets" /\ desk'.quit = desk.quit
      BY <1>1, <2>2 DEF Desk
    <3> QED  BY <1>1, <1>2, <2>1, <2>2, <3>1, <3>2, <3>3, GoesOn
  <2>3. ASSUME NotRunning(Gives(desk)), UNCHANGED req
        PROVE  Typed' /\ (Running' => Session')
    <3>1. /\ Gives(desk) \in Desk /\ Gives(desk).quit \in {desk.quit, "gone"}
          /\ Gives(desk).quit # "gone" => Gives(desk).at = "failing"
      BY <1>1, GivesFacts
    <3>2. /\ link'.child = link.child /\ link'.open = link.open /\ link'.failed = link.failed
          /\ link'.expected = link.expected /\ link'.state = link.state
          /\ desk' \in Desk /\ desk'.at = Gives(desk).at /\ desk'.quit = Gives(desk).quit
      BY <1>1, <2>3, <3>1, NotRunningFacts
    <3> QED  BY <1>1, <1>2, <2>1, <2>3, <3>1, <3>2, GoesOn
  <2> QED  BY <1>3, <2>2, <2>3 DEF Fetches
<1>4. ASSUME NEW at \in {"drained", "failing"}, desk' = [desk EXCEPT !.at = at],
             desk.at \in {"loading", "failing"}, UNCHANGED <<link, req>>
      PROVE  Typed' /\ (Running' => Session')
  <2>1. desk' \in Desk /\ desk'.at = at /\ desk'.quit = desk.quit
    BY <1>1, <1>4 DEF Desk
  <2> QED  BY <1>1, <1>2, <1>4, <2>1, GoesOn
<1>5. ASSUME Loads  PROVE Typed' /\ (Running' => Session')
  <2> DEFINE document == IF link.state = "connected" THEN generation ELSE desk.document
  <2>1. /\ desk' = [desk EXCEPT !.at = "drained", !.document = document]
        /\ desk.at \in {"loading", "failing"} /\ UNCHANGED <<link, req>>
    BY <1>5 DEF Loads
  <2>2. document \in Nat
    BY <1>1 DEF Desk, ChildInv
  <2> HIDE DEF document
  <2>3. desk' \in Desk /\ desk'.at = "drained" /\ desk'.quit = desk.quit
    BY <1>1, <2>1, <2>2 DEF Desk
  <2> QED  BY <1>1, <1>2, <2>1, <2>3, GoesOn
<1>6. ASSUME LoadFails  PROVE Typed' /\ (Running' => Session')
  <2>1. /\ desk' = [desk EXCEPT !.at = IF desk.at = "loading" THEN "failing" ELSE "drained"]
        /\ desk.at \in {"loading", "failing"} /\ UNCHANGED <<link, req>>
    BY <1>6 DEF LoadFails
  <2> QED  BY <1>4, <2>1
<1>7. ASSUME NEW d \in Desk, d.quit = desk.quit, UNCHANGED <<link, req>>,
             d.at = desk.at \/ (desk.at = "drained" /\ d.at = "idle"),
             \/ desk' = d \/ desk' = Recover(d) \/ desk' = PolicyRound(d) \/ desk' = Returned(d)
      PROVE  Typed' /\ (Running' => Session')
  <2>1. /\ desk' \in Desk /\ desk'.quit = desk.quit
        /\ desk'.at \in {d.at, IF d.at = "idle" THEN "restart" ELSE d.at}
    BY <1>7, RecoverFacts, PolicyRoundFacts, ReturnedFacts
  <2> QED  BY <1>1, <1>2, <1>7, <2>1, GoesOn
<1>8. ASSUME Drains  PROVE Typed' /\ (Running' => Session')
  <2>1. /\ desk.at = "drained" /\ UNCHANGED <<link, req>>
        /\ \/ desk' = [desk EXCEPT !.again = FALSE, !.at = "restart"]
           \/ desk' = Returned([desk EXCEPT !.at = "idle"])
    BY <1>8 DEF Drains
  <2>2. ASSUME desk' = [desk EXCEPT !.again = FALSE, !.at = "restart"]
        PROVE  desk' \in Desk /\ desk'.at = "restart" /\ desk'.quit = desk.quit
    BY <1>1, <2>2 DEF Desk
  <2>3. LET d == [desk EXCEPT !.at = "idle"]
        IN d \in Desk /\ d.at = "idle" /\ d.quit = desk.quit
    BY <1>1 DEF Desk
  <2>4. ASSUME desk' = [desk EXCEPT !.again = FALSE, !.at = "restart"]
        PROVE  Typed' /\ (Running' => Session')
    BY <1>1, <1>2, <2>1, <2>2, <2>4, GoesOn
  <2>5. ASSUME desk' = Returned([desk EXCEPT !.at = "idle"])
        PROVE  Typed' /\ (Running' => Session')
    BY <1>7, <2>1, <2>3, <2>5
  <2> QED  BY <2>1, <2>4, <2>5
<1>9. ASSUME ServiceLost  PROVE Typed' /\ (Running' => Session')
  <2>1. LET d == [desk EXCEPT !.report = FALSE]
        IN /\ d \in Desk /\ d.at = desk.at /\ d.quit = desk.quit
           /\ desk' = d \/ desk' = PolicyRound(d)
    BY <1>1, <1>9 DEF ServiceLost, Desk
  <2>2. UNCHANGED <<link, req>>
    BY <1>9 DEF ServiceLost
  <2> QED  BY <1>7, <2>1, <2>2
<1>10. ASSUME Reloads  PROVE Typed' /\ (Running' => Session')
  <2>1. desk' = Recover(desk) /\ UNCHANGED <<link, req>>
    BY <1>10 DEF Reloads
  <2> QED  BY <1>1, <1>7, <2>1
<1>11. ASSUME Forgets  PROVE Typed' /\ (Running' => Session')
  <2>1. desk.restarts - 1 \in Nat
    BY <1>1, <1>11, DeskFields DEF Forgets
  <2>2. desk' = [desk EXCEPT !.restarts = desk.restarts - 1] /\ UNCHANGED <<link, req>>
    BY <1>11 DEF Forgets
  <2>3. desk' \in Desk /\ desk'.at = desk.at /\ desk'.quit = desk.quit
    BY <1>1, <2>1, <2>2 DEF Desk
  <2> QED  BY <1>7, <2>2, <2>3
<1>12. ASSUME Quits  PROVE Typed' /\ (Running' => Session')
  <2>1. desk' = [desk EXCEPT !.quit = "quitting"] /\ desk.quit = "no" /\ UNCHANGED <<link, req>>
    BY <1>12 DEF Quits
  <2>2. desk' \in Desk /\ desk'.at = desk.at /\ desk'.quit = "quitting"
    BY <1>1, <2>1 DEF Desk
  <2> QED  BY <1>1, <1>2, <2>1, <2>2, GoesOn
<1> QED  BY <1>3, <1>5, <1>6, <1>8, <1>9, <1>10, <1>11, <1>12

\* The session begins with the start of the application.
LEMMA SessionInit ==
  ASSUME Init
  PROVE  SessionInv
<1>1. /\ starting = "handshake" /\ stop = "no" /\ lost = FALSE /\ faults = 0
      /\ desk.at = "starting" /\ ~link.failed /\ link.child = 1 /\ ~link.expected
      /\ link.state = "stopped"
  BY DEF Init
<1>2. desk \in Desk
  BY DEF Init, Desk
<1>3. /\ req \in [Request \cup {Assets} -> Pending]
      /\ \A r \in Request \cup {Assets} : req[r].at = "new"
  BY DEF Init, Pending
<1>4. Typed
  BY <1>1, <1>2, <1>3 DEF Typed, Starts
<1>5. Session
  BY <1>1, <1>3 DEF Session, DeskFollows, StartFollows, StopEnds, StatusOK, AskedOK
<1> QED  BY <1>4, <1>5, ChildInvInit DEF SessionInv

\* Every step keeps what the session relies on.
LEMMA SessionNext ==
  ASSUME SessionInv, [Next]_vars
  PROVE  SessionInv'
<1>1. ChildInv'
  BY ChildInvNext DEF SessionInv
<1>2. ASSUME UNCHANGED transportVars  PROVE Typed' /\ (Running' => Session')
  BY <1>2 DEF transportVars, SessionInv, Typed, Running, Session, DeskFollows, StartFollows,
              StopEnds, StatusOK, AskedOK, Quitting, Writable
<1>3. ASSUME Next, ~UNCHANGED transportVars  PROVE Running
  BY <1>3 DEF Next, Continues, HandshakeEnds, Restarts, StopReturns, StartCalls, Reaped, Catches,
    StartReturns, Fetches, Drains, ServiceLost, HandshakeFails, HandshakeAnswered, Asks, Answers,
    TimesOut, ConnectionFails, Exits, StopReplied, StopTimesOut, ReapTimesOut, Loads, LoadFails,
    Reloads, Forgets, Quits, WillQuit, Greets, Events, Outside
<1>4. ASSUME Running, ConnectionFails  PROVE Typed' /\ (Running' => Session')
  <2>1. Typed /\ faults' \in Nat
    BY <1>4 DEF ConnectionFails, Fault, SessionInv, Typed
  <2>2. Unstarted \in Starts /\ FailConnection(link.child, Unstarted)
    BY <1>4, <2>1 DEF Unstarted, Typed, Starts, ConnectionFails
  <2> QED  BY <1>4, <2>1, <2>2, FailConnectionKeeps
<1>5. ASSUME Running, NEW r \in Request \cup {Assets},
             (r \in Request /\ Asks(r)) \/ Answers(r) \/ TimesOut(r)
      PROVE  Typed' /\ (Running' => Session')
  BY <1>5, RequestKeeps
<1>6. ASSUME Running, Continues \/ HandshakeEnds  PROVE Typed' /\ (Running' => Session')
  BY <1>6, AskStopKeeps, StopStepKeeps, StartStepKeeps, HandshakeKeeps, RecoveryKeeps
  DEF Continues, HandshakeEnds
<1>7. ASSUME Running, Exits \/ StopReplied \/ StopTimesOut \/ ReapTimesOut \/ WillQuit
      PROVE  Typed' /\ (Running' => Session')
  BY <1>7, ExitsKeeps, StopStepKeeps, StartStepKeeps, AskStopKeeps
<1>8. ASSUME Running, Loads \/ LoadFails \/ Reloads \/ Forgets \/ Quits
      PROVE  Typed' /\ (Running' => Session')
  BY <1>8, RecoveryKeeps
<1>9. ASSUME Greets \/ Events  PROVE Typed' /\ (Running' => Session')
  BY <1>2, <1>9 DEF Greets, Events
<1>10. Typed' /\ (Running' => Session')
  BY <1>2, <1>3, <1>4, <1>5, <1>6, <1>7, <1>8, <1>9 DEF Next, vars
<1> QED  BY <1>1, <1>10 DEF SessionInv

(***************************************************************************)
(* The document and the buffer of its child.                               *)
(***************************************************************************)
\* The document was loaded in this session or one before it, and what it does not
\* know of its session is underway.
Documented == /\ desk.document <= generation
              /\ desk.document = generation => Underway

\* A new child comes with an empty buffer.
LEMMA SpawnsFresh ==
  ASSUME NEW d, Spawns(d), d.document = desk.document
  PROVE  Fresh /\ generation' = generation + 1 /\ desk'.document = desk.document
BY DEF Spawns, Fresh

\* What a step does to the buffer, the session and the document.
LEMMA DocumentStep ==
  ASSUME SessionInv, [Next]_vars
  PROVE  \/ /\ BufferStep \/ UNCHANGED eventVars
            /\ generation' = generation /\ desk'.document = desk.document
         \/ /\ Reads /\ known' = latest
            /\ generation' = generation /\ desk'.document = generation
         \/ Fresh /\ generation' = generation + 1 /\ desk'.document = desk.document
<1>1. desk \in Desk /\ link \in Link
  BY DEF SessionInv, Typed, ChildInv
<1> DEFINE Stays == generation' = generation /\ desk'.document = desk.document
           Still == UNCHANGED eventVars /\ Stays
<1>2. \A at : LET d == [desk EXCEPT !.at = at] IN d.document = desk.document
  BY <1>1 DEF Desk
<1>3. ASSUME Fetches  PROVE Still
  <2>1. UNCHANGED <<generation, eventVars>>
        /\ (desk' = [desk EXCEPT !.at = "assets"] \/ NotRunning(Gives(desk)))
    BY <1>3 DEF Fetches
  <2>2. ASSUME NotRunning(Gives(desk))  PROVE desk'.document = desk.document
    BY <1>1, <2>2, GivesFacts, NotRunningFacts
  <2> QED  BY <1>2, <2>1, <2>2
<1>4. ASSUME NEW child, NEW s, FailConnection(child, s)  PROVE desk'.document = desk.document
  <2>1. AssetsLost(desk) \in Desk /\ AssetsLost(desk).document = desk.document
    BY <1>1, AssetsLostFacts
  <2>2. desk' = [AssetsLost(desk) EXCEPT !.report = AssetsLost(desk).report \/ Crashes]
    BY <1>4 DEF FailConnection
  <2> QED  BY <2>1, <2>2 DEF Desk
<1>5. ASSUME NEW s, NEW d \in Desk, StopSession(s, d), d.document = desk.document
      PROVE  desk'.document = desk.document
  BY <1>5, AssetsLostFacts DEF StopSession
<1>6. ASSUME Restarts \/ Catches \/ WillQuit  PROVE Still
  <2>1. UNCHANGED <<generation, eventVars>>
    BY <1>6 DEF Restarts, Catches, WillQuit
  <2>2. LET d == [desk EXCEPT !.at = "stopping"]
        IN d \in Desk /\ d.document = desk.document
    BY <1>1 DEF Desk
  <2>3. LET d == [desk EXCEPT !.quit = "stopping", !.closing = TRUE]
        IN d \in Desk /\ d.document = desk.document
    BY <1>1 DEF Desk
  <2>4. ASSUME Restarts  PROVE desk'.document = desk.document
    BY <1>1, <1>5, <2>2, <2>4, GivesFacts DEF Restarts
  <2>5. ASSUME Catches  PROVE desk'.document = desk.document
    BY <1>1, <1>5, <2>5 DEF Catches
  <2>6. ASSUME WillQuit  PROVE desk'.document = desk.document
    BY <1>5, <2>3, <2>6 DEF WillQuit
  <2> QED  BY <1>6, <2>1, <2>4, <2>5, <2>6
<1>7. ASSUME StopReturns  PROVE Still
  BY <1>1, <1>7 DEF StopReturns, Desk
<1>8. ASSUME StartCalls  PROVE Still \/ (Fresh /\ generation' = generation + 1
                                          /\ desk'.document = desk.document)
  <2>1. ASSUME desk' = Gives(desk), UNCHANGED <<generation, eventVars>>  PROVE Still
    BY <1>1, <2>1, GivesFacts
  <2>2. LET d == [desk EXCEPT !.at = "starting"]
        IN d.document = desk.document
    BY <1>2
  <2> QED  BY <1>8, <2>1, <2>2, SpawnsFresh DEF StartCalls, StartOnce
<1>9. ASSUME Reaped  PROVE Fresh /\ generation' = generation + 1 /\ desk'.document = desk.document
  BY <1>9, SpawnsFresh DEF Reaped
<1>10. ASSUME StartReturns  PROVE Still
  <2> DEFINE d == [desk EXCEPT !.recovery = IF Connects /\ @ = "failed" THEN "idle" ELSE @]
  <2>1. d \in Desk /\ d.document = desk.document
    BY <1>1 DEF Desk
  <2>2. desk' = IF starting = "resolved" THEN [d EXCEPT !.at = "fetch"] ELSE Gives(d)
    BY <1>10 DEF StartReturns
  <2> HIDE DEF d
  <2>3. [d EXCEPT !.at = "fetch"].document = d.document
    BY <2>1 DEF Desk
  <2>4. UNCHANGED <<generation, eventVars>>
    BY <1>10 DEF StartReturns
  <2> QED  BY <2>1, <2>2, <2>3, <2>4, GivesFacts
<1>11. ASSUME NEW d \in Desk, d.document = desk.document, UNCHANGED <<generation, eventVars>>,
              \/ desk' = d \/ desk' = Recover(d) \/ desk' = PolicyRound(d) \/ desk' = Returned(d)
       PROVE  Still
  BY <1>11, RecoverFacts, PolicyRoundFacts, ReturnedFacts
<1>12. ASSUME Drains  PROVE Still
  <2>1. UNCHANGED <<generation, eventVars>>
    BY <1>12 DEF Drains
  <2>2. LET d == [desk EXCEPT !.again = FALSE, !.at = "restart"]
        IN d \in Desk /\ d.document = desk.document
    BY <1>1 DEF Desk
  <2>3. LET d == [desk EXCEPT !.at = "idle"]
        IN d \in Desk /\ d.document = desk.document
    BY <1>1 DEF Desk
  <2> QED  BY <1>11, <1>12, <2>1, <2>2, <2>3 DEF Drains
<1>13. ASSUME ServiceLost \/ Reloads  PROVE Still
  <2>1. UNCHANGED <<generation, eventVars>>
    BY <1>13 DEF ServiceLost, Reloads
  <2>2. LET d == [desk EXCEPT !.report = FALSE]
        IN d \in Desk /\ d.document = desk.document
    BY <1>1 DEF Desk
  <2> QED  BY <1>1, <1>11, <1>13, <2>1, <2>2 DEF ServiceLost, Reloads
<1>14. ASSUME Forgets \/ Quits \/ LoadFails  PROVE Still
  BY <1>1, <1>14 DEF Forgets, Quits, LoadFails, Desk
<1>15. ASSUME HandshakeFails \/ StopReplied \/ StopTimesOut \/ ReapTimesOut  PROVE Still
  BY <1>15 DEF HandshakeFails, StopReplied, StopTimesOut, ReapTimesOut
<1>16. ASSUME HandshakeAnswered  PROVE BufferStep /\ Stays
  <2>1. BufferStep /\ generation' = generation
    BY <1>16 DEF HandshakeAnswered, BufferStep, StartPump
  <2> QED  BY <1>4, <1>16, <2>1 DEF HandshakeAnswered
<1>17. ASSUME ConnectionFails  PROVE Still
  BY <1>4, <1>17 DEF ConnectionFails
<1>18. ASSUME Exits  PROVE BufferStep /\ Stays
  <2>1. BufferStep /\ generation' = generation
    BY <1>18 DEF Exits, BufferStep
  <2> QED  BY <1>4, <1>18, <2>1 DEF Exits, ExitOf
<1>19. ASSUME NEW r \in Request, Asks(r)  PROVE Still
  BY <1>1, <1>19, NotRunningFacts DEF Asks
<1>20. ASSUME NEW r \in Request \cup {Assets}, TimesOut(r)  PROVE Still
  BY <1>1, <1>20, GivesFacts DEF TimesOut
<1>21. ASSUME NEW r \in Request \cup {Assets}, Answers(r)
       PROVE  \/ BufferStep /\ Stays
              \/ Reads /\ known' = latest /\ generation' = generation /\ desk'.document = generation
  <2>1. Reads /\ generation' = generation
    BY <1>21 DEF Answers, Reads
  <2>2. ASSUME r = Assets, ~desk.booted  PROVE desk'.document = generation /\ known' = latest
    <3>1. desk' = [desk EXCEPT !.booted = TRUE, !.at = "idle", !.document = generation]
      BY <1>21, <2>2 DEF Answers
    <3> QED  BY <1>1, <1>21, <2>2, <3>1 DEF Answers, Desk
  <2>3. ASSUME r # Assets \/ desk.booted  PROVE desk'.document = desk.document
    <3>1. desk' = desk \/ desk' = [desk EXCEPT !.at = "loading"]
      BY <1>21, <2>3 DEF Answers
    <3> QED  BY <1>2, <3>1
  <2> QED  BY <2>1, <2>2, <2>3 DEF BufferStep
<1>22. ASSUME Loads
       PROVE  \/ BufferStep /\ Stays
              \/ Reads /\ known' = latest /\ generation' = generation /\ desk'.document = generation
  <2>1. Reads /\ generation' = generation
    BY <1>22 DEF Loads, Reads
  <2>2. CASE link.state = "connected"
    <3>1. desk' = [desk EXCEPT !.at = "drained", !.document = generation] /\ known' = latest
      BY <1>22, <2>2 DEF Loads
    <3>2. desk'.document = generation
      BY <1>1, <3>1 DEF Desk
    <3> QED  BY <2>1, <3>1, <3>2
  <2>3. CASE link.state # "connected"
    <3>1. desk' = [desk EXCEPT !.at = "drained", !.document = desk.document]
      BY <1>22, <2>3 DEF Loads
    <3>2. desk'.document = desk.document
      BY <1>1, <3>1 DEF Desk
    <3> QED  BY <2>1, <3>2 DEF BufferStep
  <2> QED  BY <2>2, <2>3
<1>23. ASSUME Greets \/ Events  PROVE BufferStep /\ Stays
  BY <1>23 DEF Greets, Events, transportVars, BufferStep
<1>24. ASSUME UNCHANGED vars  PROVE Still
  BY <1>24 DEF vars, transportVars
<1> HIDE DEF Still, Stays
<1>25. ASSUME Continues
       PROVE  Still \/ (Fresh /\ generation' = generation + 1 /\ desk'.document = desk.document)
  BY <1>3, <1>6, <1>7, <1>8, <1>9, <1>10, <1>12, <1>13, <1>25 DEF Continues
<1> DEFINE Anew == Reads /\ known' = latest /\ generation' = generation
                     /\ desk'.document = generation
<1>26. ASSUME NEW r \in Request \cup {Assets},
              (r \in Request /\ Asks(r)) \/ Answers(r) \/ TimesOut(r)
       PROVE  Still \/ (BufferStep /\ Stays) \/ Anew
  BY <1>19, <1>20, <1>21, <1>26
<1>27. ASSUME \/ HandshakeEnds \/ ConnectionFails \/ Exits \/ StopReplied \/ StopTimesOut
              \/ ReapTimesOut \/ Loads \/ LoadFails \/ Reloads \/ Forgets \/ Quits \/ WillQuit
              \/ Greets \/ Events
       PROVE  Still \/ (BufferStep /\ Stays) \/ Anew
  BY <1>6, <1>13, <1>14, <1>15, <1>16, <1>17, <1>18, <1>22, <1>23, <1>27 DEF HandshakeEnds
<1> HIDE DEF Anew
<1>28. \/ Still \/ (BufferStep /\ Stays) \/ Anew
       \/ Fresh /\ generation' = generation + 1 /\ desk'.document = desk.document
  BY <1>24, <1>25, <1>26, <1>27 DEF Next
<1> QED  BY <1>28 DEF Still, Stays, Anew

\* The buffer's part of a step that leaves it alone.
LEMMA BufferStands ==
  ASSUME Buffer, UNCHANGED eventVars
  PROVE  Buffer' /\ (Underway => Underway')
BY DEF eventVars, Buffer, EventTypeOK, HandOK, OneEach, UpToDate, Numbered, Front, Underway

TransportInv == SessionInv /\ Buffer /\ Documented

\* The inductive invariant of the transport holds at first.
LEMMA TransportInit ==
  ASSUME Init
  PROVE  TransportInv
<1>1. SessionInv /\ Buffer
  BY SessionInit, BufferInit DEF Init
<1>2. desk.document = 0 /\ generation = 1
  BY DEF Init
<1> QED  BY <1>1, <1>2 DEF TransportInv, Documented

\* Every step keeps the inductive invariant of the transport.
LEMMA TransportNext ==
  ASSUME TransportInv, [Next]_vars
  PROVE  TransportInv'
<1>1. /\ SessionInv /\ Buffer /\ SessionInv' /\ desk.document <= generation
      /\ generation \in Nat /\ desk.document \in Nat
      /\ desk.document = generation => Underway
  BY SessionNext DEF TransportInv, Documented, SessionInv, ChildInv, Typed, Desk
<1>2. ASSUME BufferStep \/ UNCHANGED eventVars, generation' = generation,
             desk'.document = desk.document
      PROVE  Buffer' /\ Documented'
  <2>1. Buffer' /\ (Underway => Underway')
    BY <1>1, <1>2, BufferStepKeeps, BufferStands
  <2> QED  BY <1>1, <1>2, <2>1 DEF Documented
<1>3. ASSUME Reads, known' = latest, generation' = generation, desk'.document = generation
      PROVE  Buffer' /\ Documented'
  <2>1. Buffer'
    BY <1>1, <1>3, BufferStepKeeps DEF BufferStep
  <2>2. Underway'
    BY <1>3 DEF Underway, Reads
  <2> QED  BY <1>1, <1>3, <2>1, <2>2 DEF Documented
<1>4. ASSUME Fresh, generation' = generation + 1, desk'.document = desk.document
      PROVE  Buffer' /\ Documented'
  <2>1. Buffer'
    BY <1>1, <1>4, FreshKeeps
  <2> QED  BY <1>1, <1>4, <2>1 DEF Documented
<1>5. Buffer' /\ Documented'
  BY <1>1, <1>2, <1>3, <1>4, DocumentStep
<1> QED  BY <1>1, <1>5 DEF TransportInv

-------------------------------------------------------------------------------
\* The inductive invariant holds in every state of the application.
THEOREM TransportInvAlways == Spec => []TransportInv
<1>1. Init => TransportInv
  BY TransportInit
<1>2. TransportInv /\ [Next]_vars => TransportInv'
  BY TransportNext
<1> QED  BY <1>1, <1>2, PTL DEF Spec

\* The records of the main process and the buffer of the service keep their types: the
\* buffer holds no more events than MAX_QUEUED_EVENTS.
THEOREM TransportTypeCorrect == Spec => [](TransportTypeOK /\ EventTypeOK)
<1>1. TransportInv => TransportTypeOK /\ EventTypeOK
  <2> SUFFICES ASSUME TransportInv  PROVE TransportTypeOK /\ EventTypeOK
    OBVIOUS
  <2>1. ChildInv /\ Typed /\ EventTypeOK
    BY DEF TransportInv, SessionInv, Buffer
  <2>2. alive \subseteq 1 .. generation
    BY <2>1 DEF ChildInv
  <2> QED  BY <2>1, <2>2 DEF TransportTypeOK, ChildInv, Typed, Starts
<1> QED  BY <1>1, TransportInvAlways, PTL

\* Two services never run at the same time, however start, restart, stop and the
\* exit of a child meet (sidecar.ts).
THEOREM OneServiceAlways == Spec => []OneService
<1>1. TransportInv => OneService
  <2>1. Cardinality({}) = 0 /\ Cardinality({link.child}) = 1
    BY FS_EmptySet, FS_Singleton
  <2>2. TransportInv => (alive = {} \/ alive = {link.child})
    BY DEF TransportInv, SessionInv, ChildInv
  <2>3. TransportInv => Cardinality(alive) \in {0, 1}
    BY <2>1, <2>2
  <2> QED  BY <2>3 DEF OneService
<1> QED  BY <1>1, TransportInvAlways, PTL

\* The status says connected only while the child of the session runs, and what waits for
\* an answer waits for that child, whatever ends a session (failConnection, stopSession).
THEOREM SessionIsLiveAlways == Spec => []SessionIsLive
<1>1. TransportInv => SessionIsLive
  <2> SUFFICES ASSUME TransportInv, Running  PROVE SessionIsLive
    BY DEF SessionIsLive
  <2>1. /\ ChildInv /\ StatusOK /\ AskedOK /\ DOMAIN req = Request \cup {Assets}
    BY DEF TransportInv, SessionInv, Typed, Session
  <2>2. link.child # 0 => link.child = generation /\ link.child \in alive
    BY <2>1 DEF ChildInv
  <2> QED  BY <2>1, <2>2 DEF SessionIsLive, StatusOK, AskedOK
<1> QED  BY <1>1, TransportInvAlways, PTL

\* The client sees a gap in the numbers only where events were lost, for a buffer of any
\* size and any order of publishing, coalescing and sending (publish, consumeFrame).
THEOREM ContiguousAlways == Spec => []Contiguous
<1>1. TransportInv => Contiguous
  BY NumbersFollow DEF TransportInv
<1> QED  BY <1>1, TransportInvAlways, PTL

\* No change is lost silently in the session the document was loaded in, whatever
\* overflow, coalescing, a smaller budget and a reload do (_EventBuffer, consumeFrame).
THEOREM ReloadedIsCoveredAlways == Spec => []ReloadedIsCovered
<1>1. TransportInv => ReloadedIsCovered
  BY UnderwayIsCovered DEF TransportInv, Documented, ReloadedIsCovered
<1> QED  BY <1>1, TransportInvAlways, PTL
===============================================================================
