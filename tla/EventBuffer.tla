------------------------------ MODULE EventBuffer ------------------------------
(***************************************************************************)
(* How the desktop window learns of changes: the bounded event buffer of   *)
(* the sidecar (_EventBuffer in tongs/desktop/protocol/server.py), the     *)
(* task that pumps it into the connection, and the part of the client that *)
(* reads events (consumeFrame in desktop/src/main/sidecar.ts).             *)
(*                                                                         *)
(* What an event says is a version of the thing its replaceable key names. *)
(* A client that is told to resynchronise reads everything anew.           *)
(*                                                                         *)
(* SidecarServer and SidecarTransport put the service and the client       *)
(* around these actions.                                                   *)
(***************************************************************************)
EXTENDS Naturals, Sequences

CONSTANTS Key,          \* replaceable keys: a resource, a plugin event, a focus
          Resync,       \* the key of protocol.resync_required
          Notice,       \* stands for events without a key
          None,
          MaxQueued,    \* MAX_QUEUED_EVENTS
          MaxVersion,   \* bound on the changes of one key
          MaxSequence   \* bound on the events

\* What is in the buffer: its number, its key, and the version of what the key names.
Event == [seq : 1 .. MaxSequence, key : Key \cup {Resync, Notice}, version : 0 .. MaxVersion]

ASSUME EventAssumption == /\ Resync \notin Key /\ Notice \notin Key \cup {Resync}
                          /\ MaxQueued \in Nat \ {0}
                          /\ MaxVersion \in Nat /\ MaxSequence \in Nat
                          /\ None \notin Event

VARIABLES queue,      \* events not yet taken by the pump
          sequence,   \* the number given out last
          closed,
          pump,       \* what the pump task does
          hand,       \* the event it has taken, or None
          latest,     \* the version each key has got to
          known,      \* the version the client knows
          last        \* lastEventSequence of the client

eventVars == <<queue, sequence, closed, pump, hand, latest, known, last>>

EventInit == /\ queue = <<>>
             /\ sequence = 0
             /\ closed = FALSE
             /\ pump = "none"
             /\ hand = None
             /\ latest = [k \in Key |-> 0]
             /\ known = [k \in Key |-> 0]
             /\ last = 0

-------------------------------------------------------------------------------
Queued(s, k, v) == [seq |-> s, key |-> k, version |-> v]

\* Mutant of Resynced: the event that does not fit is dropped.
Dropped(s) == /\ queue' = queue
              /\ sequence' = s

\* _replace_with_resync, after s numbers have been given out
Resynced(s) == /\ queue' = <<Queued(s + 1, Resync, 0)>>
               /\ sequence' = s + 1

\* Mutant of Replaced: the replacement takes a number of its own.
ReplacedAsNew(i, v) ==
  /\ queue' = [queue EXCEPT ![i].version = v, ![i].seq = sequence + 1]
  /\ sequence' = sequence + 1

\* A queued event gets newer data and keeps its place and its number.
Replaced(i, v) == /\ queue' = [queue EXCEPT ![i].version = v]
                  /\ sequence' = sequence

\* An event that replaces nothing: appended, or the buffer is full or the event
\* too large for a frame.
Appended(k, v, fits) ==
  \/ /\ fits /\ Len(queue) < MaxQueued
     /\ queue' = Append(queue, Queued(sequence + 1, k, v))
     /\ sequence' = sequence + 1
  \/ /\ ~fits \/ Len(queue) >= MaxQueued
     /\ Resynced(sequence + 1)

QueuedAt(k) == {i \in DOMAIN queue : queue[i].key = k}

Publish(k, fits) ==
  /\ ~closed
  /\ latest[k] < MaxVersion /\ sequence + 2 <= MaxSequence
  /\ latest' = [latest EXCEPT ![k] = @ + 1]
  /\ \/ QueuedAt(k) = {} /\ Appended(k, latest'[k], fits)
     \/ \E i \in QueuedAt(k) : IF fits THEN Replaced(i, latest'[k]) ELSE Resynced(sequence)
  /\ UNCHANGED <<closed, pump, hand, known, last>>

\* A plugin's notification.
PublishNotice(fits) ==
  /\ ~closed
  /\ sequence + 2 <= MaxSequence
  /\ Appended(Notice, 0, fits)
  /\ UNCHANGED <<closed, pump, hand, latest, known, last>>

\* The handshake has negotiated a smaller budget, which some queued event
\* exceeds or none.
SetLimits == /\ pump = "none" /\ ~closed
             /\ pump' = "ready"
             /\ \/ UNCHANGED <<queue, sequence>>
                \/ queue # <<>> /\ sequence < MaxSequence /\ Resynced(sequence)
             /\ UNCHANGED <<closed, hand, latest, known, last>>

\* The answer to the handshake is out.
StartPump == /\ pump = "ready"
             /\ pump' = "idle"
             /\ UNCHANGED <<queue, sequence, closed, hand, latest, known, last>>

\* The pump takes the next event, or ends with the buffer.
Take == /\ pump = "idle"
        /\ queue # <<>>
        /\ hand' = Head(queue)
        /\ queue' = Tail(queue)
        /\ pump' = "sending"
        /\ UNCHANGED <<sequence, closed, latest, known, last>>

\* The frame is written.  A number that is not the next one tells the client of
\* a loss, except in front of the first event.  (Nothing that was queued exceeds
\* the budget here: it changes only before the pump starts.)
Deliver ==
  /\ pump = "sending"
  /\ known' = IF hand.key = Resync \/ (last # 0 /\ hand.seq # last + 1)
              THEN latest
              ELSE [k \in Key |-> IF k = hand.key THEN hand.version ELSE known[k]]
  /\ last' = hand.seq
  /\ hand' = None
  /\ pump' = "draining"
  /\ UNCHANGED <<queue, sequence, closed, latest>>

Drained == /\ pump = "draining"
           /\ pump' = "idle"
           /\ UNCHANGED <<queue, sequence, closed, hand, latest, known, last>>

\* The write fails: waiting for the writer or for the client took too long, or
\* the connection broke.
PumpEnds == /\ pump \in {"sending", "draining"}
            /\ pump' = "ended"
            /\ hand' = None
            /\ UNCHANGED <<queue, sequence, closed, latest, known, last>>

\* Shutdown closes the buffer and cancels the pump.
Close == /\ ~closed
         /\ closed' = TRUE
         /\ queue' = <<>>
         /\ pump' = "ended"
         /\ hand' = None
         /\ UNCHANGED <<sequence, latest, known, last>>

-------------------------------------------------------------------------------
EventTypeOK == /\ queue \in Seq(Event) /\ Len(queue) <= MaxQueued
               /\ sequence \in 0 .. MaxSequence
               /\ closed \in BOOLEAN
               /\ pump \in {"none", "ready", "idle", "sending", "draining", "ended"}
               /\ hand \in Event \cup {None}
               /\ latest \in [Key -> 0 .. MaxVersion]
               /\ known \in [Key -> 0 .. MaxVersion]
               /\ last \in 0 .. MaxSequence

\* What the pump has still to send, in order.
Outgoing == IF hand = None THEN queue ELSE <<hand>> \o queue

\* No change is lost silently: as long as the pump lives, whatever the client
\* does not know is on its way, or a marker is that makes it read all anew.
\* Overflow, coalescing and a smaller budget are what could lose one.
Covered ==
  \A k \in Key : \/ known[k] = latest[k]
                 \/ closed \/ pump = "ended"
                 \/ \E i \in DOMAIN Outgoing :
                      \/ Outgoing[i].key = Resync
                      \/ Outgoing[i].key = k /\ Outgoing[i].version = latest[k]

\* The client sees a gap only where events were lost: the numbers on their way
\* are consecutive and continue those it has seen, unless a marker comes first.
Contiguous ==
  pump # "ended" =>
    \A i \in DOMAIN Outgoing :
      \/ Outgoing[i].key = Resync
      \/ Outgoing[i].seq = 1 + (IF i = 1 THEN last ELSE Outgoing[i - 1].seq)
===============================================================================
