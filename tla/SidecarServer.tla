----------------------------- MODULE SidecarServer -----------------------------
(***************************************************************************)
(* The desktop sidecar (tongs/desktop/protocol/server.py): one task reads  *)
(* the client's frames, every accepted request gets a task of its own, and *)
(* they share the connection with the event pump under the writer lock.    *)
(*                                                                         *)
(* The client may send any frame at any time.  A cancellation is requested *)
(* at one point and delivered where the task next runs, which is how       *)
(* asyncio does it: a task that has not started then ends without running  *)
(* a line of its body.                                                     *)
(***************************************************************************)
EXTENDS EventBuffer, FiniteSets

CONSTANTS Request,      \* request ids
          Mutation,     \* those that name a mutation
          MaxPending,   \* MAX_PENDING_REQUESTS
          MaxFrames     \* bound on the frames after the handshake

ASSUME ServerAssumption == /\ Mutation \subseteq Request /\ None \notin Request
                           /\ MaxPending \in Nat \ {0} /\ MaxFrames \in Nat

VARIABLES loop,       \* what run() does: reads frames, writes a response, closes
          handshaken,
          stopping,   \* _stopping
          pending,    \* the keys of _pending
          task,       \* the task of a request
          writer,     \* who holds the writer lock, or None
          asked,      \* request frames of an id read so far
          answered,   \* responses to an id written so far
          cancelled,  \* ids with a cancel frame for a pending request
          lost,       \* ids with a response that could not be written
          frames      \* frames read so far, but for the handshake

serverVars == <<loop, handshaken, stopping, pending, task, writer,
                asked, answered, cancelled, lost, frames>>

vars == <<eventVars, serverVars>>

\* pc: where the task is; cancel: cancel() was called and is not delivered;
\* says: what it answers ("result" once response_started is set).
NoTask == [pc |-> "absent", cancel |-> FALSE, says |-> None]

Live(r) == task[r].pc # "absent"

\* Holders of the writer lock besides requests.
Loop == "loop"
Pump == "pump"

ServerInit == /\ EventInit
              /\ loop = [pc |-> "reading", to |-> None, next |-> "reading"]
              /\ handshaken = FALSE /\ stopping = FALSE
              /\ pending = {} /\ cancelled = {} /\ lost = {}
              /\ task = [r \in Request |-> NoTask]
              /\ writer = None
              /\ asked = [r \in Request |-> 0]
              /\ answered = [r \in Request |-> 0]
              /\ frames = 0

-------------------------------------------------------------------------------
(***************************************************************************)
(* The loop of run(): one frame after the other.  It looks at _stopping    *)
(* only between two frames.                                                *)
(***************************************************************************)

Frame == /\ loop.pc = "reading"
         /\ frames < MaxFrames
         /\ frames' = frames + 1

\* The loop writes a response to an id (None: to none or to another method).
Respond(r, next) == loop' = [pc |-> "wait", to |-> r, next |-> next]

Continue == loop' = [loop EXCEPT !.pc = IF stopping THEN "leaving" ELSE "reading"]

\* A frame that cannot be decoded, an early one, a bad shutdown, the shutdown.
ReadOther ==
  /\ Frame
  /\ Respond(None, "reading") \/ Respond(None, "leaving")
  /\ UNCHANGED <<eventVars, handshaken, stopping, pending, task, writer,
                 asked, answered, cancelled, lost>>

\* A handshake is refused, fails (and the server stops), or succeeds.
ReadHandshake ==
  /\ loop.pc = "reading"
  /\ ~handshaken
  /\ \/ /\ Respond(None, "greeted")
        /\ handshaken' = TRUE
        /\ SetLimits
     \/ /\ Respond(None, "leaving")
        /\ UNCHANGED <<eventVars, handshaken>>
  /\ UNCHANGED <<stopping, pending, task, writer, asked, answered, cancelled, lost,
                 frames>>

Refused(r) == stopping \/ r \in pending \/ Cardinality(pending) >= MaxPending

\* _schedule; an unknown method is refused as well.
ReadRequest(r) ==
  /\ Frame
  /\ asked' = [asked EXCEPT ![r] = @ + 1]
  /\ \/ Respond(r, "reading") /\ UNCHANGED <<pending, task, cancelled>>
     \/ /\ handshaken /\ ~Refused(r)
        /\ task' = [task EXCEPT ![r] = [NoTask EXCEPT !.pc = "created"]]
        /\ pending' = pending \cup {r}
        /\ cancelled' = cancelled \ {r}
        /\ UNCHANGED loop
  /\ UNCHANGED <<eventVars, handshaken, stopping, writer, answered, lost>>

\* task.cancel(): nothing if the task has ended.
CancelTasks(rs) ==
  task' = [r \in Request |-> IF r \in rs /\ Live(r)
                             THEN [task[r] EXCEPT !.cancel = TRUE] ELSE task[r]]

\* _cancel: a mutation, or a response that is being written, is not interrupted.
ReadCancel(r) ==
  /\ Frame
  /\ cancelled' = cancelled \cup ({r} \cap pending)
  /\ CancelTasks(IF r \in pending \ Mutation /\ task[r].says # "result" THEN {r} ELSE {})
  /\ Continue
  /\ UNCHANGED <<eventVars, handshaken, stopping, pending, writer, asked, answered, lost>>

\* The client is gone.
ReadEof ==
  /\ loop.pc = "reading"
  /\ loop' = [loop EXCEPT !.pc = "leaving"]
  /\ UNCHANGED <<eventVars, handshaken, stopping, pending, task, writer,
                 asked, answered, cancelled, lost, frames>>

Written(r) == answered' = [i \in Request |-> answered[i] + IF i = r THEN 1 ELSE 0]

LoopWrites ==
  /\ loop.pc = "wait"
  /\ writer = None
  /\ writer' = Loop
  /\ Written(loop.to)
  /\ loop' = [loop EXCEPT !.pc = "drain"]
  /\ UNCHANGED <<eventVars, handshaken, stopping, pending, task, asked, cancelled,
                 lost, frames>>

\* After a response: the next frame, the pump after a handshake, or shutdown.
LoopDrained ==
  /\ loop.pc = "drain"
  /\ writer' = None
  /\ IF loop.next = "leaving" THEN loop' = [loop EXCEPT !.pc = "leaving"] ELSE Continue
  /\ IF loop.next = "greeted" THEN StartPump ELSE UNCHANGED eventVars
  /\ UNCHANGED <<handshaken, stopping, pending, task, asked, answered, cancelled, lost,
                 frames>>

\* The lock or the client took too long, or the connection broke: the error ends
\* the loop, or the handshake reports it and stops.
LoopWriteFails ==
  /\ loop.pc = "drain" \/ (loop.pc = "wait" /\ writer # None)
  /\ writer' = IF writer = Loop THEN None ELSE writer
  /\ lost' = IF loop.pc = "wait" THEN lost \cup ({loop.to} \cap Request) ELSE lost
  /\ IF loop.next = "greeted" THEN Respond(None, "leaving")
                              ELSE loop' = [loop EXCEPT !.pc = "leaving"]
  /\ UNCHANGED <<eventVars, handshaken, stopping, pending, task, asked, answered,
                 cancelled, frames>>

-------------------------------------------------------------------------------
(***************************************************************************)
(* _serve: the task of a request.                                          *)
(***************************************************************************)

At(r, pc) == task[r].pc = pc

Goto(r, pc, says) == task' = [task EXCEPT ![r] = [pc |-> pc, cancel |-> FALSE, says |-> says]]

\* The end of the body: the finally clause frees the slot.
Finish(r) == /\ task' = [task EXCEPT ![r] = NoTask]
             /\ pending' = pending \ {r}
             /\ writer' = IF writer = r THEN None ELSE writer

\* The first step; a task cancelled before it never enters its body.
Begin(r) ==
  /\ At(r, "created")
  /\ \/ ~task[r].cancel /\ Goto(r, "handling", None)
     \/ task[r].cancel /\ task' = [task EXCEPT ![r] = NoTask]
  /\ UNCHANGED <<eventVars, loop, handshaken, stopping, pending, writer,
                 asked, answered, cancelled, lost, frames>>

\* The operation returns, raises, is cancelled, or is of those that neither end
\* nor heed a cancellation.
Handled(r) ==
  /\ At(r, "handling")
  /\ \/ Goto(r, "wait", "result") \/ Goto(r, "wait", "error") \/ Goto(r, "hung", None)
     \/ task[r].cancel /\ Goto(r, "wait", "cancelled")
  /\ UNCHANGED <<eventVars, loop, handshaken, stopping, pending, writer,
                 asked, answered, cancelled, lost, frames>>

\* The operation raises a ConnectionError, which is taken for one of this
\* connection: the server stops and says nothing.
Disconnected(r) ==
  /\ At(r, "handling")
  /\ Finish(r)
  /\ stopping' = TRUE
  /\ lost' = lost \cup {r}
  /\ UNCHANGED <<eventVars, loop, handshaken, asked, answered, cancelled, frames>>

Writes(r) ==
  /\ At(r, "wait") /\ ~task[r].cancel
  /\ writer = None
  /\ writer' = r
  /\ Written(r)
  /\ task' = [task EXCEPT ![r].pc = "drain"]
  /\ UNCHANGED <<eventVars, loop, handshaken, stopping, pending, asked, cancelled,
                 lost, frames>>

WriteDrained(r) ==
  /\ At(r, "drain") /\ ~task[r].cancel
  /\ Finish(r)
  /\ UNCHANGED <<eventVars, loop, handshaken, stopping, asked, answered, cancelled,
                 lost, frames>>

\* Mutant of WriteFails: the slot is freed on the way of a success only.
WriteFailsKeepsSlot(r) ==
  /\ At(r, "drain") \/ (At(r, "wait") /\ writer # None)
  /\ ~task[r].cancel
  /\ task' = [task EXCEPT ![r] = NoTask]
  /\ writer' = IF writer = r THEN None ELSE writer
  /\ lost' = IF At(r, "wait") THEN lost \cup {r} ELSE lost
  /\ stopping' = (stopping \/ task[r].says = "result")
  /\ UNCHANGED <<eventVars, loop, handshaken, pending, asked, answered, cancelled, frames>>

\* Only a result that cannot be written stops the server.
WriteFails(r) ==
  /\ At(r, "drain") \/ (At(r, "wait") /\ writer # None)
  /\ ~task[r].cancel
  /\ Finish(r)
  /\ lost' = IF At(r, "wait") THEN lost \cup {r} ELSE lost
  /\ stopping' = (stopping \/ task[r].says = "result")
  /\ UNCHANGED <<eventVars, loop, handshaken, asked, answered, cancelled, frames>>

\* Mutant of WriteInterrupted: answers although a response was started.
WriteAnswersTwice(r) ==
  /\ At(r, "wait") \/ At(r, "drain")
  /\ task[r].cancel
  /\ Goto(r, "wait", "cancelled")
  /\ writer' = IF writer = r THEN None ELSE writer
  /\ UNCHANGED <<eventVars, loop, handshaken, stopping, pending, asked, answered,
                 cancelled, lost, frames>>

\* A cancellation that reaches the task while it writes ends it at once, whether
\* or not the frame has left.
WriteInterrupted(r) ==
  /\ At(r, "wait") \/ At(r, "drain")
  /\ task[r].cancel
  /\ Finish(r)
  /\ lost' = IF At(r, "wait") THEN lost \cup {r} ELSE lost
  /\ UNCHANGED <<eventVars, loop, handshaken, stopping, asked, answered, cancelled, frames>>

-------------------------------------------------------------------------------
(***************************************************************************)
(* The event pump and the publishers, on the same connection.              *)
(***************************************************************************)

PumpTakes == Take /\ UNCHANGED serverVars

PumpWrites == /\ Deliver
              /\ writer = None /\ writer' = Pump
              /\ UNCHANGED <<loop, handshaken, stopping, pending, task, asked, answered,
                             cancelled, lost, frames>>

PumpDrained == /\ Drained
               /\ writer' = None
               /\ UNCHANGED <<loop, handshaken, stopping, pending, task, asked, answered,
                              cancelled, lost, frames>>

PumpFails == /\ PumpEnds
             /\ pump = "sending" => writer # None
             /\ writer' = IF writer = Pump THEN None ELSE writer
             /\ UNCHANGED <<loop, handshaken, stopping, pending, task, asked, answered,
                            cancelled, lost, frames>>

Changes == /\ \/ \E k \in Key, fits \in BOOLEAN : Publish(k, fits)
              \/ \E fits \in BOOLEAN : PublishNotice(fits)
           /\ UNCHANGED serverVars

-------------------------------------------------------------------------------
(***************************************************************************)
(* _shutdown: every wait in it has a timeout.                              *)
(***************************************************************************)

CancelPending ==
  /\ loop.pc = "leaving"
  /\ stopping' = TRUE
  /\ CancelTasks(pending)
  /\ loop' = [loop EXCEPT !.pc = "joining"]
  /\ UNCHANGED <<eventVars, handshaken, pending, writer, asked, answered, cancelled,
                 lost, frames>>

\* Mutant of Join: it waits for every task.
JoinAll ==
  /\ loop.pc = "joining"
  /\ \A r \in pending : ~Live(r)
  /\ pending' = {}
  /\ loop' = [loop EXCEPT !.pc = "closing"]
  /\ UNCHANGED <<eventVars, handshaken, stopping, task, writer, asked, answered, cancelled,
                 lost, frames>>

\* The tasks have ended, or the time is up and the rest is cancelled once more.
Join ==
  /\ loop.pc = "joining"
  /\ CancelTasks(pending)
  /\ pending' = {}
  /\ loop' = [loop EXCEPT !.pc = "closing"]
  /\ UNCHANGED <<eventVars, handshaken, stopping, writer, asked, answered, cancelled,
                 lost, frames>>

\* Plugins, session, exports and caches are closed; then the events and the pump.
CloseAll ==
  /\ loop.pc = "closing"
  /\ Close
  /\ writer' = IF writer = Pump THEN None ELSE writer
  /\ loop' = [loop EXCEPT !.pc = "closed"]
  /\ UNCHANGED <<handshaken, stopping, pending, task, asked, answered, cancelled,
                 lost, frames>>

-------------------------------------------------------------------------------
LoopStep == LoopWrites \/ LoopDrained \/ LoopWriteFails \/ CancelPending \/ Join \/ CloseAll

TaskStep(r) == \/ Begin(r) \/ Handled(r) \/ Disconnected(r) \/ Writes(r) \/ WriteDrained(r)
               \/ WriteFails(r) \/ WriteInterrupted(r)

PumpStep == PumpTakes \/ PumpWrites \/ PumpDrained \/ PumpFails

ServerNext ==
  \/ ReadOther \/ ReadHandshake \/ ReadEof
  \/ \E r \in Request : ReadRequest(r) \/ ReadCancel(r) \/ TaskStep(r)
  \/ LoopStep \/ PumpStep \/ Changes

\* The event loop runs every task that can run.  Nothing obliges the client to
\* send a frame or the session to change.
ServerSpec == /\ ServerInit /\ [][ServerNext]_vars
              /\ WF_vars(LoopStep) /\ WF_vars(PumpStep)
              /\ \A r \in Request : WF_vars(TaskStep(r))

-------------------------------------------------------------------------------
\* Tasks, slots and counters are well formed.
ServerTypeOK ==
  /\ EventTypeOK
  /\ loop \in [pc : {"reading", "wait", "drain", "leaving", "joining", "closing", "closed"},
               to : Request \cup {None}, next : {"reading", "greeted", "leaving"}]
  /\ handshaken \in BOOLEAN /\ stopping \in BOOLEAN
  /\ pending \subseteq Request /\ Cardinality(pending) <= MaxPending
  /\ task \in [Request -> [pc : {"absent", "created", "handling", "hung", "wait", "drain"},
                           cancel : BOOLEAN,
                           says : {"result", "error", "cancelled", None}]]
  /\ writer \in Request \cup {Loop, Pump, None}
  /\ cancelled \subseteq Request /\ lost \subseteq Request
  /\ frames \in 0 .. MaxFrames

\* However a cancellation, a shutdown and the writing of a response race, no
\* request frame is answered twice, and a task keeps its slot while it runs, so a
\* cancel frame, the limit and shutdown reach every task and its id is not reused.
AnsweredOnce ==
  \A r \in Request : /\ answered[r] <= asked[r]
                     /\ Live(r) => r \in pending \/ loop.pc \in {"closing", "closed"}

Leaving == loop.pc \in {"leaving", "joining", "closing", "closed"}

\* Every slot is freed: neither writers that block nor events that flood the
\* connection keep one for ever.  (Operations that never end do, and see
\* CancelIsAnswered.)
SlotsFreed ==
  \A r \in Request :
    r \in pending ~> (r \notin pending \/ At(r, "hung") \/ r \in cancelled)

\* Once the loop is left, shutdown comes to its end, whatever hangs.
Closes == Leaving ~> (loop.pc = "closed")

\* A cancelled read is answered and frees its slot.
CancelIsAnswered ==
  \A r \in Request \ Mutation :
    (r \in cancelled /\ r \in pending) ~>
      \/ r \notin pending /\ (answered[r] = asked[r] \/ r \in lost)
      \/ At(r, "hung") \/ Leaving

\* No silent stale window: after the handshake a change reaches the client, by
\* an event or by a marker, as long as the server goes on.
ChangesAreTold ==
  \A k \in Key :
    (handshaken /\ known[k] # latest[k]) ~> (known[k] = latest[k] \/ Leaving)
===============================================================================
