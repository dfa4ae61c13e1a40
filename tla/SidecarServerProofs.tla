-------------------------- MODULE SidecarServerProofs --------------------------
(***************************************************************************)
(* Theorems about SidecarServer, for any number of requests, frames and    *)
(* events: no request frame is answered twice, a task keeps its slot while *)
(* it runs, and the limit of pending requests is kept.                     *)
(*                                                                         *)
(* AnsweredOnce bounds the responses by the request frames, which says     *)
(* nothing of those that are still to come.  The inductive invariant       *)
(* counts them too: a task owes a response until it has written it, and    *)
(* the loop owes the one it is about to write.                             *)
(***************************************************************************)
EXTENDS SidecarServer, FiniteSetTheorems, TLAPS

USE ServerAssumption

\* The responses to r that may still be written.
TaskOwes(r) == IF task[r].pc \in {"absent", "drain"} THEN 0 ELSE 1
LoopOwes(r) == IF loop.pc = "wait" /\ loop.to = r THEN 1 ELSE 0

TaskRow == [pc : {"absent", "created", "handling", "hung", "wait", "drain"}, cancel : BOOLEAN,
            says : {"result", "error", "cancelled", None}]

LoopRow == [pc : {"reading", "wait", "drain", "leaving", "joining", "closing", "closed"},
            to : Request \cup {None}, next : {"reading", "greeted", "leaving"}]

Counts == /\ task \in [Request -> TaskRow] /\ loop \in LoopRow
          /\ asked \in [Request -> Nat] /\ answered \in [Request -> Nat]

\* What is answered and what is owed was asked for.
Owed == \A r \in Request : answered[r] + TaskOwes(r) + LoopOwes(r) <= asked[r]

\* A task that runs has its slot until the shutdown has waited for it.
Slots == \A r \in Request : Live(r) => r \in pending \/ loop.pc \in {"closing", "closed"}

\* The slots are those of requests, and no more than there are.
Limit == /\ pending \subseteq Request /\ IsFiniteSet(pending)
         /\ Cardinality(pending) <= MaxPending

ServerInv == Counts /\ Owed /\ Slots /\ Limit

\* Fewer slots are within the limit too.
LEMMA LimitKept ==
  ASSUME Limit, pending' \subseteq pending
  PROVE  Limit'
<1>1. IsFiniteSet(pending') /\ Cardinality(pending') <= Cardinality(pending)
  BY FS_Subset DEF Limit
<1>2. Cardinality(pending') \in Nat /\ Cardinality(pending) \in Nat
  BY <1>1, FS_CardinalityType DEF Limit
<1> QED  BY <1>1, <1>2 DEF Limit

\* A step that neither asks nor writes: a task may only come to owe less.
LEMMA NothingWritten ==
  ASSUME ServerInv, UNCHANGED <<asked, answered>>,
         task' \in [Request -> TaskRow], loop' \in LoopRow,
         \A r \in Request : \/ task'[r].pc = task[r].pc
                            \/ task'[r].pc = "absent"
                            \/ task'[r].pc # "absent" /\ TaskOwes(r) = 1,
         loop'.pc = "wait" => loop'.to = None \/ (loop.pc = "wait" /\ loop'.to = loop.to),
         pending' \subseteq pending,
         \A r \in pending \ pending' : task'[r].pc = "absent" \/ loop'.pc = "closing",
         loop.pc \in {"closing", "closed"} => loop'.pc \in {"closing", "closed"}
  PROVE  ServerInv'
<1>1. Counts'
  BY DEF ServerInv, Counts
<1>2. ASSUME NEW r \in Request
      PROVE  /\ TaskOwes(r)' <= TaskOwes(r) /\ TaskOwes(r)' \in {0, 1} /\ TaskOwes(r) \in {0, 1}
             /\ LoopOwes(r)' <= LoopOwes(r) /\ LoopOwes(r)' \in {0, 1} /\ LoopOwes(r) \in {0, 1}
  BY DEF TaskOwes, LoopOwes
<1>3. Owed'
  BY <1>1, <1>2 DEF ServerInv, Owed, Counts
<1>4. Slots'
  BY DEF ServerInv, Slots, Live, TaskOwes
<1>5. Limit'
  BY LimitKept DEF ServerInv
<1> QED  BY <1>1, <1>3, <1>4, <1>5 DEF ServerInv

\* The rows, and what a task that is created, goes on, is cancelled or ends looks like.
LEMMA RowFacts ==
  ASSUME Counts, NEW r \in Request
  PROVE  /\ task[r] \in TaskRow /\ NoTask \in TaskRow /\ NoTask.pc = "absent"
         /\ [NoTask EXCEPT !.pc = "created"] \in TaskRow
         /\ [NoTask EXCEPT !.pc = "created"].pc = "created"
         /\ [task[r] EXCEPT !.cancel = TRUE] \in TaskRow
         /\ [task[r] EXCEPT !.cancel = TRUE].pc = task[r].pc
         /\ [task[r] EXCEPT !.pc = "drain"] \in TaskRow
         /\ [task[r] EXCEPT !.pc = "drain"].pc = "drain"
<1>1. task[r] \in TaskRow
  BY DEF Counts
<1>2. /\ NoTask \in TaskRow /\ NoTask.pc = "absent"
      /\ [NoTask EXCEPT !.pc = "created"] \in TaskRow
      /\ [NoTask EXCEPT !.pc = "created"].pc = "created"
  BY DEF NoTask, TaskRow
<1>3. /\ [task[r] EXCEPT !.cancel = TRUE] \in TaskRow
      /\ [task[r] EXCEPT !.cancel = TRUE].pc = task[r].pc
  BY <1>1 DEF TaskRow
<1>4. /\ [task[r] EXCEPT !.pc = "drain"] \in TaskRow
      /\ [task[r] EXCEPT !.pc = "drain"].pc = "drain"
  BY <1>1 DEF TaskRow
<1> QED  BY <1>1, <1>2, <1>3, <1>4

\* cancel() changes no pc.
LEMMA CancelFacts ==
  ASSUME Counts, NEW rs, CancelTasks(rs)
  PROVE  /\ task' \in [Request -> TaskRow]
         /\ \A r \in Request : task'[r].pc = task[r].pc
<1>1. ASSUME NEW r \in Request
      PROVE  task'[r] \in TaskRow /\ task'[r].pc = task[r].pc
  <2>1. task'[r] = task[r] \/ task'[r] = [task[r] EXCEPT !.cancel = TRUE]
    BY DEF CancelTasks
  <2> QED  BY <2>1, RowFacts
<1>2. task' = [r \in Request |-> task'[r]]
  BY DEF CancelTasks
<1> QED  BY <1>1, <1>2

\* The loop after a frame or a write.
LEMMA LoopFacts ==
  ASSUME Counts
  PROVE  /\ \A to \in {"reading", "leaving", "joining", "closing", "closed", "drain"} :
              [loop EXCEPT !.pc = to] \in LoopRow /\ [loop EXCEPT !.pc = to].pc = to
         /\ \A r \in Request \cup {None} : \A next \in {"reading", "greeted", "leaving"} :
              [pc |-> "wait", to |-> r, next |-> next] \in LoopRow
         /\ \A to \in {"reading", "leaving", "joining", "closing", "closed", "drain"} :
              [loop EXCEPT !.pc = to].to = loop.to
<1>1. loop \in LoopRow
  BY DEF Counts
<1> QED  BY <1>1 DEF LoopRow

\* A step of the loop that writes nothing and creates no task.
LEMMA LoopGoesOn ==
  ASSUME ServerInv, UNCHANGED <<asked, answered, pending, task>>, loop' \in LoopRow,
         loop'.pc = "wait" => loop'.to = None,
         loop.pc \in {"closing", "closed"} => loop'.pc \in {"closing", "closed"}
  PROVE  ServerInv'
<1>1. Counts
  BY DEF ServerInv
<1>2. task' \in [Request -> TaskRow]
  BY <1>1 DEF Counts
<1> QED  BY <1>2, NothingWritten

\* Frames the loop answers itself, the handshake, and the end of the input.
LEMMA ReadsKeep ==
  ASSUME ServerInv, ReadOther \/ ReadHandshake \/ ReadEof
  PROVE  ServerInv'
<1>1. Counts
  BY DEF ServerInv
<1>2. /\ loop.pc = "reading" /\ UNCHANGED <<asked, answered, pending, task>>
      /\ \/ Respond(None, "reading") \/ Respond(None, "leaving") \/ Respond(None, "greeted")
         \/ loop' = [loop EXCEPT !.pc = "leaving"]
  BY DEF ReadOther, ReadHandshake, ReadEof, Frame
<1>3. ASSUME NEW next \in {"reading", "greeted", "leaving"}, Respond(None, next)
      PROVE  ServerInv'
  <2>1. loop' \in LoopRow /\ loop'.to = None
    BY <1>1, <1>3, LoopFacts DEF Respond
  <2> QED  BY <1>2, <2>1, LoopGoesOn
<1>4. ASSUME loop' = [loop EXCEPT !.pc = "leaving"]
      PROVE  ServerInv'
  <2>1. loop' \in LoopRow /\ loop'.pc = "leaving"
    BY <1>1, <1>4, LoopFacts
  <2> QED  BY <1>2, <2>1, LoopGoesOn
<1> QED  BY <1>2, <1>3, <1>4

\* A request frame is answered by the loop, or gets a task.
LEMMA ReadRequestKeeps ==
  ASSUME ServerInv, NEW r \in Request, ReadRequest(r)
  PROVE  ServerInv'
<1>1. /\ Counts /\ Owed /\ Slots /\ Limit
      /\ loop.pc = "reading" /\ UNCHANGED answered
      /\ asked' = [asked EXCEPT ![r] = @ + 1]
  BY DEF ServerInv, ReadRequest, Frame
<1>2. /\ asked' \in [Request -> Nat] /\ answered \in [Request -> Nat] /\ asked \in [Request -> Nat]
      /\ \A q \in Request : asked'[q] = asked[q] + IF q = r THEN 1 ELSE 0
  BY <1>1 DEF Counts
<1>3. \A q \in Request : LoopOwes(q) = 0 /\ TaskOwes(q) \in {0, 1}
  BY <1>1 DEF LoopOwes, TaskOwes
<1>4. ASSUME Respond(r, "reading"), UNCHANGED <<pending, task>>
      PROVE  ServerInv'
  <2>1. loop' \in LoopRow /\ loop'.pc = "wait" /\ loop'.to = r
    BY <1>1, <1>4, LoopFacts DEF Respond
  <2>2. Counts'
    BY <1>1, <1>2, <1>4, <2>1 DEF Counts
  <2>3. \A q \in Request : /\ TaskOwes(q)' = TaskOwes(q)
                           /\ LoopOwes(q)' = IF q = r THEN 1 ELSE 0
    BY <1>4, <2>1 DEF TaskOwes, LoopOwes
  <2>4. Owed'
    BY <1>1, <1>2, <1>3, <2>3 DEF Owed
  <2>5. Slots' /\ Limit'
    BY <1>1, <1>4, <2>1 DEF Slots, Live, Limit
  <2> QED  BY <2>2, <2>4, <2>5 DEF ServerInv
<1>5. ASSUME ~Refused(r), task' = [task EXCEPT ![r] = [NoTask EXCEPT !.pc = "created"]],
             pending' = pending \cup {r}, UNCHANGED loop
      PROVE  ServerInv'
  <2>1. r \notin pending /\ ~Live(r)
    BY <1>1, <1>5 DEF Refused, Slots
  <2>2. /\ task' \in [Request -> TaskRow]
        /\ \A q \in Request : q # r => task'[q] = task[q]
        /\ task'[r].pc = "created"
    BY <1>1, <1>5, RowFacts DEF Counts
  <2>3. Counts'
    BY <1>1, <1>2, <1>5, <2>2 DEF Counts
  <2>4. \A q \in Request : /\ TaskOwes(q)' = TaskOwes(q) + IF q = r THEN 1 ELSE 0
                           /\ LoopOwes(q)' = 0
    BY <1>1, <1>5, <2>1, <2>2 DEF TaskOwes, LoopOwes, Live
  <2>5. Owed'
    BY <1>1, <1>2, <1>3, <2>4 DEF Owed
  <2>6. Slots'
    BY <1>1, <1>5, <2>2 DEF Slots, Live
  <2>7. Limit'
    <3>1. IsFiniteSet(pending') /\ Cardinality(pending') = Cardinality(pending) + 1
      BY <1>1, <1>5, <2>1, FS_AddElement DEF Limit
    <3>2. Cardinality(pending) \in Nat /\ ~(Cardinality(pending) >= MaxPending)
      BY <1>1, <1>5, FS_CardinalityType DEF Limit, Refused
    <3> QED  BY <1>1, <1>5, <3>1, <3>2 DEF Limit
  <2> QED  BY <2>3, <2>5, <2>6, <2>7 DEF ServerInv
<1> QED  BY <1>4, <1>5 DEF ReadRequest

\* A cancel frame asks a task to stop and answers nothing.
LEMMA ReadCancelKeeps ==
  ASSUME ServerInv, NEW r \in Request, ReadCancel(r)
  PROVE  ServerInv'
<1>1. Counts /\ loop.pc = "reading" /\ UNCHANGED <<asked, answered, pending>>
  BY DEF ServerInv, ReadCancel, Frame
<1>2. PICK rs : CancelTasks(rs)
  BY DEF ReadCancel
<1>3. task' \in [Request -> TaskRow] /\ \A q \in Request : task'[q].pc = task[q].pc
  BY <1>1, <1>2, CancelFacts
<1>4. loop' \in LoopRow /\ loop'.pc # "wait"
  BY <1>1, LoopFacts DEF ReadCancel, Continue
<1> QED  BY <1>1, <1>3, <1>4, NothingWritten

\* A response is written: by the loop, or by a task.
LEMMA WriteKeeps ==
  ASSUME ServerInv, NEW r, UNCHANGED <<asked, pending>>, Written(r),
         task' \in [Request -> TaskRow], loop' \in LoopRow,
         \A q \in Request : TaskOwes(q)' + LoopOwes(q)' + (IF q = r THEN 1 ELSE 0)
                              <= TaskOwes(q) + LoopOwes(q),
         \A q \in Request : Live(q)' => Live(q),
         loop.pc \in {"closing", "closed"} => loop'.pc \in {"closing", "closed"}
  PROVE  ServerInv'
<1>1. Counts /\ Owed /\ Slots /\ Limit
  BY DEF ServerInv
<1>2. /\ answered \in [Request -> Nat] /\ asked \in [Request -> Nat]
      /\ answered' \in [Request -> Nat]
      /\ \A q \in Request : answered'[q] = answered[q] + IF q = r THEN 1 ELSE 0
  BY <1>1 DEF Counts, Written
<1>3. Counts'
  BY <1>1, <1>2 DEF Counts
<1>4. \A q \in Request : /\ TaskOwes(q) \in {0, 1} /\ LoopOwes(q) \in {0, 1}
                         /\ TaskOwes(q)' \in {0, 1} /\ LoopOwes(q)' \in {0, 1}
  BY DEF TaskOwes, LoopOwes
<1>5. Owed'
  BY <1>1, <1>2, <1>4 DEF Owed
<1>6. Slots' /\ Limit'
  BY <1>1 DEF Slots, Limit
<1> QED  BY <1>3, <1>5, <1>6 DEF ServerInv

\* The response of the loop leaves its hands when it is written.
LEMMA LoopWritesKeeps ==
  ASSUME ServerInv, LoopWrites
  PROVE  ServerInv'
<1>1. /\ Counts /\ loop.pc = "wait" /\ UNCHANGED <<asked, pending, task>> /\ Written(loop.to)
      /\ loop' = [loop EXCEPT !.pc = "drain"]
  BY DEF ServerInv, LoopWrites
<1>2. loop' \in LoopRow /\ loop'.pc = "drain" /\ task' \in [Request -> TaskRow]
  BY <1>1, LoopFacts DEF Counts
<1>3. \A q \in Request : /\ TaskOwes(q)' = TaskOwes(q) /\ TaskOwes(q) \in {0, 1}
                         /\ LoopOwes(q)' = 0
                         /\ LoopOwes(q) = IF q = loop.to THEN 1 ELSE 0
  BY <1>1, <1>2 DEF TaskOwes, LoopOwes
<1>4. \A q \in Request : Live(q)' => Live(q)
  BY <1>1 DEF Live
<1> QED  BY <1>1, <1>2, <1>3, <1>4, WriteKeeps

\* After a write the loop reads on, greets or leaves, or the write fails.
LEMMA LoopEndsWrite ==
  ASSUME ServerInv, LoopDrained \/ LoopWriteFails
  PROVE  ServerInv'
<1>1. /\ Counts /\ loop.pc \in {"wait", "drain"} /\ UNCHANGED <<asked, answered, pending, task>>
      /\ \/ loop' = [loop EXCEPT !.pc = "leaving"] \/ loop' = [loop EXCEPT !.pc = "reading"]
         \/ Respond(None, "leaving")
  BY DEF ServerInv, LoopDrained, LoopWriteFails, Continue
<1>2. ASSUME loop' = [loop EXCEPT !.pc = "leaving"]
      PROVE  loop' \in LoopRow /\ loop'.pc = "leaving"
  BY <1>1, <1>2, LoopFacts
<1>3. ASSUME loop' = [loop EXCEPT !.pc = "reading"]
      PROVE  loop' \in LoopRow /\ loop'.pc = "reading"
  BY <1>1, <1>3, LoopFacts
<1>4. ASSUME loop' = [pc |-> "wait", to |-> None, next |-> "leaving"]
      PROVE  loop' \in LoopRow /\ loop'.to = None
  BY <1>1, <1>4, LoopFacts
<1>5. loop' \in LoopRow /\ (loop'.pc = "wait" => loop'.to = None)
  BY <1>1, <1>2, <1>3, <1>4 DEF Respond
<1> QED  BY <1>1, <1>5, LoopGoesOn

\* A task goes on, or ends and frees its slot.
LEMMA TaskGoesOn ==
  ASSUME ServerInv, NEW r \in Request, UNCHANGED <<asked, answered, pending, loop>>,
         NEW row \in TaskRow, task' = [task EXCEPT ![r] = row],
         row.pc = "absent" \/ TaskOwes(r) = 1
  PROVE  ServerInv'
<1>1. Counts
  BY DEF ServerInv
<1>2. /\ task' \in [Request -> TaskRow] /\ loop' \in LoopRow
      /\ \A q \in Request : task'[q] = IF q = r THEN row ELSE task[q]
  BY <1>1 DEF Counts
<1> QED  BY <1>2, NothingWritten

\* A task that is done takes its slot with it.
LEMMA FinishKeeps ==
  ASSUME ServerInv, NEW r \in Request, UNCHANGED <<asked, answered, loop>>, Finish(r)
  PROVE  ServerInv'
<1>1. Counts /\ task' = [task EXCEPT ![r] = NoTask] /\ pending' = pending \ {r}
  BY DEF ServerInv, Finish
<1>2. /\ task' \in [Request -> TaskRow] /\ loop' \in LoopRow
      /\ \A q \in Request : q # r => task'[q] = task[q]
      /\ task'[r].pc = "absent"
  BY <1>1, RowFacts DEF Counts
<1>3. \A q \in pending \ pending' : q = r
  BY <1>1
<1> QED  BY <1>1, <1>2, <1>3, NothingWritten

\* Each step of a task writes what it owes, at most once, or ends it.
LEMMA TaskStepKeeps ==
  ASSUME ServerInv, NEW r \in Request, TaskStep(r)
  PROVE  ServerInv'
<1>1. Counts
  BY DEF ServerInv
<1>2. ASSUME Begin(r)  PROVE ServerInv'
  <2>1. /\ UNCHANGED <<asked, answered, pending, loop>> /\ TaskOwes(r) = 1
        /\ \/ task' = [task EXCEPT ![r] = [pc |-> "handling", cancel |-> FALSE, says |-> None]]
           \/ task' = [task EXCEPT ![r] = NoTask]
    BY <1>2 DEF Begin, Goto, At, TaskOwes
  <2>2. [pc |-> "handling", cancel |-> FALSE, says |-> None] \in TaskRow /\ NoTask \in TaskRow
    BY DEF TaskRow, NoTask
  <2> QED  BY <2>1, <2>2, TaskGoesOn
<1>3. ASSUME Handled(r)  PROVE ServerInv'
  <2>1. /\ UNCHANGED <<asked, answered, pending, loop>> /\ TaskOwes(r) = 1
        /\ \E pc \in {"wait", "hung"} : \E says \in {"result", "error", "cancelled", None} :
             task' = [task EXCEPT ![r] = [pc |-> pc, cancel |-> FALSE, says |-> says]]
    BY <1>3 DEF Handled, Goto, At, TaskOwes
  <2>2. \A pc \in {"wait", "hung"} : \A says \in {"result", "error", "cancelled", None} :
             [pc |-> pc, cancel |-> FALSE, says |-> says] \in TaskRow
    BY DEF TaskRow
  <2> QED  BY <2>1, <2>2, TaskGoesOn
<1>4. ASSUME Disconnected(r)  PROVE ServerInv'
  BY <1>4, FinishKeeps DEF Disconnected
<1>5. ASSUME Writes(r)  PROVE ServerInv'
  <2>1. /\ task[r].pc = "wait" /\ Written(r) /\ UNCHANGED <<asked, pending, loop>>
        /\ task' = [task EXCEPT ![r].pc = "drain"]
    BY <1>5 DEF Writes, At
  <2>2. /\ task' \in [Request -> TaskRow] /\ loop' \in LoopRow
        /\ \A q \in Request : q # r => task'[q] = task[q]
        /\ task'[r].pc = "drain"
    BY <1>1, <2>1, RowFacts DEF Counts
  <2>3. \A q \in Request : /\ LoopOwes(q)' = LoopOwes(q) /\ LoopOwes(q) \in {0, 1}
                           /\ TaskOwes(q) \in {0, 1}
                           /\ TaskOwes(q) = TaskOwes(q)' + IF q = r THEN 1 ELSE 0
                           /\ TaskOwes(q)' \in {0, 1}
                           /\ Live(q)' => Live(q)
    BY <2>1, <2>2 DEF TaskOwes, LoopOwes, Live
  <2> QED  BY <2>1, <2>2, <2>3, WriteKeeps
<1>6. ASSUME WriteDrained(r)  PROVE ServerInv'
  BY <1>6, FinishKeeps DEF WriteDrained
<1>7. ASSUME WriteFails(r)  PROVE ServerInv'
  BY <1>7, FinishKeeps DEF WriteFails
<1>8. ASSUME WriteInterrupted(r)  PROVE ServerInv'
  BY <1>8, FinishKeeps DEF WriteInterrupted
<1> QED  BY <1>2, <1>3, <1>4, <1>5, <1>6, <1>7, <1>8 DEF TaskStep

\* The shutdown cancels, waits, and closes.
LEMMA ShutdownKeeps ==
  ASSUME ServerInv, CancelPending \/ Join \/ CloseAll
  PROVE  ServerInv'
<1>1. Counts
  BY DEF ServerInv
<1>2. ASSUME CancelPending \/ Join  PROVE ServerInv'
  <2>1. /\ UNCHANGED <<asked, answered>> /\ CancelTasks(pending) /\ pending' \subseteq pending
        /\ \/ loop.pc = "leaving" /\ pending' = pending /\ loop' = [loop EXCEPT !.pc = "joining"]
           \/ loop.pc = "joining" /\ loop' = [loop EXCEPT !.pc = "closing"]
    BY <1>2 DEF CancelPending, Join
  <2>2. task' \in [Request -> TaskRow] /\ \A r \in Request : task'[r].pc = task[r].pc
    BY <1>1, <2>1, CancelFacts
  <2>3. /\ loop' \in LoopRow /\ loop'.pc # "wait" /\ loop.pc \notin {"closing", "closed"}
        /\ pending' # pending => loop'.pc = "closing"
    BY <1>1, <2>1, LoopFacts
  <2> QED  BY <2>1, <2>2, <2>3, NothingWritten
<1>3. ASSUME CloseAll  PROVE ServerInv'
  <2>1. /\ UNCHANGED <<asked, answered, pending, task>> /\ loop' = [loop EXCEPT !.pc = "closed"]
    BY <1>3 DEF CloseAll
  <2>2. loop' \in LoopRow /\ loop'.pc = "closed"
    BY <1>1, <2>1, LoopFacts
  <2> QED  BY <2>1, <2>2, LoopGoesOn
<1> QED  BY <1>2, <1>3

\* The pump and the publishers touch neither tasks nor counters.
LEMMA ServerStands ==
  ASSUME ServerInv, UNCHANGED <<loop, pending, task, asked, answered>>
  PROVE  ServerInv'
BY DEF ServerInv, Counts, Owed, Slots, Limit, TaskOwes, LoopOwes, Live

\* Nothing is asked or owed before the first frame.
LEMMA ServerInvInit ==
  ASSUME ServerInit
  PROVE  ServerInv
<1>1. /\ loop = [pc |-> "reading", to |-> None, next |-> "reading"] /\ pending = {}
      /\ task = [r \in Request |-> NoTask] /\ asked = [r \in Request |-> 0]
      /\ answered = [r \in Request |-> 0]
  BY DEF ServerInit
<1>2. NoTask \in TaskRow /\ NoTask.pc = "absent"
  BY DEF NoTask, TaskRow
<1>3. Counts
  BY <1>1, <1>2 DEF Counts, LoopRow
<1>4. Owed /\ Slots
  BY <1>1, <1>2 DEF Owed, TaskOwes, LoopOwes, Slots, Live
<1>5. Limit
  BY <1>1, FS_EmptySet DEF Limit
<1> QED  BY <1>3, <1>4, <1>5 DEF ServerInv

\* Every step of the server keeps the inductive invariant.
LEMMA ServerInvNext ==
  ASSUME ServerInv, [ServerNext]_vars
  PROVE  ServerInv'
<1>1. ASSUME ReadOther \/ ReadHandshake \/ ReadEof  PROVE ServerInv'
  BY <1>1, ReadsKeep
<1>2. ASSUME NEW r \in Request, ReadRequest(r)  PROVE ServerInv'
  BY <1>2, ReadRequestKeeps
<1>3. ASSUME NEW r \in Request, ReadCancel(r)  PROVE ServerInv'
  BY <1>3, ReadCancelKeeps
<1>4. ASSUME NEW r \in Request, TaskStep(r)  PROVE ServerInv'
  BY <1>4, TaskStepKeeps
<1>5. ASSUME LoopStep  PROVE ServerInv'
  BY <1>5, LoopWritesKeeps, LoopEndsWrite, ShutdownKeeps DEF LoopStep
<1>6. ASSUME PumpStep \/ Changes \/ UNCHANGED vars  PROVE ServerInv'
  <2>1. UNCHANGED <<loop, pending, task, asked, answered>>
    BY <1>6 DEF PumpStep, PumpTakes, PumpWrites, PumpDrained, PumpFails, Changes, vars, serverVars
  <2> QED  BY <2>1, ServerStands
<1> QED  BY <1>1, <1>2, <1>3, <1>4, <1>5, <1>6 DEF ServerNext

\* The inductive invariant holds in every state of the server.
THEOREM ServerInvAlways == ServerSpec => []ServerInv
<1>1. ServerInit => ServerInv
  BY ServerInvInit
<1>2. ServerInv /\ [ServerNext]_vars => ServerInv'
  BY ServerInvNext
<1> QED  BY <1>1, <1>2, PTL DEF ServerSpec

\* No request frame is answered twice and a task keeps its slot while it runs, however
\* cancellations, writers that block and shutdown race (_serve, _cancel, _shutdown).
THEOREM AnsweredOnceAlways == ServerSpec => []AnsweredOnce
<1>1. ServerInv => AnsweredOnce
  <2> SUFFICES ASSUME ServerInv, NEW r \in Request
               PROVE  /\ answered[r] <= asked[r]
                      /\ Live(r) => r \in pending \/ loop.pc \in {"closing", "closed"}
    BY DEF AnsweredOnce
  <2>1. answered[r] \in Nat /\ asked[r] \in Nat
    BY DEF ServerInv, Counts
  <2>2. TaskOwes(r) \in {0, 1} /\ LoopOwes(r) \in {0, 1}
    BY DEF TaskOwes, LoopOwes
  <2> QED  BY <2>1, <2>2 DEF ServerInv, Owed, Slots
<1> QED  BY <1>1, ServerInvAlways, PTL

\* No more requests are served than MAX_PENDING_REQUESTS, whatever a client sends.
THEOREM PendingIsLimited == ServerSpec => [](Cardinality(pending) <= MaxPending)
<1>1. ServerInv => Cardinality(pending) <= MaxPending
  BY DEF ServerInv, Limit
<1> QED  BY <1>1, ServerInvAlways, PTL
===============================================================================
