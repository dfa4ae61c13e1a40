------------------------- MODULE ReviewSubmissionProofs -------------------------
(***************************************************************************)
(* What the review submission service guarantees, for any number of calls, *)
(* processes, drafts and attempts, any store failure, cancellation and     *)
(* crash, and any answer of the forge.                                     *)
(***************************************************************************)
EXTENDS ReviewSubmission, DraftStoreProofs, WellFoundedInduction

\* The program points at which a call has steps left, and those at which it has
\* the operation id of the step it is at.
Stepping == {"authorize", "send", "await", "receipt", "reject", "mark", "unknown"}

Sending == {"send", "await", "receipt", "reject"}

Advancing == Sending \cup {"authorize", "advance"}

\* Calls are well formed: a call that is under way has a process and an attempt
\* that was made, and it is at a step wherever it works on one.
CallOK ==
  /\ forge \in {"github", "gitlab"}
  /\ damaged = {}
  /\ task \in [Task -> TaskRow]
  /\ \A t \in Task :
       /\ task[t].pc = "idle" => task[t] = Idle
       /\ task[t].pc # "idle" => /\ task[t].proc \in Process
                                 /\ task[t].att \in Attempt
                                 /\ attempt[task[t].att].state # "absent"
       /\ task[t].pc \in Stepping => task[t].left # {}
       /\ task[t].pc \in Sending => task[t].op \in Operation

\* The lock of an attempt: one call of a process at a time has it.
Exclusive ==
  \A t, u \in Task :
    /\ task[t].pc # "idle" /\ task[u].pc # "idle"
    /\ task[t].att = task[u].att /\ task[t].proc = task[u].proc
    => t = u

\* A call that advances owns its attempt and has exactly the steps of the plan left
\* that have no receipt; while it sends, the journal entry is its own, under its
\* operation id; and nothing is journaled when it goes on to the next step.
OnPlan ==
  \A t \in Task :
    LET a == task[t].att
    IN  /\ task[t].pc \in Advancing =>
             /\ owner[a] = task[t].proc
             /\ PlanOf(attempt[a].snapshot) # {}
             /\ task[t].left = Remaining(a, PlanOf(attempt[a].snapshot))
        /\ task[t].pc \in Sending => /\ attempt[a].pending = Current(t)
                                     /\ attempt[a].op = task[t].op
                                     /\ task[t].op = OperationId(a)
        /\ task[t].pc = "advance" => attempt[a].pending = None
        /\ task[t].pc = "preflight" /\ task[t].call # "resume" =>
             owner[a] = task[t].proc /\ attempt[a].pending = None

\* Receipts and the journal name steps of the plan, and what is journaled is not
\* confirmed yet.
RowOnPlan ==
  \A a \in Attempt :
    /\ attempt[a].receipts \subseteq PlanOf(attempt[a].snapshot)
    /\ attempt[a].pending # None =>
         /\ attempt[a].state \in Active
         /\ attempt[a].pending \in Remaining(a, PlanOf(attempt[a].snapshot))

\* What the forge may have got belongs to a draft that is locked: by an active
\* attempt whose journal names the step it was sent in, or by an unknown one that
\* has such a step on record.
DoubtOK ==
  \A x \in inDoubt :
    LET a == draft[x[1]].active
    IN  /\ x \in Draft \X (Item \cup {Vote})
        /\ a # None
        /\ attempt[a].state \in Active =>
             /\ attempt[a].pending # None
             /\ x[2] \in Units(attempt[a].snapshot, attempt[a].pending)
        /\ attempt[a].state = "unknown" => attempt[a].unknowns # {}

\* Nothing about a draft is in doubt when a call sends for it, or when the forge has
\* refused what it sent.
Clear == \A t \in Task : task[t].pc \in {"send", "reject"} => About(task[t].att) = {}

\* What the receipts of an attempt stand for is confirmed.
ConfirmedOK ==
  \A a \in Attempt : Exists(attempt[a]) =>
    {attempt[a].draft} \X ConfirmedUnits(attempt[a].snapshot, attempt[a].receipts)
      \subseteq confirmed

\* An attempt is submitted only with every step of its plan in the receipts, unless
\* the user said so.
SubmittedOK ==
  \A a \in Attempt : attempt[a].state = "submitted" /\ a \notin marked =>
    /\ PlanOf(attempt[a].snapshot) # {}
    /\ PlanOf(attempt[a].snapshot) \subseteq attempt[a].receipts

\* The counters of an attempt never fall behind an operation id that was sent.
IdsOK ==
  \A e \in sentOps :
    /\ e[1] \in Attempt
    /\ attempt[e[1]].state # "absent"
    /\ Exists(attempt[e[1]]) => /\ e[3][1] <= attempt[e[1]].recons
                                /\ e[3][2] <= attempt[e[1]].retry
                                /\ e[3][1] \in Nat /\ e[3][2] \in Nat

\* The operation ids of these steps, as the counters stand, are not sent yet.
FreshAt(t, steps) ==
  \A s \in steps : <<task[t].att, s, OperationId(task[t].att)>> \notin sentOps

\* A call that advances has fresh operation ids for all it has left to send, and
\* one that starts or retries has them for every step.
FreshOK ==
  \A t \in Task :
    /\ task[t].pc \in {"advance", "send"} => FreshAt(t, task[t].left)
    /\ task[t].pc \in Sending => FreshAt(t, task[t].left \ {Current(t)})
    /\ task[t].pc = "preflight" /\ task[t].call # "resume" => FreshAt(t, Step)

\* What was sent, confirmed and declared is a unit of a review, under an id.
HistoryOK ==
  /\ confirmed \subseteq Draft \X (Item \cup {Vote})
  /\ sentOps \subseteq Attempt \X Step \X Operation
  /\ marked \subseteq Attempt

\* The inductive invariant.  It needs all of the parts: what a call may send is
\* known from what it has left (OnPlan), that nothing of it is in doubt (Clear) from
\* the journal (RowOnPlan, DoubtOK), and that no other call interferes from the two
\* kinds of locks (Exclusive, and ownership in StoreInv).
SubmissionInv ==
  /\ StoreInv /\ CallOK /\ Exclusive /\ OnPlan /\ RowOnPlan /\ DoubtOK /\ Clear
  /\ ConfirmedOK /\ SubmittedOK /\ IdsOK /\ FreshOK /\ HistoryOK

USE StoreAssumption DEF Active, Locking

-------------------------------------------------------------------------------
(***************************************************************************)
(* Plans.                                                                  *)
(***************************************************************************)

\* A set of numbers has a least one.
LEMMA Least ==
  ASSUME NEW S \in SUBSET Nat, S # {}
  PROVE  \E m \in S : \A n \in S : m <= n
<1> DEFINE R == {ss \in Nat \X Nat : ss[1] < ss[2]}
<1>1. IsWellFoundedOn(R, Nat)
  BY NatLessThanWellFounded DEF OpToRel
<1>2. PICK m \in S : \A n \in S : ~(<<n, m>> \in R)
  BY <1>1, WFMin
<1>3. \A n \in S : ~(n < m)
  BY <1>2
<1> QED BY <1>3

\* First picks one of the steps (Position orders them).
LEMMA FirstIsOne ==
  ASSUME NEW steps \in SUBSET Step, steps # {} PROVE First(steps) \in steps
<1> DEFINE S == {Position[s] : s \in steps}
<1>1. Position \in [Step -> Nat]
  BY SubmissionAssumption
<1>2. PICK m \in S : \A n \in S : m <= n
  <2>1. S \in SUBSET Nat /\ S # {}
    BY <1>1
  <2> HIDE DEF S
  <2> QED BY <2>1, Least
<1>3. \E s \in steps : \A u \in steps : Position[s] <= Position[u]
  BY <1>2
<1> QED BY <1>3 DEF First

\* A plan is made of steps.
LEMMA PlanSteps ==
  ASSUME NEW c \in Content PROVE PlanOf(c) \subseteq Step
BY SubmissionAssumption DEF PlanOf, Content, Comments, If

\* Every comment, and the body, is sent by some step of the plan.
LEMMA PlanCovers ==
  ASSUME NEW c \in Content, NEW i \in c.items, PlanOf(c) # {}
  PROVE  \E s \in PlanOf(c) : i \in Units(c, s)
<1>1. i \in Item /\ c # Empty /\ i \notin {Batch, Review, Vote}
  BY SubmissionAssumption DEF Content, Empty
<1>2. CASE Batch \in PlanOf(c)
  BY <1>2 DEF Units
<1>3. CASE i # Body /\ Batch \notin PlanOf(c)
  <2>1. i \in PlanOf(c)
    BY <1>1, <1>3 DEF PlanOf, Comments, If
  <2> QED BY <1>1, <2>1 DEF Units
<1>4. CASE i = Body /\ Batch \notin PlanOf(c)
  <2>1. Body \in PlanOf(c) \/ Review \in PlanOf(c)
    BY <1>1, <1>4 DEF PlanOf, Comments, If
  <2> QED BY <1>1, <1>4, <2>1, SubmissionAssumption DEF Units
<1> QED BY <1>2, <1>3, <1>4

\* A step of a plan puts items, or the verdict, on the forge.
LEMMA UnitsType ==
  ASSUME NEW c \in Content, NEW s \in PlanOf(c)
  PROVE  Units(c, s) \subseteq Item \cup {Vote}
BY SubmissionAssumption DEF Units, PlanOf, Content, Comments, If

\* No two steps of a plan put the same comment or body on the forge.
LEMMA UnitsDisjoint ==
  ASSUME NEW c \in Content, NEW s \in PlanOf(c), NEW u \in PlanOf(c), s # u,
         NEW x \in Units(c, s) \cap Units(c, u)
  PROVE  x = Vote
<1>1. Batch \notin PlanOf(c)
  BY SubmissionAssumption DEF PlanOf, Content, Comments, If
<1>2. s # Batch /\ u # Batch
  BY <1>1
<1>3. CASE s # Review /\ u # Review
  BY <1>2, <1>3 DEF Units
<1>4. ASSUME NEW v \in PlanOf(c), v # Review, Review \in PlanOf(c),
             x \in Units(c, v), x \in Units(c, Review)
      PROVE  x = Vote
  <2>1. v # Batch /\ x = v
    BY <1>1, <1>4 DEF Units
  <2>2. v \in c.items \ {Body}
    BY <1>1, <1>4, <2>1, SubmissionAssumption DEF PlanOf, Content, Comments, If
  <2> QED BY <1>4, <2>1, <2>2, SubmissionAssumption DEF Units
<1> QED BY <1>3, <1>4

-------------------------------------------------------------------------------
(***************************************************************************)
(* What a step does: to the store, to the table of calls, and to the row of an *)
(* attempt.                                                                *)
(***************************************************************************)

\* What a call does to the store is an operation of its process on its attempt; it
\* returns nothing to editing but the remainder it has computed.
LEMMA ProgressUses ==
  ASSUME TypeOK, CallOK, NEW t \in Task, Progress(t)
  PROVE  LET p == task[t].proc
             a == task[t].att
             c == Remainder(attempt[a].snapshot, task[t].seen)
         IN  /\ p \in Process /\ a \in Attempt
             /\ \/ Submit(p, a)
                \/ ReconcileRetry(p, a) \/ ReconcileSubmitted(p, a)
                \/ At(t, "decide") /\ c \in Content /\ ReconcileEditable(p, a, c)
                \/ UNCHANGED storeVars
<1> DEFINE p == task[t].proc
           a == task[t].att
           c == attempt[a].snapshot
<1>0. task[t].pc # "idle"
  BY DEF Progress, At, UndoLock, Park, Preflight, PreflightFails, Undo, Authorize,
         DecideRetry, DecideSubmitted, DecideEditable, ReturnMark, Journal, Send, Answer,
         Receipt, Reject, Mark, MarkUnknown, Complete
<1>1. /\ p \in Process /\ a \in Attempt /\ attempt[a] \in AttemptRow /\ task[t] \in TaskRow
      /\ task[t].left \in SUBSET Step
  BY <1>0 DEF CallOK, TypeOK, TaskRow
<1>2. PlanOf(c) \in Plan /\ OperationId(a) \in Operation
  <2>1. c \in Content /\ attempt[a].recons \in 0 .. MaxRecons
                      /\ attempt[a].retry \in 0 .. MaxRetry
    BY <1>1 DEF AttemptRow
  <2>2. PlanOf(c) \in SUBSET Step
    BY <2>1, PlanSteps
  <2>3. PlanOf(c) \in Plan
    BY <2>2, SubmissionAssumption
  <2>4. OperationId(a) \in (0 .. MaxRecons) \X (0 .. MaxRetry)
    BY <2>1 DEF OperationId
  <2> QED BY <2>3, <2>4, SubmissionAssumption
<1>3. task[t].left # {} => Current(t) \in Step
  BY <1>1, FirstIsOne DEF Current
<1>4. task[t].pc \in Stepping => Current(t) \in Step
  BY <1>3 DEF CallOK
<1>5. task[t].pc \in Sending => task[t].op \in Operation
  BY DEF CallOK
<1>6. CASE UndoLock(t) \/ Park(t) \/ Undo(t) \/ ReturnMark(t)
  BY <1>1, <1>6 DEF UndoLock, Park, Undo, ReturnMark, StoreFails, Submit
<1>7. CASE Preflight(t) \/ PreflightFails(t)
  BY <1>1, <1>2, <1>7 DEF Preflight, PreflightFails, StoreFails, Submit
<1>8. CASE Authorize(t)
  BY <1>1, <1>4, <1>8 DEF Authorize, At, StoreFails, Submit, Stepping
<1>9. CASE DecideRetry(t) \/ DecideSubmitted(t)
  BY <1>1, <1>9 DEF DecideRetry, DecideSubmitted, StoreFails
<1>10. CASE DecideEditable(t)
  <2>1. Remainder(c, task[t].seen) \in Content
    BY <1>1 DEF Remainder, AttemptRow, Content
  <2> QED BY <1>1, <1>10, <2>1 DEF DecideEditable, StoreFails
<1>11. CASE Journal(t)
  BY <1>1, <1>2, <1>3, <1>11 DEF Journal, StoreFails, Submit
<1>12. CASE Send(t) \/ Answer(t)
  BY <1>1, <1>12 DEF Send, Answer
<1>13. CASE Receipt(t)
  BY <1>1, <1>4, <1>5, <1>13 DEF Receipt, At, StoreFails, Submit, Stepping, Sending
<1>14. CASE Reject(t)
  BY <1>1, <1>4, <1>5, <1>14 DEF Reject, At, StoreFails, Submit, Stepping, Sending
<1>15. CASE Mark(t) \/ MarkUnknown(t)
  BY <1>1, <1>4, <1>15 DEF Mark, MarkUnknown, At, StoreFails, Submit, Stepping
<1>16. CASE Complete(t)
  BY <1>1, <1>16 DEF Complete, StoreFails, Submit
<1> QED
  BY SMTT(30), <1>1, <1>6, <1>7, <1>8, <1>9, <1>10, <1>11, <1>12, <1>13, <1>14, <1>15, <1>16
  DEF Progress

\* In the terms of the store.
LEMMA ProgressStore ==
  ASSUME TypeOK, CallOK, NEW t \in Task, Progress(t)
  PROVE  /\ task[t].proc \in Process /\ task[t].att \in Attempt
         /\ \/ Submit(task[t].proc, task[t].att)
            \/ Decide(task[t].proc, task[t].att)
            \/ UNCHANGED storeVars
BY ProgressUses DEF Decide

\* Every step of the service uses the store as DraftStore allows.
LEMMA StoreStep ==
  ASSUME TypeOK, CallOK, [SubmissionNext]_vars PROVE [Next]_storeVars
<1>1. ASSUME NEW p \in Process, StartUp(p) \/ Exit(p) PROVE Next
  BY <1>1 DEF StartUp, Exit, Next, Lifecycle
<1>2. ASSUME NEW p \in Process, NEW d \in Draft, Edits(p, d) PROVE Next
  <2>1. draft[d].version \in 0 .. MaxVersion
    BY DEF TypeOK, DraftRow
  <2>2. Edit(p, d)
    BY <1>2, <2>1 DEF Edits, Edit
  <2> QED BY <2>2 DEF Next
<1>3. ASSUME NEW p \in Process, NEW t \in Task, Calls(t, p) PROVE [Next]_storeVars
  <2>1. ASSUME NEW d \in Draft, NEW a \in Attempt, Start(t, p, d, a) PROVE Next
    <3>1. draft[d].version \in 0 .. MaxVersion
      BY DEF TypeOK, DraftRow
    <3>2. Edit(p, d)
      BY <2>1, <3>1 DEF Start, Edit
    <3> QED BY <3>2 DEF Next
  <2>2. ASSUME NEW a \in Attempt, NEW call, Call(t, p, a, call) PROVE UNCHANGED storeVars
    BY <2>2 DEF Call
  <2> QED BY <1>3, <2>1, <2>2 DEF Calls
<1>4. ASSUME NEW t \in Task, Progress(t) PROVE [Next]_storeVars
  BY <1>4, ProgressStore DEF Next
<1>5. CASE UNCHANGED vars
  BY <1>5 DEF vars, storeVars
<1> QED BY <1>1, <1>2, <1>3, <1>4, <1>5 DEF SubmissionNext

\* An attempt that was made is never forgotten.
LEMMA NeverAbsent ==
  ASSUME StoreInv, Next, NEW b \in Attempt, attempt[b].state # "absent"
  PROVE  attempt'[b].state # "absent"
<1>1. CASE Exists(attempt[b])
  BY <1>1, RowStep DEF RowGrows, RowGone, Exists, Deleted, NoAttempt
<1>2. CASE ~Exists(attempt[b])
  <2>1. ASSUME NEW p, NEW d, NEW v, LockSubmission(p, d, v, b) PROVE FALSE
    BY <2>1 DEF LockSubmission
  <2> QED BY <1>2, <2>1, RowBorn
<1> QED BY <1>1, <1>2

\* What every step of a call has in common: it moves its own task, which stays
\* with its process and its attempt.
LEMMA ProgressTask ==
  ASSUME TypeOK, CallOK, NEW t \in Task, Progress(t)
  PROVE  /\ \A u \in Task \ {t} : task'[u] = task[u]
         /\ \/ task'[t] = Idle
            \/ /\ task'[t].pc # "idle"
               /\ task'[t].proc = task[t].proc /\ task'[t].att = task[t].att
               /\ task'[t].call = task[t].call
         /\ task[t].pc # "idle"
         /\ forge' = forge
         /\ confirmed \subseteq confirmed' /\ sentOps \subseteq sentOps' /\ marked \subseteq marked'
<1>0. task \in [Task -> TaskRow]
  BY DEF CallOK
<1>1. ASSUME NEW pc, pc # "idle", Goto(t, pc)
      PROVE  /\ \A u \in Task \ {t} : task'[u] = task[u]
             /\ task'[t] = [task[t] EXCEPT !.pc = pc]
             /\ task'[t].pc # "idle"
             /\ task'[t].proc = task[t].proc /\ task'[t].att = task[t].att
             /\ task'[t].call = task[t].call
  BY <1>0, <1>1 DEF Goto, TaskRow
<1>2. ASSUME Return(t)
      PROVE  /\ \A u \in Task \ {t} : task'[u] = task[u]
             /\ task'[t] = Idle
  BY SMTT(30), <1>0, <1>2 DEF Return
<1>3. task[t].pc # "idle"
  BY SMTT(30) DEF Progress, At, UndoLock, Park, Preflight, PreflightFails, Undo, Authorize,
         DecideRetry, DecideSubmitted, DecideEditable, ReturnMark, Journal, Send, Answer,
         Receipt, Reject, Mark, MarkUnknown, Complete
<1>h. \/ UNCHANGED history
      \/ /\ forge' = forge
         /\ confirmed \subseteq confirmed' /\ sentOps \subseteq sentOps' /\ marked \subseteq marked'
  BY DEF Progress, UndoLock, Park, Preflight, PreflightFails, Undo, Authorize,
         DecideRetry, DecideSubmitted, DecideEditable, ReturnMark, Journal, Send, Answer,
         Receipt, Reject, Mark, MarkUnknown, Complete
<1>4. /\ forge' = forge
      /\ confirmed \subseteq confirmed' /\ sentOps \subseteq sentOps' /\ marked \subseteq marked'
  BY <1>h DEF history
<1> DEFINE G == /\ \A u \in Task \ {t} : task'[u] = task[u]
                /\ \/ task'[t] = Idle
                   \/ /\ task'[t].pc # "idle"
                      /\ task'[t].proc = task[t].proc /\ task'[t].att = task[t].att
                      /\ task'[t].call = task[t].call
<1>5. ASSUME Preflight(t) PROVE G
  BY <1>0, <1>5 DEF Preflight, TaskRow
<1>6. ASSUME ReturnMark(t) PROVE G
  <2>1. CASE Return(t)
    BY <1>2, <2>1
  <2>2. CASE task' = [task EXCEPT ![t].pc = "decide", ![t].seen = attempt[task[t].att].receipts]
    BY <1>0, <2>2 DEF TaskRow
  <2> QED BY <1>6, <2>1, <2>2 DEF ReturnMark
<1>7. ASSUME Journal(t) PROVE G
  <2>1. CASE Return(t)
    BY <1>2, <2>1
  <2>2. CASE Goto(t, "mark")
    BY <1>1, <2>2
  <2>3. ASSUME NEW pc \in {"send", "mark"}, NEW op, task' = [task EXCEPT ![t].pc = pc, ![t].op = op]
        PROVE  G
    BY <1>0, <2>3 DEF TaskRow
  <2> QED BY <1>7, <2>1, <2>2, <2>3 DEF Journal
<1>8. ASSUME Receipt(t) PROVE G
  <2>1. CASE Return(t)
    BY <1>2, <2>1
  <2>2. CASE Goto(t, "unknown")
    BY <1>1, <2>2
  <2>3. CASE task' = [task EXCEPT ![t].pc = "advance", ![t].left = @ \ {Current(t)}]
    BY <1>0, <2>3 DEF TaskRow
  <2> QED BY <1>8, <2>1, <2>2, <2>3 DEF Receipt
<1>9. ASSUME ~(Preflight(t) \/ ReturnMark(t) \/ Journal(t) \/ Receipt(t)) PROVE G
  <2>1. Return(t) \/ \E pc \in Points \ {"idle"} : Goto(t, pc)
    BY <1>9 DEF Progress, UndoLock, Park, PreflightFails, Undo, Authorize, DecideRetry,
       DecideSubmitted, DecideEditable, Send, Answer, Reject, Mark, MarkUnknown, Complete, Points
  <2> QED BY <1>1, <1>2, <2>1
<1> QED BY <1>3, <1>4, <1>5, <1>6, <1>7, <1>8, <1>9

\* A row of the table of calls that is well formed.
RowOK(r) == /\ r \in TaskRow
            /\ r.pc = "idle" => r = Idle
            /\ r.pc \in Stepping => r.left # {}
            /\ r.pc \in Sending => r.op \in Operation

\* A call that is over.
LEMMA IdleOK == RowOK(Idle) /\ Idle.pc = "idle" /\ Idle.proc = None /\ Idle.att = None
BY DEF RowOK, Idle, TaskRow, Points, Stepping, Sending

\* Every step of a call leaves a well-formed row.
LEMMA ProgressRow ==
  ASSUME TypeOK, CallOK, NEW t \in Task, Progress(t)
  PROVE  \E r : RowOK(r) /\ task' = [task EXCEPT ![t] = r]
<1> DEFINE G == \E r : RowOK(r) /\ task' = [task EXCEPT ![t] = r]
           a == task[t].att
<1>0. /\ task \in [Task -> TaskRow] /\ task[t] \in TaskRow
      /\ task[t].pc # "idle" /\ a \in Attempt /\ attempt[a] \in AttemptRow
      /\ task[t].pc \in Stepping => task[t].left # {}
      /\ task[t].pc \in Sending => task[t].op \in Operation
  BY ProgressTask DEF CallOK, TypeOK
<1>1. ASSUME Return(t) PROVE G
  BY <1>0, <1>1, IdleOK DEF Return
<1>2. ASSUME NEW pc \in Points \ {"idle"}, Goto(t, pc),
             pc \in Stepping => task[t].pc \in Stepping,
             pc \in Sending => task[t].pc \in Sending
      PROVE  G
  <2> DEFINE r == [task[t] EXCEPT !.pc = pc]
  <2>1. task' = [task EXCEPT ![t] = r]
    BY <1>0, <1>2 DEF Goto
  <2>2. RowOK(r)
    BY <1>0, <1>2 DEF TaskRow, RowOK
  <2> QED BY <2>1, <2>2
<1>3. PlanOf(attempt[a].snapshot) \in SUBSET Step /\ OperationId(a) \in Operation
  BY <1>0, PlanSteps, SubmissionAssumption DEF AttemptRow, OperationId
<1>4. ASSUME Preflight(t) PROVE G
  <2> DEFINE plan == PlanOf(attempt[a].snapshot)
             left == Remaining(a, plan)
             pc == IF task[t].call = "resume" /\ left # {} THEN "authorize" ELSE "advance"
             r == [task[t] EXCEPT !.left = left, !.pc = pc]
  <2>1. task' = [task EXCEPT ![t] = r]
    BY <1>0, <1>4 DEF Preflight
  <2>2. left \in SUBSET Step /\ pc \in Points \ {"idle"} /\ pc \notin Sending
        /\ (pc \in Stepping => left # {})
    BY <1>3 DEF Remaining, Points, Sending, Stepping
  <2> HIDE DEF left, pc
  <2>3. RowOK(r)
    BY <1>0, <2>2 DEF TaskRow, RowOK
  <2> QED BY <2>1, <2>3
<1>5. ASSUME ReturnMark(t) PROVE G
  <2>1. ASSUME task' = [task EXCEPT ![t].pc = "decide", ![t].seen = attempt[a].receipts] PROVE G
    <3> DEFINE r == [task[t] EXCEPT !.pc = "decide", !.seen = attempt[a].receipts]
    <3>1. task' = [task EXCEPT ![t] = r]
      BY <1>0, <2>1
    <3>2. RowOK(r)
      BY ZenonT(60), <1>0 DEF TaskRow, RowOK, Points, Stepping, Sending, AttemptRow
    <3> QED BY <3>1, <3>2
  <2> QED BY <1>1, <1>5, <2>1 DEF ReturnMark
<1>6. ASSUME Journal(t) PROVE G
  <2>1. task[t].left # {}
    BY <1>6 DEF Journal
  <2>2. ASSUME NEW pc \in {"send", "mark"},
               task' = [task EXCEPT ![t].pc = pc, ![t].op = OperationId(a)]
        PROVE  G
    <3> DEFINE r == [task[t] EXCEPT !.pc = pc, !.op = OperationId(a)]
    <3>1. task' = [task EXCEPT ![t] = r]
      BY <1>0, <2>2
    <3>2. RowOK(r)
      BY <1>0, <1>3, <2>1 DEF TaskRow, RowOK, Points, Stepping, Sending
    <3> QED BY <3>1, <3>2
  <2>3. ASSUME Goto(t, "mark") PROVE G
    <3> DEFINE r == [task[t] EXCEPT !.pc = "mark"]
    <3>1. task' = [task EXCEPT ![t] = r]
      BY <1>0, <2>3 DEF Goto
    <3>2. RowOK(r)
      BY <1>0, <2>1 DEF TaskRow, RowOK, Points, Stepping, Sending
    <3> QED BY <3>1, <3>2
  <2> QED BY <1>1, <1>6, <2>2, <2>3 DEF Journal
<1>7. ASSUME Receipt(t) PROVE G
  <2>1. ASSUME task' = [task EXCEPT ![t].pc = "advance", ![t].left = @ \ {Current(t)}] PROVE G
    <3> DEFINE r == [task[t] EXCEPT !.pc = "advance", !.left = @ \ {Current(t)}]
    <3>1. task' = [task EXCEPT ![t] = r]
      BY <1>0, <2>1
    <3>2. RowOK(r)
      BY <1>0 DEF TaskRow, RowOK, Points, Stepping, Sending
    <3> QED BY <3>1, <3>2
  <2>2. task[t].pc = "receipt"
    BY <1>7 DEF Receipt, At
  <2> QED BY <1>1, <1>2, <1>7, <2>1, <2>2 DEF Receipt, Points, Stepping, Sending
<1>8. ASSUME UndoLock(t) \/ PreflightFails(t) \/ Authorize(t) \/ DecideRetry(t) PROVE G
  BY <1>1, <1>2, <1>8 DEF UndoLock, PreflightFails, Authorize, DecideRetry, Points, Stepping,
     Sending
<1>9. ASSUME Send(t) \/ Answer(t) \/ Reject(t) PROVE G
  BY <1>1, <1>2, <1>9 DEF Send, Answer, Reject, At, Points, Stepping, Sending
<1>10. ASSUME \/ Park(t) \/ Undo(t) \/ DecideSubmitted(t) \/ DecideEditable(t)
              \/ Mark(t) \/ MarkUnknown(t) \/ Complete(t)
       PROVE  G
  BY <1>1, <1>10 DEF Park, Undo, DecideSubmitted, DecideEditable, Mark, MarkUnknown, Complete
<1> QED BY <1>4, <1>5, <1>6, <1>7, <1>8, <1>9, <1>10 DEF Progress

\* Rows stay readable.
LEMMA DamagedStep ==
  ASSUME TypeOK, CallOK, SubmissionNext PROVE damaged' = {}
<1>1. ASSUME NEW p \in Process, Lifecycle(p) PROVE damaged' = {}
  BY ZenonT(60), <1>1
     DEF Lifecycle, Open, PruneSubmitted, DeleteDrafts, ListIncomplete, Serve, Stop,
     RecoverSkip, RecoverFails, RecoverUnknown, RecoverUnreadable, CallOK
<1>2. ASSUME NEW p \in Process, NEW d \in Draft, Edit(p, d) PROVE damaged' = {}
  BY <1>2 DEF Edit, CreateDraft, SaveDraft, DiscardDraft, LockSubmission, DeleteDrafts, CallOK
<1>3. ASSUME NEW p, NEW a, Submit(p, a) PROVE damaged' = {}
  BY Zenon, <1>3 DEF Submit, RecordPlan, AuthorizeRetry, BeginDispatch, RejectDispatch,
     RecordReceipt,
     CancelSubmission, MarkAttemptUnknown, MarkUnknownFails, CompleteSubmission,
     PruneSubmitted, DeleteDrafts, CallOK
<1>4. ASSUME NEW p, NEW a, Decide(p, a) PROVE damaged' = {}
  BY Zenon, <1>4 DEF Decide, ReconcileRetry, ReconcileSubmitted, ReconcileEditable,
     PruneSubmitted, DeleteDrafts, CallOK
<1>5. ASSUME NEW p \in Process, StartUp(p) \/ Exit(p) PROVE damaged' = {}
  BY <1>1, <1>5 DEF StartUp, Exit, Lifecycle
<1>6. ASSUME NEW p \in Process, NEW d \in Draft, Edits(p, d) PROVE damaged' = {}
  BY Zenon, <1>6 DEF Edits, CreateDraft, SaveDraft, DiscardDraft, DeleteDrafts, CallOK
<1>7. ASSUME NEW p \in Process, NEW t \in Task, Calls(t, p) PROVE damaged' = {}
  BY Zenon, <1>7 DEF Calls, Start, LockSubmission, Call, storeVars, CallOK
<1>8. ASSUME NEW t \in Task, Progress(t) PROVE damaged' = {}
  BY <1>3, <1>4, <1>8, ProgressStore DEF storeVars, CallOK
<1> QED BY Zenon, <1>5, <1>6, <1>7, <1>8 DEF SubmissionNext

\* A new call, and its row.
LEMMA CallsRow ==
  ASSUME TypeOK, CallOK, NEW p \in Process, NEW t \in Task, Calls(t, p)
  PROVE  /\ task[t].pc = "idle" /\ UNCHANGED history
         /\ \E r : /\ RowOK(r) /\ task' = [task EXCEPT ![t] = r]
                   /\ r.pc # "idle" /\ r.proc = p /\ r.att \in Attempt
                   /\ \A u \in Task : task[u].proc = p => task[u].att # r.att
                   /\ attempt'[r.att].state # "absent"
<1>0. task \in [Task -> TaskRow] /\ attempt \in [Attempt -> AttemptRow]
  BY DEF CallOK, TypeOK
<1> DEFINE G(a) == \E r : /\ RowOK(r) /\ task' = [task EXCEPT ![t] = r]
                          /\ r.pc # "idle" /\ r.proc = p /\ r.att = a
<1>1. ASSUME NEW d \in Draft, NEW a \in Attempt, Start(t, p, d, a)
      PROVE  /\ task[t].pc = "idle" /\ UNCHANGED history
             /\ G(a)
             /\ \A u \in Task : task[u].proc = p => task[u].att # a
             /\ attempt'[a].state # "absent"
  <2>1. PICK pc \in {"preflight", "undo_lock"} :
          task' = [task EXCEPT ![t] = [Idle EXCEPT !.pc = pc, !.call = "start",
                                                   !.proc = p, !.att = a]]
    BY <1>1 DEF Start
  <2> DEFINE r == [Idle EXCEPT !.pc = pc, !.call = "start", !.proc = p, !.att = a]
  <2>2. RowOK(r) /\ r.pc # "idle" /\ r.proc = p /\ r.att = a
    BY DEF RowOK, TaskRow, Points, Stepping, Sending, Idle
  <2>3. attempt[a].state = "absent" /\ attempt'[a].state = "submitting"
    BY <1>0, <1>1 DEF Start, LockSubmission, NoAttempt
  <2>4. \A u \in Task : task[u].proc = p => task[u].att # a
    BY <1>0, <2>3 DEF CallOK, Idle
  <2>5. G(a)
    BY <2>1, <2>2
  <2> QED BY <1>1, <2>3, <2>4, <2>5 DEF Start, At
<1>2. ASSUME NEW a \in Attempt, NEW call \in {"resume", "retry", "mark", "return"},
             Call(t, p, a, call)
      PROVE  /\ task[t].pc = "idle" /\ UNCHANGED history
             /\ G(a)
             /\ \A u \in Task : task[u].proc = p => task[u].att # a
             /\ attempt'[a].state # "absent"
  <2> DEFINE pc == Entry(p, a, call)
             r == [Idle EXCEPT !.pc = pc, !.call = call, !.proc = p, !.att = a,
                               !.seen = attempt[a].receipts]
  <2>1. task' = [task EXCEPT ![t] = r]
    BY <1>2 DEF Call
  <2>2. pc \in {"decide", "preflight", "undo", "return_mark"}
    BY <1>2 DEF Call, Entry
  <2> HIDE DEF pc
  <2>3. RowOK(r) /\ r.pc # "idle" /\ r.proc = p /\ r.att = a
    BY <1>0, <2>2 DEF RowOK, TaskRow, Points, Stepping, Sending, Idle, AttemptRow
  <2>4. attempt'[a].state # "absent"
    BY <1>2 DEF Call, Exists, storeVars
  <2>5. G(a)
    BY <2>1, <2>3
  <2> QED BY <1>2, <2>4, <2>5 DEF Call, At, LockFree
<1> QED BY <1>1, <1>2 DEF Calls

\* What the surroundings do to the table of calls.
LEMMA AroundTask ==
  ASSUME NEW p \in Process,
         StartUp(p) \/ Exit(p) \/ \E d \in Draft : Edits(p, d)
  PROVE  /\ UNCHANGED history
         /\ \/ task' = task
            \/ task' = [t \in Task |-> IF task[t].proc = p THEN Idle ELSE task[t]]
BY DEF StartUp, Exit, Edits

\* Calls stay well formed.
LEMMA CallOKStep ==
  ASSUME StoreInv, CallOK, [SubmissionNext]_vars PROVE CallOK'
<1>0. TypeOK /\ task \in [Task -> TaskRow] /\ \A t \in Task : RowOK(task[t])
  BY DEF StoreInv, CallOK, RowOK
<1>1. CASE UNCHANGED vars
  BY <1>1 DEF vars, storeVars, CallOK
<1>2. CASE SubmissionNext
  <2> USE <1>2
  <2>1. Next \/ UNCHANGED storeVars
    BY <1>0, StoreStep
  <2>2. \A b \in Attempt : attempt[b].state # "absent" => attempt'[b].state # "absent"
    BY <2>1, NeverAbsent DEF storeVars
  <2>3. damaged' = {}
    BY <1>0, DamagedStep
  <2> DEFINE G == /\ forge' = forge
                  /\ task' \in [Task -> TaskRow]
                  /\ \A t \in Task :
                       /\ RowOK(task'[t])
                       /\ task'[t].pc # "idle" =>
                            /\ task'[t].proc \in Process /\ task'[t].att \in Attempt
                            /\ attempt'[task'[t].att].state # "absent"
  <2>4. ASSUME G PROVE CallOK'
    BY <2>3, <2>4 DEF CallOK, RowOK
  <2>5. ASSUME NEW p \in Process, StartUp(p) \/ Exit(p) \/ \E d \in Draft : Edits(p, d)
        PROVE  G
    BY <1>0, <2>2, <2>5, AroundTask, IdleOK DEF CallOK, RowOK, history
  <2>6. ASSUME NEW p \in Process, NEW t \in Task, Calls(t, p) PROVE G
    <3>1. PICK r : /\ RowOK(r) /\ task' = [task EXCEPT ![t] = r]
                   /\ r.pc # "idle" /\ r.proc = p /\ r.att \in Attempt
                   /\ attempt'[r.att].state # "absent"
      BY <1>0, <2>6, CallsRow
    <3>2. forge' = forge
      BY <1>0, <2>6, CallsRow DEF history
    <3> QED BY <1>0, <2>2, <3>1, <3>2 DEF CallOK, RowOK
  <2>7. ASSUME NEW t \in Task, Progress(t) PROVE G
    <3>1. PICK r : RowOK(r) /\ task' = [task EXCEPT ![t] = r]
      BY <1>0, <2>7, ProgressRow
    <3>2. /\ task'[t] = r /\ forge' = forge /\ task[t].pc # "idle"
          /\ r.pc # "idle" => r.proc = task[t].proc /\ r.att = task[t].att
      BY <1>0, <2>7, <3>1, ProgressTask DEF RowOK, Idle
    <3> QED BY <1>0, <2>2, <3>1, <3>2 DEF CallOK, RowOK
  <2> QED BY <2>4, <2>5, <2>6, <2>7 DEF SubmissionNext
<1> QED BY <1>1, <1>2

\* A call takes the lock of its attempt only when it is free.
LEMMA ExclusiveStep ==
  ASSUME StoreInv, CallOK, Exclusive, [SubmissionNext]_vars PROVE Exclusive'
<1>0. TypeOK /\ task \in [Task -> TaskRow] /\ Idle.pc = "idle"
  BY IdleOK DEF StoreInv, CallOK
<1>1. CASE UNCHANGED vars
  BY <1>1 DEF vars, Exclusive
<1>2. ASSUME NEW p \in Process, StartUp(p) \/ Exit(p) \/ \E d \in Draft : Edits(p, d)
      PROVE  Exclusive'
  BY <1>0, <1>2, AroundTask DEF Exclusive
<1>3. ASSUME NEW p \in Process, NEW t \in Task, Calls(t, p) PROVE Exclusive'
  <2>1. PICK r : /\ task' = [task EXCEPT ![t] = r]
                 /\ r.pc # "idle" /\ r.proc = p /\ r.att \in Attempt
                 /\ \A u \in Task : task[u].proc = p => task[u].att # r.att
    BY <1>0, <1>3, CallsRow
  <2> QED BY <1>0, <2>1 DEF Exclusive
<1>4. ASSUME NEW t \in Task, Progress(t) PROVE Exclusive'
  BY <1>0, <1>4, ProgressTask DEF Exclusive
<1> QED BY <1>1, <1>2, <1>3, <1>4 DEF SubmissionNext

\* A call keeps what it has while others move: its place, and its attempt as
\* long as its process owns it.
LEMMA Others ==
  ASSUME StoreInv, CallOK, Exclusive, SubmissionNext,
         NEW u \in Task, task[u].pc # "idle", ~Progress(u)
  PROVE  \/ task'[u] = Idle
         \/ /\ task'[u] = task[u]
            /\ owner[task[u].att] = task[u].proc => OwnedKept(task[u].att)
<1> DEFINE b == task[u].att
           G == \/ task'[u] = Idle
                \/ /\ task'[u] = task[u]
                   /\ owner[b] = task[u].proc => OwnedKept(b)
<1>0. /\ TypeOK /\ task \in [Task -> TaskRow] /\ b \in Attempt /\ task[u].proc \in Process
      /\ task[u].proc # None
  BY DEF StoreInv, CallOK
<1>1. ASSUME NEW p \in Process, StartUp(p) PROVE G
  <2>1. Lifecycle(p) /\ mode[p] # "serving" /\ task' = task
    BY Zenon, <1>1 DEF StartUp, Lifecycle, Open, ListIncomplete, Serve, RecoverSkip, RecoverUnknown,
       RecoverFails, Visit
  <2>2. owner[b] # None => owner[b] # p
    BY <1>0, <2>1 DEF StoreInv, OwnedIsActive
  <2> QED BY Zenon, <1>0, <2>1, <2>2, LifecycleKeeps
<1>2. ASSUME NEW p \in Process, Exit(p) PROVE G
  <2>1. Lifecycle(p) /\ task'[u] = IF task[u].proc = p THEN Idle ELSE task[u]
    BY <1>2 DEF Exit, Lifecycle
  <2> QED BY <1>0, <2>1, LifecycleKeeps
<1>3. ASSUME NEW p \in Process, NEW d \in Draft, Edits(p, d) PROVE G
  <2>1. draft[d].version \in 0 .. MaxVersion
    BY <1>0 DEF TypeOK, DraftRow
  <2>2. Edit(p, d) /\ task' = task
    BY <1>3, <2>1 DEF Edits, Edit
  <2> QED BY <1>0, <2>2, EditKeeps
<1>4. ASSUME NEW p \in Process, NEW t \in Task, Calls(t, p) PROVE G
  <2>1. task[t].pc = "idle" /\ task'[u] = task[u]
    <3>1. PICK r : task' = [task EXCEPT ![t] = r]
      BY <1>0, <1>4, CallsRow
    <3> QED BY <1>0, <1>4, <3>1, CallsRow
  <2>2. ASSUME NEW d \in Draft, NEW a \in Attempt, Start(t, p, d, a) PROVE G
    <3>1. draft[d].version \in 0 .. MaxVersion
      BY <1>0 DEF TypeOK, DraftRow
    <3>2. Edit(p, d)
      BY <2>2, <3>1 DEF Start, Edit
    <3> QED BY <1>0, <2>1, <3>2, EditKeeps
  <2>3. ASSUME NEW a \in Attempt, NEW call, Call(t, p, a, call) PROVE G
    BY <2>1, <2>3 DEF Call, storeVars, OwnedKept
  <2> QED BY <1>4, <2>2, <2>3 DEF Calls
<1>5. ASSUME NEW t \in Task, Progress(t) PROVE G
  <2>1. u # t /\ task'[u] = task[u] /\ task[t].pc # "idle"
    BY <1>0, <1>5, ProgressTask
  <2>2. task[t].att # b \/ task[t].proc # task[u].proc
    BY <2>1 DEF Exclusive
  <2>3. CASE UNCHANGED storeVars
    BY <2>1, <2>3 DEF storeVars, OwnedKept
  <2> QED
    BY <1>0, <1>5, <2>1, <2>2, <2>3, ProgressStore, SubmitKeeps, DecideKeeps
<1> QED BY <1>1, <1>2, <1>3, <1>4, <1>5 DEF SubmissionNext

\* What can happen to the row of an attempt.
LEMMA RowMoves ==
  ASSUME StoreInv, CallOK, SubmissionNext, NEW b \in Attempt
  PROVE  \/ RowSide(b)
         \/ \E p \in Process : RecoverUnknown(p, b) /\ UNCHANGED <<task, history>>
         \/ \E t \in Task : task[t].att = b /\ Progress(t)
         \/ \E t \in Task, p \in Process, d \in Draft : Start(t, p, d, b)
<1> DEFINE G == \/ RowSide(b)
                \/ \E p \in Process : RecoverUnknown(p, b) /\ UNCHANGED <<task, history>>
                \/ \E t \in Task : task[t].att = b /\ Progress(t)
                \/ \E t \in Task, p \in Process, d \in Draft : Start(t, p, d, b)
<1>0. TypeOK
  BY DEF StoreInv
<1>1. ASSUME NEW p \in Process, StartUp(p) \/ Exit(p) PROVE G
  <2>1. Lifecycle(p) /\ ~RecoverUnreadable(p, b)
    BY <1>1 DEF StartUp, Exit, Lifecycle, RecoverUnreadable, CallOK
  <2>2. CASE RecoverUnknown(p, b)
    <3>1. mode' = mode /\ mode[p] = "recovering"
      BY <2>2 DEF RecoverUnknown, Visit
    <3>2. ~Stop(p)
      BY <1>0, <3>1 DEF Stop, TypeOK
    <3>3. UNCHANGED <<task, history>>
      BY <1>1, <3>2 DEF StartUp, Exit
    <3> QED BY <2>2, <3>3
  <2> QED BY <1>0, <2>1, <2>2, LifecycleSide
<1>2. ASSUME NEW p \in Process, NEW d \in Draft, Edits(p, d) PROVE G
  <2>1. \/ \E c \in Content : CreateDraft(p, d, c)
        \/ \E c : SaveDraft(p, d, draft[d].version, c)
        \/ DiscardDraft(p, d, draft[d].version)
    BY <1>2 DEF Edits
  <2> QED BY <2>1, PrunedSide DEF CreateDraft, SaveDraft, DiscardDraft, RowSide
<1>3. ASSUME NEW p \in Process, NEW t \in Task, Calls(t, p) PROVE G
  <2>1. ASSUME NEW d \in Draft, NEW a \in Attempt, Start(t, p, d, a), a # b PROVE RowSide(b)
    BY <1>0, <2>1 DEF Start, LockSubmission, TypeOK, RowSide
  <2>2. ASSUME NEW a, NEW call, Call(t, p, a, call) PROVE RowSide(b)
    BY <2>2 DEF Call, storeVars, RowSide
  <2> QED BY <1>3, <2>1, <2>2 DEF Calls
<1>4. ASSUME NEW t \in Task, Progress(t) PROVE G
  <2>1. CASE UNCHANGED storeVars
    BY <2>1 DEF storeVars, RowSide
  <2> QED BY <1>0, <1>4, <2>1, ProgressStore, SubmitSide, DecideSide
<1> QED BY <1>1, <1>2, <1>3, <1>4 DEF SubmissionNext

\* What a call does to the row of its own attempt.
OwnMove(t) ==
  LET a   == task[t].att
      old == attempt[a]
      new == attempt'[a]
  IN  \/ new = old /\ draft' = draft
      \/ /\ UndoLock(t) \/ Undo(t)
         /\ new = Deleted(NoAttempt) /\ old.state \in Active /\ old.pending = None
      \/ /\ new.draft = old.draft /\ new.snapshot = old.snapshot
         /\ \/ /\ old.state \in Active /\ new.state = old.state
               /\ new.receipts = old.receipts
               /\ new.unknowns = old.unknowns /\ new.pending = old.pending
            \/ /\ old.state = "unknown"
               /\ new.receipts = old.receipts
               /\ new.unknowns = old.unknowns /\ new.pending = old.pending
               /\ new.state = "submitted" => a \in marked'
               /\ About(a) \cap inDoubt' = {}
            \/ /\ old.state \in Active /\ new.state = "unknown"
               /\ new.receipts = old.receipts /\ new.pending = None
               /\ old.unknowns \cup ({old.pending} \ {None}) \subseteq new.unknowns
               /\ \A d \in Draft : draft'[d].active = draft[d].active
            \/ /\ Journal(t)
               /\ old.state \in Active /\ new.state = old.state
               /\ new.receipts = old.receipts /\ new.pending = Current(t)
            \/ /\ Receipt(t)
               /\ old.state \in Active /\ new.state = "partial"
               /\ new.receipts = old.receipts \cup {Current(t)} /\ new.pending = None
               /\ old.pending = Current(t)
               /\ confirmed' = confirmed \cup Sent(t) /\ inDoubt' = inDoubt \ Sent(t)
            \/ /\ Reject(t)
               /\ new.state = old.state /\ new.receipts = old.receipts /\ new.pending = None
            \/ /\ Complete(t)
               /\ old.state \in Active /\ new.state = "submitted"
               /\ new.receipts = old.receipts /\ new.pending = None

\* A call changes its attempt in no other way.
LEMMA OwnRow ==
  ASSUME TypeOK, CallOK, NEW t \in Task, Progress(t) PROVE OwnMove(t)
<1> DEFINE a == task[t].att
           p == task[t].proc
<1>0. /\ attempt \in [Attempt -> AttemptRow] /\ a \in Attempt /\ attempt[a] \in AttemptRow
      /\ task[t].pc \in Stepping => Current(t) \in Step
  BY ProgressTask, FirstIsOne DEF TypeOK, CallOK, TaskRow, Current
<1>1. ASSUME StoreFails \/ MarkUnknownFails(p, a) PROVE OwnMove(t)
  BY <1>1 DEF StoreFails, storeVars, MarkUnknownFails, OwnMove
<1>2. ASSUME CancelSubmission(p, a), UndoLock(t) \/ Undo(t) PROVE OwnMove(t)
  <2>1. attempt[a].state \in Active /\ attempt[a].pending = None
    BY Zenon, <1>2 DEF CancelSubmission
  <2>2. attempt'[a] = Deleted(NoAttempt)
    BY Zenon, <1>0, <1>2 DEF CancelSubmission
  <2> QED BY Zenon, <1>2, <2>1, <2>2 DEF OwnMove
<1>3. ASSUME NEW s \in Step \cup {None}, MarkAttemptUnknown(p, a, s) PROVE OwnMove(t)
  <2>1. \A d \in Draft : draft'[d].active = draft[d].active
    <3>1. draft \in [Draft -> DraftRow]
      BY DEF TypeOK
    <3> QED BY Zenon, <1>3, <3>1 DEF MarkAttemptUnknown, SetDraft, DraftRow
  <2> QED BY Zenon, <1>0, <1>3, <2>1 DEF MarkAttemptUnknown, OwnedActive, OwnMove, AttemptRow
<1>4. ASSUME NEW plan, RecordPlan(p, a, plan) PROVE OwnMove(t)
  BY Zenon, <1>0, <1>4 DEF RecordPlan, OwnedActive, OwnMove, AttemptRow
<1>5. ASSUME Authorize(t) PROVE OwnMove(t)
  <2>1. ASSUME AuthorizeRetry(p, a, Current(t)) PROVE OwnMove(t)
    <3>1. /\ attempt[a].state \in Active
          /\ attempt'[a] = [attempt[a] EXCEPT !.retry = @ + 1]
      BY <1>0, <2>1 DEF AuthorizeRetry, OwnedActive
    <3> QED BY <1>0, <3>1 DEF OwnMove, AttemptRow
  <2> QED BY <1>1, <1>5, <2>1 DEF Authorize
<1>6. ASSUME DecideRetry(t) PROVE OwnMove(t)
  <2>1. ASSUME ReconcileRetry(p, a), inDoubt' = inDoubt \ About(a) PROVE OwnMove(t)
    <3> DEFINE state == IF attempt[a].receipts = {} THEN "submitting" ELSE "partial"
    <3>1. /\ attempt[a].state = "unknown" /\ state # "submitted"
          /\ attempt' = Reconciled(a, state)
      BY Zenon, <2>1 DEF ReconcileRetry, Undecided
    <3> HIDE DEF state
    <3>2. attempt'[a] = [attempt[a] EXCEPT !.state = state, !.recons = @ + 1]
      BY <1>0, <3>1 DEF Reconciled
    <3> QED BY <1>0, <2>1, <3>1, <3>2 DEF OwnMove, AttemptRow
  <2> QED BY <1>1, <1>6, <2>1 DEF DecideRetry
<1>7. ASSUME DecideSubmitted(t) PROVE OwnMove(t)
  <2>1. ASSUME ReconcileSubmitted(p, a), a \in marked', inDoubt' = inDoubt \ About(a)
        PROVE  OwnMove(t)
    <3> DEFINE at == Reconciled(a, "submitted")
    <3>1. at[a] = [attempt[a] EXCEPT !.state = "submitted", !.recons = @ + 1]
      BY <1>0 DEF Reconciled
    <3>2. at[a].draft = attempt[a].draft
      BY <1>0, <3>1 DEF AttemptRow
    <3>3. /\ attempt[a].state = "unknown"
          /\ \E dr : PruneSubmitted(dr, at, {attempt[a].draft})
      BY Zenon, <2>1 DEF ReconcileSubmitted, Undecided
    <3> HIDE DEF at
    <3>4. attempt'[a] = at[a]
      BY <1>0, <3>2, <3>3 DEF PruneSubmitted, DeleteDrafts
    <3> QED BY <1>0, <2>1, <3>1, <3>3, <3>4 DEF OwnMove, AttemptRow
  <2> QED BY <1>1, <1>7, <2>1 DEF DecideSubmitted
<1>8. ASSUME DecideEditable(t) PROVE OwnMove(t)
  <2>1. ASSUME NEW c, ReconcileEditable(p, a, c), inDoubt' = inDoubt \ About(a)
        PROVE  OwnMove(t)
    <3>1. /\ attempt[a].state = "unknown"
          /\ attempt'[a] = [attempt[a] EXCEPT !.state = "unknown", !.recons = @ + 1]
      BY Zenon, <1>0, <2>1 DEF ReconcileEditable, Undecided, Reconciled
    <3> QED BY ZenonT(60), <1>0, <2>1, <3>1 DEF OwnMove, AttemptRow
  <2> QED BY <1>1, <1>8, <2>1 DEF DecideEditable
<1>9. ASSUME Journal(t) PROVE OwnMove(t)
  <2>1. ASSUME BeginDispatch(p, a, Current(t), OperationId(a)) PROVE OwnMove(t)
    <3>1. /\ attempt[a].state \in Active
          /\ attempt'[a] = [attempt[a] EXCEPT !.pending = Current(t), !.op = OperationId(a)]
      BY <1>0, <2>1 DEF BeginDispatch, OwnedActive
    <3> QED BY <1>0, <1>9, <3>1 DEF OwnMove, AttemptRow
  <2> QED BY <1>1, <1>9, <2>1 DEF Journal
<1>10. ASSUME Receipt(t) PROVE OwnMove(t)
  <2>1. ASSUME RecordReceipt(p, a, Current(t), task[t].op),
               confirmed' = confirmed \cup Sent(t), inDoubt' = inDoubt \ Sent(t)
        PROVE  OwnMove(t)
    <3>1. /\ attempt[a].state \in Active /\ attempt[a].pending = Current(t)
          /\ attempt'[a] = [attempt[a] EXCEPT !.receipts = @ \cup {Current(t)},
                              !.pending = None, !.op = None, !.state = "partial"]
      BY <1>0, <2>1 DEF RecordReceipt, OwnedActive
    <3> QED BY <1>0, <1>10, <2>1, <3>1 DEF OwnMove, AttemptRow
  <2> QED BY <1>1, <1>10, <2>1 DEF Receipt
<1>11. ASSUME Reject(t) PROVE OwnMove(t)
  <2>1. ASSUME RejectDispatch(p, a, Current(t), task[t].op) PROVE OwnMove(t)
    <3>1. attempt'[a] = [attempt[a] EXCEPT !.pending = None, !.op = None]
      BY <1>0, <2>1 DEF RejectDispatch
    <3> QED BY <1>0, <1>11, <3>1 DEF OwnMove, AttemptRow
  <2> QED BY <1>1, <1>11, <2>1 DEF Reject
<1>12. ASSUME Complete(t) PROVE OwnMove(t)
  <2>1. ASSUME CompleteSubmission(p, a) PROVE OwnMove(t)
    <3> DEFINE at == [attempt EXCEPT
                       ![a].state = "submitted",
                       ![a].unknowns = @ \cup ({attempt[a].pending} \ {None}),
                       ![a].pending = None, ![a].op = None]
    <3>1. /\ at[a] = [attempt[a] EXCEPT !.state = "submitted",
                        !.unknowns = @ \cup ({attempt[a].pending} \ {None}),
                        !.pending = None, !.op = None]
          /\ at[a].draft = attempt[a].draft
      BY <1>0 DEF AttemptRow
    <3>2. /\ attempt[a].state \in Active
          /\ \E dr : PruneSubmitted(dr, at, {attempt[a].draft})
      BY Zenon, <2>1 DEF CompleteSubmission, OwnedActive
    <3> HIDE DEF at
    <3>3. attempt'[a] = at[a]
      BY <1>0, <3>1, <3>2 DEF PruneSubmitted, DeleteDrafts
    <3> QED BY <1>0, <1>12, <3>1, <3>2, <3>3 DEF OwnMove, AttemptRow
  <2> QED BY <1>1, <1>12, <2>1 DEF Complete
<1>13. ASSUME UndoLock(t) \/ Park(t) \/ Undo(t) \/ ReturnMark(t) PROVE OwnMove(t)
  BY <1>1, <1>2, <1>3, <1>13 DEF UndoLock, Park, Undo, ReturnMark
<1>14. ASSUME Preflight(t) \/ PreflightFails(t) PROVE OwnMove(t)
  BY <1>1, <1>4, <1>14 DEF Preflight, PreflightFails
<1>15. ASSUME Mark(t) \/ MarkUnknown(t) PROVE OwnMove(t)
  BY <1>0, <1>1, <1>3, <1>15 DEF Mark, MarkUnknown, At, Stepping
<1>16. ASSUME Send(t) \/ Answer(t) PROVE OwnMove(t)
  BY <1>1, <1>16 DEF Send, Answer, StoreFails
<1> QED
  BY <1>5, <1>6, <1>7, <1>8, <1>9, <1>10, <1>11, <1>12, <1>13, <1>14, <1>15, <1>16 DEF Progress

\* The forge of a review does not change, and history only grows.
LEMMA HistoryGrows ==
  ASSUME TypeOK, CallOK, SubmissionNext
  PROVE  /\ forge' = forge /\ confirmed \subseteq confirmed' /\ marked \subseteq marked'
         /\ sentOps \subseteq sentOps'
BY ProgressTask, CallsRow, AroundTask DEF SubmissionNext, history

-------------------------------------------------------------------------------
(***************************************************************************)
(* Every part of the invariant is kept.                                    *)
(***************************************************************************)

\* Receipts and journal stay on the plan.
LEMMA RowOnPlanStep ==
  ASSUME StoreInv, CallOK, OnPlan, RowOnPlan, SubmissionNext PROVE RowOnPlan'
<1>0. /\ TypeOK /\ attempt \in [Attempt -> AttemptRow] /\ forge' = forge
      /\ Deleted(NoAttempt).receipts = {} /\ Deleted(NoAttempt).pending = None
  BY HistoryGrows DEF StoreInv, TypeOK, Deleted, NoAttempt
<1> SUFFICES ASSUME NEW b \in Attempt
             PROVE  /\ attempt'[b].receipts \subseteq PlanOf(attempt'[b].snapshot)
                    /\ attempt'[b].pending # None =>
                         /\ attempt'[b].state \in Active
                         /\ attempt'[b].pending \in PlanOf(attempt'[b].snapshot)
                         /\ attempt'[b].pending \notin attempt'[b].receipts
  BY <1>0 DEF RowOnPlan, Remaining, PlanOf
<1> DEFINE G == /\ attempt'[b].receipts \subseteq PlanOf(attempt'[b].snapshot)
                /\ attempt'[b].pending # None =>
                     /\ attempt'[b].state \in Active
                     /\ attempt'[b].pending \in PlanOf(attempt'[b].snapshot)
                     /\ attempt'[b].pending \notin attempt'[b].receipts
<1>1. /\ attempt[b].receipts \subseteq PlanOf(attempt[b].snapshot)
      /\ attempt[b].pending # None =>
           /\ attempt[b].state \in Active
           /\ attempt[b].pending \in PlanOf(attempt[b].snapshot)
           /\ attempt[b].pending \notin attempt[b].receipts
      /\ attempt[b] \in AttemptRow
  BY <1>0 DEF RowOnPlan, Remaining
<1>2. CASE RowSide(b)
  BY <1>0, <1>1, <1>2 DEF RowSide
<1>3. ASSUME NEW p \in Process, RecoverUnknown(p, b) PROVE G
  BY <1>0, <1>1, <1>3 DEF RecoverUnknown, AttemptRow
<1>4. ASSUME NEW t \in Task, NEW p \in Process, NEW d \in Draft, Start(t, p, d, b) PROVE G
  BY <1>0, <1>4 DEF Start, LockSubmission, NoAttempt
<1>5. ASSUME NEW t \in Task, task[t].att = b, Progress(t) PROVE G
  <2>1. ASSUME Journal(t) PROVE Current(t) \in PlanOf(attempt[b].snapshot) \ attempt[b].receipts
    <3>1. task[t].left = Remaining(b, PlanOf(attempt[b].snapshot)) /\ task[t].left # {}
      BY <1>5, <2>1 DEF OnPlan, Advancing, Journal, At
    <3>2. task[t].left \in SUBSET Step
      BY DEF CallOK, TaskRow
    <3> QED BY <3>1, <3>2, FirstIsOne DEF Current, Remaining
  <2>2. ASSUME Receipt(t) PROVE Current(t) # None
    BY <2>2, FirstIsOne DEF Receipt, At, CallOK, TaskRow, Stepping, Current
  <2> QED BY <1>0, <1>1, <1>5, <2>1, <2>2, OwnRow DEF OwnMove
<1> QED BY <1>2, <1>3, <1>4, <1>5, RowMoves

\* A receipt is written together with what it stands for.
LEMMA ConfirmedStep ==
  ASSUME StoreInv, CallOK, ConfirmedOK, SubmissionNext PROVE ConfirmedOK'
<1>0. /\ TypeOK /\ attempt \in [Attempt -> AttemptRow] /\ confirmed \subseteq confirmed'
  BY HistoryGrows DEF StoreInv, TypeOK
<1> SUFFICES ASSUME NEW b \in Attempt, Exists(attempt'[b]), NEW s \in attempt'[b].receipts,
                    NEW i \in Units(attempt'[b].snapshot, s)
             PROVE  <<attempt'[b].draft, i>> \in confirmed'
  BY DEF ConfirmedOK, ConfirmedUnits, Units
<1> DEFINE G == <<attempt'[b].draft, i>> \in confirmed'
           new == attempt'[b]
           old == attempt[b]
<1>1. /\ old \in AttemptRow
      /\ Exists(old) /\ s \in old.receipts /\ new.snapshot = old.snapshot /\ new.draft = old.draft
           => G
  BY <1>0 DEF ConfirmedOK, ConfirmedUnits
<1>2. CASE RowSide(b)
  BY <1>1, <1>2 DEF RowSide, Exists, Deleted, NoAttempt
<1>3. ASSUME NEW p \in Process, RecoverUnknown(p, b) PROVE G
  BY <1>0, <1>1, <1>3 DEF RecoverUnknown, AttemptRow, Exists
<1>4. ASSUME NEW t \in Task, NEW p \in Process, NEW d \in Draft, Start(t, p, d, b) PROVE G
  BY <1>0, <1>4 DEF Start, LockSubmission, NoAttempt
<1>5. ASSUME NEW t \in Task, task[t].att = b, Progress(t) PROVE G
  <2>1. CASE s \in old.receipts
    BY SMTT(30), <1>0, <1>1, <1>5, <2>1, OwnRow DEF OwnMove, Exists, Deleted, NoAttempt
  <2>2. CASE s \notin old.receipts
    BY <1>0, <1>1, <1>5, <2>2, OwnRow DEF OwnMove, Deleted, NoAttempt, Sent
  <2> QED BY SMTT(30), <2>1, <2>2
<1> QED BY <1>2, <1>3, <1>4, <1>5, RowMoves

\* An attempt is completed only when no step is left.
LEMMA SubmittedStep ==
  ASSUME StoreInv, CallOK, OnPlan, SubmittedOK, SubmissionNext PROVE SubmittedOK'
<1>0. /\ TypeOK /\ attempt \in [Attempt -> AttemptRow] /\ marked \subseteq marked'
      /\ forge' = forge
  BY HistoryGrows DEF StoreInv, TypeOK
<1> SUFFICES ASSUME NEW b \in Attempt, attempt'[b].state = "submitted", b \notin marked'
             PROVE  /\ PlanOf(attempt'[b].snapshot) # {}
                    /\ PlanOf(attempt'[b].snapshot) \subseteq attempt'[b].receipts
  BY <1>0 DEF SubmittedOK, PlanOf
<1> DEFINE new == attempt'[b]
           old == attempt[b]
           G == PlanOf(new.snapshot) # {} /\ PlanOf(new.snapshot) \subseteq new.receipts
<1>1. /\ old \in AttemptRow
      /\ /\ old.state = "submitted" /\ new.snapshot = old.snapshot
         /\ new.receipts = old.receipts
         => G
  BY <1>0 DEF SubmittedOK
<1>2. CASE RowSide(b)
  BY <1>1, <1>2 DEF RowSide, Deleted, NoAttempt
<1>3. ASSUME NEW p \in Process, RecoverUnknown(p, b) PROVE G
  BY <1>0, <1>3 DEF RecoverUnknown, AttemptRow
<1>4. ASSUME NEW t \in Task, NEW p \in Process, NEW d \in Draft, Start(t, p, d, b) PROVE G
  BY SMTT(30), <1>0, <1>4 DEF Start, LockSubmission, NoAttempt
<1>5. ASSUME NEW t \in Task, task[t].att = b, Progress(t) PROVE G
  <2>1. ASSUME Complete(t)
        PROVE  PlanOf(old.snapshot) # {} /\ PlanOf(old.snapshot) \subseteq old.receipts
    BY Zenon, <1>5, <2>1 DEF Complete, At, OnPlan, Advancing, Remaining
  <2> QED BY <1>0, <1>1, <1>5, <2>1, OwnRow DEF OwnMove, Deleted, NoAttempt
<1> QED BY <1>2, <1>3, <1>4, <1>5, RowMoves

\* What is sent, and by whom.
LEMMA SentOpsStep ==
  ASSUME TypeOK, CallOK, SubmissionNext
  PROVE  \/ sentOps' = sentOps
         \/ \E t \in Task :
              /\ Send(t)
              /\ sentOps' = sentOps \cup {<<task[t].att, Current(t), task[t].op>>}
BY ZenonT(60), AroundTask, CallsRow
   DEF SubmissionNext, Progress, history, UndoLock, Park, Preflight, PreflightFails, Undo,
       Authorize, DecideRetry, DecideSubmitted, DecideEditable, ReturnMark, Journal, Send,
       Answer, Receipt, Reject, Mark, MarkUnknown, Complete

\* An attempt that exists after a step existed before it, or was made by it.
LEMMA ExistedBefore ==
  ASSUME StoreInv, Next, NEW b \in Attempt, attempt[b].state # "absent", Exists(attempt'[b])
  PROVE  Exists(attempt[b]) /\ RowGrows(b)
<1>1. Exists(attempt[b])
  <2>1. \A p, d, v : ~LockSubmission(p, d, v, b)
    BY DEF LockSubmission
  <2> QED BY <2>1, RowBorn
<1> QED BY <1>1, RowStep DEF RowGone, Exists, Deleted, NoAttempt

\* Counters only grow.
LEMMA IdsStep ==
  ASSUME StoreInv, CallOK, OnPlan, IdsOK, SubmissionNext PROVE IdsOK'
<1>0. /\ TypeOK /\ attempt \in [Attempt -> AttemptRow]
      /\ Next \/ UNCHANGED storeVars
  BY StoreStep DEF StoreInv, TypeOK
<1> SUFFICES ASSUME NEW e \in sentOps'
             PROVE  /\ e[1] \in Attempt
                    /\ attempt'[e[1]].state # "absent"
                    /\ Exists(attempt'[e[1]]) => /\ e[3][1] <= attempt'[e[1]].recons
                                                 /\ e[3][2] <= attempt'[e[1]].retry
                                                 /\ e[3][1] \in Nat /\ e[3][2] \in Nat
  BY DEF IdsOK
<1>1. CASE e \in sentOps
  <2>1. e[1] \in Attempt /\ attempt[e[1]].state # "absent"
    BY <1>1 DEF IdsOK
  <2>2. attempt'[e[1]].state # "absent"
    BY <1>0, <2>1, NeverAbsent DEF storeVars
  <2>3. ASSUME Exists(attempt'[e[1]])
        PROVE  /\ Exists(attempt[e[1]])
               /\ attempt[e[1]].recons <= attempt'[e[1]].recons
               /\ attempt[e[1]].retry <= attempt'[e[1]].retry
    <3>1. attempt[e[1]] \in AttemptRow
      BY <1>0, <2>1
    <3>2. CASE UNCHANGED storeVars
      BY <2>3, <3>1, <3>2 DEF storeVars, AttemptRow
    <3>3. CASE Next
      BY <2>1, <2>3, <3>3, ExistedBefore DEF RowGrows
    <3> QED BY <1>0, <3>2, <3>3
  <2>4. attempt[e[1]].recons \in Nat /\ attempt[e[1]].retry \in Nat
    BY <1>0, <2>1 DEF AttemptRow
  <2>5. StoreInv'
    BY <1>0, Inductive
  <2>6. attempt'[e[1]].recons \in Nat /\ attempt'[e[1]].retry \in Nat
    BY <2>1, <2>5 DEF StoreInv, TypeOK, AttemptRow
  <2> QED BY <1>1, <2>1, <2>2, <2>3, <2>4, <2>6 DEF IdsOK
<1>2. CASE e \notin sentOps
  <2>1. PICK t \in Task : Send(t) /\ e = <<task[t].att, Current(t), task[t].op>>
    BY <1>0, <1>2, SentOpsStep
  <2>2. task[t].att \in Attempt /\ task[t].op = OperationId(task[t].att)
        /\ attempt[task[t].att].state # "absent"
    BY <2>1 DEF Send, At, CallOK, OnPlan, Sending
  <2>3. attempt' = attempt
    BY <2>1 DEF Send, storeVars
  <2>4. e[1] = task[t].att /\ e[3] = <<attempt[e[1]].recons, attempt[e[1]].retry>>
    BY <2>1, <2>2 DEF OperationId
  <2>5. attempt[e[1]].recons \in Nat /\ attempt[e[1]].retry \in Nat
    BY SMTT(30), <1>0, <2>2, <2>4 DEF AttemptRow
  <2> QED BY <2>2, <2>3, <2>4, <2>5
<1> QED BY <1>1, <1>2

\* A plan once bound is followed, and the journal of an attempt is the step its
\* call is at.
LEMMA OnPlanStep ==
  ASSUME StoreInv, CallOK, Exclusive, OnPlan, RowOnPlan, SubmissionNext PROVE OnPlan'
<1>0. /\ TypeOK /\ attempt \in [Attempt -> AttemptRow] /\ task \in [Task -> TaskRow]
      /\ owner \in [Attempt -> Process \cup {None}]
      /\ forge' = forge /\ Idle.pc = "idle"
  BY Zenon, HistoryGrows, IdleOK DEF StoreInv, TypeOK, CallOK
<1> SUFFICES ASSUME NEW t \in Task
             PROVE  LET r   == task'[t]
                        row == attempt'[r.att]
                    IN  /\ r.pc \in Advancing =>
                             /\ owner'[r.att] = r.proc
                             /\ PlanOf(row.snapshot) # {}
                             /\ r.left = PlanOf(row.snapshot) \ row.receipts
                        /\ r.pc \in Sending => /\ row.pending = First(r.left)
                                               /\ row.op = r.op
                                               /\ r.op = <<row.recons, row.retry>>
                        /\ r.pc = "advance" => row.pending = None
                        /\ r.pc = "preflight" /\ r.call # "resume" =>
                             owner'[r.att] = r.proc /\ row.pending = None
  BY ZenonT(60), <1>0 DEF OnPlan, Remaining, PlanOf, OperationId, Current, First
<1> DEFINE r   == task'[t]
           row == attempt'[r.att]
           G == /\ r.pc \in Advancing =>
                     /\ owner'[r.att] = r.proc
                     /\ PlanOf(row.snapshot) # {}
                     /\ r.left = PlanOf(row.snapshot) \ row.receipts
                /\ r.pc \in Sending => /\ row.pending = First(r.left)
                                       /\ row.op = r.op
                                       /\ r.op = <<row.recons, row.retry>>
                /\ r.pc = "advance" => row.pending = None
                /\ r.pc = "preflight" /\ r.call # "resume" =>
                     owner'[r.att] = r.proc /\ row.pending = None
           b == task[t].att
           old == attempt[b]
<1>1. /\ task[t].pc \in Advancing =>
           /\ owner[b] = task[t].proc
           /\ PlanOf(old.snapshot) # {}
           /\ task[t].left = PlanOf(old.snapshot) \ old.receipts
      /\ task[t].pc \in Sending => /\ old.pending = First(task[t].left)
                                   /\ old.op = task[t].op
                                   /\ task[t].op = <<old.recons, old.retry>>
      /\ task[t].pc = "advance" => old.pending = None
      /\ task[t].pc = "preflight" /\ task[t].call # "resume" =>
           owner[b] = task[t].proc /\ old.pending = None
  BY DEF OnPlan, Remaining, OperationId, Current
<1>q. ASSUME r.pc \notin Advancing \cup {"preflight"} PROVE G
  BY <1>q DEF Advancing, Sending
<1>2. ASSUME task[t].pc # "idle", ~Progress(t) PROVE G
  <2>1. \/ r = Idle
        \/ r = task[t] /\ (owner[b] = task[t].proc => OwnedKept(b))
    BY <1>2, Others
  <2>2. CASE r = Idle
    BY <1>0, <1>q, <2>2 DEF Advancing, Sending
  <2>3. CASE r = task[t] /\ (owner[b] = task[t].proc => OwnedKept(b))
    BY SMTT(60), <1>1, <2>3 DEF OwnedKept, Advancing, Sending
  <2> QED BY <2>1, <2>2, <2>3
<1>3. ASSUME task[t].pc = "idle" PROVE G
  <2>1. ASSUME NEW p \in Process, StartUp(p) \/ Exit(p) \/ \E d \in Draft : Edits(p, d) PROVE G
    <3>1. r.pc = "idle"
      BY <1>0, <1>3, <2>1, AroundTask
    <3> QED BY <1>q, <3>1 DEF Advancing, Sending
  <2>2. ASSUME NEW u \in Task, Progress(u) PROVE G
    <3>1. r.pc = "idle"
      BY <1>0, <1>3, <2>2, ProgressTask
    <3> QED BY <1>q, <3>1 DEF Advancing, Sending
  <2>3. ASSUME NEW p \in Process, NEW u \in Task, NEW d \in Draft, NEW a \in Attempt,
               Start(u, p, d, a)
        PROVE  G
    <3>1. CASE u # t
      <4>1. r.pc = "idle"
        BY <1>0, <1>3, <2>3, <3>1 DEF Start
      <4> QED BY <1>q, <4>1 DEF Advancing, Sending
    <3>2. CASE u = t
      <4>1. r.pc \in {"preflight", "undo_lock"} /\ r.proc = p /\ r.att = a
        BY <1>0, <2>3, <3>2 DEF Start, Idle
      <4>2. owner'[a] = p /\ attempt'[a].pending = None
        BY <1>0, <2>3 DEF Start, LockSubmission, NoAttempt
      <4> QED BY <4>1, <4>2 DEF Advancing, Sending
    <3> QED BY <3>1, <3>2
  <2>4. ASSUME NEW p \in Process, NEW u \in Task, NEW a \in Attempt,
               NEW call \in {"resume", "retry", "mark", "return"}, Call(u, p, a, call)
        PROVE  G
    <3>1. CASE u # t
      <4>1. r.pc = "idle"
        BY <1>0, <1>3, <2>4, <3>1 DEF Call
      <4> QED BY <1>q, <4>1 DEF Advancing, Sending
    <3>2. CASE u = t
      <4>1. r.pc = Entry(p, a, call) /\ r.call = call
        BY <1>0, <2>4, <3>2 DEF Call, Idle
      <4>2. \/ r.pc \in {"decide", "undo", "return_mark", "idle"}
            \/ r.pc = "preflight" /\ r.call = "resume"
        BY <4>1 DEF Entry
      <4> QED BY <4>2 DEF Advancing, Sending
    <3> QED BY <3>1, <3>2
  <2> QED BY <2>1, <2>2, <2>3, <2>4 DEF SubmissionNext, Calls
<1>4. ASSUME Progress(t), NEW pc \in Points \ (Advancing \cup {"preflight"}), Goto(t, pc) PROVE G
  BY <1>0, <1>q, <1>4 DEF Goto, TaskRow
<1>5. ASSUME Return(t) PROVE G
  BY <1>0, <1>q, <1>5 DEF Return, Advancing, Sending
<1>6. b \in Attempt \/ ~Progress(t)
  BY <1>0, ProgressTask DEF CallOK
<1>7. ASSUME Preflight(t) PROVE G
  <2> DEFINE plan == PlanOf(old.snapshot)
  <2>1. /\ r.left = plan \ old.receipts /\ r.att = b /\ r.proc = task[t].proc
        /\ \/ r.pc = "authorize"
           \/ r.pc = "advance" /\ (task[t].call # "resume" \/ r.left = {})
    <3> DEFINE left == Remaining(b, plan)
               pc == IF task[t].call = "resume" /\ left # {} THEN "authorize" ELSE "advance"
    <3>1. r = [task[t] EXCEPT !.left = left, !.pc = pc]
      BY <1>0, <1>7 DEF Preflight
    <3>2. task[t] \in TaskRow
      BY <1>0
    <3> HIDE DEF left
    <3>3. \/ pc = "authorize"
          \/ pc = "advance" /\ (task[t].call # "resume" \/ left = {})
      OBVIOUS
    <3> HIDE DEF pc
    <3>4. r.left = left /\ r.pc = pc /\ r.att = b /\ r.proc = task[t].proc
      BY <3>1, <3>2 DEF TaskRow
    <3> QED BY <3>3, <3>4 DEF left, Remaining
  <2>2. /\ owner'[b] = task[t].proc /\ plan # {} /\ b \in Attempt
    BY ZenonT(60), <1>6, <1>7 DEF Preflight, RecordPlan, OwnedActive, Progress
  <2>3. row = [old EXCEPT !.plan = plan]
    BY <1>0, <1>7, <2>1, <2>2 DEF Preflight, RecordPlan
  <2>4. row.snapshot = old.snapshot /\ row.receipts = old.receipts /\ row.pending = old.pending
    <3>1. \A x : \A q \in AttemptRow : LET u == [q EXCEPT !.plan = x]
                                  IN  /\ u.snapshot = q.snapshot /\ u.receipts = q.receipts
                                      /\ u.pending = q.pending
      BY DEF AttemptRow
    <3> QED BY <1>0, <2>2, <2>3, <3>1
  <2>5. r.pc = "advance" => old.pending = None
    BY Zenon, <1>1, <1>7, <2>1, <2>2 DEF Preflight, At, RowOnPlan, Remaining
  <2> QED BY SMTT(30), <2>1, <2>2, <2>4, <2>5 DEF Sending
<1>8. ASSUME Authorize(t) PROVE G
  <2>1. ASSUME AuthorizeRetry(task[t].proc, b, Current(t)), Goto(t, "advance") PROVE G
    <3>1. task[t].pc = "authorize" /\ b \in Attempt
      BY <1>6, <1>8 DEF Authorize, At, Progress
    <3>2. r = [task[t] EXCEPT !.pc = "advance"]
      BY <1>0, <2>1 DEF Goto
    <3>3. r.pc = "advance" /\ r.left = task[t].left /\ r.att = b /\ r.proc = task[t].proc
      BY <1>0, <3>2 DEF TaskRow
    <3>4. /\ attempt'[b] = [old EXCEPT !.retry = @ + 1] /\ old.pending = None
          /\ owner' = owner
      BY <1>0, <2>1, <3>1 DEF AuthorizeRetry
    <3>5. /\ row.snapshot = old.snapshot /\ row.receipts = old.receipts
          /\ row.pending = None
      BY <1>0, <3>1, <3>3, <3>4 DEF AttemptRow
    <3> QED BY <1>1, <3>1, <3>3, <3>4, <3>5 DEF Advancing, Sending
  <2> QED BY <1>5, <1>8, <2>1 DEF Authorize
<1>9. ASSUME DecideRetry(t) PROVE G
  <2>1. ASSUME ReconcileRetry(task[t].proc, b), Goto(t, "preflight") PROVE G
    <3>1. b \in Attempt /\ old.state = "unknown" /\ owner' = [owner EXCEPT ![b] = task[t].proc]
      BY Zenon, <1>6, <1>9, <2>1 DEF Progress, ReconcileRetry, Undecided
    <3>2. r.pc = "preflight" /\ r.att = b /\ r.proc = task[t].proc
      BY <1>0, <2>1 DEF Goto, TaskRow
    <3>3. OwnMove(t)
      BY <1>0, <1>9, OwnRow DEF Progress
    <3>4. old.pending = None
      BY <3>1 DEF RowOnPlan
    <3>5. row.pending = old.pending
      BY <1>9, <3>1, <3>2, <3>3, <3>4 DEF OwnMove, Deleted, NoAttempt, DecideRetry,
         Journal, At
    <3> QED BY Zenon, <1>0, <3>1, <3>2, <3>4, <3>5 DEF Advancing, Sending
  <2>2. ASSUME Goto(t, "park") PROVE G
    BY SMTT(30), <1>4, <1>9, <2>2 DEF Points, Advancing, Sending, Progress
  <2> QED BY <1>5, <1>9, <2>1, <2>2 DEF DecideRetry
<1>10. ASSUME Journal(t) PROVE G
  <2>1. b \in Attempt /\ task[t].pc = "advance"
    BY SMTT(60), <1>6, <1>10 DEF Progress, Journal, At
  <2>2. ASSUME BeginDispatch(task[t].proc, b, Current(t), OperationId(b)),
               task' = [task EXCEPT ![t].pc = "send", ![t].op = OperationId(b)]
        PROVE  G
    <3>1. /\ r.pc = "send" /\ r.op = <<old.recons, old.retry>> /\ r.left = task[t].left
          /\ r.att = b /\ r.proc = task[t].proc
      BY <1>0, <2>2 DEF TaskRow, OperationId
    <3>2. /\ attempt'[b] = [old EXCEPT !.pending = Current(t), !.op = OperationId(b)]
          /\ owner' = owner
      BY <1>0, <2>1, <2>2 DEF BeginDispatch
    <3>3. /\ row.snapshot = old.snapshot /\ row.receipts = old.receipts
          /\ row.pending = First(r.left) /\ row.op = r.op
          /\ row.recons = old.recons /\ row.retry = old.retry
      BY <1>0, <2>1, <3>1, <3>2 DEF AttemptRow, OperationId, Current
    <3> QED BY <1>1, <2>1, <3>1, <3>2, <3>3 DEF Advancing, Sending
  <2>3. ASSUME task' = [task EXCEPT ![t].pc = "mark", ![t].op = OperationId(b)] PROVE G
    <3>1. r.pc = "mark"
      BY <1>0, <2>3 DEF TaskRow
    <3> QED BY <1>q, <3>1 DEF Advancing, Sending
  <2>4. ASSUME Goto(t, "mark") PROVE G
    BY <1>4, <1>10, <2>4 DEF Points, Advancing, Sending, Progress
  <2> QED BY <1>5, <1>10, <2>2, <2>3, <2>4 DEF Journal
<1>11. ASSUME Send(t) \/ Answer(t) PROVE G
  <2>1. task[t].pc \in {"send", "await"} /\ UNCHANGED storeVars
        /\ \E pc \in {"await", "receipt", "reject", "unknown", "mark"} : Goto(t, pc)
    BY <1>11 DEF Send, Answer, At
  <2>2. PICK pc \in {"await", "receipt", "reject", "unknown", "mark"} : Goto(t, pc)
    BY <2>1
  <2>3. /\ r.pc = pc /\ r.left = task[t].left /\ r.op = task[t].op
        /\ r.att = b /\ r.proc = task[t].proc
    BY <1>0, <2>2 DEF Goto, TaskRow
  <2>4. row = old /\ owner' = owner
    BY SMTT(60), <2>1, <2>3 DEF storeVars
  <2> QED BY <1>1, <2>1, <2>3, <2>4 DEF Advancing, Sending
<1>12. ASSUME Receipt(t) PROVE G
  <2>1. b \in Attempt /\ task[t].pc = "receipt"
    BY <1>6, <1>12 DEF Progress, Receipt, At
  <2>2. ASSUME RecordReceipt(task[t].proc, b, Current(t), task[t].op),
               task' = [task EXCEPT ![t].pc = "advance", ![t].left = @ \ {Current(t)}]
        PROVE  G
    <3>1. /\ r.pc = "advance" /\ r.left = task[t].left \ {Current(t)}
          /\ r.att = b /\ r.proc = task[t].proc
      BY SMTT(60), <1>0, <2>2 DEF TaskRow
    <3>2. /\ attempt'[b] = [old EXCEPT !.receipts = @ \cup {Current(t)}, !.pending = None,
                                       !.op = None, !.state = "partial"]
          /\ owner' = owner
      BY <1>0, <2>1, <2>2 DEF RecordReceipt
    <3>3. /\ row.snapshot = old.snapshot /\ row.receipts = old.receipts \cup {Current(t)}
          /\ row.pending = None
      BY <1>0, <2>1, <3>1, <3>2 DEF AttemptRow
    <3> QED BY <1>1, <2>1, <3>1, <3>2, <3>3 DEF Advancing, Sending
  <2>3. ASSUME Goto(t, "unknown") PROVE G
    BY <1>4, <1>12, <2>3 DEF Points, Advancing, Sending, Progress
  <2> QED BY <1>5, <1>12, <2>2, <2>3 DEF Receipt
<1>13. ASSUME UndoLock(t) \/ Park(t) \/ PreflightFails(t) \/ Undo(t) PROVE G
  BY SMTT(60), <1>4, <1>5, <1>13
     DEF UndoLock, Park, PreflightFails, Undo, Points, Advancing, Sending,
     Progress
<1>14. ASSUME DecideSubmitted(t) \/ DecideEditable(t) \/ ReturnMark(t) PROVE G
  <2>1. ASSUME task' = [task EXCEPT ![t].pc = "decide", ![t].seen = attempt[b].receipts] PROVE G
    <3>1. r.pc = "decide"
      BY <1>0, <2>1 DEF TaskRow
    <3> QED BY <1>q, <3>1 DEF Advancing, Sending
  <2> QED BY <1>5, <1>14, <2>1 DEF DecideSubmitted, DecideEditable, ReturnMark
<1>15. ASSUME Reject(t) \/ Mark(t) \/ MarkUnknown(t) \/ Complete(t) PROVE G
  BY SMTT(30), <1>4, <1>5, <1>15 DEF Reject, Mark, MarkUnknown, Complete, Points, Advancing,
     Sending,
     Progress
<1> QED
  BY <1>2, <1>3, <1>7, <1>8, <1>9, <1>10, <1>11, <1>12, <1>13, <1>14, <1>15 DEF Progress

\* The ids a call has not sent yet stay unsent until it sends them.
LEMMA FreshStep ==
  ASSUME StoreInv, CallOK, Exclusive, OnPlan, IdsOK, FreshOK, SubmissionNext PROVE FreshOK'
<1>0. /\ TypeOK /\ attempt \in [Attempt -> AttemptRow] /\ task \in [Task -> TaskRow]
      /\ Idle.pc = "idle"
      /\ \A u \in Task : task[u].left \in SUBSET Step
  BY IdleOK DEF StoreInv, TypeOK, CallOK, TaskRow
<1> DEFINE K(r, row, S) == \A s \in S : <<r.att, s, <<row.recons, row.retry>>>> \notin sentOps'
<1> SUFFICES ASSUME NEW t \in Task
             PROVE  LET r   == task'[t]
                        row == attempt'[r.att]
                    IN  /\ r.pc \in {"advance", "send"} => K(r, row, r.left)
                        /\ r.pc \in Sending => K(r, row, r.left \ {First(r.left)})
                        /\ r.pc = "preflight" /\ r.call # "resume" => K(r, row, Step)
  BY DEF FreshOK, FreshAt, OperationId, Current, First
<1> DEFINE r   == task'[t]
           row == attempt'[r.att]
           G == /\ r.pc \in {"advance", "send"} => K(r, row, r.left)
                /\ r.pc \in Sending => K(r, row, r.left \ {First(r.left)})
                /\ r.pc = "preflight" /\ r.call # "resume" => K(r, row, Step)
           b == task[t].att
           old == attempt[b]
           New(s) == <<b, s, <<old.recons, old.retry>>>> \notin sentOps
<1>1. /\ task[t].pc \in {"advance", "send"} => \A s \in task[t].left : New(s)
      /\ task[t].pc \in Sending => \A s \in task[t].left \ {First(task[t].left)} : New(s)
      /\ task[t].pc = "preflight" /\ task[t].call # "resume" => \A s \in Step : New(s)
  BY DEF FreshOK, FreshAt, OperationId, Current
<1>q. ASSUME r.pc \notin Advancing \cup {"preflight"} PROVE G
  BY Zenon, <1>q DEF Advancing, Sending
<1>2. ASSUME task[t].pc # "idle", ~Progress(t) PROVE G
  <2>1. \/ r = Idle
        \/ r = task[t] /\ (owner[b] = task[t].proc => OwnedKept(b))
    BY <1>2, Others
  <2>2. CASE r = Idle
    BY <1>0, <1>q, <2>2 DEF Advancing, Sending
  <2>3. ASSUME r = task[t], owner[b] = task[t].proc, OwnedKept(b) PROVE G
    <3>1. \A s, op : <<b, s, op>> \in sentOps' => <<b, s, op>> \in sentOps
      <4>1. ASSUME NEW u \in Task, Send(u) PROVE task[u].att # b
        <5>1. /\ u # t /\ task[u].pc = "send"
              /\ owner[task[u].att] = task[u].proc
          BY <1>2, <4>1 DEF Send, At, Progress, OnPlan, Advancing, Sending
        <5> QED BY <1>2, <2>3, <5>1 DEF Exclusive
      <4> QED BY <1>0, <4>1, SentOpsStep
    <3>2. row = old
      BY <2>3 DEF OwnedKept
    <3> QED BY <1>1, <2>3, <3>1, <3>2
  <2>4. r.pc \in Advancing \/ (r.pc = "preflight" /\ r.call # "resume") \/ G
    BY SMTT(30) DEF Advancing, Sending
  <2> QED BY Zenon, <2>1, <2>2, <2>3, <2>4 DEF OnPlan
<1>3. ASSUME task[t].pc = "idle" PROVE G
  <2>1. ASSUME NEW p \in Process, StartUp(p) \/ Exit(p) \/ \E d \in Draft : Edits(p, d) PROVE G
    <3>1. r.pc = "idle"
      BY <1>0, <1>3, <2>1, AroundTask
    <3> QED BY <1>q, <3>1 DEF Advancing, Sending
  <2>2. ASSUME NEW u \in Task, Progress(u) PROVE G
    <3>1. r.pc = "idle"
      BY <1>0, <1>3, <2>2, ProgressTask
    <3> QED BY <1>q, <3>1 DEF Advancing, Sending
  <2>3. ASSUME NEW p \in Process, NEW u \in Task, NEW d \in Draft, NEW a \in Attempt,
               Start(u, p, d, a)
        PROVE  G
    <3>1. CASE u # t
      <4>1. r.pc = "idle"
        BY <1>0, <1>3, <2>3, <3>1 DEF Start
      <4> QED BY <1>q, <4>1 DEF Advancing, Sending
    <3>2. CASE u = t
      <4>1. r.pc \in {"preflight", "undo_lock"} /\ r.att = a
        BY <1>0, <2>3, <3>2 DEF Start, Idle
      <4>2. attempt[a].state = "absent" /\ sentOps' = sentOps
        BY <2>3 DEF Start, LockSubmission, history
      <4>3. \A e \in sentOps : e[1] # a
        BY <4>2 DEF IdsOK
      <4> QED BY <4>1, <4>2, <4>3 DEF Sending
    <3> QED BY <3>1, <3>2
  <2>4. ASSUME NEW p \in Process, NEW u \in Task, NEW a \in Attempt,
               NEW call \in {"resume", "retry", "mark", "return"}, Call(u, p, a, call)
        PROVE  G
    <3>1. CASE u # t
      <4>1. r.pc = "idle"
        BY <1>0, <1>3, <2>4, <3>1 DEF Call
      <4> QED BY <1>q, <4>1 DEF Advancing, Sending
    <3>2. CASE u = t
      <4>1. r.pc = Entry(p, a, call) /\ r.call = call
        BY <1>0, <2>4, <3>2 DEF Call, Idle
      <4>2. \/ r.pc \in {"decide", "undo", "return_mark", "idle"}
            \/ r.pc = "preflight" /\ r.call = "resume"
        BY <4>1 DEF Entry
      <4> QED BY <4>2 DEF Sending
    <3> QED BY <3>1, <3>2
  <2> QED BY <2>1, <2>2, <2>3, <2>4 DEF SubmissionNext, Calls
<1>4. ASSUME Progress(t), NEW pc \in Points \ (Advancing \cup {"preflight"}), Goto(t, pc) PROVE G
  BY <1>0, <1>q, <1>4 DEF Goto, TaskRow
<1>5. ASSUME Return(t) PROVE G
  BY <1>0, <1>q, <1>5 DEF Return, Advancing, Sending
<1>6. b \in Attempt \/ ~Progress(t)
  BY <1>0, ProgressTask DEF CallOK
<1>n. ASSUME Exists(old), NEW m, NEW n, m > old.recons \/ n > old.retry, b \in Attempt
      PROVE  \A s : <<b, s, <<m, n>>>> \notin sentOps
  <2> SUFFICES ASSUME NEW s, <<b, s, <<m, n>>>> \in sentOps PROVE FALSE
    OBVIOUS
  <2>1. m <= old.recons /\ n <= old.retry /\ m \in Nat /\ n \in Nat
    <3> DEFINE e == <<b, s, <<m, n>>>>
    <3>1. e \in sentOps /\ e[1] = b /\ e[3][1] = m /\ e[3][2] = n
      OBVIOUS
    <3> HIDE DEF e
    <3> QED BY <1>n, <3>1 DEF IdsOK
  <2>2. old.recons \in Nat /\ old.retry \in Nat
    <3>1. \A q \in AttemptRow : q.recons \in Nat /\ q.retry \in Nat
      BY SMTT(60) DEF AttemptRow
    <3> QED BY <1>0, <1>n, <3>1
  <2> QED BY <1>n, <2>1, <2>2
<1>7. ASSUME Preflight(t) PROVE G
  <2> DEFINE plan == PlanOf(old.snapshot)
  <2>1. /\ r.left = plan \ old.receipts /\ r.att = b
        /\ \/ r.pc = "authorize"
           \/ r.pc = "advance" /\ (task[t].call # "resume" \/ r.left = {})
    BY <1>0, <1>7 DEF Preflight, Remaining, TaskRow
  <2>2. b \in Attempt /\ plan \in SUBSET Step /\ sentOps' = sentOps /\ task[t].pc = "preflight"
    <3>1. b \in Attempt /\ sentOps' = sentOps /\ task[t].pc = "preflight"
      BY ZenonT(60), <1>6, <1>7 DEF Preflight, At, Progress, history
    <3> QED BY <1>0, <3>1, PlanSteps DEF AttemptRow
  <2>3. row = [old EXCEPT !.plan = plan]
    BY <1>0, <1>7, <2>1, <2>2 DEF Preflight, RecordPlan
  <2>4. row.recons = old.recons /\ row.retry = old.retry
    BY <1>0, <2>2, <2>3 DEF AttemptRow
  <2>5. r.pc = "advance" =>
          \A s \in r.left : <<b, s, <<row.recons, row.retry>>>> \notin sentOps'
    BY <1>1, <2>1, <2>2, <2>4
  <2> QED BY SMTT(60), <2>1, <2>5 DEF Sending
<1>8. ASSUME Authorize(t) PROVE G
  <2>1. ASSUME AuthorizeRetry(task[t].proc, b, Current(t)), Goto(t, "advance") PROVE G
    <3>1. b \in Attempt /\ sentOps' = sentOps
      BY <1>6, <1>8 DEF Authorize, Progress, history
    <3>2. r.pc = "advance" /\ r.att = b
      BY <1>0, <2>1 DEF Goto, TaskRow
    <3>3. /\ attempt'[b] = [old EXCEPT !.retry = @ + 1] /\ Exists(old)
      BY <1>0, <2>1, <3>1 DEF AuthorizeRetry, OwnedActive, Exists
    <3>4. row.recons = old.recons /\ row.retry > old.retry
      BY <1>0, <3>1, <3>2, <3>3 DEF AttemptRow
    <3>5. \A s : <<b, s, <<row.recons, row.retry>>>> \notin sentOps
      BY SMTT(60), <1>n, <3>1, <3>3, <3>4
    <3> QED BY <3>1, <3>2, <3>5 DEF Sending
  <2> QED BY <1>5, <1>8, <2>1 DEF Authorize
<1>9. ASSUME DecideRetry(t) PROVE G
  <2>1. ASSUME ReconcileRetry(task[t].proc, b), Goto(t, "preflight") PROVE G
    <3>1. b \in Attempt /\ Exists(old) /\ sentOps' = sentOps
      BY Zenon, <1>6, <1>9, <2>1 DEF Progress, DecideRetry, ReconcileRetry, Undecided, Exists
    <3>2. r.pc = "preflight" /\ r.att = b
      BY ZenonT(60), <1>0, <2>1 DEF Goto, TaskRow
    <3>3. \E state : attempt' = Reconciled(b, state)
      BY Zenon, <2>1 DEF ReconcileRetry
    <3>4. row.recons > old.recons
      BY <1>0, <3>1, <3>2, <3>3 DEF Reconciled, AttemptRow
    <3>5. \A s : <<b, s, <<row.recons, row.retry>>>> \notin sentOps
      BY <1>n, <3>1, <3>4
    <3> QED BY Zenon, <3>1, <3>2, <3>5 DEF Sending
  <2>2. ASSUME Goto(t, "park") PROVE G
    BY <1>4, <1>9, <2>2 DEF Points, Advancing, Sending, Progress
  <2> QED BY <1>5, <1>9, <2>1, <2>2 DEF DecideRetry
<1>10. ASSUME Journal(t) PROVE G
  <2>1. b \in Attempt /\ task[t].pc = "advance" /\ sentOps' = sentOps
    BY <1>6, <1>10 DEF Progress, Journal, At, history
  <2>2. ASSUME BeginDispatch(task[t].proc, b, Current(t), OperationId(b)),
               task' = [task EXCEPT ![t].pc = "send", ![t].op = OperationId(b)]
        PROVE  G
    <3>1. r.pc = "send" /\ r.left = task[t].left /\ r.att = b
      BY <1>0, <2>2 DEF TaskRow
    <3>2. attempt'[b] = [old EXCEPT !.pending = Current(t), !.op = OperationId(b)]
      BY <1>0, <2>1, <2>2 DEF BeginDispatch
    <3>3. row.recons = old.recons /\ row.retry = old.retry
      BY <1>0, <2>1, <3>1, <3>2 DEF AttemptRow
    <3> QED BY <1>1, <2>1, <3>1, <3>3
  <2>3. ASSUME task' = [task EXCEPT ![t].pc = "mark", ![t].op = OperationId(b)] PROVE G
    <3>1. r.pc = "mark"
      BY <1>0, <2>3 DEF TaskRow
    <3> QED BY <1>q, <3>1 DEF Advancing, Sending
  <2>4. ASSUME Goto(t, "mark") PROVE G
    BY <1>4, <1>10, <2>4 DEF Points, Advancing, Sending, Progress
  <2> QED BY <1>5, <1>10, <2>2, <2>3, <2>4 DEF Journal
<1>11. ASSUME Send(t) PROVE G
  <2>1. r = [task[t] EXCEPT !.pc = "await"] /\ task[t].pc = "send"
    BY <1>0, <1>11 DEF Send, Goto, At
  <2>2. r.pc = "await" /\ r.left = task[t].left /\ r.att = b
    BY <1>0, <2>1 DEF TaskRow
  <2>3. row = old /\ sentOps' = sentOps \cup {<<b, First(task[t].left), task[t].op>>}
    BY <1>11, <2>2 DEF Send, storeVars, Current
  <2> QED BY <1>1, <2>1, <2>2, <2>3
<1>12. ASSUME Answer(t) PROVE G
  <2>1. PICK pc \in {"receipt", "reject", "unknown", "mark"} : Goto(t, pc)
    BY <1>12 DEF Answer
  <2>2. r.pc = pc /\ r.left = task[t].left /\ r.att = b
    BY <1>0, <2>1 DEF Goto, TaskRow
  <2>3. row = old /\ sentOps' = sentOps /\ task[t].pc = "await"
    BY SMTT(60), <1>12, <2>2 DEF Answer, storeVars, At
  <2> QED BY <1>1, <2>2, <2>3 DEF Sending
<1>13. ASSUME Receipt(t) PROVE G
  <2>1. b \in Attempt /\ task[t].pc = "receipt" /\ sentOps' = sentOps
    BY <1>6, <1>13 DEF Progress, Receipt, At
  <2>2. ASSUME RecordReceipt(task[t].proc, b, Current(t), task[t].op),
               task' = [task EXCEPT ![t].pc = "advance", ![t].left = @ \ {Current(t)}]
        PROVE  G
    <3>1. r.pc = "advance" /\ r.left = task[t].left \ {First(task[t].left)} /\ r.att = b
      BY <1>0, <2>2 DEF TaskRow, Current
    <3>2. attempt'[b] = [old EXCEPT !.receipts = @ \cup {Current(t)}, !.pending = None,
                                    !.op = None, !.state = "partial"]
      BY <1>0, <2>1, <2>2 DEF RecordReceipt
    <3>3. row.recons = old.recons /\ row.retry = old.retry
      BY <1>0, <2>1, <3>1, <3>2 DEF AttemptRow
    <3> QED BY <1>1, <2>1, <3>1, <3>3 DEF Sending
  <2>3. ASSUME Goto(t, "unknown") PROVE G
    BY <1>4, <1>13, <2>3 DEF Points, Advancing, Sending, Progress
  <2> QED BY <1>5, <1>13, <2>2, <2>3 DEF Receipt
<1>14. ASSUME UndoLock(t) \/ Park(t) \/ PreflightFails(t) \/ Undo(t) PROVE G
  BY SMTT(30), <1>4, <1>5, <1>14 DEF UndoLock, Park, PreflightFails, Undo, Points, Advancing,
     Sending,
     Progress
<1>15. ASSUME DecideSubmitted(t) \/ DecideEditable(t) \/ ReturnMark(t) PROVE G
  <2>1. ASSUME task' = [task EXCEPT ![t].pc = "decide", ![t].seen = attempt[b].receipts] PROVE G
    <3>1. r.pc = "decide"
      BY <1>0, <2>1 DEF TaskRow
    <3> QED BY <1>q, <3>1 DEF Advancing, Sending
  <2> QED BY <1>5, <1>15, <2>1 DEF DecideSubmitted, DecideEditable, ReturnMark
<1>16. ASSUME Reject(t) \/ Mark(t) \/ MarkUnknown(t) \/ Complete(t) PROVE G
  BY Zenon, <1>4, <1>5, <1>16 DEF Reject, Mark, MarkUnknown, Complete, Points, Advancing, Sending,
     Progress
<1> QED
  BY <1>2, <1>3, <1>7, <1>8, <1>9, <1>10, <1>11, <1>12, <1>13, <1>14, <1>15, <1>16 DEF Progress

\* Doubt arises by sending only.
LEMMA InDoubtStep ==
  ASSUME TypeOK, CallOK, SubmissionNext
  PROVE  \/ inDoubt' \subseteq inDoubt
         \/ \E t \in Task : Send(t) /\ inDoubt' = inDoubt \cup Sent(t)
BY ZenonT(60), AroundTask, CallsRow
   DEF SubmissionNext, Progress, history, UndoLock, Park, Preflight, PreflightFails, Undo,
       Authorize, DecideRetry, DecideSubmitted, DecideEditable, ReturnMark, Journal, Send,
       Answer, Receipt, Reject, Mark, MarkUnknown, Complete

\* While a call owns its attempt, the draft is locked by it.
LEMMA OwnDraft ==
  ASSUME StoreInv, CallOK, OnPlan, NEW t \in Task, task[t].pc \in Advancing
  PROVE  /\ task[t].att \in Attempt /\ attempt[task[t].att].state \in Active
         /\ attempt[task[t].att].draft \in Draft
         /\ draft[attempt[task[t].att].draft].active = task[t].att
<1>1. task[t].att \in Attempt /\ owner[task[t].att] = task[t].proc /\ task[t].proc \in Process
  BY DEF OnPlan, CallOK, Advancing, Sending
<1> QED BY <1>1 DEF StoreInv, OwnedIsActive, Agreement, Exists

\* What the forge may have got stays on record until somebody decides about it.
LEMMA DoubtStep ==
  ASSUME StoreInv, CallOK, Exclusive, OnPlan, RowOnPlan, DoubtOK, Clear, SubmissionNext
  PROVE  DoubtOK'
<1>0. /\ TypeOK /\ Agreement /\ attempt \in [Attempt -> AttemptRow]
      /\ draft \in [Draft -> DraftRow] /\ Agreement' /\ forge' = forge
  <2>1. StoreInv'
    BY StoreStep, Inductive DEF StoreInv
  <2> QED BY <2>1, HistoryGrows DEF StoreInv, TypeOK
<1> DEFINE Kept(x) ==
      /\ x \in Draft \X (Item \cup {Vote})
      /\ draft'[x[1]].active # None
      /\ attempt'[draft'[x[1]].active].state \in Active =>
           /\ attempt'[draft'[x[1]].active].pending # None
           /\ x[2] \in Units(attempt'[draft'[x[1]].active].snapshot,
                             attempt'[draft'[x[1]].active].pending)
      /\ attempt'[draft'[x[1]].active].state = "unknown" =>
           attempt'[draft'[x[1]].active].unknowns # {}
<1> SUFFICES ASSUME NEW x \in inDoubt' PROVE Kept(x)
  BY Zenon DEF DoubtOK, Units
<1>1. CASE x \notin inDoubt
  <2>1. PICK t \in Task : Send(t) /\ x \in Sent(t)
    BY <1>0, <1>1, InDoubtStep
  <2> DEFINE b == task[t].att
  <2>2. task[t].pc = "send" /\ UNCHANGED storeVars
    BY <2>1 DEF Send, At
  <2>3. /\ b \in Attempt /\ attempt[b].state \in Active /\ attempt[b].draft \in Draft
        /\ draft[attempt[b].draft].active = b
    BY <2>2, OwnDraft DEF Advancing, Sending
  <2>4. /\ attempt[b].pending = Current(t)
        /\ Current(t) # None
        /\ Current(t) \in PlanOf(attempt[b].snapshot)
        /\ attempt[b].snapshot \in Content
    <3>1. task[t].left # {} /\ task[t].left \in SUBSET Step
      BY <2>2 DEF CallOK, TaskRow, Stepping
    <3>2. Current(t) \in task[t].left
      BY <3>1, FirstIsOne DEF Current
    <3> QED BY <1>0, <2>2, <2>3, <3>1, <3>2 DEF OnPlan, Advancing, Sending, Remaining, AttemptRow
  <2>5. x = <<attempt[b].draft, x[2]>> /\ x[2] \in Units(attempt[b].snapshot, Current(t))
    BY <2>1 DEF Sent
  <2>6. x[1] = attempt[b].draft /\ x \in Draft \X (Item \cup {Vote})
    BY SMTT(30), <2>3, <2>4, <2>5, UnitsType
  <2> QED BY Zenon, <2>2, <2>3, <2>4, <2>5, <2>6 DEF storeVars
<1>2. CASE x \in inDoubt
  <2> DEFINE d   == x[1]
             a   == draft[d].active
             old == attempt[a]
             new == attempt'[a]
  <2>1. /\ x \in Draft \X (Item \cup {Vote})
        /\ d \in Draft /\ a # None /\ a \in Attempt
        /\ old.draft = d /\ Exists(old) /\ old.state \in Locking
        /\ old.state \in Active =>
             /\ old.pending # None
             /\ x[2] \in Units(old.snapshot, old.pending)
        /\ old.state = "unknown" => old.unknowns # {}
        /\ x \in About(a)
        /\ old \in AttemptRow
    BY SMTT(60), <1>0, <1>2 DEF DoubtOK, Agreement, DraftRow, Exists, About
  <2>s. ASSUME draft'[d].active = a, new = old PROVE Kept(x)
    BY SMTT(60), <2>1, <2>s
  <2>r. ASSUME draft'[d].active = a, RowSide(a) PROVE Kept(x)
    BY SMTT(60), <1>0, <2>1, <2>s, <2>r DEF RowSide, Agreement, Deleted, NoAttempt
  <2>2. ASSUME NEW p \in Process, StartUp(p) \/ Exit(p) PROVE Kept(x)
    <3>1. Lifecycle(p) /\ ~RecoverUnreadable(p, a)
      BY <2>2 DEF StartUp, Exit, Lifecycle, RecoverUnreadable, CallOK
    <3>2. draft'[d].active = a
      BY SMTT(60), <1>0, <2>1, <3>1, LifecycleDraft
    <3>3. CASE RecoverUnknown(p, a)
      <4>1. /\ old.state \in Active
            /\ new = [old EXCEPT !.state = "unknown",
                        !.unknowns = @ \cup ({old.pending} \ {None}),
                        !.pending = None, !.op = None]
        BY <1>0, <2>1, <3>3 DEF RecoverUnknown
      <4>2. new.state = "unknown" /\ new.unknowns = old.unknowns \cup ({old.pending} \ {None})
        BY <2>1, <4>1 DEF AttemptRow
      <4>3. new.unknowns # {} /\ new.state \notin Active
        BY SMTT(60), <2>1, <4>1, <4>2
      <4> QED BY SMTT(30), <2>1, <3>2, <4>3
    <3> QED BY <1>0, <2>1, <2>r, <3>1, <3>2, <3>3, LifecycleSide
  <2>3. ASSUME NEW p \in Process, NEW e \in Draft, Edit(p, e) PROVE Kept(x)
    <3>1. draft'[d].active = a
      BY SMTT(30), <1>0, <2>1, <2>3, EditDraft
    <3>2. \A v : ~LockSubmission(p, e, v, a)
      BY <2>1 DEF LockSubmission, Exists
    <3> QED BY <1>0, <2>1, <2>3, <2>r, <3>1, <3>2, EditSide
  <2>4. ASSUME NEW p \in Process, NEW e \in Draft, Edits(p, e) PROVE Kept(x)
    <3>1. draft[e].version \in 0 .. MaxVersion
      BY <1>0 DEF TypeOK, DraftRow
    <3> QED BY <2>3, <2>4, <3>1 DEF Edits, Edit
  <2>5. ASSUME NEW p \in Process, NEW t \in Task, Calls(t, p) PROVE Kept(x)
    <3>1. ASSUME NEW e \in Draft, NEW b \in Attempt, Start(t, p, e, b) PROVE Kept(x)
      <4>1. draft[e].version \in 0 .. MaxVersion
        BY <1>0 DEF TypeOK, DraftRow
      <4> QED BY <2>3, <3>1, <4>1 DEF Start, Edit
    <3>2. ASSUME NEW b, NEW call, Call(t, p, b, call) PROVE Kept(x)
      BY SMTT(60), <2>s, <3>2 DEF Call, storeVars
    <3> QED BY <2>5, <3>1, <3>2 DEF Calls
  <2>6. ASSUME NEW t \in Task, Progress(t), task[t].att # a PROVE Kept(x)
    <3>1. CASE UNCHANGED storeVars
      BY <2>s, <3>1 DEF storeVars
    <3>2. CASE Submit(task[t].proc, task[t].att) \/ Decide(task[t].proc, task[t].att)
      <4>1. task[t].proc \in Process /\ task[t].att \in Attempt
        BY <1>0, <2>6, ProgressStore
      <4>2. draft'[d] = draft[d]
        BY <1>0, <2>1, <2>6, <3>2, <4>1, SubmitDraft, DecideDraft
      <4>3. RowSide(a)
        BY Zenon, <1>0, <2>1, <2>6, <3>2, <4>1, SubmitSide, DecideSide
      <4> QED BY <2>r, <4>2, <4>3
    <3> QED BY <1>0, <2>6, <3>1, <3>2, ProgressStore
  <2>7. ASSUME NEW t \in Task, Progress(t), task[t].att = a PROVE Kept(x)
    <3>1. ASSUME task[t].pc = "advance" PROVE old.state \notin Active
      BY <2>1, <2>7, <3>1 DEF OnPlan
    <3>2. ~Journal(t) \/ old.state \notin Active
      BY <3>1 DEF Journal, At
    <3>3. ~Complete(t) \/ old.state \notin Active
      BY <3>1 DEF Complete, At
    <3>4. ~Reject(t)
      BY <2>1, <2>7 DEF Reject, At, Clear
    <3>5. ASSUME old.pending = Current(t), inDoubt' = inDoubt \ Sent(t), old.state \in Active
          PROVE  FALSE
      <4>1. x = <<d, x[2]>>
        BY SMTT(60), <2>1
      <4>2. x \in Sent(t)
        BY <2>1, <2>7, <3>5, <4>1 DEF Sent
      <4> QED BY <3>5, <4>2
    <3>6. ASSUME About(a) \cap inDoubt' = {} PROVE FALSE
      BY <2>1, <3>6
    <3>7. ASSUME new = old, draft' = draft PROVE Kept(x)
      BY SMTT(30), <2>s, <3>7
    <3>8. ASSUME new.draft = old.draft, new.snapshot = old.snapshot, new.state = old.state,
                 old.state \in Active, new.pending = old.pending
          PROVE  Kept(x)
      <4>1. draft'[d].active = a
        BY SMTT(60), <1>0, <2>1, <3>8 DEF Agreement, Exists
      <4> QED BY SMTT(60), <2>1, <3>8, <4>1
    <3>9. ASSUME old.state \in Active, new.state = "unknown",
                 old.unknowns \cup ({old.pending} \ {None}) \subseteq new.unknowns,
                 \A e \in Draft : draft'[e].active = draft[e].active
          PROVE  Kept(x)
      <4>1. draft'[d].active = a /\ new.unknowns # {} /\ new.state \notin Active
        BY <2>1, <3>9
      <4> QED BY SMTT(60), <2>1, <4>1
    <3>10. OwnMove(t)
      BY <1>0, <2>7, OwnRow
    <3> HIDE DEF Kept, old, new
    <3> QED
      BY Zenon, <2>1, <2>7, <3>2, <3>3, <3>4, <3>5, <3>6, <3>7, <3>8, <3>9, <3>10 DEF OwnMove,
         old, new
  <2> QED BY SMTT(60), <2>2, <2>4, <2>5, <2>6, <2>7 DEF SubmissionNext
<1> QED BY <1>1, <1>2

\* Nothing about its draft is in doubt when a call sends, or when it is refused.
LEMMA ClearStep ==
  ASSUME StoreInv, CallOK, Exclusive, OnPlan, RowOnPlan, DoubtOK, Clear, SubmissionNext
  PROVE  Clear'
<1>0. /\ TypeOK /\ attempt \in [Attempt -> AttemptRow] /\ task \in [Task -> TaskRow]
      /\ Idle.pc = "idle"
  BY IdleOK DEF StoreInv, TypeOK, CallOK
<1> SUFFICES ASSUME NEW t \in Task, task'[t].pc \in {"send", "reject"},
                    NEW x \in inDoubt', x[1] = attempt'[task'[t].att].draft
             PROVE  FALSE
  BY SMTT(30) DEF Clear, About
<1> DEFINE b   == task[t].att
           old == attempt[b]
<1>a. ASSUME task[t].pc \in Advancing, x \in inDoubt, x[1] = old.draft
      PROVE  old.pending # None /\ x \in {old.draft} \X Units(old.snapshot, old.pending)
  <2>1. old.state \in Active /\ draft[x[1]].active = b
    BY <1>a, OwnDraft
  <2>2. x = <<x[1], x[2]>>
    BY <1>a DEF DoubtOK
  <2> QED BY <1>a, <2>1, <2>2 DEF DoubtOK
<1>1. CASE task[t].pc # "idle" /\ ~Progress(t)
  <2>1. /\ task'[t] = task[t] /\ task[t].pc \in {"send", "reject"}
        /\ owner[b] = task[t].proc => OwnedKept(b)
    BY <1>0, <1>1, Others
  <2>2. owner[b] = task[t].proc /\ About(b) = {} /\ attempt'[b] = old
    BY <2>1 DEF OnPlan, Clear, OwnedKept, Advancing, Sending
  <2>3. x \notin inDoubt
    BY <2>1, <2>2 DEF About
  <2>4. PICK u \in Task : Send(u) /\ x \in Sent(u)
    BY <1>0, <2>3, InDoubtStep
  <2>5. u # t /\ task[u].pc = "send"
    BY <1>1, <2>4 DEF Progress, Send, At
  <2>6. x[1] = attempt[task[u].att].draft
    BY <2>4 DEF Sent
  <2>7. task[u].att = b
    BY <2>1, <2>2, <2>5, <2>6, OwnDraft DEF Advancing, Sending
  <2> QED BY <1>1, <2>2, <2>5, <2>7 DEF Exclusive, OnPlan, Advancing, Sending
<1>2. CASE task[t].pc = "idle"
  <2>1. ASSUME NEW p \in Process, StartUp(p) \/ Exit(p) \/ \E d \in Draft : Edits(p, d)
        PROVE  FALSE
    BY <1>0, <1>2, <2>1, AroundTask
  <2>2. ASSUME NEW u \in Task, Progress(u) PROVE FALSE
    BY <1>0, <1>2, <2>2, ProgressTask
  <2>3. ASSUME NEW p, NEW u \in Task, NEW d, NEW a, Start(u, p, d, a) PROVE FALSE
    BY <1>0, <1>2, <2>3 DEF Start, Idle
  <2>4. ASSUME NEW p, NEW u \in Task, NEW a, NEW call, Call(u, p, a, call) PROVE FALSE
    <3>1. Entry(p, a, call) \notin {"send", "reject"}
      BY DEF Entry
    <3> QED BY <1>0, <1>2, <2>4, <3>1 DEF Call, Idle
  <2> QED BY <2>1, <2>2, <2>3, <2>4 DEF SubmissionNext, Calls
<1>3. CASE Progress(t)
  <2>1. task'[t].att = b /\ b \in Attempt
    BY <1>0, <1>3, ProgressTask DEF CallOK
  <2>r. ~Return(t) /\ \A pc : Goto(t, pc) => pc \in {"send", "reject"}
    BY <1>0 DEF Return, Goto, TaskRow
  <2>2. CASE Journal(t)
    <3>1. /\ task[t].pc = "advance" /\ inDoubt' = inDoubt
          /\ BeginDispatch(task[t].proc, b, Current(t), OperationId(b))
      BY <2>2, <2>r DEF Journal, At, history
    <3>2. attempt'[b] = [old EXCEPT !.pending = Current(t), !.op = OperationId(b)]
      BY <1>0, <2>1, <3>1 DEF BeginDispatch
    <3>3. attempt'[b].draft = old.draft
      BY <1>0, <2>1, <3>2 DEF AttemptRow
    <3> QED BY <1>a, <2>1, <3>1, <3>3 DEF OnPlan, Advancing
  <2>3. CASE Answer(t)
    <3>1. task[t].pc = "await" /\ UNCHANGED storeVars /\ inDoubt' = inDoubt \ Sent(t)
      BY <2>3, <2>r DEF Answer, At
    <3>2. x \in inDoubt /\ x[1] = old.draft /\ x \notin Sent(t)
      BY <2>1, <3>1 DEF storeVars
    <3>3. x \in {old.draft} \X Units(old.snapshot, Current(t))
      BY <1>a, <3>1, <3>2 DEF OnPlan, Advancing, Sending
    <3> QED BY <3>2, <3>3 DEF Sent
  <2>4. ASSUME NEW pc \in Points, NEW left, task' = [task EXCEPT ![t].pc = pc, ![t].left = left]
        PROVE  pc \in {"send", "reject"}
    BY <1>0, <2>4 DEF TaskRow
  <2>5. ASSUME NEW pc \in Points, NEW left, task' = [task EXCEPT ![t].left = left, ![t].pc = pc]
        PROVE  pc \in {"send", "reject"}
    BY <1>0, <2>5 DEF TaskRow
  <2>6. ASSUME NEW pc \in Points, NEW seen, task' = [task EXCEPT ![t].pc = pc, ![t].seen = seen]
        PROVE  pc \in {"send", "reject"}
    BY <1>0, <2>6 DEF TaskRow
  <2>7. ~Preflight(t)
    <3> DEFINE plan == PlanOf(old.snapshot)
    <3>1. ASSUME Preflight(t)
          PROVE  \E pc \in {"authorize", "advance"} :
                   task' = [task EXCEPT ![t].left = Remaining(b, plan), ![t].pc = pc]
      BY <3>1 DEF Preflight
    <3> QED BY SMTT(30), <2>5, <3>1 DEF Points
  <2>8. ~ReturnMark(t) /\ ~Receipt(t)
    BY SMTT(60), <2>r, <2>4, <2>6 DEF ReturnMark, Receipt, Points
  <2> QED
    BY <1>3, <2>2, <2>3, <2>7, <2>8, <2>r DEF Progress, UndoLock, Park, PreflightFails, Undo,
       Authorize, DecideRetry, DecideSubmitted, DecideEditable, Send, Reject, Mark, MarkUnknown,
       Complete
<1> QED BY <1>1, <1>2, <1>3

\* The histories stay well formed.
LEMMA HistoryStep ==
  ASSUME StoreInv, CallOK, OnPlan, RowOnPlan, HistoryOK, SubmissionNext PROVE HistoryOK'
<1>0. TypeOK
  BY DEF StoreInv
<1>1. ASSUME NEW t \in Task, Progress(t) PROVE HistoryOK'
  <2> DEFINE a == task[t].att
  <2>1. a \in Attempt /\ attempt[a] \in AttemptRow
    BY <1>0, <1>1, ProgressStore DEF TypeOK
  <2>2. ASSUME task[t].pc \in Sending
        PROVE  /\ Current(t) \in Step /\ task[t].op \in Operation
               /\ Sent(t) \subseteq Draft \X (Item \cup {Vote})
    <3>1. attempt[a].draft \in Draft
      BY <1>0, <2>2, OwnDraft DEF Advancing
    <3>2. /\ task[t].left = Remaining(a, PlanOf(attempt[a].snapshot))
          /\ task[t].left \in SUBSET Step /\ task[t].left # {}
      BY <2>2 DEF OnPlan, CallOK, TaskRow, Advancing, Sending, Stepping
    <3>3. Current(t) \in PlanOf(attempt[a].snapshot) /\ Current(t) \in Step
      BY <3>2, FirstIsOne DEF Current, Remaining
    <3>4. Units(attempt[a].snapshot, Current(t)) \subseteq Item \cup {Vote}
      BY <2>1, <3>3, UnitsType DEF AttemptRow
    <3> QED BY <2>2, <3>1, <3>3, <3>4 DEF Sent, CallOK
  <2>3. CASE Send(t)
    BY <2>1, <2>2, <2>3 DEF HistoryOK, Send, At, Sending
  <2>4. CASE Receipt(t)
    BY <2>2, <2>4 DEF HistoryOK, Receipt, At, Sending
  <2>5. CASE DecideSubmitted(t)
    BY <2>1, <2>5 DEF HistoryOK, DecideSubmitted
  <2>6. CASE ~(Send(t) \/ Receipt(t) \/ DecideSubmitted(t))
    <3>1. UNCHANGED <<confirmed, sentOps, marked>>
      BY <1>1, <2>6 DEF Progress, UndoLock, Park, Preflight, PreflightFails, Undo, Authorize,
         DecideRetry, DecideEditable, ReturnMark, Journal, Answer,
         Reject, Mark, MarkUnknown, Complete, history
    <3> QED BY SMTT(60), <3>1 DEF HistoryOK
  <2> QED BY <2>3, <2>4, <2>5, <2>6
<1>2. ASSUME UNCHANGED history PROVE HistoryOK'
  BY <1>2 DEF HistoryOK, history
<1>3. ASSUME NEW p \in Process PROVE /\ StartUp(p) \/ Exit(p) => HistoryOK'
                                     /\ \A d \in Draft : Edits(p, d) => HistoryOK'
                                     /\ \A t \in Task : Calls(t, p) => HistoryOK'
  BY <1>0, <1>2, AroundTask, CallsRow
<1> QED BY <1>1, <1>3 DEF SubmissionNext

-------------------------------------------------------------------------------
(***************************************************************************)
(* The theorems.                                                           *)
(***************************************************************************)

\* At the start no call is under way and nothing has been sent.
LEMMA InitSubmissionInv == SubmissionInit => SubmissionInv
<1> SUFFICES ASSUME SubmissionInit PROVE SubmissionInv
  OBVIOUS
<1>1. StoreInv
  BY InitStoreInv DEF SubmissionInit
<1>2. /\ \A a \in Attempt : attempt[a] = NoAttempt
      /\ \A t \in Task : task[t] = Idle
      /\ NoAttempt.state = "absent" /\ NoAttempt.receipts = {} /\ NoAttempt.pending = None
      /\ Idle.pc = "idle" /\ RowOK(Idle)
  BY IdleOK DEF SubmissionInit, Init, NoAttempt
<1>3. CallOK
  BY <1>2 DEF SubmissionInit, Init, CallOK, RowOK
<1>4. Exclusive /\ OnPlan /\ Clear /\ FreshOK
  BY <1>2 DEF Exclusive, OnPlan, Clear, FreshOK, Advancing, Sending
<1>5. RowOnPlan /\ DoubtOK /\ ConfirmedOK /\ SubmittedOK /\ IdsOK /\ HistoryOK
  BY <1>2 DEF SubmissionInit, RowOnPlan, DoubtOK, ConfirmedOK, SubmittedOK, IdsOK, HistoryOK,
              Exists
<1> QED BY <1>1, <1>3, <1>4, <1>5 DEF SubmissionInv

\* Every step of the service, of the user and of the processes keeps it.
LEMMA SubmissionInductive == SubmissionInv /\ [SubmissionNext]_vars => SubmissionInv'
<1> SUFFICES ASSUME SubmissionInv, [SubmissionNext]_vars PROVE SubmissionInv'
  OBVIOUS
<1>1. CASE SubmissionNext
  <2>1. StoreInv'
    <3>1. [Next]_storeVars
      BY <1>1, StoreStep DEF SubmissionInv, StoreInv
    <3> QED BY <3>1, Inductive DEF SubmissionInv
  <2>2. CallOK' /\ Exclusive'
    BY <1>1, CallOKStep, ExclusiveStep DEF SubmissionInv
  <2>3. OnPlan' /\ RowOnPlan'
    BY <1>1, OnPlanStep, RowOnPlanStep DEF SubmissionInv
  <2>4. DoubtOK' /\ Clear'
    BY <1>1, DoubtStep, ClearStep DEF SubmissionInv
  <2>5. ConfirmedOK' /\ SubmittedOK'
    BY <1>1, ConfirmedStep, SubmittedStep DEF SubmissionInv
  <2>6. IdsOK' /\ FreshOK' /\ HistoryOK'
    BY <1>1, IdsStep, FreshStep, HistoryStep DEF SubmissionInv
  <2> QED BY <2>1, <2>2, <2>3, <2>4, <2>5, <2>6 DEF SubmissionInv
<1>2. CASE UNCHANGED vars
  <2>1. /\ UNCHANGED <<draft, attempt, damaged, owner, mode, todo>>
        /\ UNCHANGED <<forge, task, inDoubt, confirmed, sentOps, marked>>
    BY <1>2 DEF vars, storeVars
  <2>2. StoreInv'
    BY <2>1, Inductive DEF storeVars, SubmissionInv
  <2>3. CallOK' /\ Exclusive' /\ HistoryOK'
    BY Zenon, <2>1 DEF CallOK, Exclusive, HistoryOK, SubmissionInv
  <2>4. OnPlan'
    BY ZenonT(60), <2>1 DEF OnPlan, PlanOf, Remaining, Current, OperationId, SubmissionInv
  <2>5. RowOnPlan'
    BY ZenonT(60), <2>1 DEF RowOnPlan, PlanOf, Remaining, SubmissionInv
  <2>6. DoubtOK' /\ Clear'
    BY <2>1 DEF DoubtOK, Clear, About, SubmissionInv
  <2>7. ConfirmedOK' /\ SubmittedOK' /\ IdsOK'
    BY <2>1 DEF ConfirmedOK, SubmittedOK, PlanOf, IdsOK, SubmissionInv
  <2>8. FreshOK'
    BY <2>1 DEF FreshOK, FreshAt, OperationId, Current, SubmissionInv
  <2> QED BY <2>2, <2>3, <2>4, <2>5, <2>6, <2>7, <2>8 DEF SubmissionInv
<1> QED BY <1>1, <1>2

\* It holds throughout, for any number of calls, processes, drafts and attempts.
THEOREM SubmissionInvAlways == SubmissionSpec => []SubmissionInv
BY InitSubmissionInv, SubmissionInductive, PTL DEF SubmissionSpec

\* The service implements the store: whatever it does to the tables, in whatever
\* interleaving, is a behaviour of DraftStore, so that every theorem about the store
\* holds of the service (store.py is only reached through its operations).
THEOREM UsesTheStore == SubmissionSpec => Spec
<1>1. SubmissionInit => Init
  BY DEF SubmissionInit
<1>2. SubmissionInv /\ [SubmissionNext]_vars => [Next]_storeVars
  BY StoreStep DEF SubmissionInv, StoreInv
<1> QED BY <1>1, <1>2, SubmissionInvAlways, PTL DEF SubmissionSpec, Spec

\* Calls and histories are well formed (the arguments and the results of
\* review_submission.py have the types its dataclasses declare).
THEOREM SubmissionTypeCorrect == SubmissionSpec => []SubmissionTypeOK
<1>1. SubmissionInv => SubmissionTypeOK
  BY DEF SubmissionInv, StoreInv, CallOK, DoubtOK, HistoryOK, SubmissionTypeOK
<1> QED BY <1>1, SubmissionInvAlways, PTL

\* A write leaves only while its journal entry is on disk, under its operation id and
\* owned by the sender (_advance awaits begin_dispatch before execute).
THEOREM SendIsJournaledAlways == SubmissionSpec => []SendIsJournaled
<1>1. SubmissionInv => SendIsJournaled
  BY DEF SubmissionInv, OnPlan, Advancing, Sending, SendIsJournaled
<1> QED BY <1>1, SubmissionInvAlways, PTL

\* One call at a time sends for an attempt, across tasks (the lock of the attempt) and
\* processes (its ownership).
THEOREM OneSenderAlways == SubmissionSpec => []OneSender
<1>1. SubmissionInv => OneSender
  BY DEF SubmissionInv, OnPlan, Exclusive, Advancing, Sending, OneSender
<1> QED BY <1>1, SubmissionInvAlways, PTL

\* Whatever the forge may have got without confirming it is on record in an attempt
\* that still locks its draft, through every crash, cancellation and store failure.
THEOREM DoubtIsRecordedAlways == SubmissionSpec => []DoubtIsRecorded
<1>1. SubmissionInv => DoubtIsRecorded
  <2> SUFFICES ASSUME SubmissionInv, NEW x \in inDoubt
               PROVE  \E a \in Attempt : /\ attempt[a].draft = x[1]
                                         /\ \/ attempt[a].pending # None
                                            \/ attempt[a].unknowns # {}
                                         /\ attempt[a].state \in Locking
    BY DEF DoubtIsRecorded
  <2> DEFINE a == draft[x[1]].active
  <2>1. x[1] \in Draft /\ a # None
    BY DEF SubmissionInv, DoubtOK
  <2>2. a \in Attempt /\ attempt[a].draft = x[1] /\ attempt[a].state \in Locking
    BY <2>1 DEF SubmissionInv, StoreInv, TypeOK, Agreement, DraftRow
  <2> QED BY <2>2 DEF SubmissionInv, DoubtOK
<1> QED BY <1>1, SubmissionInvAlways, PTL

\* What counts as submitted has been confirmed by the forge, or declared by the user,
\* and can be pruned: the second half is a theorem about the store, taken over
\* through UsesTheStore.
THEOREM SubmittedIsConfirmedAlways == SubmissionSpec => []SubmittedIsConfirmed
<1> DEFINE P == \A d \in Draft : draft[d].state = "submitted" => d \in Prunable(draft, attempt)
<1>1. SubmissionInv /\ P => SubmittedIsConfirmed
  <2> SUFFICES ASSUME SubmissionInv, P, NEW a \in Attempt, attempt[a].state = "submitted",
                      a \notin marked, NEW i \in attempt[a].snapshot.items
               PROVE  <<attempt[a].draft, i>> \in confirmed
    BY DEF SubmittedIsConfirmed
  <2> DEFINE c == attempt[a].snapshot
  <2>1. c \in Content /\ PlanOf(c) # {} /\ PlanOf(c) \subseteq attempt[a].receipts
    BY DEF SubmissionInv, StoreInv, TypeOK, AttemptRow, SubmittedOK
  <2>2. PICK s \in PlanOf(c) : i \in Units(c, s)
    BY <2>1, PlanCovers
  <2>3. i \in ConfirmedUnits(c, attempt[a].receipts)
    BY <2>1, <2>2 DEF ConfirmedUnits
  <2> QED BY <2>3 DEF SubmissionInv, ConfirmedOK, Exists
<1>2. Spec => []P
  BY SubmittedIsPrunable
<1> QED BY <1>1, <1>2, SubmissionInvAlways, UsesTheStore, PTL

\* Nothing that may be on the forge already is sent again before the user has decided
\* about it (_preflight, recovery and reconcile never resume an unknown attempt).
THEOREM NoBlindReplayAlways == SubmissionSpec => NoBlindReplay
<1> DEFINE A == \A t \in Task : At(t, "send") /\ task'[t].pc = "await"
                                  => Sent(t) \cap inDoubt = {}
<1>1. SubmissionInv /\ [SubmissionNext]_vars => [A]_vars
  BY DEF SubmissionInv, Clear, At, Sent, About
<1> QED BY <1>1, SubmissionInvAlways, PTL DEF SubmissionSpec, NoBlindReplay

\* Every write has an operation id that was never sent before (_operation_id counts
\* the retries and the reconciliations).
THEOREM OperationIdsFreshAlways == SubmissionSpec => OperationIdsFresh
<1> DEFINE A == \A t \in Task : At(t, "send") /\ task'[t].pc = "await" =>
                  <<task[t].att, Current(t), task[t].op>> \notin sentOps
<1>1. SubmissionInv /\ [SubmissionNext]_vars => [A]_vars
  <2> SUFFICES ASSUME SubmissionInv, NEW t \in Task, At(t, "send")
               PROVE  <<task[t].att, Current(t), task[t].op>> \notin sentOps
    OBVIOUS
  <2>1. /\ task[t].left \in SUBSET Step /\ task[t].left # {}
        /\ task[t].op = OperationId(task[t].att) /\ FreshAt(t, task[t].left)
    BY DEF SubmissionInv, CallOK, TaskRow, OnPlan, FreshOK, At, Sending, Stepping
  <2> QED BY <2>1, FirstIsOne DEF FreshAt, Current
<1> QED BY <1>1, SubmissionInvAlways, PTL DEF SubmissionSpec, OperationIdsFresh

\* What a call sends is not what a receipt of its attempt stands for.
LEMMA NotSentAgain ==
  ASSUME SubmissionInv, NEW t \in Task, task[t].pc = "send",
         NEW x \in Units(attempt[task[t].att].snapshot, Current(t))
                   \cap ConfirmedUnits(attempt[task[t].att].snapshot,
                                       attempt[task[t].att].receipts)
  PROVE  x = Vote
<1> DEFINE row == attempt[task[t].att]
           plan == PlanOf(row.snapshot)
<1>1. PICK s \in row.receipts : x \in Units(row.snapshot, s)
  BY DEF ConfirmedUnits
<1>2. /\ task[t].left \in SUBSET Step /\ task[t].left # {}
      /\ task[t].left = plan \ row.receipts
      /\ row.snapshot \in Content /\ row.receipts \subseteq plan
  BY DEF SubmissionInv, StoreInv, TypeOK, AttemptRow, CallOK, TaskRow, OnPlan, RowOnPlan,
     Remaining, Stepping, Advancing, Sending
<1>3. Current(t) \in plan /\ Current(t) # s /\ s \in plan
  BY <1>1, <1>2, FirstIsOne DEF Current
<1> QED BY <1>1, <1>2, <1>3, UnitsDisjoint

\* Within an attempt nothing is sent twice: what a call sends is not what a receipt
\* of its attempt stands for, the verdict apart, which a review on GitHub may carry
\* as well (_remaining_steps, and _plan gives no item to two steps).
THEOREM ConfirmedNotSentAgain ==
  SubmissionSpec =>
    [](\A t \in Task : task[t].pc = "send" =>
         LET row == attempt[task[t].att]
         IN  \A x \in Units(row.snapshot, Current(t))
                      \cap ConfirmedUnits(row.snapshot, row.receipts) :
               x = Vote)
<1>1. SubmissionInv =>
        \A t \in Task : task[t].pc = "send" =>
          LET row == attempt[task[t].att]
          IN  \A x \in Units(row.snapshot, Current(t))
                       \cap ConfirmedUnits(row.snapshot, row.receipts) : x = Vote
  BY NotSentAgain
<1> QED BY <1>1, SubmissionInvAlways, PTL

-------------------------------------------------------------------------------
(***************************************************************************)
(* Calls that end: what they undo, and what they leave.                    *)
(***************************************************************************)

\* Where a call has only to record how it ends.
Ending == {"mark", "unknown", "park", "undo_park", "return_mark", "undo", "undo_lock"}

\* Such a call owns its attempt, and one that may undo it has nothing on record.
EndsWell ==
  \A t \in Task :
    /\ task[t].pc \in Ending => owner[task[t].att] = task[t].proc
    /\ \/ task[t].pc \in {"undo", "undo_lock"}
       \/ task[t].pc = "preflight" /\ task[t].call = "start"
       => attempt[task[t].att].unknowns = {}

\* Of one call.
EndsAs(t) ==
  /\ task'[t].pc \in Ending => owner'[task'[t].att] = task'[t].proc
  /\ \/ task'[t].pc \in {"undo", "undo_lock"}
     \/ task'[t].pc = "preflight" /\ task'[t].call = "start"
     => attempt'[task'[t].att].unknowns = {}

LEMMA EndsWellStep ==
  ASSUME SubmissionInv, EndsWell, [SubmissionNext]_vars PROVE EndsWell'
<1>0. /\ StoreInv /\ CallOK /\ TypeOK /\ task \in [Task -> TaskRow]
      /\ attempt \in [Attempt -> AttemptRow] /\ owner \in [Attempt -> Process \cup {None}]
      /\ Idle.pc = "idle"
  BY IdleOK DEF SubmissionInv, StoreInv, CallOK, TypeOK
<1>1. CASE UNCHANGED vars
  BY <1>1 DEF vars, storeVars, EndsWell
<1> SUFFICES ASSUME SubmissionNext, NEW t \in Task PROVE EndsAs(t)
  BY <1>1 DEF EndsWell, EndsAs
<1> DEFINE b == task[t].att
           r == task'[t]
<1>q. ASSUME r.pc \notin Ending, r.pc # "preflight" \/ r.call # "start" PROVE EndsAs(t)
  BY <1>q DEF EndsAs, Ending
<1>i. ASSUME r.pc = "idle" PROVE EndsAs(t)
  BY <1>q, <1>i DEF Ending
<1>2. ASSUME task[t].pc # "idle", ~Progress(t) PROVE EndsAs(t)
  <2>1. \/ r = Idle
        \/ r = task[t] /\ (owner[b] = task[t].proc => OwnedKept(b))
    BY <1>0, <1>2, Others DEF SubmissionInv
  <2>2. CASE r = Idle
    BY <1>0, <1>i, <2>2
  <2>3. CASE r = task[t] /\ (owner[b] = task[t].proc => OwnedKept(b))
    <3>1. task[t].pc = "preflight" /\ task[t].call = "start" => owner[b] = task[t].proc
      BY DEF SubmissionInv, OnPlan
    <3> QED BY <2>3, <3>1 DEF EndsAs, EndsWell, OwnedKept, Ending
  <2> QED BY <2>1, <2>2, <2>3
<1>3. ASSUME task[t].pc = "idle" PROVE EndsAs(t)
  <2>1. ASSUME NEW p \in Process, StartUp(p) \/ Exit(p) \/ \E d \in Draft : Edits(p, d)
        PROVE  EndsAs(t)
    BY <1>0, <1>3, <1>i, <2>1, AroundTask
  <2>2. ASSUME NEW u \in Task, Progress(u) PROVE EndsAs(t)
    BY <1>0, <1>3, <1>i, <2>2, ProgressTask
  <2>3. ASSUME NEW p \in Process, NEW u \in Task, NEW d \in Draft, NEW a \in Attempt,
               Start(u, p, d, a)
        PROVE  EndsAs(t)
    <3>1. CASE u # t
      BY <1>0, <1>3, <1>i, <2>3, <3>1 DEF Start
    <3>2. CASE u = t
      <4>1. r.att = a /\ r.proc = p
        BY <1>0, <2>3, <3>2 DEF Start, Idle
      <4>2. owner'[a] = p /\ attempt'[a].unknowns = {}
        BY <1>0, <2>3 DEF Start, LockSubmission, NoAttempt
      <4> QED BY <4>1, <4>2 DEF EndsAs
    <3> QED BY <3>1, <3>2
  <2>4. ASSUME NEW p \in Process, NEW u \in Task, NEW a \in Attempt,
               NEW call \in {"resume", "retry", "mark", "return"}, Call(u, p, a, call)
        PROVE  EndsAs(t)
    <3>1. CASE u # t
      BY <1>0, <1>3, <1>i, <2>4, <3>1 DEF Call
    <3>2. CASE u = t
      <4>1. /\ r.pc = Entry(p, a, call) /\ r.call = call /\ r.att = a /\ r.proc = p
            /\ attempt' = attempt /\ owner' = owner
        BY <1>0, <2>4, <3>2 DEF Call, Idle, storeVars
      <4>2. \/ r.pc \in {"decide", "preflight", "idle"} /\ call # "start"
            \/ r.pc = "undo" /\ owner[a] = p /\ attempt[a].unknowns = {}
            \/ r.pc = "return_mark" /\ owner[a] = p
        BY <4>1 DEF Entry, NoTrace
      <4> QED BY <4>1, <4>2 DEF EndsAs, Ending
    <3> QED BY <3>1, <3>2
  <2> QED BY <2>1, <2>2, <2>3, <2>4 DEF SubmissionNext, Calls
<1>4. ASSUME Progress(t), NEW pc, Goto(t, pc)
      PROVE  r.pc = pc /\ r.att = b /\ r.proc = task[t].proc /\ r.call = task[t].call
  BY <1>0, <1>4 DEF Goto, TaskRow
<1>5. ASSUME Return(t) PROVE EndsAs(t)
  BY <1>0, <1>i, <1>5 DEF Return
<1>6. ASSUME UndoLock(t) PROVE EndsAs(t)
  <2>1. CASE StoreFails /\ Goto(t, "undo_park")
    BY <1>4, <1>6, <2>1 DEF Progress, UndoLock, At, StoreFails, storeVars, EndsWell, EndsAs, Ending
  <2> QED BY <1>5, <1>6, <2>1 DEF UndoLock
<1>7. ASSUME PreflightFails(t) PROVE EndsAs(t)
  <2>1. /\ b \in Attempt /\ task[t].pc = "preflight"
        /\ task[t].call # "resume" => owner[b] = task[t].proc
    BY <1>7, ProgressTask, <1>0 DEF Progress, PreflightFails, At, CallOK, SubmissionInv, OnPlan
  <2>2. owner' = owner /\ attempt'[b].unknowns = attempt[b].unknowns
    <3>1. CASE StoreFails
      BY <3>1 DEF StoreFails, storeVars
    <3>2. ASSUME NEW plan, RecordPlan(task[t].proc, b, plan)
          PROVE  owner' = owner /\ attempt'[b].unknowns = attempt[b].unknowns
      BY <1>0, <2>1, <3>2 DEF RecordPlan, AttemptRow
    <3> QED BY <1>7, <3>1, <3>2 DEF PreflightFails
  <2>3. CASE task[t].call = "start" /\ Goto(t, "undo")
    BY <1>4, <1>7, <2>1, <2>2, <2>3 DEF Progress, EndsWell, EndsAs
  <2>4. CASE task[t].call = "retry" /\ Goto(t, "park")
    BY <1>4, <1>7, <2>1, <2>2, <2>4 DEF Progress, EndsAs
  <2> QED BY <1>5, <1>7, <2>3, <2>4 DEF PreflightFails
<1>8. ASSUME Preflight(t) \/ Authorize(t) PROVE EndsAs(t)
  <2>1. r.pc \in {"authorize", "advance", "idle"}
    BY <1>0, <1>8 DEF Preflight, Authorize, Goto, Return, TaskRow
  <2> QED BY <1>q, <2>1 DEF Ending
<1>9. ASSUME DecideRetry(t) PROVE EndsAs(t)
  <2>1. ASSUME ReconcileRetry(task[t].proc, b), NEW pc \in {"preflight", "park"}, Goto(t, pc)
        PROVE  EndsAs(t)
    <3>1. b \in Attempt /\ task[t].call = "retry"
      BY <1>0, <1>9, ProgressTask DEF Progress, DecideRetry, CallOK
    <3>2. owner'[b] = task[t].proc
      BY <1>0, <2>1, <3>1 DEF ReconcileRetry
    <3> QED BY <1>4, <1>9, <2>1, <3>1, <3>2 DEF Progress, EndsAs
  <2> QED BY <1>5, <1>9, <2>1 DEF DecideRetry
<1>10. ASSUME DecideSubmitted(t) \/ DecideEditable(t) \/ ReturnMark(t) PROVE EndsAs(t)
  <2>1. r.pc \in {"decide", "idle"}
    BY <1>0, <1>10 DEF DecideSubmitted, DecideEditable, ReturnMark, Return, TaskRow
  <2> QED BY <1>q, <2>1 DEF Ending
<1>11. ASSUME Journal(t) PROVE EndsAs(t)
  <2>1. r.pc = "idle" \/ r.pc = "send" \/ (r.pc = "mark" /\ r.att = b /\ r.proc = task[t].proc)
    BY <1>0, <1>11 DEF Journal, Goto, Return, TaskRow
  <2>2. owner' = owner /\ owner[b] = task[t].proc
    BY <1>11 DEF Journal, At, BeginDispatch, StoreFails, storeVars, SubmissionInv, OnPlan,
       Advancing
  <2> QED BY <1>q, <2>1, <2>2 DEF EndsAs, Ending
<1>12. ASSUME Send(t) \/ Answer(t) PROVE EndsAs(t)
  <2>1. \/ r.pc \in {"await", "receipt", "reject"}
        \/ r.pc \in {"unknown", "mark"} /\ r.att = b /\ r.proc = task[t].proc
    BY <1>0, <1>12 DEF Send, Answer, Goto, TaskRow
  <2>2. owner' = owner /\ owner[b] = task[t].proc
    BY <1>12 DEF Send, Answer, At, storeVars, SubmissionInv, OnPlan, Advancing, Sending
  <2> QED BY <1>q, <2>1, <2>2 DEF EndsAs, Ending
<1>13. ASSUME Receipt(t) PROVE EndsAs(t)
  <2>1. \/ r.pc \in {"advance", "idle"}
        \/ StoreFails /\ r.pc = "unknown" /\ r.att = b /\ r.proc = task[t].proc
    BY <1>0, <1>13 DEF Receipt, Goto, Return, TaskRow
  <2>2. owner[b] = task[t].proc
    BY <1>13 DEF Receipt, At, SubmissionInv, OnPlan, Advancing, Sending
  <2> QED BY <1>q, <2>1, <2>2 DEF EndsAs, Ending, StoreFails, storeVars
<1>14. ASSUME Reject(t) PROVE EndsAs(t)
  <2>1. \/ r.pc = "idle"
        \/ StoreFails /\ r.pc = "mark" /\ r.att = b /\ r.proc = task[t].proc
    BY <1>0, <1>14 DEF Reject, Goto, Return, TaskRow
  <2>2. owner[b] = task[t].proc
    BY <1>14 DEF Reject, At, SubmissionInv, OnPlan, Advancing, Sending
  <2> QED BY <1>q, <2>1, <2>2 DEF EndsAs, Ending, StoreFails, storeVars
<1>15. ASSUME Park(t) \/ Undo(t) \/ Mark(t) \/ MarkUnknown(t) \/ Complete(t) PROVE EndsAs(t)
  BY <1>5, <1>15 DEF Park, Undo, Mark, MarkUnknown, Complete
<1> QED
  BY <1>2, <1>3, <1>6, <1>7, <1>8, <1>9, <1>10, <1>11, <1>12, <1>13, <1>14, <1>15 DEF Progress

\* For any number of calls, processes and attempts.
THEOREM EndsWellAlways == SubmissionSpec => []EndsWell
<1>1. SubmissionInit => EndsWell
  BY DEF SubmissionInit, EndsWell, Ending, Idle
<1> QED BY <1>1, EndsWellStep, SubmissionInvAlways, PTL DEF SubmissionSpec

\* The service cancels an attempt only where it has shown that nothing was dispatched,
\* or that what was is known to have been refused: _return_paused_to_editing asks for
\* more than cancel_submission, and a failed or cancelled start finds its own row.
THEOREM CancelsNeverDispatchedAlways == SubmissionSpec => CancelsNeverDispatched
<1> DEFINE A(a) ==
        /\ Exists(attempt[a]) /\ attempt'[a].state = "deleted"
        /\ Exists(draft'[attempt[a].draft])
        => /\ attempt[a].receipts = {} /\ attempt[a].pending = None
           /\ attempt[a].unknowns = {}
<1>1. SubmissionInv /\ EndsWell /\ [SubmissionNext]_vars => [\A a \in Attempt : A(a)]_storeVars
  <2> SUFFICES ASSUME SubmissionInv, EndsWell, SubmissionNext, NEW a \in Attempt,
                      Exists(attempt[a]), attempt'[a].state = "deleted",
                      Exists(draft'[attempt[a].draft])
               PROVE  /\ attempt[a].receipts = {} /\ attempt[a].pending = None
                      /\ attempt[a].unknowns = {}
    BY DEF vars, storeVars
  <2>1. StoreInv /\ TypeOK /\ CallOK
    BY DEF SubmissionInv, StoreInv
  <2>2. Next \/ UNCHANGED storeVars
    BY <2>1, StoreStep
  <2>3. RowGone(a)
    BY <2>1, <2>2, RowStep DEF storeVars, RowGrows, Exists
  <2>4. /\ attempt[a].state = "submitting" /\ attempt[a].receipts = {}
        /\ attempt[a].pending = None /\ owner[a] # None
    BY <2>3 DEF RowGone, Exists
  <2>5. ~RowSide(a)
    <3>1. attempt[a].draft \in Draft
      BY <2>1 DEF StoreInv, Agreement
    <3>2. ~Exists(Deleted(NoDraft))
      BY DEF Exists, Deleted, NoDraft
    <3> QED BY <2>4, <3>1, <3>2 DEF RowSide, Exists
  <2>6. ~\E p \in Process : RecoverUnknown(p, a)
    BY <2>4 DEF RecoverUnknown
  <2>7. ~\E t \in Task, p \in Process, d \in Draft : Start(t, p, d, a)
    BY <2>4 DEF Start, LockSubmission
  <2>8. PICK t \in Task : task[t].att = a /\ Progress(t)
    BY <2>1, <2>5, <2>6, <2>7, RowMoves
  <2>9. UndoLock(t) \/ Undo(t)
    BY <2>1, <2>4, <2>8, OwnRow DEF OwnMove, Exists
  <2>10. task[t].pc \in {"undo", "undo_lock"}
    BY <2>9 DEF UndoLock, Undo, At
  <2> QED BY <2>4, <2>8, <2>10 DEF EndsWell
<1> QED
  BY <1>1, EndsWellAlways, SubmissionInvAlways, PTL DEF SubmissionSpec, CancelsNeverDispatched

\* A call that ends with a journal entry left has given up the attempt: also where
\* mark_attempt_unknown fails, since it releases the lock in its finally clause.
THEOREM LeavesItRecoverableAlways == SubmissionSpec => LeavesItRecoverable
<1> DEFINE R(t) ==
        /\ task[t].pc \in {"advance", "send", "await", "receipt", "reject", "mark",
                           "park", "undo_park", "return_mark"}
        /\ task'[t].pc = "idle"
        => owner'[task[t].att] = None \/ attempt'[task[t].att].pending = None
<1>1. SubmissionInv /\ EndsWell /\ [SubmissionNext]_vars
        => [\A t \in Task : R(t)]_vars
  <2> SUFFICES ASSUME SubmissionInv, EndsWell, SubmissionNext, NEW t \in Task,
                      task[t].pc \in {"advance", "send", "await", "receipt", "reject", "mark",
                                     "park", "undo_park", "return_mark"},
                      task'[t].pc = "idle"
               PROVE  owner'[task[t].att] = None \/ attempt'[task[t].att].pending = None
    BY DEF vars
  <2> DEFINE b == task[t].att
             L == owner'[b] = None \/ attempt'[b].pending = None
  <2>0. /\ StoreInv /\ TypeOK /\ CallOK /\ task \in [Task -> TaskRow]
        /\ attempt \in [Attempt -> AttemptRow] /\ owner \in [Attempt -> Process \cup {None}]
        /\ b \in Attempt /\ task[t].proc \in Process /\ Idle.pc = "idle"
    BY IdleOK DEF SubmissionInv, StoreInv, CallOK, TypeOK
  <2>1. /\ owner[b] = task[t].proc
        /\ task[t].pc = "advance" => attempt[b].pending = None
    BY DEF SubmissionInv, OnPlan, Advancing, Sending, EndsWell, Ending
  <2>2. ASSUME ~Progress(t) PROVE L
    <3>1. ASSUME NEW p \in Process, Exit(p) PROVE L
      <4>1. task[t].proc = p
        BY <2>0, <3>1 DEF Exit
      <4> QED BY <2>0, <2>1, <3>1, <4>1 DEF Exit, Stop
    <3>2. ASSUME NEW p \in Process, StartUp(p) \/ \E d \in Draft : Edits(p, d) PROVE FALSE
      BY <3>2 DEF StartUp, Edits
    <3>3. ASSUME NEW p \in Process, NEW u \in Task, Calls(u, p) PROVE FALSE
      BY <2>0, <3>3, CallsRow
    <3>4. ASSUME NEW u \in Task, Progress(u) PROVE FALSE
      BY <2>0, <2>2, <3>4, ProgressTask
    <3> QED BY <3>1, <3>2, <3>3, <3>4 DEF SubmissionNext
  <2>3. ASSUME NEW s, MarkAttemptUnknown(task[t].proc, b, s) PROVE L
    BY <2>0, <2>3 DEF MarkAttemptUnknown, Release
  <2>4. ASSUME MarkUnknownFails(task[t].proc, b) PROVE L
    BY <2>0, <2>4 DEF MarkUnknownFails, Release
  <2>5. ASSUME Park(t) \/ ReturnMark(t) \/ Mark(t) PROVE L
    BY <2>3, <2>4, <2>5 DEF Park, ReturnMark, Mark
  <2>6. ASSUME Journal(t) PROVE L
    <3>1. StoreFails
      BY <2>0, <2>6 DEF Journal, TaskRow
    <3> QED BY <2>1, <2>6, <3>1 DEF Journal, At, StoreFails, storeVars
  <2>7. ASSUME Receipt(t) PROVE L
    <3>1. RecordReceipt(task[t].proc, b, Current(t), task[t].op)
      BY <2>0, <2>7 DEF Receipt, Goto, TaskRow
    <3>2. attempt'[b].pending = None
      BY <2>0, <3>1 DEF RecordReceipt, AttemptRow
    <3> QED BY <3>2
  <2>8. ASSUME Reject(t) PROVE L
    <3>1. RejectDispatch(task[t].proc, b, Current(t), task[t].op)
      BY <2>0, <2>8 DEF Reject, Goto, TaskRow
    <3> QED BY <2>0, <3>1 DEF RejectDispatch, AttemptRow
  <2>9. ASSUME Complete(t) PROVE L
    <3>1. CASE StoreFails
      BY <2>1, <2>9, <3>1 DEF Complete, At, StoreFails, storeVars
    <3>2. CASE CompleteSubmission(task[t].proc, b)
      BY <2>0, <3>2 DEF CompleteSubmission, Release
    <3> QED BY <2>9, <3>1, <3>2 DEF Complete
  <2>10. ASSUME Send(t) \/ Answer(t) PROVE L
    BY <2>0, <2>10 DEF Send, Answer, Goto, TaskRow
  <2> QED
    BY <2>2, <2>5, <2>6, <2>7, <2>8, <2>9, <2>10
       DEF Progress, UndoLock, Preflight, PreflightFails, Undo, Authorize, DecideRetry,
           DecideSubmitted, DecideEditable, MarkUnknown, At
<1> QED
  BY <1>1, EndsWellAlways, SubmissionInvAlways, PTL DEF SubmissionSpec, LeavesItRecoverable

-------------------------------------------------------------------------------
(***************************************************************************)
(* One process at a time.  Where no two processes have the database open,  *)
(* the asyncio lock of an attempt keeps whatever a decision was computed   *)
(* from until the decision is written.                                     *)
(***************************************************************************)

\* No two processes have the database open.
OneOpen == \A p, q \in Process : mode[p] # "closed" /\ mode[q] # "closed" => p = q

\* A call that is under way belongs to a process that serves.
Alive == \A t \in Task : task[t].pc # "idle" => mode[task[t].proc] = "serving"

\* A call that is about to write a decision has seen the receipts as they are.
SeenOK ==
  \A t \in Task : task[t].pc = "decide" /\ Exists(attempt[task[t].att]) =>
    task[t].seen = attempt[task[t].att].receipts

\* What is confirmed of a draft that is locked, its attempt has receipts for.
Exact ==
  \A d \in Draft : draft[d].active # None =>
    \A i \in attempt[draft[d].active].snapshot.items : <<d, i>> \in confirmed =>
      i \in ConfirmedUnits(attempt[draft[d].active].snapshot,
                           attempt[draft[d].active].receipts)

\* Nothing in a draft that is being edited is confirmed, and nothing of one that has
\* yet to be written.
Clean ==
  \A d \in Draft :
    /\ draft[d].state = "editable" =>
         \A i \in draft[d].content.items : <<d, i>> \notin confirmed
    /\ draft[d].state = "absent" => \A x \in confirmed : x[1] # d

\* Exact and Clean need each other: what is locked was edited, and what is edited may
\* have been locked.
RemainderInv == Alive /\ SeenOK /\ Exact /\ Clean

\* A draft that was written is never absent again.
LEMMA DraftStays ==
  ASSUME TypeOK, Next, NEW d \in Draft, draft[d].state # "absent"
  PROVE  draft'[d].state # "absent"
<1> DEFINE G == draft'[d].state # "absent"
<1>0. /\ draft \in [Draft -> DraftRow] /\ draft[d] \in DraftRow
      /\ Deleted(NoDraft).state # "absent"
  BY DEF TypeOK, Deleted, NoDraft
<1>p. ASSUME NEW dr, NEW at, NEW fresh, PruneSubmitted(dr, at, fresh), dr[d].state # "absent"
      PROVE  G
  BY <1>0, <1>p, PrunedOrSame DEF PruneSubmitted
<1>1. ASSUME NEW p \in Process, Lifecycle(p) PROVE G
  <2>1. ASSUME NEW a, RecoverUnknown(p, a) PROVE G
    BY <1>0, <2>1 DEF RecoverUnknown, DraftRow
  <2>2. ASSUME NEW a, RecoverUnreadable(p, a) PROVE G
    <3>1. \/ draft'[d] = draft[d]
          \/ draft'[d] = [draft[d] EXCEPT !.state = "editable", !.active = None,
                                          !.version = @ + 1]
      BY <2>2 DEF RecoverUnreadable
    <3> QED BY <1>0, <3>1 DEF DraftRow
  <2> QED
    BY <1>0, <1>1, <1>p, <2>1, <2>2 DEF Lifecycle, Open, ListIncomplete, Serve, Stop,
       RecoverSkip, RecoverFails
<1>2. ASSUME NEW p \in Process, NEW e \in Draft, Edit(p, e) PROVE G
  <2>1. ASSUME NEW c, CreateDraft(p, e, c) PROVE G
    BY <1>0, <2>1 DEF CreateDraft
  <2>2. ASSUME NEW v, NEW c, SaveDraft(p, e, v, c) PROVE G
    BY <1>0, <2>2 DEF SaveDraft, DraftRow
  <2>3. ASSUME NEW v, DiscardDraft(p, e, v) PROVE G
    BY <1>0, <2>3, PrunedOrSame DEF DiscardDraft
  <2>4. ASSUME NEW v, NEW a, LockSubmission(p, e, v, a) PROVE G
    BY SMTT(60), <1>0, <2>4 DEF LockSubmission, DraftRow
  <2> QED BY <1>2, <2>1, <2>2, <2>3, <2>4 DEF Edit
<1>3. ASSUME NEW p \in Process, NEW a \in Attempt, Submit(p, a) PROVE G
  <2>1. ASSUME NEW state, state # "absent", NEW active, SetDraft(a, state, active) PROVE G
    BY <1>0, <2>1 DEF SetDraft, DraftRow
  <2>2. CASE CancelSubmission(p, a)
    BY <1>0, <2>2 DEF CancelSubmission, DraftRow
  <2>3. CASE CompleteSubmission(p, a)
    <3> DEFINE e  == attempt[a].draft
               dr == [draft EXCEPT ![e] =
                       IF draft[e].active = a
                       THEN [draft[e] EXCEPT !.state = "submitted", !.active = None]
                       ELSE draft[e]]
    <3>1. dr[d].state # "absent"
      BY <1>0 DEF DraftRow
    <3>2. \E at : PruneSubmitted(dr, at, {e})
      BY <2>3 DEF CompleteSubmission
    <3> HIDE DEF dr
    <3> QED BY <1>p, <3>1, <3>2
  <2> QED
    BY <1>0, <1>3, <2>1, <2>2, <2>3 DEF Submit, RecordPlan, AuthorizeRetry, BeginDispatch,
       RejectDispatch, RecordReceipt, MarkAttemptUnknown, MarkUnknownFails
<1>4. ASSUME NEW p \in Process, NEW a \in Attempt, Decide(p, a) PROVE G
  <2> DEFINE e == attempt[a].draft
  <2>1. CASE ReconcileRetry(p, a)
    <3>1. \E state \in Active :
            draft' = [draft EXCEPT ![e].state = state, ![e].content = attempt[a].snapshot]
      BY <2>1 DEF ReconcileRetry
    <3> HIDE DEF e
    <3> QED BY SMTT(60), <1>0, <3>1 DEF DraftRow
  <2>2. CASE ReconcileSubmitted(p, a)
    <3> DEFINE dr == [draft EXCEPT ![e].state = "submitted", ![e].active = None,
                                   ![e].content = attempt[a].snapshot]
    <3>1. dr[d].state # "absent"
      BY <1>0 DEF DraftRow
    <3>2. PruneSubmitted(dr, Reconciled(a, "submitted"), {e})
      BY SMTT(60), <2>2 DEF ReconcileSubmitted
    <3> HIDE DEF dr
    <3> QED BY <1>p, <3>1, <3>2
  <2>3. ASSUME NEW c, ReconcileEditable(p, a, c) PROVE G
    BY SMTT(60), <1>0, <2>3 DEF ReconcileEditable, DraftRow
  <2> QED BY <1>4, <2>1, <2>2, <2>3 DEF Decide
<1> QED BY <1>0, <1>1, <1>2, <1>3, <1>4 DEF Next, Damage

\* An operation of the store returns a draft to editing only by undoing a submission ...
LEMMA SubmitReturns ==
  ASSUME StoreInv, NEW p \in Process, NEW a \in Attempt, Submit(p, a),
         NEW d \in Draft, draft'[d].state = "editable"
  PROVE  \/ draft'[d] = draft[d]
         \/ /\ draft[d].active = a /\ attempt[a].receipts = {}
            /\ draft'[d].content = draft[d].content
<1>0. /\ draft \in [Draft -> DraftRow] /\ draft[d] \in DraftRow
      /\ Deleted(NoDraft).state # "editable"
  BY DEF StoreInv, TypeOK, Deleted, NoDraft
<1>1. CASE CancelSubmission(p, a)
  BY <1>0, <1>1 DEF CancelSubmission, DraftRow
<1>2. CASE CompleteSubmission(p, a)
  <2> DEFINE e  == attempt[a].draft
             dr == [draft EXCEPT ![e] =
                     IF draft[e].active = a
                     THEN [draft[e] EXCEPT !.state = "submitted", !.active = None]
                     ELSE draft[e]]
  <2>1. dr[d] = draft[d] \/ dr[d].state # "editable"
    BY <1>0 DEF DraftRow
  <2>2. \E at : PruneSubmitted(dr, at, {e})
    BY <1>2 DEF CompleteSubmission
  <2> HIDE DEF dr
  <2> QED BY <1>0, <2>1, <2>2, PrunedOrSame DEF PruneSubmitted
<1>3. ASSUME NEW state, state # "editable", NEW active, SetDraft(a, state, active)
      PROVE  draft'[d] = draft[d]
  BY <1>0, <1>3 DEF SetDraft, DraftRow
<1> QED
  BY ZenonT(60), <1>1, <1>2, <1>3
     DEF Submit, RecordPlan, AuthorizeRetry, BeginDispatch, RejectDispatch,
     RecordReceipt, MarkAttemptUnknown, MarkUnknownFails

\* ... or by the decision of the user that asks for it.
LEMMA DecideReturns ==
  ASSUME StoreInv, NEW p \in Process, NEW a \in Attempt,
         ReconcileRetry(p, a) \/ ReconcileSubmitted(p, a),
         NEW d \in Draft, draft'[d].state = "editable"
  PROVE  draft'[d] = draft[d]
<1> DEFINE e == attempt[a].draft
<1>0. /\ draft \in [Draft -> DraftRow] /\ draft[d] \in DraftRow
      /\ Deleted(NoDraft).state # "editable"
  BY DEF StoreInv, TypeOK, Deleted, NoDraft
<1>1. CASE ReconcileRetry(p, a)
  <2>1. \E state \in Active :
          draft' = [draft EXCEPT ![e].state = state, ![e].content = attempt[a].snapshot]
    BY <1>1 DEF ReconcileRetry
  <2> HIDE DEF e
  <2> QED BY SMTT(60), <1>0, <2>1 DEF DraftRow
<1>2. CASE ReconcileSubmitted(p, a)
  <2> DEFINE dr == [draft EXCEPT ![e].state = "submitted", ![e].active = None,
                                 ![e].content = attempt[a].snapshot]
  <2>1. dr[d] = draft[d] \/ dr[d].state # "editable"
    BY <1>0 DEF DraftRow
  <2>2. PruneSubmitted(dr, Reconciled(a, "submitted"), {e})
    BY <1>2 DEF ReconcileSubmitted
  <2> HIDE DEF dr
  <2> QED BY <1>0, <2>1, <2>2, PrunedOrSame DEF PruneSubmitted
<1> QED BY <1>1, <1>2

\* What a draft that can be edited was before: the same, or another version of it
\* from which something was removed; not written yet; or locked by an attempt without a
\* receipt, or by one whose remainder it has become.
LEMMA EditableFrom ==
  ASSUME StoreInv, CallOK, SubmissionNext, NEW d \in Draft, draft'[d].state = "editable"
  PROVE  \/ draft[d].state = "absent"
         \/ /\ draft[d].state = "editable"
            /\ draft'[d].content.items \subseteq draft[d].content.items
         \/ /\ draft[d].active # None /\ attempt[draft[d].active].receipts = {}
            /\ draft'[d].content = draft[d].content
         \/ \E t \in Task :
              /\ At(t, "decide") /\ task[t].att = draft[d].active
              /\ draft[d].active # None
              /\ draft'[d].content.items
                   = Remainder(attempt[task[t].att].snapshot, task[t].seen).items
<1> DEFINE G == \/ draft[d].state = "absent"
                \/ /\ draft[d].state = "editable"
                   /\ draft'[d].content.items \subseteq draft[d].content.items
                \/ /\ draft[d].active # None /\ attempt[draft[d].active].receipts = {}
                   /\ draft'[d].content = draft[d].content
                \/ \E t \in Task :
                     /\ At(t, "decide") /\ task[t].att = draft[d].active
                     /\ draft[d].active # None
                     /\ draft'[d].content.items
                          = Remainder(attempt[task[t].att].snapshot, task[t].seen).items
<1>0. /\ TypeOK /\ draft \in [Draft -> DraftRow] /\ draft[d] \in DraftRow
      /\ Deleted(NoDraft).state # "editable"
  BY DEF StoreInv, TypeOK, Deleted, NoDraft
<1>k. draft'[d] = draft[d] => G
  OBVIOUS
<1>1. ASSUME NEW p \in Process, StartUp(p) \/ Exit(p) PROVE G
  <2>1. ASSUME NEW a, RecoverUnknown(p, a) PROVE draft'[d] = draft[d]
    BY <1>0, <2>1 DEF RecoverUnknown, DraftRow
  <2>2. CASE Open(p)
    BY <1>0, <1>k, <2>2, PrunedOrSame DEF Open, PruneSubmitted
  <2> HIDE DEF G
  <2> QED
    BY <1>1, <1>k, <2>1, <2>2 DEF StartUp, Exit, ListIncomplete, Serve, Stop, RecoverSkip,
       RecoverFails
<1>2. ASSUME NEW p \in Process, NEW e \in Draft, Edits(p, e) PROVE G
  <2>1. ASSUME NEW c, CreateDraft(p, e, c) PROVE G
    BY <1>0, <2>1 DEF CreateDraft
  <2>2. ASSUME NEW c, c.items \subseteq draft[e].content.items, NEW v, SaveDraft(p, e, v, c)
        PROVE  G
    BY <1>0, <2>2 DEF SaveDraft, Editable, DraftRow
  <2>3. ASSUME NEW v, DiscardDraft(p, e, v) PROVE G
    BY SMTT(60), <1>0, <1>k, <2>3, PrunedOrSame DEF DiscardDraft
  <2> QED BY <1>2, <2>1, <2>2, <2>3 DEF Edits
<1>3. ASSUME NEW p \in Process, NEW t \in Task, Calls(t, p) PROVE G
  <2>1. ASSUME NEW e, NEW v, NEW a, LockSubmission(p, e, v, a) PROVE draft'[d] = draft[d]
    BY SMTT(60), <1>0, <2>1 DEF LockSubmission, DraftRow
  <2> HIDE DEF G
  <2> QED BY <1>3, <1>k, <2>1 DEF Calls, Start, Call, storeVars
<1>4. ASSUME NEW t \in Task, Progress(t) PROVE G
  <2> DEFINE p == task[t].proc
             a == task[t].att
             c == Remainder(attempt[a].snapshot, task[t].seen)
  <2>1. /\ p \in Process /\ a \in Attempt
        /\ \/ Submit(p, a)
           \/ ReconcileRetry(p, a) \/ ReconcileSubmitted(p, a)
           \/ At(t, "decide") /\ c \in Content /\ ReconcileEditable(p, a, c)
           \/ UNCHANGED storeVars
    BY <1>0, <1>4, ProgressUses
  <2>2. CASE Submit(p, a)
    <3>1. a # None
      BY <2>1
    <3> HIDE DEF a
    <3> QED BY <1>k, <2>1, <2>2, <3>1, SubmitReturns
  <2>3. CASE ReconcileRetry(p, a) \/ ReconcileSubmitted(p, a)
    BY <1>k, <2>1, <2>3, DecideReturns
  <2>4. CASE At(t, "decide") /\ c \in Content /\ ReconcileEditable(p, a, c)
    <3> DEFINE e == attempt[a].draft
    <3>1. /\ draft[e].active = a
          /\ draft' = [draft EXCEPT ![e].state = "editable", ![e].active = None,
                                    ![e].version = @ + 1, ![e].content = EditableRow(a, c)]
      BY ZenonT(60), <2>4 DEF ReconcileEditable, Undecided
    <3>2. CASE d # e
      BY ZenonT(60), <1>0, <1>k, <3>1, <3>2
    <3>3. CASE d = e
      <4>1. draft'[d].content = EditableRow(a, c)
        BY <1>0, <3>1, <3>3 DEF DraftRow
      <4>2. draft'[d].content.items = c.items
        BY <4>1 DEF EditableRow
      <4>3. a # None
        BY <2>1
      <4> HIDE DEF c, e
      <4> QED BY ZenonT(60), <2>4, <3>1, <3>3, <4>2, <4>3 DEF c
    <3> QED BY SMTT(60), <3>2, <3>3
  <2> QED BY <1>k, <2>1, <2>2, <2>3, <2>4 DEF storeVars
<1> QED BY <1>1, <1>2, <1>3, <1>4 DEF SubmissionNext

\* What is confirmed newly, a receipt was stored for.
LEMMA ConfirmedFrom ==
  ASSUME TypeOK, CallOK, SubmissionNext
  PROVE  \/ confirmed' = confirmed
         \/ \E t \in Task :
              /\ task[t].pc = "receipt"
              /\ RecordReceipt(task[t].proc, task[t].att, Current(t), task[t].op)
              /\ confirmed' = confirmed \cup Sent(t)
BY ZenonT(60), AroundTask, CallsRow
   DEF SubmissionNext, Progress, history, UndoLock, Park, Preflight, PreflightFails, Undo,
       Authorize, DecideRetry, DecideSubmitted, DecideEditable, ReturnMark, Journal, Send,
       Answer, Receipt, Reject, Mark, MarkUnknown, Complete, At

\* What a locked draft points at.
LEMMA LockedDraft ==
  ASSUME StoreInv, NEW d \in Draft, draft[d].active # None
  PROVE  /\ draft[d].active \in Attempt /\ Exists(attempt[draft[d].active])
         /\ attempt[draft[d].active].draft = d
         /\ draft[d].content = attempt[draft[d].active].snapshot
         /\ draft[d].state \in Locking
<1>1. draft[d] \in DraftRow
  BY DEF StoreInv, TypeOK
<1>2. draft[d].active \in Attempt
  BY <1>1 DEF DraftRow
<1>3. /\ draft[d].state \in Locking
      /\ attempt[draft[d].active].draft = d
      /\ attempt[draft[d].active].state = draft[d].state
  BY DEF StoreInv, Agreement
<1>4. draft[d].content = attempt[draft[d].active].snapshot
  BY <1>3 DEF StoreInv, FrozenContent
<1> QED BY <1>2, <1>3, <1>4 DEF Exists

\* A unit that is confirmed newly was sent, and its receipt is stored now.
LEMMA NewlyConfirmed ==
  ASSUME TypeOK, CallOK, SubmissionNext, NEW x \in confirmed', x \notin confirmed
  PROVE  \E t \in Task :
           /\ task[t].pc = "receipt" /\ x \in Sent(t)
           /\ RecordReceipt(task[t].proc, task[t].att, Current(t), task[t].op)
<1>1. PICK t \in Task : /\ task[t].pc = "receipt"
                        /\ RecordReceipt(task[t].proc, task[t].att, Current(t), task[t].op)
                        /\ confirmed' = confirmed \cup Sent(t)
  BY ConfirmedFrom
<1>2. x \in Sent(t)
  BY <1>1
<1> QED BY <1>1, <1>2

\* What a step puts on the forge, the verdict apart, is in the content.
LEMMA UnitsItems ==
  ASSUME NEW c \in Content, NEW s \in PlanOf(c), NEW x \in Units(c, s), x # Vote
  PROVE  x \in c.items
BY SubmissionAssumption DEF Units, PlanOf, Content, Comments, If

\* A receipt is stored for a draft that is locked and stays so.
LEMMA ReceiptLocks ==
  ASSUME StoreInv, CallOK, OnPlan, NEW t \in Task, task[t].pc = "receipt",
         RecordReceipt(task[t].proc, task[t].att, Current(t), task[t].op),
         NEW d, NEW i, <<d, i>> \in Sent(t)
  PROVE  /\ d \in Draft /\ task[t].att \in Attempt /\ draft[d].active = task[t].att
         /\ draft'[d].state = "partial"
         /\ i \in Units(attempt[task[t].att].snapshot, Current(t))
         /\ Current(t) \in attempt'[task[t].att].receipts
<1> DEFINE a == task[t].att
<1>1. /\ a \in Attempt /\ attempt[a].draft \in Draft
      /\ draft[attempt[a].draft].active = a
  BY OwnDraft DEF Advancing, Sending
<1>2. d = attempt[a].draft /\ i \in Units(attempt[a].snapshot, Current(t))
  BY DEF Sent
<1>3. draft'[d].state = "partial"
  <2>1. draft[d] \in DraftRow /\ d \in Draft
    BY <1>1, <1>2 DEF StoreInv, TypeOK
  <2>2. draft'[d] = [draft[d] EXCEPT !.state = "partial", !.active = a]
    BY Zenon, <1>1, <1>2, <2>1 DEF RecordReceipt, SetDraft
  <2> QED BY <2>1, <2>2 DEF DraftRow
<1>4. Current(t) \in attempt'[a].receipts
  <2>1. attempt \in [Attempt -> AttemptRow] /\ attempt[a] \in AttemptRow
    BY SMTT(60), <1>1 DEF StoreInv, TypeOK
  <2>2. attempt'[a] = [attempt[a] EXCEPT !.receipts = @ \cup {Current(t)}, !.pending = None,
                                         !.op = None, !.state = "partial"]
    BY <1>1, <2>1 DEF RecordReceipt
  <2> QED BY <2>1, <2>2 DEF AttemptRow
<1> QED BY <1>1, <1>2, <1>3, <1>4

\* Calls end with their process.
LEMMA AliveStep ==
  ASSUME TypeOK, CallOK, Alive, SubmissionNext PROVE Alive'
<1>0. /\ task \in [Task -> TaskRow]
      /\ mode \in [Process -> {"closed", "opened", "recovering", "serving"}]
      /\ Idle.pc = "idle"
  BY IdleOK DEF TypeOK, CallOK
<1> SUFFICES ASSUME NEW t \in Task, task'[t].pc # "idle" PROVE mode'[task'[t].proc] = "serving"
  BY DEF Alive
<1> DEFINE G == mode'[task'[t].proc] = "serving"
<1>1. ASSUME NEW p \in Process, StartUp(p) PROVE G
  <2>1. task' = task /\ task[t].proc \in Process /\ mode[task[t].proc] = "serving"
    BY SMTT(60), <1>1 DEF StartUp, Alive, CallOK
  <2>2. \/ mode' = mode
        \/ mode[p] # "serving" /\ \E m : mode' = [mode EXCEPT ![p] = m]
    BY <1>1 DEF StartUp, Open, ListIncomplete, Serve, RecoverSkip, RecoverUnknown, RecoverFails
  <2> QED BY <1>0, <2>1, <2>2
<1>2. ASSUME NEW p \in Process, Exit(p) PROVE G
  <2>1. /\ task' = [u \in Task |-> IF task[u].proc = p THEN Idle ELSE task[u]]
        /\ mode' = [mode EXCEPT ![p] = "closed"]
    BY <1>2 DEF Exit, Stop
  <2> QED BY <1>0, <2>1 DEF Alive, CallOK
<1>3. ASSUME NEW p \in Process, NEW d \in Draft, Edits(p, d) PROVE G
  BY <1>3 DEF Edits, CreateDraft, SaveDraft, DiscardDraft, Alive
<1>4. ASSUME NEW p \in Process, NEW u \in Task, Calls(u, p) PROVE G
  <2>1. mode[p] = "serving" /\ mode' = mode
    BY Zenon, <1>4 DEF Calls, Start, Call, LockSubmission, Serving, storeVars
  <2>2. PICK r : task' = [task EXCEPT ![u] = r] /\ r.proc = p
    BY <1>4, CallsRow
  <2> QED BY <1>0, <2>1, <2>2 DEF Alive
<1>5. ASSUME NEW u \in Task, Progress(u) PROVE G
  <2>1. mode' = mode
    <3>1. ASSUME NEW p, NEW a, Submit(p, a) \/ Decide(p, a) PROVE mode' = mode
      BY Zenon, <3>1 DEF Submit, Decide, RecordPlan, AuthorizeRetry, BeginDispatch, RejectDispatch,
         RecordReceipt, CancelSubmission, CompleteSubmission, MarkAttemptUnknown,
         MarkUnknownFails, ReconcileRetry, ReconcileSubmitted, ReconcileEditable
    <3> QED BY <1>5, <3>1, ProgressStore DEF storeVars
  <2>2. task'[t].proc = task[t].proc /\ task[t].pc # "idle"
    BY <1>0, <1>5, ProgressTask
  <2> QED BY <2>1, <2>2 DEF Alive
<1> QED BY <1>1, <1>2, <1>3, <1>4, <1>5 DEF SubmissionNext

\* No other call can store a receipt between the read and the decision: it would be a
\* call of the same process, and wait for the lock.
LEMMA SeenStep ==
  ASSUME StoreInv, CallOK, Exclusive, OneOpen, Alive, SeenOK, SubmissionNext
  PROVE  SeenOK'
<1>0. /\ TypeOK /\ task \in [Task -> TaskRow] /\ attempt \in [Attempt -> AttemptRow]
      /\ Idle.pc = "idle"
  BY IdleOK DEF StoreInv, TypeOK, CallOK
<1> SUFFICES ASSUME NEW t \in Task, task'[t].pc = "decide", Exists(attempt'[task'[t].att])
             PROVE  task'[t].seen = attempt'[task'[t].att].receipts
  BY DEF SeenOK, Exists
<1> DEFINE a == task[t].att
           G == task'[t].seen = attempt'[task'[t].att].receipts
<1>1. CASE Progress(t)
  <2>1. /\ ReturnMark(t) /\ MarkAttemptUnknown(task[t].proc, a, None)
        /\ task' = [task EXCEPT ![t].pc = "decide", ![t].seen = attempt[a].receipts]
    <3>1. task[t] \in TaskRow
      BY <1>0
    <3>2. ASSUME NEW pc, Goto(t, pc) PROVE pc = "decide"
      BY <1>0, <3>1, <3>2 DEF Goto, TaskRow
    <3>3. ~Return(t)
      BY <1>0 DEF Return
    <3>4. /\ ~Preflight(t) /\ ~PreflightFails(t) /\ ~UndoLock(t) /\ ~Park(t) /\ ~Undo(t)
          /\ ~Authorize(t)
      BY <1>0, <3>1, <3>2, <3>3 DEF Preflight, PreflightFails, UndoLock, Park, Undo, Authorize,
         TaskRow
    <3>5. ~DecideRetry(t) /\ ~DecideSubmitted(t) /\ ~DecideEditable(t)
      BY <3>2, <3>3 DEF DecideRetry, DecideSubmitted, DecideEditable
    <3>6. ~Journal(t)
      BY <1>0, <3>1, <3>2, <3>3 DEF Journal, TaskRow
    <3>7. ~Send(t) /\ ~Answer(t) /\ ~Reject(t)
      BY <3>2, <3>3 DEF Send, Answer, Reject
    <3>8. ~Receipt(t)
      BY <1>0, <3>1, <3>2, <3>3 DEF Receipt, TaskRow
    <3>9. ~Mark(t) /\ ~MarkUnknown(t) /\ ~Complete(t)
      BY <3>3 DEF Mark, MarkUnknown, Complete
    <3>10. ReturnMark(t)
      BY <1>1, <3>4, <3>5, <3>6, <3>7, <3>8, <3>9 DEF Progress
    <3> QED BY <3>3, <3>10 DEF ReturnMark
  <2>2. a \in Attempt /\ attempt[a] \in AttemptRow /\ task[t] \in TaskRow
    BY SMTT(60), <1>0, <1>1, ProgressTask DEF CallOK
  <2>3. attempt'[a].receipts = attempt[a].receipts
    BY <1>0, <2>1, <2>2 DEF MarkAttemptUnknown, AttemptRow
  <2>4. task'[t].att = a /\ task'[t].seen = attempt[a].receipts
    BY <1>0, <2>1, <2>2 DEF TaskRow
  <2> QED BY <2>3, <2>4
<1>2. CASE task[t].pc # "idle" /\ ~Progress(t)
  <2>1. task'[t] = task[t] /\ a \in Attempt /\ attempt[a].state # "absent"
    BY <1>0, <1>2, Others DEF CallOK
  <2>2. CASE RowSide(a)
    <3>1. attempt'[a] = attempt[a]
      BY SMTT(60), <2>1, <2>2 DEF RowSide, Exists, Deleted, NoAttempt
    <3> QED BY <2>1, <3>1 DEF SeenOK
  <2>3. ASSUME NEW p \in Process, RecoverUnknown(p, a) PROVE G
    BY <1>0, <2>1, <2>3 DEF RecoverUnknown, AttemptRow, SeenOK, Exists
  <2>4. ASSUME NEW u \in Task, task[u].att = a, Progress(u) PROVE FALSE
    <3>1. u # t /\ task[u].pc # "idle"
      BY <1>0, <1>2, <2>4, ProgressTask
    <3>2. task[u].proc = task[t].proc
      BY <1>2, <3>1 DEF Alive, OneOpen, CallOK
    <3> QED BY <1>2, <2>4, <3>1, <3>2 DEF Exclusive
  <2>5. ASSUME NEW u, NEW p, NEW d, Start(u, p, d, a) PROVE FALSE
    BY <2>1, <2>5 DEF Start, LockSubmission
  <2> QED BY <2>1, <2>2, <2>3, <2>4, <2>5, RowMoves
<1>3. CASE task[t].pc = "idle"
  <2>1. PICK p \in Process : Calls(t, p)
    <3>1. ASSUME NEW p \in Process, StartUp(p) \/ Exit(p) \/ \E d \in Draft : Edits(p, d)
          PROVE  FALSE
      BY <1>0, <1>3, <3>1, AroundTask
    <3>2. ASSUME NEW p \in Process, NEW u \in Task, Calls(u, p), u # t PROVE FALSE
      <4>1. PICK r : task' = [task EXCEPT ![u] = r]
        BY <1>0, <3>2, CallsRow
      <4> QED BY <1>0, <1>3, <3>2, <4>1
    <3>3. ASSUME NEW u \in Task, Progress(u) PROVE FALSE
      BY <1>0, <1>3, <3>3, ProgressTask
    <3> QED BY <3>1, <3>2, <3>3 DEF SubmissionNext
  <2>2. ASSUME NEW d, NEW b, Start(t, p, d, b) PROVE FALSE
    BY <1>0, <2>2 DEF Start, Idle
  <2>3. ASSUME NEW b \in Attempt, NEW call, Call(t, p, b, call) PROVE G
    BY <1>0, <2>3 DEF Call, storeVars, Idle
  <2> QED BY <2>1, <2>2, <2>3 DEF Calls
<1> QED BY <1>1, <1>2, <1>3

\* What is locked is what was edited, and every new confirmation comes with its receipt.
LEMMA ExactStep ==
  ASSUME StoreInv, StoreInv', CallOK, OnPlan, Exact, Clean, SubmissionNext PROVE Exact'
<1>0. /\ TypeOK /\ Agreement /\ Agreement'
      /\ (Next \/ UNCHANGED storeVars)
      /\ attempt \in [Attempt -> AttemptRow] /\ draft \in [Draft -> DraftRow]
  BY SMTT(60), StoreStep DEF StoreInv, TypeOK
<1> SUFFICES ASSUME NEW d \in Draft, draft'[d].active # None,
                    NEW i \in attempt'[draft'[d].active].snapshot.items,
                    <<d, i>> \in confirmed'
             PROVE  i \in ConfirmedUnits(attempt'[draft'[d].active].snapshot,
                                         attempt'[draft'[d].active].receipts)
  BY DEF Exact, ConfirmedUnits, Units
<1> DEFINE a == draft'[d].active
<1>1. CASE draft[d].active = a
  <2>1. a \in Attempt /\ Exists(attempt[a]) /\ Exists(attempt'[a])
    <3>1. a \in Attempt /\ Exists(attempt[a])
      BY <1>1, LockedDraft
    <3>2. draft'[d].state \in Locking /\ attempt'[a].state = draft'[d].state
      BY <1>0 DEF Agreement
    <3> QED BY <3>1, <3>2 DEF Exists
  <2>2. /\ attempt'[a].snapshot = attempt[a].snapshot
        /\ attempt[a].receipts \subseteq attempt'[a].receipts
    BY <1>0, <2>1, RowStep DEF RowGrows, RowGone, Exists, Deleted, NoAttempt, storeVars
  <2>3. CASE <<d, i>> \in confirmed
    <3>1. i \in ConfirmedUnits(attempt[a].snapshot, attempt[a].receipts)
      BY <1>1, <2>2, <2>3 DEF Exact
    <3> QED BY <2>2, <3>1 DEF ConfirmedUnits
  <2>4. CASE <<d, i>> \notin confirmed
    <3>1. PICK t \in Task : /\ task[t].pc = "receipt" /\ <<d, i>> \in Sent(t)
                            /\ RecordReceipt(task[t].proc, task[t].att, Current(t), task[t].op)
      BY <1>0, <2>4, NewlyConfirmed
    <3>2. /\ task[t].att = a /\ i \in Units(attempt[a].snapshot, Current(t))
          /\ Current(t) \in attempt'[a].receipts
      BY <1>1, <3>1, ReceiptLocks
    <3> QED BY <2>2, <3>2 DEF ConfirmedUnits
  <2> QED BY <2>3, <2>4
<1>2. ASSUME NEW p, NEW b \in Attempt, NEW v, LockSubmission(p, d, v, b) PROVE FALSE
  <2>1. /\ draft[d].state = "editable" /\ draft[d].active = None
        /\ a = b /\ attempt'[b].snapshot = draft[d].content
    <3>1. draft[d] \in DraftRow /\ draft[d].state = "editable" /\ draft[d].active = None
      <4>1. draft[d].state = "editable"
        BY <1>2 DEF LockSubmission, Editable
      <4>2. draft[d].state \notin Locking
        BY <4>1
      <4> QED BY <1>0, <4>1, <4>2 DEF Agreement
    <3>2. draft'[d] = [draft[d] EXCEPT !.state = "submitting", !.version = @ + 1, !.active = b]
      BY <1>0, <1>2 DEF LockSubmission
    <3>3. \E row : attempt' = [attempt EXCEPT
            ![b] = [NoAttempt EXCEPT !.state = "submitting", !.draft = d,
                                     !.row = row, !.frozen = v,
                                     !.snapshot = draft[d].content]]
      BY <1>2 DEF LockSubmission
    <3> QED BY <1>0, <3>1, <3>2, <3>3 DEF DraftRow, NoAttempt
  <2>2. <<d, i>> \notin confirmed
    BY <2>1 DEF Clean
  <2>3. PICK t \in Task : /\ task[t].pc = "receipt" /\ <<d, i>> \in Sent(t)
                          /\ RecordReceipt(task[t].proc, task[t].att, Current(t), task[t].op)
    BY <1>0, <2>2, NewlyConfirmed
  <2>4. draft[d].active \in Attempt
    BY <2>3, ReceiptLocks
  <2> QED BY <2>1, <2>4
<1>3. CASE UNCHANGED storeVars
  BY <1>1, <1>3 DEF storeVars
<1> QED BY <1>0, <1>1, <1>2, <1>3, ActiveFrom

\* What comes back for editing is not confirmed.
LEMMA CleanStep ==
  ASSUME StoreInv, StoreInv', CallOK, OnPlan, SeenOK, Exact, Clean, SubmissionNext PROVE Clean'
<1>0. /\ TypeOK /\ (Next \/ UNCHANGED storeVars)
      /\ draft \in [Draft -> DraftRow]
  BY StoreStep DEF StoreInv, TypeOK
<1>1. ASSUME NEW d, NEW i, <<d, i>> \in confirmed', <<d, i>> \notin confirmed
      PROVE  d \in Draft /\ draft'[d].state = "partial"
  <2>1. PICK t \in Task : /\ task[t].pc = "receipt" /\ <<d, i>> \in Sent(t)
                          /\ RecordReceipt(task[t].proc, task[t].att, Current(t), task[t].op)
    BY <1>0, <1>1, NewlyConfirmed
  <2> QED BY <2>1, ReceiptLocks
<1>2. ASSUME NEW d \in Draft, draft'[d].state = "editable",
             NEW i \in draft'[d].content.items, <<d, i>> \in confirmed'
      PROVE  FALSE
  <2>1. <<d, i>> \in confirmed
    BY <1>1, <1>2
  <2>2. ASSUME draft[d].active # None
        PROVE  /\ draft[d].active \in Attempt /\ Exists(attempt[draft[d].active])
               /\ draft[d].content = attempt[draft[d].active].snapshot
    BY <2>2, LockedDraft
  <2>3. ASSUME draft[d].active # None, i \in draft[d].content.items
        PROVE  i \in ConfirmedUnits(attempt[draft[d].active].snapshot,
                                    attempt[draft[d].active].receipts)
    BY <2>1, <2>2, <2>3 DEF Exact
  <2>4. CASE draft[d].state = "absent"
    BY <2>1, <2>4 DEF Clean
  <2>5. CASE /\ draft[d].state = "editable"
             /\ draft'[d].content.items \subseteq draft[d].content.items
    BY <1>2, <2>1, <2>5 DEF Clean
  <2>6. CASE /\ draft[d].active # None /\ attempt[draft[d].active].receipts = {}
             /\ draft'[d].content = draft[d].content
    BY <1>2, <2>3, <2>6 DEF ConfirmedUnits
  <2>7. ASSUME NEW t \in Task, At(t, "decide"), task[t].att = draft[d].active,
               draft[d].active # None,
               draft'[d].content.items
                 = Remainder(attempt[task[t].att].snapshot, task[t].seen).items
        PROVE  FALSE
    <3>1. task[t].seen = attempt[task[t].att].receipts
      BY <2>2, <2>7 DEF SeenOK, At
    <3> QED BY <1>2, <2>2, <2>3, <2>7, <3>1 DEF Remainder
  <2> QED BY <1>2, <2>4, <2>5, <2>6, <2>7, EditableFrom
<1>3. ASSUME NEW d \in Draft, draft'[d].state = "absent", NEW x \in confirmed', x[1] = d
      PROVE  FALSE
  <2>1. draft[d].state = "absent"
    BY <1>0, <1>3, DraftStays DEF storeVars
  <2>2. x \notin confirmed
    BY <1>3, <2>1 DEF Clean
  <2>3. PICK t \in Task : /\ task[t].pc = "receipt" /\ x \in Sent(t)
                          /\ RecordReceipt(task[t].proc, task[t].att, Current(t), task[t].op)
    BY <1>0, <1>3, <2>2, NewlyConfirmed
  <2>4. x = <<d, x[2]>>
    BY <1>3, <2>3 DEF Sent
  <2>5. draft'[d].state = "partial"
    BY <2>3, <2>4, ReceiptLocks
  <2> QED BY <1>3, <2>5
<1> QED BY <1>2, <1>3 DEF Clean

\* The invariant of one process at a time.
LEMMA RemainderStep ==
  SubmissionInv /\ SubmissionInv' /\ OneOpen /\ RemainderInv /\ [SubmissionNext]_vars
    => RemainderInv'
<1> SUFFICES ASSUME SubmissionInv, SubmissionInv', OneOpen, RemainderInv, [SubmissionNext]_vars
             PROVE  RemainderInv'
  OBVIOUS
<1>1. CASE UNCHANGED vars
  BY <1>1 DEF vars, storeVars, RemainderInv, Alive, SeenOK, Exact, Clean, ConfirmedUnits, Units
<1>2. CASE SubmissionNext
  BY <1>2, AliveStep, SeenStep, ExactStep, CleanStep DEF SubmissionInv, StoreInv, RemainderInv
<1> QED BY <1>1, <1>2

\* While one process at a time has the database open, decisions are made from what is
\* stored, and receipts and confirmations stay in step (reconcile reads the attempt under
\* its lock, and writes the decision later).
THEOREM RemainderInvAlone == SubmissionSpec /\ []OneOpen => []RemainderInv
<1>1. SubmissionInit => RemainderInv
  BY IdleOK DEF SubmissionInit, Init, NoDraft, RemainderInv, Alive, SeenOK, Exact, Clean
<1> QED BY <1>1, RemainderStep, SubmissionInvAlways, PTL DEF SubmissionSpec

\* While no two processes have the database open at a time, a draft comes back for
\* editing with exactly the comments and the body that are not confirmed (reconcile
\* computes them from the attempt it has read; two processes can break this).
THEOREM ReturnsRemainderAlone == SubmissionSpec /\ []OneOpen => ReturnsRemainder
<1> DEFINE A == \A d \in Draft :
        draft[d].state \in Locking /\ draft'[d].state = "editable" =>
          draft'[d].content.items
            = {i \in draft[d].content.items : <<d, i>> \notin confirmed}
<1>1. SubmissionInv /\ RemainderInv /\ [SubmissionNext]_vars => [A]_vars
  <2> SUFFICES ASSUME SubmissionInv, RemainderInv, SubmissionNext,
                      NEW d \in Draft, draft[d].state \in Locking, draft'[d].state = "editable"
               PROVE  draft'[d].content.items
                        = {i \in draft[d].content.items : <<d, i>> \notin confirmed}
    OBVIOUS
  <2> DEFINE a == draft[d].active
             row == attempt[a]
             units == ConfirmedUnits(row.snapshot, row.receipts)
  <2>1. /\ a # None /\ a \in Attempt /\ Exists(row) /\ row.draft = d
        /\ draft[d].content = row.snapshot
    <3>1. a # None
      BY DEF SubmissionInv, StoreInv, Agreement
    <3> QED BY <3>1, LockedDraft DEF SubmissionInv
  <2>2. \A i \in row.snapshot.items : <<d, i>> \in confirmed <=> i \in units
    BY <2>1 DEF SubmissionInv, ConfirmedOK, RemainderInv, Exact
  <2> HIDE DEF units
  <2>3. draft'[d].content.items = row.snapshot.items \ units
    <3>1. CASE row.receipts = {} /\ draft'[d].content = draft[d].content
      BY <2>1, <3>1 DEF units, ConfirmedUnits
    <3>2. ASSUME NEW t \in Task, At(t, "decide"), task[t].att = a,
                 draft'[d].content.items
                   = Remainder(attempt[task[t].att].snapshot, task[t].seen).items
          PROVE  draft'[d].content.items = row.snapshot.items \ units
      <4>1. task[t].seen = row.receipts
        BY <2>1, <3>2 DEF RemainderInv, SeenOK, At
      <4> QED BY <3>2, <4>1 DEF Remainder, units
    <3>3. draft[d].state \notin {"absent", "editable"}
      OBVIOUS
    <3> QED BY <3>1, <3>2, <3>3, EditableFrom DEF SubmissionInv
  <2> QED BY <2>1, <2>2, <2>3
<1> QED BY <1>1, SubmissionInvAlways, RemainderInvAlone, PTL DEF SubmissionSpec, ReturnsRemainder

\* Then a comment or a body with a durable receipt is never sent again, not even from a
\* draft that was returned to editing and submitted anew.
THEOREM ConfirmedSentOnceAlone == SubmissionSpec /\ []OneOpen => ConfirmedSentOnce
<1> DEFINE A == \A t \in Task : At(t, "send") /\ task'[t].pc = "await"
                  => \A x \in Sent(t) \cap confirmed : x[2] = Vote
<1>1. SubmissionInv /\ RemainderInv => \A t \in Task : At(t, "send") =>
        \A x \in Sent(t) \cap confirmed : x[2] = Vote
  <2> SUFFICES ASSUME SubmissionInv, RemainderInv, NEW t \in Task, At(t, "send"),
                      NEW x \in Sent(t) \cap confirmed, x[2] # Vote
               PROVE  FALSE
    OBVIOUS
  <2> DEFINE a == task[t].att
             row == attempt[a]
             d == row.draft
             i == x[2]
  <2>1. /\ a \in Attempt /\ d \in Draft /\ draft[d].active = a
        /\ x = <<d, i>> /\ i \in Units(row.snapshot, Current(t))
    BY OwnDraft DEF SubmissionInv, At, Advancing, Sending, Sent
  <2>2. row.snapshot \in Content /\ Current(t) \in PlanOf(row.snapshot)
    <3>1. task[t].left # {} /\ task[t].left \in SUBSET Step
      BY DEF SubmissionInv, CallOK, TaskRow, At, Stepping
    <3>2. task[t].left = Remaining(a, PlanOf(row.snapshot))
      BY DEF SubmissionInv, OnPlan, At, Advancing, Sending
    <3>3. row.snapshot \in Content
      BY <2>1 DEF SubmissionInv, StoreInv, TypeOK, AttemptRow
    <3> QED BY <3>1, <3>2, <3>3, FirstIsOne DEF Current, Remaining
  <2> HIDE DEF i, d
  <2>3. i \in row.snapshot.items
    BY <2>1, <2>2, UnitsItems DEF i
  <2>4. i \in ConfirmedUnits(row.snapshot, row.receipts)
    <3>1. a # None
      BY <2>1
    <3> QED BY <2>1, <2>3, <3>1 DEF RemainderInv, Exact
  <2> QED BY <2>1, <2>4, NotSentAgain DEF At, i
<1>2. SubmissionInv /\ RemainderInv /\ [SubmissionNext]_vars => [A]_vars
  BY <1>1
<1> QED BY <1>2, SubmissionInvAlways, RemainderInvAlone, PTL DEF SubmissionSpec, ConfirmedSentOnce
===============================================================================
