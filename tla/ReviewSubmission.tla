--------------------------- MODULE ReviewSubmission ---------------------------
(***************************************************************************)
(* Sending a draft to the forge (tongs/services/review_submission.py) on   *)
(* top of the draft store.  A call (start, resume, reconcile) is an        *)
(* asyncio task of one process; each await of the code, where the task can *)
(* be interleaved with other tasks and processes, cancelled, or killed, is *)
(* a program point here.  Calls on one attempt in one process exclude each *)
(* other by an asyncio lock; processes exclude each other by the ownership *)
(* of the attempt only.  Rows stay readable in this module (DraftStore     *)
(* models damage).                                                         *)
(*                                                                         *)
(* The forge answers a write with a confirmation, a definite refusal, or   *)
(* not at all; the histories inDoubt, confirmed, sentOps and marked record *)
(* what was sent and what the user was asked, for the properties only.     *)
(***************************************************************************)
EXTENDS DraftStore

CONSTANTS Task,          \* service calls that may run at the same time
          Body,          \* the item that is the review body
          Standalone,    \* comments that are general or replies, not inline
          Position,      \* where a step stands in every plan that has it
          Batch, Review, Vote,        \* the step ids that are not items
          Approve, RequestChanges     \* verdicts that are sent on their own

ASSUME SubmissionAssumption ==
  /\ Body \in Item
  /\ Standalone \subseteq Item \ {Body}
  /\ Item \cup {Batch, Review, Vote} \subseteq Step
  /\ {Batch, Review, Vote} \cap Item = {}
  /\ Batch # Review /\ Review # Vote /\ Vote # Batch
  /\ Position \in [Step -> Nat]
  /\ \A s, u \in Step : Position[s] = Position[u] => s = u
  /\ SUBSET Step \subseteq Plan
  /\ (0 .. MaxRecons) \X (0 .. MaxRetry) \subseteq Operation

VARIABLES forge,       \* "github" or "gitlab": the forge of the review
          task,        \* the calls
          inDoubt,     \* <<draft, unit>> sent, unanswered, not decided upon
          confirmed,   \* <<draft, unit>> with a durable receipt
          sentOps,     \* operation ids that have been sent
          marked       \* attempts the user declared submitted

vars == <<storeVars, forge, task, inDoubt, confirmed, sentOps, marked>>

history == <<forge, inDoubt, confirmed, sentOps, marked>>

Idle == [pc |-> "idle", call |-> None, proc |-> None, att |-> None,
         left |-> {}, op |-> None, seen |-> {}]

SubmissionInit == /\ Init
                  /\ forge \in {"github", "gitlab"}
                  /\ task = [t \in Task |-> Idle]
                  /\ inDoubt = {} /\ confirmed = {} /\ sentOps = {} /\ marked = {}

-------------------------------------------------------------------------------
(***************************************************************************)
(* Plans.  The steps of a plan are a set here: Position gives their order  *)
(* (the comments as in the draft, then what follows them), which is the    *)
(* same in every plan.                                                     *)
(***************************************************************************)

Comments(c) == c.items \ {Body}

If(cond, s) == IF cond THEN {s} ELSE {}

\* _plan: the steps a frozen content is sent in, none where it raises.
PlanOf(c) ==
  IF forge = "github" /\ c.items \cap Standalone = {}
  THEN If(c # Empty, Batch)
  ELSE IF forge = "github"
  THEN Comments(c) \cup If(Body \in c.items \/ c.verdict \in {Approve, RequestChanges},
                           Review)
  ELSE IF c.verdict = RequestChanges THEN {}
  ELSE Comments(c) \cup If(Body \in c.items, Body) \cup If(c.verdict = Approve, Vote)

\* The step of a plan that comes first.
First(steps) == CHOOSE s \in steps : \A u \in steps : Position[s] <= Position[u]

\* _command: what one step puts on the forge.
Units(c, s) ==
  LET vote == IF c.verdict # None THEN {Vote} ELSE {}
  IN  IF s = Batch THEN c.items \cup vote
      ELSE IF s = Review THEN (c.items \cap {Body}) \cup vote
      ELSE {s}

\* Mutant of ConfirmedUnits: the body that a batch or a review carries is missed.
ConfirmedSteps(c, receipts) == receipts

\* _confirmed_content: what the receipts of an attempt stand for.
ConfirmedUnits(c, receipts) == UNION {Units(c, s) : s \in receipts}

\* Mutant of Remainder: the whole content comes back.
WholeContent(c, receipts) == c

\* editable_remainder
Remainder(c, receipts) ==
  [items   |-> c.items \ ConfirmedUnits(c, receipts),
   verdict |-> IF receipts \cap {Batch, Review, Vote} # {} THEN None ELSE c.verdict]

\* _remaining_steps
Remaining(a, plan) == plan \ attempt[a].receipts

\* Mutant of OperationId: an authorized retry keeps the id.
OperationIdWithoutRetry(a) == <<attempt[a].recons, 0>>

\* _operation_id, the attempt and the step left out
OperationId(a) == <<attempt[a].recons, attempt[a].retry>>

-------------------------------------------------------------------------------
(***************************************************************************)
(* Control of a task.                                                      *)
(***************************************************************************)

At(t, pc) == task[t].pc = pc

Goto(t, pc) == task' = [task EXCEPT ![t].pc = pc]

Return(t) == task' = [task EXCEPT ![t] = Idle]

\* The asyncio lock of an attempt, held from the read of the attempt on.  A start
\* that undoes the submission lock it was cancelled on does not hold it, but its
\* writes are waiting for the store, which serves a process first come first
\* served (_operation_lock), before anybody can know of the attempt.
LockFree(p, a) == \A t \in Task : task[t].proc = p => task[t].att # a

\* The step a task is at.
Current(t) == First(task[t].left)

Sent(t) == {attempt[task[t].att].draft} \X
             Units(attempt[task[t].att].snapshot, Current(t))

About(a) == {x \in inDoubt : x[1] = attempt[a].draft}

\* The store operation of this step failed (SQLite error, or it was refused).
StoreFails == UNCHANGED storeVars

-------------------------------------------------------------------------------
(***************************************************************************)
(* start                                                                   *)
(***************************************************************************)

\* lock_submission, finished even if the caller is cancelled meanwhile.  The
\* attempt is new, so the task takes its lock without waiting.
Start(t, p, d, a) ==
  /\ At(t, "idle")
  /\ LockSubmission(p, d, draft[d].version, a)
  /\ \E pc \in {"preflight", "undo_lock"} :
       task' = [task EXCEPT ![t] = [Idle EXCEPT !.pc = pc, !.call = "start",
                                                !.proc = p, !.att = a]]
  /\ UNCHANGED history

\* _release_cancelled_lock
UndoLock(t) ==
  /\ At(t, "undo_lock")
  /\ \/ CancelSubmission(task[t].proc, task[t].att) /\ Return(t)
     \/ StoreFails /\ Goto(t, "undo_park")
  /\ UNCHANGED history

\* _park_unknown: after a lock or a retry that was cancelled, and after a retry
\* whose preflight failed.
Park(t) ==
  /\ At(t, "park") \/ At(t, "undo_park")
  /\ \/ MarkAttemptUnknown(task[t].proc, task[t].att, None)
     \/ MarkUnknownFails(task[t].proc, task[t].att)
  /\ Return(t)
  /\ UNCHANGED history

\* _preflight reads the review, validates every step and binds the plan.
Preflight(t) ==
  /\ At(t, "preflight")
  /\ LET a == task[t].att
         plan == PlanOf(attempt[a].snapshot)
     IN /\ \/ attempt[a].plan # None
           \/ attempt[a].receipts \cup attempt[a].unknowns = {} /\ attempt[a].pending = None
        /\ plan # {}
        /\ RecordPlan(task[t].proc, a, plan)
        /\ task' = [task EXCEPT ![t].left = Remaining(a, plan),
                                ![t].pc = IF task[t].call = "resume"
                                                /\ Remaining(a, plan) # {}
                                          THEN "authorize" ELSE "advance"]
  /\ UNCHANGED history

\* The forge is unreachable, the revision moved, a step is invalid, the store
\* fails, or the caller is cancelled, perhaps just as the plan is written.
PreflightFails(t) ==
  /\ At(t, "preflight")
  /\ \/ StoreFails
     \/ /\ PlanOf(attempt[task[t].att].snapshot) # {}
        /\ RecordPlan(task[t].proc, task[t].att, PlanOf(attempt[task[t].att].snapshot))
  /\ \/ task[t].call = "start" /\ Goto(t, "undo")
     \/ task[t].call = "resume" /\ Return(t)
     \/ task[t].call = "retry" /\ Goto(t, "park")
  /\ UNCHANGED history

\* _cancel_before_reraise, and _return_paused_to_editing without a trace
Undo(t) ==
  /\ At(t, "undo")
  /\ CancelSubmission(task[t].proc, task[t].att) \/ StoreFails
  /\ Return(t)
  /\ UNCHANGED history

-------------------------------------------------------------------------------
(***************************************************************************)
(* resume and reconcile                                                    *)
(***************************************************************************)

\* Mutant of NoTrace: asks only what the store asks.
NoTraceNow(a) == /\ attempt[a].state = "submitting"
                 /\ attempt[a].receipts = {} /\ attempt[a].pending = None

\* _return_paused_to_editing cancels an attempt that has left no trace.
NoTrace(a) == /\ attempt[a].state = "submitting"
              /\ attempt[a].receipts = {} /\ attempt[a].pending = None
              /\ attempt[a].unknowns = {} /\ attempt[a].recons = 0

\* What a call can do with the attempt it finds: nothing ("idle"), or go on at
\* one of these points.
Entry(p, a, call) ==
  IF attempt[a].state = "unknown" /\ call # "resume" THEN "decide"
  ELSE IF attempt[a].state \in Active /\ call = "resume" THEN "preflight"
  ELSE IF attempt[a].state \in Active /\ call = "return" /\ owner[a] = p
  THEN IF NoTrace(a) THEN "undo" ELSE "return_mark"
  ELSE "idle"

\* A call for an attempt the user knows of has got the lock (waiting for it has
\* no effect) and has read the attempt.
Call(t, p, a, call) ==
  /\ At(t, "idle")
  /\ Serving(p)
  /\ Exists(attempt[a])
  /\ LockFree(p, a)
  /\ Entry(p, a, call) # "idle"
  /\ task' = [task EXCEPT ![t] = [Idle EXCEPT
       !.pc = Entry(p, a, call), !.call = call, !.proc = p, !.att = a,
       !.seen = attempt[a].receipts]]
  /\ UNCHANGED <<storeVars, history>>

\* authorize_retry of the first unconfirmed step; cancelled right after it, the
\* call ends there.
Authorize(t) ==
  /\ At(t, "authorize")
  /\ \/ /\ AuthorizeRetry(task[t].proc, task[t].att, Current(t))
        /\ Goto(t, "advance") \/ Return(t)
     \/ StoreFails /\ Return(t)
  /\ UNCHANGED history

\* Decisions about an unknown attempt.  The content returned to editing is
\* computed from the receipts read earlier.
DecideRetry(t) ==
  /\ At(t, "decide") /\ task[t].call = "retry"
  /\ \/ /\ ReconcileRetry(task[t].proc, task[t].att)
        /\ Goto(t, "preflight") \/ Goto(t, "park")
        /\ inDoubt' = inDoubt \ About(task[t].att)
     \/ StoreFails /\ Return(t) /\ UNCHANGED inDoubt
  /\ UNCHANGED <<forge, confirmed, sentOps, marked>>

DecideSubmitted(t) ==
  /\ At(t, "decide") /\ task[t].call = "mark"
  /\ \/ /\ ReconcileSubmitted(task[t].proc, task[t].att)
        /\ marked' = marked \cup {task[t].att}
        /\ inDoubt' = inDoubt \ About(task[t].att)
     \/ StoreFails /\ UNCHANGED <<marked, inDoubt>>
  /\ Return(t)
  /\ UNCHANGED <<forge, confirmed, sentOps>>

DecideEditable(t) ==
  /\ At(t, "decide") /\ task[t].call = "return"
  /\ \/ /\ ReconcileEditable(task[t].proc, task[t].att,
                             Remainder(attempt[task[t].att].snapshot, task[t].seen))
        /\ inDoubt' = inDoubt \ About(task[t].att)
     \/ StoreFails /\ UNCHANGED inDoubt
  /\ Return(t)
  /\ UNCHANGED <<forge, confirmed, sentOps, marked>>

\* A paused attempt with a trace is made unknown first, then decided.
ReturnMark(t) ==
  /\ At(t, "return_mark")
  /\ \/ /\ MarkAttemptUnknown(task[t].proc, task[t].att, None)
        /\ task' = [task EXCEPT ![t].pc = "decide",
                                ![t].seen = attempt[task[t].att].receipts]
     \/ MarkUnknownFails(task[t].proc, task[t].att) /\ Return(t)
  /\ UNCHANGED history

-------------------------------------------------------------------------------
(***************************************************************************)
(* _advance: journal, send, record, for every remaining step; then         *)
(* complete.                                                               *)
(***************************************************************************)

\* Mutant of Journal: sends even where the journal could not be written.
JournalOptional(t) ==
  /\ At(t, "advance")
  /\ task[t].left # {}
  /\ LET op == OperationId(task[t].att)
     IN /\ BeginDispatch(task[t].proc, task[t].att, Current(t), op) \/ StoreFails
        /\ task' = [task EXCEPT ![t].pc = "send", ![t].op = op]
  /\ UNCHANGED history

\* begin_dispatch.  A store failure pauses the call; a cancellation, whether or
\* not the entry was written, is recorded as an unknown outcome.
Journal(t) ==
  /\ At(t, "advance")
  /\ task[t].left # {}
  /\ LET op == OperationId(task[t].att)
     IN \/ /\ BeginDispatch(task[t].proc, task[t].att, Current(t), op)
           /\ \E pc \in {"send", "mark"} :
                task' = [task EXCEPT ![t].pc = pc, ![t].op = op]
        \/ StoreFails /\ (Return(t) \/ Goto(t, "mark"))
  /\ UNCHANGED history

\* The request leaves; whether it reaches the forge is not known yet.
Send(t) ==
  /\ At(t, "send")
  /\ Goto(t, "await")
  /\ inDoubt' = inDoubt \cup Sent(t)
  /\ sentOps' = sentOps \cup {<<task[t].att, Current(t), task[t].op>>}
  /\ UNCHANGED <<storeVars, forge, confirmed, marked>>

\* Mutant of Answer: an exception counts as a refusal.
AnswerErrorRefuses(t) ==
  /\ At(t, "await")
  /\ Goto(t, "receipt") \/ Goto(t, "reject")
  /\ UNCHANGED <<storeVars, history>>

\* ReviewMutationService.execute returns: confirmed, refused for certain (a
\* ServiceError), an unknown outcome, or an exception or a cancellation.
Answer(t) ==
  /\ At(t, "await")
  /\ \/ Goto(t, "receipt") /\ UNCHANGED inDoubt
     \/ Goto(t, "reject") /\ inDoubt' = inDoubt \ Sent(t)
     \/ Goto(t, "unknown") /\ UNCHANGED inDoubt
     \/ Goto(t, "mark") /\ UNCHANGED inDoubt
  /\ UNCHANGED <<storeVars, forge, confirmed, sentOps, marked>>

\* record_receipt, finished even if the caller is cancelled meanwhile: then the
\* attempt stays paused and owned.  A receipt that cannot be stored makes the
\* step unknown.
Receipt(t) ==
  /\ At(t, "receipt")
  /\ \/ /\ RecordReceipt(task[t].proc, task[t].att, Current(t), task[t].op)
        /\ \/ task' = [task EXCEPT ![t].pc = "advance", ![t].left = @ \ {Current(t)}]
           \/ Return(t)
        /\ confirmed' = confirmed \cup Sent(t)
        /\ inDoubt' = inDoubt \ Sent(t)
     \/ StoreFails /\ Goto(t, "unknown") /\ UNCHANGED <<confirmed, inDoubt>>
  /\ UNCHANGED <<forge, sentOps, marked>>

\* reject_dispatch, and the call pauses.
Reject(t) ==
  /\ At(t, "reject")
  /\ \/ RejectDispatch(task[t].proc, task[t].att, Current(t), task[t].op) /\ Return(t)
     \/ StoreFails /\ Goto(t, "mark")
  /\ UNCHANGED history

\* _mark_unknown, finished even if the caller is cancelled meanwhile.
Mark(t) ==
  /\ At(t, "mark")
  /\ \/ MarkAttemptUnknown(task[t].proc, task[t].att, Current(t))
     \/ MarkUnknownFails(task[t].proc, task[t].att)
  /\ Return(t)
  /\ UNCHANGED history

\* mark_attempt_unknown without that protection: cancelled while it waits for
\* the store, it does nothing and the attempt stays owned with its journal.
MarkUnknown(t) ==
  /\ At(t, "unknown")
  /\ \/ MarkAttemptUnknown(task[t].proc, task[t].att, Current(t))
     \/ MarkUnknownFails(task[t].proc, task[t].att)
     \/ StoreFails
  /\ Return(t)
  /\ UNCHANGED history

\* Mutant of Complete: does not wait for the last step.
CompleteEarly(t) ==
  /\ At(t, "advance")
  /\ CompleteSubmission(task[t].proc, task[t].att) \/ StoreFails
  /\ Return(t)
  /\ UNCHANGED history

\* _complete; where the final state cannot be stored, the call pauses.
Complete(t) ==
  /\ At(t, "advance")
  /\ task[t].left = {}
  /\ CompleteSubmission(task[t].proc, task[t].att) \/ StoreFails
  /\ Return(t)
  /\ UNCHANGED history

-------------------------------------------------------------------------------
(***************************************************************************)
(* The surroundings: processes, and the user's editor.                     *)
(***************************************************************************)

\* start-up and its recovery pass
StartUp(p) ==
  /\ \/ Open(p) \/ ListIncomplete(p) \/ Serve(p)
     \/ \E a \in Attempt : RecoverSkip(p, a) \/ RecoverUnknown(p, a) \/ RecoverFails(p, a)
  /\ UNCHANGED <<task, history>>

\* The process dies, or closes its store: its calls are gone.
Exit(p) ==
  /\ Stop(p)
  /\ task' = [t \in Task |-> IF task[t].proc = p THEN Idle ELSE task[t]]
  /\ UNCHANGED history

\* The user writes a draft, and later removes things from it.
Edits(p, d) ==
  /\ \/ \E c \in Content : CreateDraft(p, d, c)
     \/ \E c \in Content : /\ c.items \subseteq draft[d].content.items
                           /\ SaveDraft(p, d, draft[d].version, c)
     \/ DiscardDraft(p, d, draft[d].version)
  /\ UNCHANGED <<task, history>>

Calls(t, p) ==
  \/ \E d \in Draft, a \in Attempt : Start(t, p, d, a)
  \/ \E a \in Attempt, call \in {"resume", "retry", "mark", "return"} : Call(t, p, a, call)

\* What a call does once it is under way.
Progress(t) ==
  \/ UndoLock(t) \/ Park(t) \/ Preflight(t) \/ PreflightFails(t) \/ Undo(t)
  \/ Authorize(t) \/ DecideRetry(t) \/ DecideSubmitted(t)
  \/ DecideEditable(t) \/ ReturnMark(t)
  \/ Journal(t) \/ Send(t) \/ Answer(t) \/ Receipt(t) \/ Reject(t)
  \/ Mark(t) \/ MarkUnknown(t) \/ Complete(t)

SubmissionNext ==
  \/ \E p \in Process : \/ StartUp(p) \/ Exit(p)
                        \/ \E d \in Draft : Edits(p, d)
                        \/ \E t \in Task : Calls(t, p)
  \/ \E t \in Task : Progress(t)

SubmissionSpec == SubmissionInit /\ [][SubmissionNext]_vars

-------------------------------------------------------------------------------
Points == {"idle", "preflight", "undo_lock", "undo",
           "undo_park", "park",
           "authorize", "decide", "return_mark", "advance", "send", "await",
           "receipt", "reject", "mark", "unknown"}

TaskRow == [pc : Points, call : {"start", "resume", "retry", "mark", "return", None},
            proc : Process \cup {None}, att : Attempt \cup {None},
            left : SUBSET Step, op : Operation \cup {None}, seen : SUBSET Step]

\* Calls and histories are well formed, and what is sent is a unit of a review.
SubmissionTypeOK ==
  /\ TypeOK
  /\ forge \in {"github", "gitlab"}
  /\ task \in [Task -> TaskRow]
  /\ inDoubt \subseteq Draft \X (Item \cup {Vote})
  /\ confirmed \subseteq Draft \X (Item \cup {Vote})
  /\ sentOps \subseteq Attempt \X Step \X Operation
  /\ marked \subseteq Attempt

\* A write whose outcome is uncertain is never replayed automatically: nothing
\* that may already be on the forge is sent again before the user has decided
\* about it, whatever was interrupted, recovered, resumed or edited.
NoBlindReplay ==
  [][ \A t \in Task : At(t, "send") /\ task'[t].pc = "await"
                        => Sent(t) \cap inDoubt = {} ]_vars

\* A comment or a body with a durable receipt is never sent again, not even
\* from a draft that was returned to editing and submitted anew.
ConfirmedSentOnce ==
  [][ \A t \in Task : At(t, "send") /\ task'[t].pc = "await"
                        => \A x \in Sent(t) \cap confirmed : x[2] = Vote ]_vars

\* The same of the verdict.
VerdictSentOnce ==
  [][ \A t \in Task : At(t, "send") /\ task'[t].pc = "await"
                        => \A x \in Sent(t) \cap confirmed : x[2] # Vote ]_vars

\* A draft comes back for editing with exactly the comments and the body that
\* are not confirmed: none is lost and none comes back twice.
ReturnsRemainder ==
  [][ \A d \in Draft :
        draft[d].state \in Locking /\ draft'[d].state = "editable" =>
          draft'[d].content.items
            = {i \in draft[d].content.items : <<d, i>> \notin confirmed} ]_vars

\* Every send has an operation id of its own, so that the operation ledger
\* never answers a retry with the outcome of an earlier write.
OperationIdsFresh ==
  [][ \A t \in Task : At(t, "send") /\ task'[t].pc = "await" =>
        <<task[t].att, Current(t), task[t].op>> \notin sentOps ]_vars

\* An attempt counts as submitted only when the forge has confirmed all of its
\* comments and its body, or when the user said so; and a submitted draft meets the
\* conditions for pruning, so the database does not grow for ever: its last attempt
\* is the one that was submitted.
SubmittedIsConfirmed ==
  /\ \A a \in Attempt :
       attempt[a].state = "submitted" /\ a \notin marked =>
         \A i \in attempt[a].snapshot.items : <<attempt[a].draft, i>> \in confirmed
  /\ \A d \in Draft : draft[d].state = "submitted" => d \in Prunable(draft, attempt)

\* A write leaves only while its journal entry is on disk and its attempt is
\* owned by the sender: a crash at that very point leaves the entry behind.
SendIsJournaled ==
  \A t \in Task : task[t].pc \in {"send", "await"} =>
    /\ attempt[task[t].att].pending = Current(t)
    /\ attempt[task[t].att].op = task[t].op
    /\ owner[task[t].att] = task[t].proc

\* One call at a time works on an attempt, across tasks and processes.
OneSender ==
  \A t, u \in {v \in Task : task[v].pc \in {"send", "await", "receipt"}} :
    task[t].att = task[u].att => t = u

\* A call that ends with a journal entry left leaves the attempt to nobody, so that
\* recovery, which passes over owned attempts, finds it: also where the write that
\* records the unknown outcome fails.  Not said of MarkUnknown, which the cancellation
\* of its caller may keep from running at all, nor of calls that end before they have
\* an entry of their own.
LeavesItRecoverable ==
  [][ \A t \in Task :
        /\ task[t].pc \in {"advance", "send", "await", "receipt", "reject", "mark",
                           "park", "undo_park", "return_mark"}
        /\ task'[t].pc = "idle"
        => owner'[task[t].att] = None \/ attempt'[task[t].att].pending = None ]_vars

\* What is uncertain stays on record: an uncertain unit belongs to an attempt
\* that is journaled, being answered, or marked unknown for the user to decide.
DoubtIsRecorded ==
  \A x \in inDoubt :
    \E a \in Attempt : /\ attempt[a].draft = x[1]
                       /\ \/ attempt[a].pending # None
                          \/ attempt[a].unknowns # {}
                       /\ attempt[a].state \in Locking
===============================================================================
