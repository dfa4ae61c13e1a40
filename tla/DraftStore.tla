------------------------------ MODULE DraftStore ------------------------------
(***************************************************************************)
(* The durable draft store shared by all tongs processes                   *)
(* (tongs/state/drafts/store.py).  One SQLite database holds review drafts *)
(* and the attempts to submit them; every operation is one BEGIN IMMEDIATE *)
(* transaction, so it is one atomic action here, and one that is refused   *)
(* or that fails is rolled back and changes nothing (a stuttering step).   *)
(* The exception is mark_attempt_unknown, whose failure still gives up     *)
(* ownership: MarkUnknownFails.                                            *)
(*                                                                         *)
(* Ownership of an attempt is the OwnershipLock that AttemptLock            *)
(* implements.  It lives in memory: a process that closes the store or     *)
(* dies owns nothing.  The caller here is the most general one: any        *)
(* process may call any operation with any arguments at any time.          *)
(***************************************************************************)
EXTENDS Naturals, FiniteSets

CONSTANTS Process,      \* the tongs processes (TUI, desktop sidecars)
          Draft,        \* draft UUIDs, used once
          Attempt,      \* attempt UUIDs, used once
          Item,         \* what a draft can hold besides a verdict: comments, body
          Verdict,      \* review verdicts
          Plan,         \* submission plans
          Step,         \* step ids
          Operation,    \* operation ids of remote writes
          None,
          MaxVersion,   \* bound on the edits of a draft
          MaxRetry,     \* bound on the retry authorizations of an attempt
          MaxRecons     \* bound on the reconciliations of an attempt

ASSUME StoreAssumption ==
  /\ None \notin Process \cup Draft \cup Attempt \cup Verdict
  /\ None \notin Plan /\ None \notin Step /\ None \notin Operation
  /\ MaxVersion \in Nat \ {0} /\ MaxRetry \in Nat /\ MaxRecons \in Nat

VARIABLES draft,     \* table drafts
          attempt,   \* table submission_attempts and the tables that hang off it
          damaged,   \* attempts whose rows can no longer be parsed
          owner,     \* who holds the lock of an attempt (_held_attempt_locks)
          mode,      \* where a process is in its start-up
          todo       \* attempts its recovery pass listed and has not visited

storeVars == <<draft, attempt, damaged, owner, mode, todo>>

Content == [items : SUBSET Item, verdict : Verdict \cup {None}]

Empty == [items |-> {}, verdict |-> None]

\* DraftState: SUBMITTING and PARTIAL are attempts in progress.
Active == {"submitting", "partial"}

Locking == Active \cup {"unknown"}

NoDraft == [state |-> "absent", version |-> 0, content |-> Empty, active |-> None]

NoAttempt == [state |-> "absent", draft |-> None, row |-> 0, frozen |-> 0,
              snapshot |-> Empty, plan |-> None, pending |-> None, op |-> None,
              receipts |-> {}, retry |-> 0, unknowns |-> {}, recons |-> 0]

\* A row whose id existed once; UUIDs are never used again.
Deleted(row) == [row EXCEPT !.state = "deleted"]

Exists(row) == row.state \notin {"absent", "deleted"}

Init == /\ draft = [d \in Draft |-> NoDraft]
        /\ attempt = [a \in Attempt |-> NoAttempt]
        /\ damaged = {}
        /\ owner = [a \in Attempt |-> None]
        /\ mode = [p \in Process |-> "closed"]
        /\ todo = [p \in Process |-> {}]

-------------------------------------------------------------------------------
(***************************************************************************)
(* Pruning: housekeeping inside open, complete_submission and a            *)
(* reconciliation to SUBMITTED.                                            *)
(***************************************************************************)

AttemptsOf(d, at) == {a \in Attempt : Exists(at[a]) /\ at[a].draft = d}

\* The attempt with the highest rowid, which is the one inserted last.
IsLatest(a, d, at) == /\ a \in AttemptsOf(d, at)
                      /\ \A b \in AttemptsOf(d, at) : at[b].row <= at[a].row

Prunable(dr, at) ==
  {d \in Draft : /\ dr[d].state = "submitted"
                 /\ dr[d].active = None
                 /\ \E a \in Attempt : IsLatest(a, d, at) /\ at[a].state = "submitted"
                 /\ \A a \in AttemptsOf(d, at) : at[a].state \notin Active}

\* ON DELETE CASCADE takes the attempts of a deleted draft, and theirs.
DeleteDrafts(gone, dr, at) ==
  /\ draft' = [d \in Draft |-> IF d \in gone THEN Deleted(NoDraft) ELSE dr[d]]
  /\ attempt' = [a \in Attempt |-> IF Exists(at[a]) /\ at[a].draft \in gone
                                   THEN Deleted(NoAttempt) ELSE at[a]]
  /\ damaged' = {a \in damaged : at[a].draft \notin gone}

\* Which drafts are past the retention window depends on the clock; the draft
\* that was submitted just now, if any, is inside it.
PruneSubmitted(dr, at, fresh) ==
  \E gone \in SUBSET (Prunable(dr, at) \ fresh) : DeleteDrafts(gone, dr, at)

-------------------------------------------------------------------------------
(***************************************************************************)
(* Life of a process: open, recover, serve, close or die.                  *)
(***************************************************************************)

Open(p) ==
  /\ mode[p] = "closed"
  /\ mode' = [mode EXCEPT ![p] = "opened"]
  /\ PruneSubmitted(draft, attempt, {})
  /\ UNCHANGED <<owner, todo>>

\* recover_incomplete_attempts lists the attempts in progress ...
ListIncomplete(p) ==
  /\ mode[p] = "opened"
  /\ mode' = [mode EXCEPT ![p] = "recovering"]
  /\ todo' = [todo EXCEPT ![p] = {a \in Attempt : attempt[a].state \in Active}]
  /\ UNCHANGED <<draft, attempt, damaged, owner>>

Visit(p, a) ==
  /\ mode[p] = "recovering"
  /\ a \in todo[p]
  /\ todo' = [todo EXCEPT ![p] = @ \ {a}]

\* ... skips those that somebody owns, or that were resolved or deleted since ...
RecoverSkip(p, a) ==
  /\ Visit(p, a)
  /\ owner[a] # None \/ attempt[a].state \notin Active
  /\ UNCHANGED <<draft, attempt, damaged, owner, mode>>

\* Mutant of RecoverUnknown: drops the journal without a marker.
RecoverUnknownForgets(p, a) ==
  /\ Visit(p, a)
  /\ owner[a] = None /\ attempt[a].state \in Active /\ a \notin damaged
  /\ attempt' = [attempt EXCEPT ![a].state = "unknown",
                                ![a].pending = None, ![a].op = None]
  /\ draft' = [d \in Draft |-> IF draft[d].active = a
                               THEN [draft[d] EXCEPT !.state = "unknown"]
                               ELSE draft[d]]
  /\ UNCHANGED <<damaged, owner, mode>>

\* ... marks the others unknown, turning a journaled dispatch into a marker ...
RecoverUnknown(p, a) ==
  /\ Visit(p, a)
  /\ owner[a] = None
  /\ attempt[a].state \in Active
  /\ a \notin damaged
  /\ attempt' = [attempt EXCEPT
       ![a].state = "unknown",
       ![a].unknowns = @ \cup ({attempt[a].pending} \ {None}),
       ![a].pending = None,
       ![a].op = None]
  /\ draft' = [d \in Draft |-> IF d = attempt[a].draft /\ draft[d].active = a
                               THEN [draft[d] EXCEPT !.state = "unknown"]
                               ELSE draft[d]]
  /\ UNCHANGED <<damaged, owner, mode>>

\* Mutant of RecoverUnreadable: releases the draft but does not park the attempt.
RecoverUnreadableHalf(p, a) ==
  /\ Visit(p, a)
  /\ owner[a] = None /\ attempt[a].state \in Active /\ a \in damaged
  /\ \A d \in Draft : draft[d].active = a => draft[d].version < MaxVersion
  /\ draft' = [d \in Draft |->
       IF draft[d].active = a
       THEN [draft[d] EXCEPT !.state = "editable", !.active = None, !.version = @ + 1]
       ELSE draft[d]]
  /\ UNCHANGED <<attempt, damaged, owner, mode>>

\* ... or, where the rows cannot be parsed, gives the draft back to the user
\* and parks the attempt (_release_unreadable_attempt) ...
RecoverUnreadable(p, a) ==
  /\ Visit(p, a)
  /\ owner[a] = None
  /\ attempt[a].state \in Active
  /\ a \in damaged
  /\ \A d \in Draft : draft[d].active = a => draft[d].version < MaxVersion
  /\ attempt' = [attempt EXCEPT ![a].state = "unknown"]
  /\ draft' = [d \in Draft |->
       IF draft[d].active = a /\ draft[d].state \in Active
       THEN [draft[d] EXCEPT !.state = "editable", !.active = None,
                             !.version = @ + 1]
       ELSE draft[d]]
  /\ UNCHANGED <<damaged, owner, mode>>

\* ... and leaves one whose recovery write fails to the next start.
RecoverFails(p, a) ==
  /\ Visit(p, a)
  /\ UNCHANGED <<draft, attempt, damaged, owner, mode>>

Serve(p) ==
  /\ mode[p] = "recovering"
  /\ todo[p] = {}
  /\ mode' = [mode EXCEPT ![p] = "serving"]
  /\ UNCHANGED <<draft, attempt, damaged, owner, todo>>

\* close(), or the death of the process: its locks are gone either way.
Stop(p) ==
  /\ mode[p] # "closed"
  /\ mode' = [mode EXCEPT ![p] = "closed"]
  /\ todo' = [todo EXCEPT ![p] = {}]
  /\ owner' = [a \in Attempt |-> IF owner[a] = p THEN None ELSE owner[a]]
  /\ UNCHANGED <<draft, attempt, damaged>>

\* The rows of an attempt stop being readable (a damaged or newer record).
Damage(a) ==
  /\ Exists(attempt[a])
  /\ a \notin damaged
  /\ damaged' = damaged \cup {a}
  /\ UNCHANGED <<draft, attempt, owner, mode, todo>>

-------------------------------------------------------------------------------
(***************************************************************************)
(* Editing, under optimistic concurrency on the version.                   *)
(***************************************************************************)

Serving(p) == mode[p] = "serving"

CreateDraft(p, d, c) ==
  /\ Serving(p)
  /\ draft[d].state = "absent"
  /\ draft' = [draft EXCEPT ![d] = [state |-> "editable", version |-> 1,
                                    content |-> c, active |-> None]]
  /\ UNCHANGED <<attempt, damaged, owner, mode, todo>>

\* Mutant of Editable: checks the version only.
VersionMatches(d, expected) == draft[d].version = expected

\* _assert_expected and the state check that save, discard and lock share.
Editable(d, expected) == /\ draft[d].state = "editable"
                         /\ draft[d].version = expected

SaveDraft(p, d, expected, c) ==
  /\ Serving(p)
  /\ Editable(d, expected)
  /\ expected < MaxVersion
  /\ draft' = [draft EXCEPT ![d].version = @ + 1, ![d].content = c]
  /\ UNCHANGED <<attempt, damaged, owner, mode, todo>>

DiscardDraft(p, d, expected) ==
  /\ Serving(p)
  /\ Editable(d, expected)
  /\ DeleteDrafts({d}, draft, attempt)
  /\ UNCHANGED <<owner, mode, todo>>

-------------------------------------------------------------------------------
(***************************************************************************)
(* Submitting.  Only the owner of an attempt may move it.                  *)
(***************************************************************************)

\* The rowid SQLite gives an insert: one above the highest in the table.
NextRow(row) == /\ \A b \in Attempt : attempt[b].row < row
                /\ row = 1 \/ \E b \in Attempt : attempt[b].row = row - 1

LockSubmission(p, d, expected, a) ==
  /\ Serving(p)
  /\ Editable(d, expected)
  /\ expected < MaxVersion
  /\ attempt[a].state = "absent"
  /\ owner[a] = None
  /\ owner' = [owner EXCEPT ![a] = p]
  /\ \E row \in 1 .. Cardinality(Attempt) :
       /\ NextRow(row)
       /\ attempt' = [attempt EXCEPT
            ![a] = [NoAttempt EXCEPT !.state = "submitting", !.draft = d,
                                     !.row = row, !.frozen = expected,
                                     !.snapshot = draft[d].content]]
  /\ draft' = [draft EXCEPT ![d].state = "submitting", ![d].version = @ + 1,
                            ![d].active = a]
  /\ UNCHANGED <<damaged, mode, todo>>

\* Mutant of OwnedActive: any process may move an attempt in progress.
ActiveForAnyone(p, a) == /\ Serving(p)
                         /\ a \notin damaged
                         /\ attempt[a].state \in Active

\* _require_owned, and a readable attempt in progress.
OwnedActive(p, a) == /\ Serving(p)
                     /\ owner[a] = p
                     /\ a \notin damaged
                     /\ attempt[a].state \in Active

\* The plan is bound once, before anything is sent.
RecordPlan(p, a, plan) ==
  /\ OwnedActive(p, a)
  /\ \/ attempt[a].plan = plan
     \/ /\ attempt[a].plan = None
        /\ attempt[a].pending = None
        /\ attempt[a].receipts = {}
  /\ attempt' = [attempt EXCEPT ![a].plan = plan]
  /\ UNCHANGED <<draft, damaged, owner, mode, todo>>

\* The write-ahead journal of remote writes: one entry at most.
BeginDispatch(p, a, s, op) ==
  /\ OwnedActive(p, a)
  /\ s \notin attempt[a].receipts
  /\ \/ attempt[a].pending = None
     \/ attempt[a].pending = s /\ attempt[a].op = op
  /\ attempt' = [attempt EXCEPT ![a].pending = s, ![a].op = op]
  /\ UNCHANGED <<draft, damaged, owner, mode, todo>>

\* The forge has definitely refused the write.
RejectDispatch(p, a, s, op) ==
  /\ Serving(p)
  /\ owner[a] = p
  /\ a \notin damaged
  /\ attempt[a].pending = s /\ attempt[a].op = op
  /\ attempt' = [attempt EXCEPT ![a].pending = None, ![a].op = None]
  /\ UNCHANGED <<draft, damaged, owner, mode, todo>>

\* UPDATE drafts ... WHERE id = <attempt's draft> AND active_attempt_id = a
SetDraft(a, state, active) ==
  draft' = [d \in Draft |-> IF d = attempt[a].draft /\ draft[d].active = a
                            THEN [draft[d] EXCEPT !.state = state, !.active = active]
                            ELSE draft[d]]

\* The forge has confirmed the write that is journaled.  (The service always
\* passes the operation id; a second receipt for a step changes nothing.)
RecordReceipt(p, a, s, op) ==
  /\ OwnedActive(p, a)
  /\ s \notin attempt[a].receipts
  /\ attempt[a].pending = s /\ attempt[a].op = op
  /\ attempt' = [attempt EXCEPT ![a].receipts = @ \cup {s}, ![a].pending = None,
                                ![a].op = None, ![a].state = "partial"]
  /\ SetDraft(a, "partial", a)
  /\ UNCHANGED <<damaged, owner, mode, todo>>

AuthorizeRetry(p, a, s) ==
  /\ OwnedActive(p, a)
  /\ attempt[a].pending = None
  /\ s \notin attempt[a].receipts
  /\ attempt[a].retry < MaxRetry
  /\ attempt' = [attempt EXCEPT ![a].retry = @ + 1]
  /\ UNCHANGED <<draft, damaged, owner, mode, todo>>

Release(a) == owner' = [owner EXCEPT ![a] = None]

\* Mutant of CancelSubmission: gives the draft back under the same version.
CancelKeepsVersion(p, a) ==
  /\ OwnedActive(p, a)
  /\ attempt[a].state = "submitting"
  /\ attempt[a].receipts = {} /\ attempt[a].pending = None
  /\ draft' = [draft EXCEPT ![attempt[a].draft].state = "editable",
                            ![attempt[a].draft].active = None]
  /\ attempt' = [attempt EXCEPT ![a] = Deleted(NoAttempt)]
  /\ Release(a)
  /\ UNCHANGED <<damaged, mode, todo>>

\* Only an attempt that has left no remote trace is undone.
CancelSubmission(p, a) ==
  /\ OwnedActive(p, a)
  /\ attempt[a].state = "submitting"
  /\ attempt[a].receipts = {} /\ attempt[a].pending = None
  /\ LET d == attempt[a].draft
     IN /\ draft[d].active = a /\ draft[d].state = "submitting"
        /\ draft[d].version < MaxVersion
        /\ draft' = [draft EXCEPT ![d].state = "editable", ![d].active = None,
                                  ![d].version = @ + 1]
  /\ attempt' = [attempt EXCEPT ![a] = Deleted(NoAttempt)]
  /\ Release(a)
  /\ UNCHANGED <<damaged, mode, todo>>

\* _transition_owned to SUBMITTED, the release, and a pruning transaction.
CompleteSubmission(p, a) ==
  /\ OwnedActive(p, a)
  /\ LET d  == attempt[a].draft
         at == [attempt EXCEPT
                 ![a].state = "submitted",
                 ![a].unknowns = @ \cup ({attempt[a].pending} \ {None}),
                 ![a].pending = None, ![a].op = None]
         dr == [draft EXCEPT ![d] =
                 IF draft[d].active = a
                 THEN [draft[d] EXCEPT !.state = "submitted", !.active = None]
                 ELSE draft[d]]
     IN PruneSubmitted(dr, at, {d})
  /\ Release(a)
  /\ UNCHANGED <<mode, todo>>

\* An ambiguous outcome: of step s, of the journaled step, or of neither.
MarkAttemptUnknown(p, a, s) ==
  /\ OwnedActive(p, a)
  /\ s = None \/ attempt[a].pending \in {None, s}
  /\ attempt' = [attempt EXCEPT
       ![a].state = "unknown",
       ![a].unknowns = @ \cup ({s, attempt[a].pending} \ {None}),
       ![a].pending = None, ![a].op = None]
  /\ SetDraft(a, "unknown", a)
  /\ Release(a)
  /\ UNCHANGED <<damaged, mode, todo>>

\* Mutant of MarkUnknownFails: ownership goes only with a write that succeeds.
MarkUnknownFailsOwned(p, a) ==
  /\ Serving(p)
  /\ owner[a] = p
  /\ UNCHANGED storeVars

\* The write of mark_attempt_unknown fails, or is refused; ownership still goes.
MarkUnknownFails(p, a) ==
  /\ Serving(p)
  /\ owner[a] = p
  /\ Release(a)
  /\ UNCHANGED <<draft, attempt, damaged, mode, todo>>

-------------------------------------------------------------------------------
(***************************************************************************)
(* Decisions of the user about an attempt whose outcome is unknown.  They  *)
(* need the lock, which only a retry keeps.                                *)
(***************************************************************************)

Undecided(p, a) ==
  /\ Serving(p)
  /\ owner[a] = None
  /\ a \notin damaged
  /\ attempt[a].state = "unknown"
  /\ draft[attempt[a].draft].state = "unknown"
  /\ draft[attempt[a].draft].active = a
  /\ attempt[a].recons < MaxRecons

\* Mutant of Reconciled: starts the attempt from scratch.
ReconciledFresh(a, state) ==
  [attempt EXCEPT ![a].state = state, ![a].recons = @ + 1, ![a].receipts = {}]

Reconciled(a, state) == [attempt EXCEPT ![a].state = state, ![a].recons = @ + 1]

ReconcileRetry(p, a) ==
  /\ Undecided(p, a)
  /\ LET d     == attempt[a].draft
         state == IF attempt[a].receipts = {} THEN "submitting" ELSE "partial"
     IN /\ attempt' = Reconciled(a, state)
        /\ draft' = [draft EXCEPT ![d].state = state,
                                  ![d].content = attempt[a].snapshot]
  /\ owner' = [owner EXCEPT ![a] = p]
  /\ UNCHANGED <<damaged, mode, todo>>

ReconcileSubmitted(p, a) ==
  /\ Undecided(p, a)
  /\ LET d == attempt[a].draft
     IN PruneSubmitted([draft EXCEPT ![d].state = "submitted", ![d].active = None,
                                     ![d].content = attempt[a].snapshot],
                       Reconciled(a, "submitted"), {d})
  /\ UNCHANGED <<owner, mode, todo>>

\* The row written for the content the caller asks to return to editing: a
\* verdict it leaves out is taken from the snapshot.
EditableRow(a, c) ==
  [items |-> c.items,
   verdict |-> IF c.verdict # None THEN c.verdict ELSE attempt[a].snapshot.verdict]

ReconcileEditable(p, a, c) ==
  /\ Undecided(p, a)
  /\ LET d == attempt[a].draft
     IN /\ draft[d].version < MaxVersion
        /\ draft' = [draft EXCEPT ![d].state = "editable", ![d].active = None,
                                  ![d].version = @ + 1,
                                  ![d].content = EditableRow(a, c)]
  /\ attempt' = Reconciled(a, "unknown")
  /\ UNCHANGED <<damaged, owner, mode, todo>>

-------------------------------------------------------------------------------
Lifecycle(p) ==
  \/ Open(p) \/ ListIncomplete(p) \/ Serve(p) \/ Stop(p)
  \/ \E a \in Attempt : \/ RecoverSkip(p, a) \/ RecoverUnknown(p, a)
                        \/ RecoverUnreadable(p, a) \/ RecoverFails(p, a)

Edit(p, d) ==
  \/ \E c \in Content : CreateDraft(p, d, c)
  \/ \E v \in 0 .. MaxVersion :
       \/ DiscardDraft(p, d, v)
       \/ \E c \in Content : SaveDraft(p, d, v, c)
       \/ \E a \in Attempt : LockSubmission(p, d, v, a)

Submit(p, a) ==
  \/ \E plan \in Plan : RecordPlan(p, a, plan)
  \/ \E s \in Step :
       \/ AuthorizeRetry(p, a, s)
       \/ \E op \in Operation : \/ BeginDispatch(p, a, s, op)
                                \/ RejectDispatch(p, a, s, op)
                                \/ RecordReceipt(p, a, s, op)
  \/ CancelSubmission(p, a) \/ CompleteSubmission(p, a)
  \/ \E s \in Step \cup {None} : MarkAttemptUnknown(p, a, s)
  \/ MarkUnknownFails(p, a)

Decide(p, a) ==
  \/ ReconcileRetry(p, a) \/ ReconcileSubmitted(p, a)
  \/ \E c \in Content : ReconcileEditable(p, a, c)

Next ==
  \/ \E p \in Process : \/ Lifecycle(p)
                        \/ \E d \in Draft : Edit(p, d)
                        \/ \E a \in Attempt : Submit(p, a) \/ Decide(p, a)
  \/ \E a \in Attempt : Damage(a)

Spec == Init /\ [][Next]_storeVars

-------------------------------------------------------------------------------
States == Locking \cup {"absent", "deleted", "editable", "submitted"}

DraftRow == [state : States, version : 0 .. MaxVersion, content : Content,
             active : Attempt \cup {None}]

AttemptRow == [state : States \ {"editable"}, draft : Draft \cup {None}, row : Nat,
               frozen : 0 .. MaxVersion, snapshot : Content, plan : Plan \cup {None},
               pending : Step \cup {None}, op : Operation \cup {None},
               receipts : SUBSET Step, retry : 0 .. MaxRetry,
               unknowns : SUBSET Step, recons : 0 .. MaxRecons]

\* The rows of both tables and the memory of every process are well formed.
TypeOK ==
  /\ draft \in [Draft -> DraftRow]
  /\ attempt \in [Attempt -> AttemptRow]
  /\ damaged \subseteq Attempt
  /\ owner \in [Attempt -> Process \cup {None}]
  /\ mode \in [Process -> {"closed", "opened", "recovering", "serving"}]
  /\ todo \in [Process -> SUBSET Attempt]

\* The two tables agree: a draft is locked exactly while it points at an
\* attempt of its own in the same state; every attempt has its draft, and one
\* in progress is never left without the draft that points at it.
Agreement ==
  /\ \A d \in Draft : /\ draft[d].state \in Locking <=> draft[d].active # None
                      /\ draft[d].active # None =>
                           /\ attempt[draft[d].active].draft = d
                           /\ attempt[draft[d].active].state = draft[d].state
  /\ \A a \in Attempt :
       Exists(attempt[a]) => /\ attempt[a].draft \in Draft
                             /\ Exists(draft[attempt[a].draft])
                             /\ \/ attempt[a].state \notin Active
                                \/ draft[attempt[a].draft].active = a

\* What is being submitted is what the user sees: while a draft is locked its
\* content and version are those frozen in the attempt.
FrozenContent ==
  \A d \in Draft : draft[d].state \in Locking =>
    /\ draft[d].content = attempt[draft[d].active].snapshot
    /\ draft[d].version = attempt[draft[d].active].frozen + 1

\* Ownership never outlives the attempt: whoever owns one is serving, and the
\* attempt is in progress, so recovery passes over nothing else.
OwnedIsActive ==
  \A a \in Attempt : owner[a] # None => /\ mode[owner[a]] = "serving"
                                        /\ attempt[a].state \in Active

\* Optimistic concurrency is enough: what an editor loaded with a version stays
\* the content of the draft until the version moves on, whichever process,
\* submission, reconciliation or recovery gets in between.
VersionGuardsContent ==
  [][ \A d \in Draft :
        Exists(draft[d]) /\ Exists(draft'[d]) =>
          /\ draft'[d].version >= draft[d].version
          /\ \/ draft'[d].version > draft[d].version
             \/ /\ draft'[d].content = draft[d].content
                /\ (draft'[d].state = "editable") = (draft[d].state = "editable") ]_storeVars

\* When cancel_submission may take an attempt away from a draft that stays: somebody
\* owns it, it has no receipt and no journal entry, and if it has an unknown marker,
\* the user has decided about that, for a retry.
Undoable(a) == /\ owner[a] # None
               /\ attempt[a].state = "submitting"
               /\ attempt[a].receipts = {} /\ attempt[a].pending = None
               /\ attempt[a].unknowns # {} => attempt[a].recons > 0

\* The evidence of a remote write is never lost while the draft exists.  As long as
\* the row of an attempt is there, receipts and unknown markers stay, what was
\* submitted stays submitted, and a journal entry that the attempt leaves progress
\* with stays or becomes a marker.  The row goes with its draft, or alone, but only
\* while it is Undoable: never with a receipt, nor with a marker nobody decided about.
EvidenceKept ==
  [][ \A a \in Attempt :
        Exists(attempt[a]) =>
          \/ /\ Exists(attempt'[a])
             /\ attempt[a].receipts \subseteq attempt'[a].receipts
             /\ attempt[a].unknowns \subseteq attempt'[a].unknowns
             /\ attempt[a].state = "submitted" => attempt'[a].state = "submitted"
             /\ \/ attempt'[a].state \in Active
                \/ attempt[a].pending \in {None, attempt'[a].pending} \cup attempt'[a].unknowns
          \/ draft'[attempt[a].draft].state = "deleted"
          \/ attempt'[a].state = "deleted" /\ Undoable(a) ]_storeVars

\* What cancel_submission says of itself ("only a never-dispatched submission attempt
\* can be cancelled"): an attempt taken away from a draft that stays has no receipt, no
\* journal entry and no unknown marker.  The store does not see to it by itself: an
\* attempt with a marker is cancelled after a decision to retry.  Its caller does.
CancelsNeverDispatched ==
  [][ \A a \in Attempt :
        /\ Exists(attempt[a]) /\ attempt'[a].state = "deleted"
        /\ Exists(draft'[attempt[a].draft])
        => /\ attempt[a].receipts = {} /\ attempt[a].pending = None
           /\ attempt[a].unknowns = {} ]_storeVars
===============================================================================
