--------------------------- MODULE DraftStoreProofs ---------------------------
(***************************************************************************)
(* The tables of the draft store stay consistent for any number of         *)
(* processes, drafts and attempts, whatever operations are called in       *)
(* whatever order, and wherever a process dies.                            *)
(***************************************************************************)
EXTENDS DraftStore, TLAPS

\* Agreement speaks of drafts and attempts at once; ownership is needed because
\* recovery takes over exactly the attempts that nobody owns.
StoreInv == TypeOK /\ Agreement /\ FrozenContent /\ OwnedIsActive

USE StoreAssumption DEF Active, Locking

-------------------------------------------------------------------------------
\* The constant rows are rows.
LEMMA RowTypes ==
  /\ NoDraft \in DraftRow /\ Deleted(NoDraft) \in DraftRow
  /\ NoAttempt \in AttemptRow /\ Deleted(NoAttempt) \in AttemptRow
  /\ Empty \in Content
BY DEF NoDraft, NoAttempt, Deleted, DraftRow, AttemptRow, States, Content, Empty

\* An empty database, with every process closed, satisfies the invariant.
LEMMA InitStoreInv == Init => StoreInv
BY RowTypes DEF Init, StoreInv, TypeOK, Agreement, FrozenContent, OwnedIsActive,
                NoDraft, NoAttempt, Exists

\* Deleting drafts, alone or after other changes to the rows, keeps the types.
LEMMA DeleteType ==
  ASSUME NEW gone, NEW dr \in [Draft -> DraftRow],
         NEW at \in [Attempt -> AttemptRow],
         damaged \subseteq Attempt, DeleteDrafts(gone, dr, at)
  PROVE  /\ draft' \in [Draft -> DraftRow]
         /\ attempt' \in [Attempt -> AttemptRow]
         /\ damaged' \subseteq Attempt
BY RowTypes DEF DeleteDrafts

\* Deleting drafts with what hangs off them keeps both tables typed.
LEMMA PruneType ==
  ASSUME NEW fresh, NEW dr \in [Draft -> DraftRow],
         NEW at \in [Attempt -> AttemptRow],
         damaged \subseteq Attempt, PruneSubmitted(dr, at, fresh)
  PROVE  /\ draft' \in [Draft -> DraftRow]
         /\ attempt' \in [Attempt -> AttemptRow]
         /\ damaged' \subseteq Attempt
BY DeleteType DEF PruneSubmitted

\* Typing: opening, the recovery pass, stopping.
LEMMA LifecycleType ==
  ASSUME TypeOK, NEW p \in Process, Lifecycle(p) PROVE TypeOK'
<1> USE DEF TypeOK
<1>1. CASE Open(p)
  BY <1>1, PruneType DEF Open
<1>2. CASE ListIncomplete(p)
  BY <1>2 DEF ListIncomplete
<1>3. CASE Serve(p)
  BY <1>3 DEF Serve
<1>4. CASE Stop(p)
  BY <1>4 DEF Stop
<1>5. ASSUME NEW a \in Attempt, RecoverSkip(p, a) \/ RecoverFails(p, a) PROVE TypeOK'
  BY <1>5 DEF RecoverSkip, RecoverFails, Visit
<1>6. ASSUME NEW a \in Attempt, RecoverUnknown(p, a) PROVE TypeOK'
  <2>1. attempt' \in [Attempt -> AttemptRow]
    <3>1. attempt[a] \in AttemptRow /\ {attempt[a].pending} \ {None} \subseteq Step
      BY <1>6 DEF AttemptRow
    <3>2. [attempt[a] EXCEPT !.state = "unknown",
                             !.unknowns = @ \cup ({attempt[a].pending} \ {None}),
                             !.pending = None, !.op = None] \in AttemptRow
      BY <3>1 DEF AttemptRow, States
    <3> QED BY <1>6, <3>2 DEF RecoverUnknown
  <2>2. draft' \in [Draft -> DraftRow]
    BY <1>6 DEF RecoverUnknown, DraftRow, States
  <2> QED BY <1>6, <2>1, <2>2 DEF RecoverUnknown, Visit
<1>7. ASSUME NEW a \in Attempt, RecoverUnreadable(p, a) PROVE TypeOK'
  <2>1. attempt' \in [Attempt -> AttemptRow]
    <3>1. [attempt[a] EXCEPT !.state = "unknown"] \in AttemptRow
      BY <1>7 DEF AttemptRow, States
    <3> QED BY <1>7, <3>1 DEF RecoverUnreadable
  <2>2. ASSUME NEW d \in Draft, draft[d].active = a, draft[d].state \in Active
        PROVE  [draft[d] EXCEPT !.state = "editable", !.active = None,
                                !.version = @ + 1] \in DraftRow
    <3>1. draft[d] \in DraftRow /\ draft[d].version < MaxVersion
      BY <1>7, <2>2 DEF RecoverUnreadable
    <3>2. draft[d].version + 1 \in 0 .. MaxVersion
      BY <3>1 DEF DraftRow
    <3> QED BY <3>1, <3>2 DEF DraftRow, States
  <2>3. draft' \in [Draft -> DraftRow]
    BY <1>7, <2>2 DEF RecoverUnreadable
  <2>4. todo' \in [Process -> SUBSET Attempt]
    BY <1>7 DEF RecoverUnreadable, Visit
  <2> QED BY <1>7, <2>1, <2>3, <2>4 DEF RecoverUnreadable
<1> QED
  BY <1>1, <1>2, <1>3, <1>4, <1>5, <1>6, <1>7 DEF Lifecycle

\* Typing: creating, saving, discarding, locking.
LEMMA EditType ==
  ASSUME TypeOK, NEW p \in Process, NEW d \in Draft, Edit(p, d) PROVE TypeOK'
<1> USE DEF TypeOK
<1>1. ASSUME NEW c \in Content, CreateDraft(p, d, c) PROVE TypeOK'
  <2>2. [state |-> "editable", version |-> 1, content |-> c, active |-> None] \in DraftRow
    BY <1>1 DEF CreateDraft, DraftRow, States
  <2> QED BY <1>1, <2>2 DEF CreateDraft
<1>2. ASSUME NEW v \in 0 .. MaxVersion, DiscardDraft(p, d, v) PROVE TypeOK'
  BY <1>2, DeleteType DEF DiscardDraft
<1>3. ASSUME NEW v \in 0 .. MaxVersion, NEW c \in Content, SaveDraft(p, d, v, c)
      PROVE  TypeOK'
  <2>1. draft[d].version + 1 \in 0 .. MaxVersion
    BY <1>3 DEF SaveDraft, Editable
  <2>2. [draft[d] EXCEPT !.version = @ + 1, !.content = c] \in DraftRow
    <3>1. draft[d] \in DraftRow /\ c \in Content
      BY <1>3
    <3> QED BY <2>1, <3>1 DEF DraftRow
  <2>3. draft' \in [Draft -> DraftRow]
    BY <1>3, <2>2 DEF SaveDraft
  <2> QED BY <1>3, <2>3 DEF SaveDraft
<1>4. ASSUME NEW v \in 0 .. MaxVersion, NEW a \in Attempt, LockSubmission(p, d, v, a)
      PROVE  TypeOK'
  <2>1. draft[d].version + 1 \in 0 .. MaxVersion
    BY <1>4 DEF LockSubmission, Editable
  <2>2. draft' \in [Draft -> DraftRow]
    BY <1>4, <2>1 DEF LockSubmission, DraftRow, States
  <2>3. PICK row \in 1 .. Cardinality(Attempt) :
          attempt' = [attempt EXCEPT
            ![a] = [NoAttempt EXCEPT !.state = "submitting", !.draft = d,
                                     !.row = row, !.frozen = v,
                                     !.snapshot = draft[d].content]]
    BY <1>4 DEF LockSubmission
  <2>4. draft[d].content \in Content /\ v \in 0 .. MaxVersion /\ row \in Nat
    BY DEF DraftRow
  <2>5. [NoAttempt EXCEPT !.state = "submitting", !.draft = d, !.row = row, !.frozen = v,
                          !.snapshot = draft[d].content] \in AttemptRow
    <3>1. NoAttempt \in AttemptRow /\ "submitting" \in States \ {"editable"}
      BY RowTypes DEF States
    <3> QED BY <2>4, <3>1 DEF AttemptRow
  <2>6. attempt' \in [Attempt -> AttemptRow]
    BY <2>3, <2>5
  <2> QED BY <1>4, <2>2, <2>6 DEF LockSubmission
<1> QED BY <1>1, <1>2, <1>3, <1>4 DEF Edit

\* SetDraft writes a state of the drafts and an attempt, or nothing.
LEMMA SetDraftType ==
  ASSUME TypeOK, NEW a \in Attempt, NEW state \in States,
         NEW active \in Attempt \cup {None}, SetDraft(a, state, active)
  PROVE  draft' \in [Draft -> DraftRow]
<1>1. ASSUME NEW d \in Draft
      PROVE  [draft[d] EXCEPT !.state = state, !.active = active] \in DraftRow
  <2>1. draft[d] \in DraftRow
    BY DEF TypeOK
  <2> QED BY <2>1 DEF DraftRow
<1> QED BY <1>1 DEF SetDraft, TypeOK

\* Typing: the operations of an owner on its attempt.
LEMMA SubmitType ==
  ASSUME TypeOK, NEW p \in Process, NEW a \in Attempt, Submit(p, a) PROVE TypeOK'
<1> DEFINE row == attempt[a]
<1>0. /\ row \in AttemptRow
      /\ row.unknowns \cup ({row.pending} \ {None}) \in SUBSET Step
      /\ draft \in [Draft -> DraftRow] /\ attempt \in [Attempt -> AttemptRow]
      /\ damaged \subseteq Attempt /\ owner \in [Attempt -> Process \cup {None}]
  BY DEF TypeOK, AttemptRow
<1>1. ASSUME NEW plan \in Plan, RecordPlan(p, a, plan) PROVE TypeOK'
  <2>1. [row EXCEPT !.plan = plan] \in AttemptRow
    BY <1>0 DEF AttemptRow
  <2> QED BY <1>1, <2>1 DEF RecordPlan, TypeOK
<1>2. ASSUME NEW s \in Step, AuthorizeRetry(p, a, s) PROVE TypeOK'
  <2>1. row.retry + 1 \in 0 .. MaxRetry
    BY <1>0, <1>2 DEF AuthorizeRetry, AttemptRow
  <2>2. [row EXCEPT !.retry = @ + 1] \in AttemptRow
    BY <1>0, <2>1 DEF AttemptRow
  <2> QED BY <1>2, <2>2 DEF AuthorizeRetry, TypeOK
<1>3. ASSUME NEW s \in Step, NEW op \in Operation, BeginDispatch(p, a, s, op)
      PROVE  TypeOK'
  <2>1. [row EXCEPT !.pending = s, !.op = op] \in AttemptRow
    BY <1>0 DEF AttemptRow
  <2> QED BY <1>3, <2>1 DEF BeginDispatch, TypeOK
<1>4. ASSUME NEW s \in Step, NEW op \in Operation, RejectDispatch(p, a, s, op)
      PROVE  TypeOK'
  <2>1. [row EXCEPT !.pending = None, !.op = None] \in AttemptRow
    BY <1>0 DEF AttemptRow
  <2> QED BY <1>4, <2>1 DEF RejectDispatch, TypeOK
<1>5. ASSUME NEW s \in Step, NEW op \in Operation, RecordReceipt(p, a, s, op)
      PROVE  TypeOK'
  <2>1. [row EXCEPT !.receipts = @ \cup {s}, !.pending = None, !.op = None,
                    !.state = "partial"] \in AttemptRow
    <3>1. row.receipts \cup {s} \in SUBSET Step
      BY <1>0 DEF AttemptRow
    <3> QED BY <1>0, <3>1 DEF AttemptRow, States
  <2>2. draft' \in [Draft -> DraftRow]
    BY <1>5, SetDraftType DEF RecordReceipt, States
  <2> QED BY <1>5, <2>1, <2>2 DEF RecordReceipt, TypeOK
<1>6. ASSUME CancelSubmission(p, a) PROVE TypeOK'
  <2>1. attempt' \in [Attempt -> AttemptRow]
    BY <1>0, <1>6, RowTypes DEF CancelSubmission
  <2> DEFINE d == row.draft
  <2>2. CASE d \in Draft
    <3>1. draft[d] \in DraftRow /\ draft[d].version < MaxVersion
      BY <1>0, <1>6, <2>2 DEF CancelSubmission
    <3>2. draft[d].version + 1 \in 0 .. MaxVersion
      BY <3>1 DEF DraftRow
    <3>3. [draft[d] EXCEPT !.state = "editable", !.active = None,
                           !.version = @ + 1] \in DraftRow
      BY <3>1, <3>2 DEF DraftRow, States
    <3>4. draft' \in [Draft -> DraftRow]
      BY <1>0, <1>6, <3>3 DEF CancelSubmission
    <3> QED BY <1>6, <2>1, <3>4 DEF CancelSubmission, Release, TypeOK
  <2>3. CASE d \notin Draft
    <3>1. draft' = draft
      BY <1>0, <1>6, <2>3 DEF CancelSubmission
    <3> QED BY <1>6, <2>1, <3>1 DEF CancelSubmission, Release, TypeOK
  <2> QED BY <2>2, <2>3
<1>7. ASSUME CompleteSubmission(p, a) PROVE TypeOK'
  <2> DEFINE d  == row.draft
             at == [attempt EXCEPT
                     ![a].state = "submitted",
                     ![a].unknowns = @ \cup ({attempt[a].pending} \ {None}),
                     ![a].pending = None, ![a].op = None]
             dr == [draft EXCEPT ![d] =
                     IF draft[d].active = a
                     THEN [draft[d] EXCEPT !.state = "submitted", !.active = None]
                     ELSE draft[d]]
  <2>1. at \in [Attempt -> AttemptRow]
    <3>1. [row EXCEPT !.state = "submitted",
                      !.unknowns = @ \cup ({attempt[a].pending} \ {None}),
                      !.pending = None, !.op = None] \in AttemptRow
      BY <1>0 DEF AttemptRow, States
    <3> QED BY <1>0, <3>1
  <2>2. dr \in [Draft -> DraftRow]
    <3>1. ASSUME d \in Draft
          PROVE  [draft[d] EXCEPT !.state = "submitted", !.active = None] \in DraftRow
      <4>1. draft[d] \in DraftRow
        BY <1>0, <3>1
      <4> QED BY <4>1 DEF DraftRow, States
    <3> QED BY <1>0, <3>1
  <2>3. PruneSubmitted(dr, at, {d})
    BY <1>7 DEF CompleteSubmission
  <2> HIDE DEF dr, at
  <2>4. /\ draft' \in [Draft -> DraftRow] /\ attempt' \in [Attempt -> AttemptRow]
        /\ damaged' \subseteq Attempt
    BY <1>0, <2>1, <2>2, <2>3, PruneType
  <2> QED BY <1>7, <2>4 DEF CompleteSubmission, Release, TypeOK
<1>8. ASSUME NEW s \in Step \cup {None}, MarkAttemptUnknown(p, a, s) PROVE TypeOK'
  <2>1. [row EXCEPT !.state = "unknown",
                    !.unknowns = @ \cup ({s, attempt[a].pending} \ {None}),
                    !.pending = None, !.op = None] \in AttemptRow
    <3>1. row.unknowns \cup ({s, attempt[a].pending} \ {None}) \in SUBSET Step
      BY <1>0 DEF AttemptRow
    <3> QED BY <1>0, <3>1 DEF AttemptRow, States
  <2>2. draft' \in [Draft -> DraftRow]
    BY <1>8, SetDraftType DEF MarkAttemptUnknown, States
  <2> QED BY <1>8, <2>1, <2>2 DEF MarkAttemptUnknown, Release, TypeOK
<1>9. ASSUME MarkUnknownFails(p, a) PROVE TypeOK'
  BY <1>9 DEF MarkUnknownFails, Release, TypeOK
<1> HIDE DEF row
<1> QED
  BY <1>1, <1>2, <1>3, <1>4, <1>5, <1>6, <1>7, <1>8, <1>9 DEF Submit

\* Typing: the reconciliations of an unknown attempt.
LEMMA DecideType ==
  ASSUME TypeOK, NEW p \in Process, NEW a \in Attempt, Decide(p, a) PROVE TypeOK'
<1> DEFINE d == attempt[a].draft
<1>0. /\ attempt[a] \in AttemptRow /\ attempt[a].snapshot \in Content
      /\ draft \in [Draft -> DraftRow] /\ attempt \in [Attempt -> AttemptRow]
      /\ damaged \subseteq Attempt /\ owner \in [Attempt -> Process \cup {None}]
  BY DEF TypeOK, AttemptRow
<1>1. ASSUME Undecided(p, a), NEW state \in States \ {"editable"}
      PROVE  Reconciled(a, state) \in [Attempt -> AttemptRow]
  <2>1. attempt[a].recons + 1 \in 0 .. MaxRecons
    BY <1>0, <1>1 DEF Undecided, AttemptRow
  <2>2. [attempt[a] EXCEPT !.state = state, !.recons = @ + 1] \in AttemptRow
    BY <1>0, <2>1 DEF AttemptRow
  <2> QED BY <1>0, <2>2 DEF Reconciled
<1>2. ASSUME NEW state \in States, NEW active \in Attempt \cup {None}, d \in Draft
      PROVE  [draft[d] EXCEPT !.state = state, !.active = active,
                              !.content = attempt[a].snapshot] \in DraftRow
  <2>1. draft[d] \in DraftRow
    BY <1>0, <1>2
  <2> QED BY <1>0, <2>1 DEF DraftRow
<1>3. CASE ReconcileRetry(p, a)
  <2> DEFINE state == IF attempt[a].receipts = {} THEN "submitting" ELSE "partial"
  <2>1. state \in States \ {"editable"}
    BY DEF States
  <2>2. Undecided(p, a) /\ attempt' = Reconciled(a, state)
    BY <1>3 DEF ReconcileRetry
  <2>3. attempt' \in [Attempt -> AttemptRow]
    BY <1>1, <2>1, <2>2
  <2>4. draft' = [draft EXCEPT ![d].state = state, ![d].content = attempt[a].snapshot]
    BY <1>3 DEF ReconcileRetry
  <2> HIDE DEF state
  <2>5. ASSUME d \in Draft
        PROVE  [draft[d] EXCEPT !.state = state, !.content = attempt[a].snapshot] \in DraftRow
    <3>1. draft[d] \in DraftRow
      BY <1>0, <2>5
    <3> QED BY <1>0, <2>1, <3>1 DEF DraftRow
  <2>6. draft' \in [Draft -> DraftRow]
    BY <1>0, <2>4, <2>5
  <2> QED BY <1>3, <2>3, <2>6 DEF ReconcileRetry, TypeOK
<1>4. CASE ReconcileSubmitted(p, a)
  <2> DEFINE dr == [draft EXCEPT ![d].state = "submitted", ![d].active = None,
                                 ![d].content = attempt[a].snapshot]
  <2>1. Undecided(p, a) /\ PruneSubmitted(dr, Reconciled(a, "submitted"), {d})
    BY <1>4 DEF ReconcileSubmitted
  <2>2. Reconciled(a, "submitted") \in [Attempt -> AttemptRow]
    BY <1>1, <2>1 DEF States
  <2>3. dr \in [Draft -> DraftRow]
    BY <1>0, <1>2 DEF States
  <2> HIDE DEF dr
  <2>4. /\ draft' \in [Draft -> DraftRow] /\ attempt' \in [Attempt -> AttemptRow]
        /\ damaged' \subseteq Attempt
    BY SMTT(60), <1>0, <2>1, <2>2, <2>3, PruneType
  <2> QED BY <1>4, <2>4 DEF ReconcileSubmitted, TypeOK
<1>5. ASSUME NEW c \in Content, ReconcileEditable(p, a, c) PROVE TypeOK'
  <2>1. EditableRow(a, c) \in Content
    BY <1>0 DEF EditableRow, Content
  <2>2. attempt' \in [Attempt -> AttemptRow]
    BY <1>1, <1>5 DEF ReconcileEditable, States
  <2>3. ASSUME d \in Draft
        PROVE  [draft[d] EXCEPT !.state = "editable", !.active = None, !.version = @ + 1,
                                !.content = EditableRow(a, c)] \in DraftRow
    <3>1. draft[d] \in DraftRow /\ draft[d].version < MaxVersion
      BY <1>0, <1>5, <2>3 DEF ReconcileEditable
    <3>2. draft[d].version + 1 \in 0 .. MaxVersion
      BY <3>1 DEF DraftRow
    <3> QED BY <2>1, <3>1, <3>2 DEF DraftRow, States
  <2>4. draft' \in [Draft -> DraftRow]
    BY <1>0, <1>5, <2>3 DEF ReconcileEditable
  <2> QED BY <1>5, <2>2, <2>4 DEF ReconcileEditable, TypeOK
<1> QED
  BY <1>3, <1>4, <1>5 DEF Decide

-------------------------------------------------------------------------------
(***************************************************************************)
(* The tables agree after every step.  Agreement and FrozenContent are     *)
(* restated of any pair of tables, because the pruning transactions delete *)
(* from tables that the same transaction has changed before.               *)
(***************************************************************************)

Consistent(dr, at) ==
  /\ \A d \in Draft :
       /\ dr[d].state \in Locking <=> dr[d].active # None
       /\ dr[d].active # None => /\ dr[d].active \in Attempt
                                 /\ at[dr[d].active].draft = d
                                 /\ at[dr[d].active].state = dr[d].state
                                 /\ at[dr[d].active].snapshot = dr[d].content
                                 /\ dr[d].version = at[dr[d].active].frozen + 1
  /\ \A a \in Attempt :
       Exists(at[a]) => /\ at[a].draft \in Draft
                        /\ Exists(dr[at[a].draft])
                        /\ at[a].state \in Active => dr[at[a].draft].active = a

\* The parts of the invariant that the tables alone decide.
LEMMA ConsistentInv ==
  ASSUME TypeOK PROVE Consistent(draft, attempt) <=> Agreement /\ FrozenContent
<1>1. \A d \in Draft : draft[d].active \in Attempt \cup {None}
  BY DEF TypeOK, DraftRow
<1> QED
  BY <1>1 DEF Consistent, Agreement, FrozenContent

\* Deleting drafts nobody is submitting leaves the tables consistent.
LEMMA DeleteConsistent ==
  ASSUME NEW gone \in SUBSET Draft, NEW dr \in [Draft -> DraftRow],
         NEW at \in [Attempt -> AttemptRow],
         Consistent(dr, at), DeleteDrafts(gone, dr, at),
         \A d \in gone : dr[d].active = None
  PROVE  Consistent(draft', attempt')
<1>1. \A d \in Draft : draft'[d] = IF d \in gone THEN Deleted(NoDraft) ELSE dr[d]
  BY DEF DeleteDrafts
<1>2. \A a \in Attempt : attempt'[a] = IF Exists(at[a]) /\ at[a].draft \in gone
                                       THEN Deleted(NoAttempt) ELSE at[a]
  BY DEF DeleteDrafts
<1>3. /\ Deleted(NoDraft).state = "deleted" /\ Deleted(NoDraft).active = None
      /\ Deleted(NoAttempt).state = "deleted"
  BY DEF Deleted, NoDraft, NoAttempt
<1> QED
  BY <1>1, <1>2, <1>3 DEF Consistent, Exists

\* Nearly every operation moves one attempt together with the draft that points
\* at it: into the same locked state, or out of it.
LEMMA MoveConsistent ==
  ASSUME NEW dr, NEW at, NEW dr2, NEW at2, NEW d \in Draft, NEW a \in Attempt,
         Consistent(dr, at),
         dr[d].active \in {a, None},
         ~Exists(at[a]) \/ at[a].draft = d,
         \A e \in Draft \ {d} : dr2[e] = dr[e],
         \A b \in Attempt \ {a} : at2[b] = at[b],
         Exists(dr2[d]),
         ~Exists(at2[a]) \/ at2[a].draft = d,
         \/ /\ dr2[d].active = a /\ dr2[d].state \in Locking
            /\ at2[a].state = dr2[d].state
            /\ at2[a].snapshot = dr2[d].content
            /\ dr2[d].version = at2[a].frozen + 1
         \/ /\ dr2[d].active = None /\ dr2[d].state \notin Locking
            /\ at2[a].state \notin Active
  PROVE  Consistent(dr2, at2)
<1>1. a # None
  OBVIOUS
<1>2. ASSUME NEW e \in Draft \ {d} PROVE dr[e].active # a
  BY <1>1 DEF Consistent, Exists
<1>3. ASSUME NEW b \in Attempt \ {a}, Exists(at[b])
      PROVE  ~(at[b].state \in Active /\ at[b].draft = d)
  BY <1>1, <1>3 DEF Consistent
<1>4. ASSUME NEW e \in Draft
      PROVE  /\ dr2[e].state \in Locking <=> dr2[e].active # None
             /\ dr2[e].active # None => /\ dr2[e].active \in Attempt
                                        /\ at2[dr2[e].active].draft = e
                                        /\ at2[dr2[e].active].state = dr2[e].state
                                        /\ at2[dr2[e].active].snapshot = dr2[e].content
                                        /\ dr2[e].version = at2[dr2[e].active].frozen + 1
  <2>1. CASE e = d
    BY <1>1, <2>1 DEF Exists
  <2>2. CASE e # d
    BY <1>2, <2>2 DEF Consistent
  <2> QED BY <2>1, <2>2
<1>5. ASSUME NEW b \in Attempt, Exists(at2[b])
      PROVE  /\ at2[b].draft \in Draft
             /\ Exists(dr2[at2[b].draft])
             /\ at2[b].state \in Active => dr2[at2[b].draft].active = b
  <2>1. CASE b = a
    BY <1>5, <2>1
  <2>2. CASE b # a
    <3>1. at2[b] = at[b] /\ Exists(at[b])
      BY <1>5, <2>2
    <3>2. /\ at[b].draft \in Draft /\ Exists(dr[at[b].draft])
          /\ at[b].state \in Active => dr[at[b].draft].active = b
      BY <3>1 DEF Consistent
    <3> QED BY <1>3, <2>2, <3>1, <3>2
  <2> QED BY <2>1, <2>2
<1> QED BY <1>4, <1>5 DEF Consistent

\* The attempt in progress and the draft that points at it.
LEMMA ActivePair ==
  ASSUME Consistent(draft, attempt), NEW a \in Attempt, attempt[a].state \in Active
  PROVE  /\ attempt[a].draft \in Draft
         /\ draft[attempt[a].draft].active = a
         /\ draft[attempt[a].draft].state = attempt[a].state
         /\ draft[attempt[a].draft].content = attempt[a].snapshot
         /\ draft[attempt[a].draft].version = attempt[a].frozen + 1
         /\ \A d \in Draft : draft[d].active = a => d = attempt[a].draft
<1>1. /\ attempt[a].draft \in Draft /\ draft[attempt[a].draft].active = a
      /\ a # None
  BY DEF Consistent, Exists
<1> QED BY <1>1 DEF Consistent

\* The invariant across opening, the recovery pass and stopping.
LEMMA LifecycleStep ==
  ASSUME StoreInv, NEW p \in Process, Lifecycle(p)
  PROVE  Consistent(draft', attempt') /\ OwnedIsActive'
<1>0. /\ TypeOK /\ Consistent(draft, attempt) /\ OwnedIsActive
  BY ConsistentInv DEF StoreInv
<1>t. /\ draft \in [Draft -> DraftRow] /\ attempt \in [Attempt -> AttemptRow]
      /\ owner \in [Attempt -> Process \cup {None}] /\ damaged \subseteq Attempt
      /\ mode \in [Process -> {"closed", "opened", "recovering", "serving"}]
  BY <1>0 DEF TypeOK
<1>1. CASE Open(p)
  <2>1. PICK gone \in SUBSET Draft : /\ gone \subseteq Prunable(draft, attempt)
                                    /\ DeleteDrafts(gone, draft, attempt)
    BY <1>1 DEF Open, PruneSubmitted, Prunable
  <2>2. \A d \in gone : /\ draft[d].active = None
                        /\ \A a \in AttemptsOf(d, attempt) : attempt[a].state \notin Active
    BY <2>1 DEF Prunable
  <2>3. Consistent(draft', attempt')
    BY <1>0, <1>t, <2>1, <2>2, DeleteConsistent
  <2>4. \A a \in Attempt : attempt[a].state \in Active => attempt'[a] = attempt[a]
    BY <1>t, <2>1, <2>2 DEF DeleteDrafts, AttemptsOf
  <2> QED BY <1>0, <1>1, <1>t, <2>3, <2>4 DEF Open, OwnedIsActive
<1>2. CASE ListIncomplete(p) \/ Serve(p)
  BY <1>0, <1>t, <1>2 DEF ListIncomplete, Serve, OwnedIsActive
<1>3. CASE Stop(p)
  BY <1>0, <1>t, <1>3 DEF Stop, OwnedIsActive
<1>4. ASSUME NEW a \in Attempt, RecoverSkip(p, a) \/ RecoverFails(p, a)
      PROVE  Consistent(draft', attempt') /\ OwnedIsActive'
  BY SMTT(60), <1>0, <1>t, <1>4 DEF RecoverSkip, RecoverFails, OwnedIsActive
<1>5. ASSUME NEW a \in Attempt, RecoverUnknown(p, a)
      PROVE  Consistent(draft', attempt') /\ OwnedIsActive'
  <2> DEFINE d == attempt[a].draft
  <2>1. owner[a] = None /\ attempt[a].state \in Active
    BY <1>5 DEF RecoverUnknown
  <2>2. /\ d \in Draft /\ draft[d].active = a
        /\ draft[d].content = attempt[a].snapshot
        /\ draft[d].version = attempt[a].frozen + 1
    BY <1>0, <2>1, ActivePair
  <2>3. /\ \A b \in Attempt \ {a} : attempt'[b] = attempt[b]
        /\ attempt'[a].state = "unknown" /\ attempt'[a].draft = d
        /\ attempt'[a].snapshot = attempt[a].snapshot
        /\ attempt'[a].frozen = attempt[a].frozen
    BY <1>t, <1>5 DEF RecoverUnknown, AttemptRow
  <2>4. /\ \A e \in Draft \ {d} : draft'[e] = draft[e]
        /\ draft'[d] = [draft[d] EXCEPT !.state = "unknown"]
    BY <1>t, <1>5, <2>2 DEF RecoverUnknown
  <2>5. /\ draft'[d].state = "unknown" /\ draft'[d].active = a
        /\ draft'[d].content = draft[d].content /\ draft'[d].version = draft[d].version
    BY <1>t, <2>2, <2>4 DEF DraftRow
  <2>6. /\ \A e \in Draft \ {d} : draft'[e] = draft[e]
        /\ draft[d].active \in {a, None} /\ Exists(draft'[d])
        /\ draft'[d].active = a /\ draft'[d].state \in Locking
        /\ attempt'[a].state = draft'[d].state
        /\ attempt'[a].snapshot = draft'[d].content
        /\ draft'[d].version = attempt'[a].frozen + 1
    BY <2>2, <2>3, <2>4, <2>5 DEF Exists
  <2> HIDE DEF d
  <2>7. Consistent(draft', attempt')
    <3>1. attempt[a].draft = d /\ attempt'[a].draft = d
      BY <2>3 DEF d
    <3> QED BY <1>0, <2>2, <2>3, <2>6, <3>1, MoveConsistent
  <2> QED BY <1>0, <1>t, <1>5, <2>7, <2>1, <2>3, <2>6 DEF RecoverUnknown, OwnedIsActive
<1>6. ASSUME NEW a \in Attempt, RecoverUnreadable(p, a)
      PROVE  Consistent(draft', attempt') /\ OwnedIsActive'
  <2> DEFINE d == attempt[a].draft
  <2>1. owner[a] = None /\ attempt[a].state \in Active
    BY <1>6 DEF RecoverUnreadable
  <2>2. /\ d \in Draft /\ draft[d].active = a /\ draft[d].state \in Active
        /\ \A e \in Draft : draft[e].active = a => e = d
    BY <1>0, <2>1, ActivePair
  <2>3. /\ \A b \in Attempt \ {a} : attempt'[b] = attempt[b]
        /\ attempt'[a].state = "unknown" /\ attempt'[a].draft = d
    <3>1. attempt' = [attempt EXCEPT ![a].state = "unknown"] /\ attempt[a] \in AttemptRow
      BY <1>t, <1>6 DEF RecoverUnreadable
    <3> QED BY <1>t, <3>1 DEF AttemptRow
  <2>4. \A e \in Draft : draft'[e] = IF draft[e].active = a /\ draft[e].state \in Active
                                    THEN [draft[e] EXCEPT !.state = "editable",
                                            !.active = None, !.version = @ + 1]
                                    ELSE draft[e]
    BY <1>6 DEF RecoverUnreadable
  <2>5. /\ \A e \in Draft \ {d} : draft'[e] = draft[e]
        /\ draft'[d].state = "editable" /\ draft'[d].active = None
    <3>1. draft[d] \in DraftRow
      BY <1>t, <2>2
    <3> QED BY <2>2, <2>4, <3>1 DEF DraftRow
  <2>6. Consistent(draft', attempt')
    BY <1>0, <2>1, <2>2, <2>3, <2>5, MoveConsistent DEF Exists
  <2> QED BY <1>0, <1>t, <1>6, <2>1, <2>3, <2>6 DEF RecoverUnreadable, OwnedIsActive
<1> QED
  BY <1>1, <1>2, <1>3, <1>4, <1>5, <1>6 DEF Lifecycle

\* The invariant across creating, saving, discarding and locking.
LEMMA EditStep ==
  ASSUME StoreInv, NEW p \in Process, NEW d \in Draft, Edit(p, d)
  PROVE  Consistent(draft', attempt') /\ OwnedIsActive'
<1>0. /\ TypeOK /\ Consistent(draft, attempt) /\ OwnedIsActive
  BY ConsistentInv DEF StoreInv
<1>t. /\ draft \in [Draft -> DraftRow] /\ attempt \in [Attempt -> AttemptRow]
      /\ owner \in [Attempt -> Process \cup {None}] /\ damaged \subseteq Attempt
  BY <1>0 DEF TypeOK
<1>1. ASSUME NEW c \in Content, CreateDraft(p, d, c)
      PROVE  Consistent(draft', attempt') /\ OwnedIsActive'
  <2>1. /\ draft[d].state = "absent" /\ attempt' = attempt
        /\ draft'[d].state = "editable" /\ draft'[d].active = None
        /\ \A e \in Draft \ {d} : draft'[e] = draft[e]
    BY <1>t, <1>1 DEF CreateDraft
  <2>2. Consistent(draft', attempt')
    BY <1>0, <2>1 DEF Consistent, Exists
  <2> QED BY <1>0, <1>1, <2>2 DEF CreateDraft, OwnedIsActive
<1>2. ASSUME NEW v \in 0 .. MaxVersion, NEW c \in Content, SaveDraft(p, d, v, c)
      PROVE  Consistent(draft', attempt') /\ OwnedIsActive'
  <2>1. /\ draft' = [draft EXCEPT ![d].version = @ + 1, ![d].content = c]
        /\ draft[d] \in DraftRow /\ draft[d].state = "editable" /\ attempt' = attempt
    BY <1>t, <1>2 DEF SaveDraft, Editable
  <2>2. /\ draft'[d].state = "editable" /\ draft'[d].active = draft[d].active
        /\ \A e \in Draft \ {d} : draft'[e] = draft[e]
    BY <1>t, <2>1 DEF DraftRow
  <2>3. draft'[d].active = None /\ Exists(draft[d]) /\ Exists(draft'[d])
    BY <1>0, <2>1, <2>2 DEF Consistent, Exists
  <2>4. attempt' = attempt
    BY <2>1
  <2>5. Consistent(draft', attempt)
    <3>1. \A e \in Draft :
            \/ draft'[e] = draft[e]
            \/ draft'[e].state \notin Locking /\ draft'[e].active = None
      BY <2>2, <2>3
    <3>2. \A e \in Draft : Exists(draft[e]) => Exists(draft'[e])
      BY <2>2, <2>3
    <3>3. ASSUME NEW b \in Attempt, attempt[b].state \in Active PROVE attempt[b].draft # d
      <4>1. draft[attempt[b].draft].active = b
        BY <1>0, <3>3, ActivePair
      <4> QED BY <2>2, <2>3, <4>1
    <3> QED BY <1>0, <2>2, <3>1, <3>2, <3>3 DEF Consistent
  <2> QED BY <1>0, <1>2, <2>4, <2>5 DEF SaveDraft, OwnedIsActive
<1>3. ASSUME NEW v \in 0 .. MaxVersion, DiscardDraft(p, d, v)
      PROVE  Consistent(draft', attempt') /\ OwnedIsActive'
  <2>1. /\ DeleteDrafts({d}, draft, attempt) /\ draft[d].state = "editable"
        /\ UNCHANGED <<owner, mode>>
    BY <1>3 DEF DiscardDraft, Editable
  <2>2. draft[d].active = None
    BY <1>0, <2>1 DEF Consistent
  <2>3. Consistent(draft', attempt')
    BY <1>0, <1>t, <2>1, <2>2, DeleteConsistent
  <2>4. \A a \in Attempt : attempt[a].state \in Active => attempt'[a] = attempt[a]
    <3>1. ASSUME NEW a \in Attempt, attempt[a].state \in Active PROVE attempt[a].draft # d
      BY <1>0, <2>2, <3>1, ActivePair
    <3> QED BY <1>t, <2>1, <3>1 DEF DeleteDrafts
  <2> QED BY <1>0, <1>t, <2>1, <2>3, <2>4 DEF OwnedIsActive
<1>4. ASSUME NEW v \in 0 .. MaxVersion, NEW a \in Attempt, LockSubmission(p, d, v, a)
      PROVE  Consistent(draft', attempt') /\ OwnedIsActive'
  <2>1. /\ draft[d] \in DraftRow /\ draft[d].state = "editable" /\ draft[d].version = v
        /\ attempt[a].state = "absent" /\ mode[p] = "serving" /\ UNCHANGED mode
        /\ owner' = [owner EXCEPT ![a] = p]
        /\ draft' = [draft EXCEPT ![d].state = "submitting", ![d].version = @ + 1,
                                  ![d].active = a]
    BY <1>t, <1>4 DEF LockSubmission, Editable, Serving
  <2>2. PICK row :
          attempt' = [attempt EXCEPT
            ![a] = [NoAttempt EXCEPT !.state = "submitting", !.draft = d,
                                     !.row = row, !.frozen = v,
                                     !.snapshot = draft[d].content]]
    BY <1>4 DEF LockSubmission
  <2>3. /\ draft'[d].state = "submitting" /\ draft'[d].active = a
        /\ draft'[d].version = v + 1 /\ draft'[d].content = draft[d].content
        /\ \A e \in Draft \ {d} : draft'[e] = draft[e]
    BY <1>t, <2>1 DEF DraftRow
  <2>4. /\ attempt'[a].state = "submitting" /\ attempt'[a].draft = d
        /\ attempt'[a].frozen = v /\ attempt'[a].snapshot = draft[d].content
        /\ \A b \in Attempt \ {a} : attempt'[b] = attempt[b]
    BY <1>t, <2>2 DEF NoAttempt
  <2>5. draft[d].active = None /\ ~Exists(attempt[a]) /\ Exists(draft'[d])
    BY <1>0, <2>1, <2>3 DEF Consistent, Exists
  <2>6. /\ draft'[d].state \in Locking /\ attempt'[a].state = draft'[d].state
        /\ attempt'[a].snapshot = draft'[d].content
        /\ draft'[d].version = attempt'[a].frozen + 1
    BY <2>3, <2>4
  <2>7. Consistent(draft', attempt')
    BY <1>0, <2>3, <2>4, <2>5, <2>6, MoveConsistent
  <2> QED BY <1>0, <1>t, <2>1, <2>4, <2>7 DEF OwnedIsActive
<1> QED
  BY <1>1, <1>2, <1>3, <1>4 DEF Edit

\* The invariant across the operations of an owner on its attempt.
LEMMA SubmitStep ==
  ASSUME StoreInv, NEW p \in Process, NEW a \in Attempt, Submit(p, a)
  PROVE  Consistent(draft', attempt') /\ OwnedIsActive'
<1> DEFINE d == attempt[a].draft
<1>0. /\ TypeOK /\ Consistent(draft, attempt) /\ OwnedIsActive
  BY ConsistentInv DEF StoreInv
<1>t. /\ draft \in [Draft -> DraftRow] /\ attempt \in [Attempt -> AttemptRow]
      /\ owner \in [Attempt -> Process \cup {None}] /\ damaged \subseteq Attempt
      /\ attempt[a] \in AttemptRow
  BY <1>0 DEF TypeOK
<1>a. ASSUME OwnedActive(p, a)
      PROVE  /\ owner[a] = p /\ mode[p] = "serving" /\ attempt[a].state \in Active
             /\ d \in Draft /\ draft[d].active = a /\ draft[d] \in DraftRow
             /\ draft[d].content = attempt[a].snapshot
             /\ draft[d].version = attempt[a].frozen + 1
             /\ Exists(draft[d]) /\ draft[d].state = attempt[a].state
  BY <1>0, <1>t, <1>a, ActivePair DEF OwnedActive, Serving, Exists
\* Fields of the attempt that Agreement does not speak of.
<1>b. ASSUME \A b \in Attempt : /\ attempt'[b].state = attempt[b].state
                                /\ attempt'[b].draft = attempt[b].draft
                                /\ attempt'[b].frozen = attempt[b].frozen
                                /\ attempt'[b].snapshot = attempt[b].snapshot,
             UNCHANGED <<draft, owner, mode>>
      PROVE  Consistent(draft', attempt') /\ OwnedIsActive'
  BY <1>0, <1>b DEF Consistent, OwnedIsActive, Exists
<1>1. ASSUME NEW plan \in Plan, RecordPlan(p, a, plan)
      PROVE  Consistent(draft', attempt') /\ OwnedIsActive'
  BY <1>t, <1>b, <1>1 DEF RecordPlan, AttemptRow
<1>2. ASSUME NEW s \in Step, AuthorizeRetry(p, a, s)
      PROVE  Consistent(draft', attempt') /\ OwnedIsActive'
  BY <1>t, <1>b, <1>2 DEF AuthorizeRetry, AttemptRow
<1>3. ASSUME NEW s \in Step, NEW op \in Operation,
             BeginDispatch(p, a, s, op) \/ RejectDispatch(p, a, s, op)
      PROVE  Consistent(draft', attempt') /\ OwnedIsActive'
  <2>1. PICK x, y : attempt' = [attempt EXCEPT ![a].pending = x, ![a].op = y]
    BY <1>3 DEF BeginDispatch, RejectDispatch
  <2>2. UNCHANGED <<draft, owner, mode>>
    BY <1>3 DEF BeginDispatch, RejectDispatch
  <2> QED BY <1>t, <1>b, <2>1, <2>2 DEF AttemptRow
\* A locked state written to both tables.
<1>c. ASSUME OwnedActive(p, a), NEW state \in Locking, SetDraft(a, state, a),
             attempt'[a].state = state, attempt'[a].draft = d,
             attempt'[a].frozen = attempt[a].frozen,
             attempt'[a].snapshot = attempt[a].snapshot,
             \A b \in Attempt \ {a} : attempt'[b] = attempt[b]
      PROVE  Consistent(draft', attempt')
  <2>1. \A e \in Draft : draft'[e] = IF e = d /\ draft[e].active = a
                              THEN [draft[e] EXCEPT !.state = state, !.active = a]
                              ELSE draft[e]
    BY ZenonT(60), <1>c DEF SetDraft
  <2>2. /\ draft'[d].state = state /\ draft'[d].active = a
        /\ draft'[d].content = draft[d].content /\ draft'[d].version = draft[d].version
        /\ \A e \in Draft \ {d} : draft'[e] = draft[e]
    BY ZenonT(60), <1>a, <1>c, <2>1 DEF DraftRow
  <2>3. /\ Exists(draft'[d]) /\ draft'[d].state \in Locking
        /\ draft[d].active \in {a, None}
        /\ attempt'[a].state = draft'[d].state
        /\ attempt'[a].snapshot = draft'[d].content
        /\ draft'[d].version = attempt'[a].frozen + 1
    BY <1>a, <1>c, <2>2 DEF Exists
  <2>4. d \in Draft /\ attempt[a].draft = d /\ attempt'[a].draft = d
    BY <1>a, <1>c
  <2> HIDE DEF d
  <2> QED BY <1>0, <1>c, <2>2, <2>3, <2>4, MoveConsistent
<1>4. ASSUME NEW s \in Step, NEW op \in Operation, RecordReceipt(p, a, s, op)
      PROVE  Consistent(draft', attempt') /\ OwnedIsActive'
  <2>1. /\ OwnedActive(p, a) /\ SetDraft(a, "partial", a) /\ UNCHANGED <<owner, mode>>
        /\ attempt' = [attempt EXCEPT ![a].receipts = @ \cup {s}, ![a].pending = None,
                                      ![a].op = None, ![a].state = "partial"]
    BY <1>4 DEF RecordReceipt
  <2>2. /\ attempt'[a].state = "partial" /\ attempt'[a].draft = d
        /\ attempt'[a].frozen = attempt[a].frozen
        /\ attempt'[a].snapshot = attempt[a].snapshot
        /\ \A b \in Attempt \ {a} : attempt'[b] = attempt[b]
    BY <1>t, <2>1 DEF AttemptRow
  <2>3. Consistent(draft', attempt')
    BY <1>c, <2>1, <2>2
  <2> QED BY <1>0, <2>1, <2>2, <2>3 DEF OwnedIsActive
<1>5. ASSUME NEW s \in Step \cup {None}, MarkAttemptUnknown(p, a, s)
      PROVE  Consistent(draft', attempt') /\ OwnedIsActive'
  <2>1. /\ OwnedActive(p, a) /\ SetDraft(a, "unknown", a) /\ UNCHANGED mode
        /\ owner' = [owner EXCEPT ![a] = None]
        /\ attempt' = [attempt EXCEPT
             ![a].state = "unknown",
             ![a].unknowns = @ \cup ({s, attempt[a].pending} \ {None}),
             ![a].pending = None, ![a].op = None]
    BY <1>5 DEF MarkAttemptUnknown, Release
  <2>2. /\ attempt'[a].state = "unknown" /\ attempt'[a].draft = d
        /\ attempt'[a].frozen = attempt[a].frozen
        /\ attempt'[a].snapshot = attempt[a].snapshot
        /\ \A b \in Attempt \ {a} : attempt'[b] = attempt[b]
    BY <1>t, <2>1 DEF AttemptRow
  <2>3. Consistent(draft', attempt')
    BY <1>c, <2>1, <2>2
  <2> QED BY <1>0, <1>t, <2>1, <2>2, <2>3 DEF OwnedIsActive
<1>6. ASSUME CancelSubmission(p, a)
      PROVE  Consistent(draft', attempt') /\ OwnedIsActive'
  <2>1. /\ OwnedActive(p, a) /\ UNCHANGED mode /\ owner' = [owner EXCEPT ![a] = None]
        /\ attempt' = [attempt EXCEPT ![a] = Deleted(NoAttempt)]
        /\ draft' = [draft EXCEPT ![d].state = "editable", ![d].active = None,
                                  ![d].version = @ + 1]
    BY <1>6 DEF CancelSubmission, Release
  <2>2. d \in Draft /\ draft[d].active = a /\ draft[d] \in DraftRow
    BY <1>a, <2>1
  <2>3. /\ draft'[d].state = "editable" /\ draft'[d].active = None
        /\ \A e \in Draft \ {d} : draft'[e] = draft[e]
    BY <1>t, <2>1, <2>2 DEF DraftRow
  <2>4. /\ attempt'[a].state = "deleted"
        /\ \A b \in Attempt \ {a} : attempt'[b] = attempt[b]
    BY <1>t, <2>1 DEF Deleted, NoAttempt
  <2>5. /\ attempt[a].draft = d /\ ~Exists(attempt'[a]) /\ Exists(draft'[d])
        /\ draft'[d].state \notin Locking /\ attempt'[a].state \notin Active
    BY <2>3, <2>4 DEF Exists
  <2> HIDE DEF d
  <2>6. Consistent(draft', attempt')
    BY <1>0, <2>2, <2>3, <2>4, <2>5, MoveConsistent
  <2> QED BY <1>0, <1>t, <2>1, <2>4, <2>6 DEF OwnedIsActive
<1>7. ASSUME CompleteSubmission(p, a)
      PROVE  Consistent(draft', attempt') /\ OwnedIsActive'
  <2> DEFINE at == [attempt EXCEPT
                     ![a].state = "submitted",
                     ![a].unknowns = @ \cup ({attempt[a].pending} \ {None}),
                     ![a].pending = None, ![a].op = None]
             dr == [draft EXCEPT ![d] =
                     IF draft[d].active = a
                     THEN [draft[d] EXCEPT !.state = "submitted", !.active = None]
                     ELSE draft[d]]
  <2>1. /\ OwnedActive(p, a) /\ UNCHANGED mode /\ owner' = [owner EXCEPT ![a] = None]
        /\ PruneSubmitted(dr, at, {d})
    BY <1>7 DEF CompleteSubmission, Release
  <2>2. d \in Draft /\ draft[d].active = a /\ draft[d] \in DraftRow
    BY <1>a, <2>1
  <2>3. /\ dr[d].state = "submitted" /\ dr[d].active = None
        /\ \A e \in Draft \ {d} : dr[e] = draft[e]
    BY <1>t, <2>2 DEF DraftRow
  <2>4. /\ at[a].state = "submitted" /\ at[a].draft = d
        /\ \A b \in Attempt \ {a} : at[b] = attempt[b]
    BY <1>t DEF AttemptRow
  <2>5. dr \in [Draft -> DraftRow] /\ at \in [Attempt -> AttemptRow]
    <3>1. [draft[d] EXCEPT !.state = "submitted", !.active = None] \in DraftRow
      BY <2>2 DEF DraftRow, States
    <3>2. attempt[a].unknowns \cup ({attempt[a].pending} \ {None}) \in SUBSET Step
      BY <1>t DEF AttemptRow
    <3>3. [attempt[a] EXCEPT
                !.state = "submitted",
                !.unknowns = @ \cup ({attempt[a].pending} \ {None}),
                !.pending = None, !.op = None] \in AttemptRow
      BY <1>t, <3>2 DEF AttemptRow, States
    <3> QED BY <1>t, <3>1, <3>3
  <2>6. attempt[a].draft = d
    OBVIOUS
  <2> HIDE DEF dr, at, d
  <2>7. Consistent(dr, at)
    <3>1. /\ Exists(dr[d]) /\ dr[d].state \notin Locking /\ at[a].state \notin Active
      BY <2>3, <2>4 DEF Exists
    <3> QED BY <1>0, <2>2, <2>3, <2>4, <2>6, <3>1, MoveConsistent
  <2>8. PICK gone \in SUBSET Draft : gone \subseteq Prunable(dr, at) /\ DeleteDrafts(gone, dr, at)
    BY <2>1 DEF PruneSubmitted, Prunable
  <2>9. \A e \in gone : /\ dr[e].active = None
                        /\ \A b \in AttemptsOf(e, at) : at[b].state \notin Active
    BY <2>8 DEF Prunable
  <2>10. Consistent(draft', attempt')
    BY <2>5, <2>7, <2>8, <2>9, DeleteConsistent
  <2>11. \A b \in Attempt : at[b].state \in Active => attempt'[b] = at[b]
    BY <2>5, <2>8, <2>9 DEF DeleteDrafts, AttemptsOf
  <2> QED BY <1>0, <1>t, <2>1, <2>4, <2>10, <2>11 DEF OwnedIsActive
<1>8. ASSUME MarkUnknownFails(p, a)
      PROVE  Consistent(draft', attempt') /\ OwnedIsActive'
  BY <1>0, <1>t, <1>8 DEF MarkUnknownFails, Release, OwnedIsActive
<1> HIDE DEF d
<1> QED
  BY <1>1, <1>2, <1>3, <1>4, <1>5, <1>6, <1>7, <1>8 DEF Submit

\* The invariant across the reconciliations of an unknown attempt.
LEMMA DecideStep ==
  ASSUME StoreInv, NEW p \in Process, NEW a \in Attempt, Decide(p, a)
  PROVE  Consistent(draft', attempt') /\ OwnedIsActive'
<1> DEFINE d == attempt[a].draft
<1>0. /\ TypeOK /\ Consistent(draft, attempt) /\ OwnedIsActive
  BY ConsistentInv DEF StoreInv
<1>t. /\ draft \in [Draft -> DraftRow] /\ attempt \in [Attempt -> AttemptRow]
      /\ owner \in [Attempt -> Process \cup {None}] /\ damaged \subseteq Attempt
      /\ attempt[a] \in AttemptRow
  BY <1>0 DEF TypeOK
<1>a. ASSUME Undecided(p, a)
      PROVE  /\ owner[a] = None /\ mode[p] = "serving" /\ attempt[a].state = "unknown"
             /\ d \in Draft /\ draft[d].active = a /\ draft[d] \in DraftRow
             /\ draft[d].version = attempt[a].frozen + 1
  <2>1. d \in Draft
    BY <1>0, <1>a DEF Undecided, Consistent, Exists
  <2> QED BY <1>0, <1>t, <1>a, <2>1 DEF Undecided, Serving, Consistent
<1>b. ASSUME NEW state
      PROVE  /\ Reconciled(a, state)[a].state = state
             /\ Reconciled(a, state)[a].draft = d
             /\ Reconciled(a, state)[a].frozen = attempt[a].frozen
             /\ Reconciled(a, state)[a].snapshot = attempt[a].snapshot
             /\ \A b \in Attempt \ {a} : Reconciled(a, state)[b] = attempt[b]
  BY <1>t DEF Reconciled, AttemptRow
<1>1. CASE ReconcileRetry(p, a)
  <2> DEFINE state == IF attempt[a].receipts = {} THEN "submitting" ELSE "partial"
  <2>1. /\ Undecided(p, a) /\ UNCHANGED mode /\ owner' = [owner EXCEPT ![a] = p]
        /\ attempt' = Reconciled(a, state)
        /\ draft' = [draft EXCEPT ![d].state = state, ![d].content = attempt[a].snapshot]
    BY <1>1 DEF ReconcileRetry
  <2>2. state \in Active
    OBVIOUS
  <2> HIDE DEF state
  <2>3. d \in Draft /\ draft[d].active = a /\ draft[d] \in DraftRow
    BY <1>a, <2>1
  <2>4. /\ draft'[d].state = state /\ draft'[d].active = a
        /\ draft'[d].content = attempt[a].snapshot /\ draft'[d].version = draft[d].version
        /\ \A e \in Draft \ {d} : draft'[e] = draft[e]
    BY SMTT(60), <1>t, <2>1, <2>3 DEF DraftRow
  <2>5. /\ attempt'[a].state = draft'[d].state /\ attempt'[a].draft = d
        /\ attempt'[a].snapshot = draft'[d].content
        /\ draft'[d].version = attempt'[a].frozen + 1
        /\ draft'[d].state \in Locking /\ Exists(draft'[d])
        /\ \A b \in Attempt \ {a} : attempt'[b] = attempt[b]
    BY <1>a, <1>b, <2>1, <2>2, <2>4 DEF Exists
  <2>6. attempt[a].draft = d
    OBVIOUS
  <2> HIDE DEF d
  <2>7. Consistent(draft', attempt')
    BY <1>0, <2>3, <2>4, <2>5, <2>6, MoveConsistent
  <2> QED BY <1>0, <1>a, <1>t, <2>1, <2>2, <2>4, <2>5, <2>7 DEF OwnedIsActive
<1>2. CASE ReconcileSubmitted(p, a)
  <2> DEFINE at == Reconciled(a, "submitted")
             dr == [draft EXCEPT ![d].state = "submitted", ![d].active = None,
                                 ![d].content = attempt[a].snapshot]
  <2>1. Undecided(p, a) /\ PruneSubmitted(dr, at, {d}) /\ UNCHANGED <<owner, mode>>
    BY <1>2 DEF ReconcileSubmitted
  <2>2. d \in Draft /\ draft[d].active = a /\ draft[d] \in DraftRow /\ owner[a] = None
    BY <1>a, <2>1
  <2>3. /\ dr[d].state = "submitted" /\ dr[d].active = None
        /\ \A e \in Draft \ {d} : dr[e] = draft[e]
    BY <1>t, <2>2 DEF DraftRow
  <2>4. /\ at[a].state = "submitted" /\ at[a].draft = d
        /\ \A b \in Attempt \ {a} : at[b] = attempt[b]
    BY <1>b
  <2>5. at \in [Attempt -> AttemptRow]
    <3>1. attempt[a].recons + 1 \in 0 .. MaxRecons
      BY <1>t, <2>1 DEF Undecided, AttemptRow
    <3>2. [attempt[a] EXCEPT !.state = "submitted", !.recons = @ + 1] \in AttemptRow
      BY <1>t, <3>1 DEF AttemptRow, States
    <3> QED BY <1>t, <3>2 DEF Reconciled
  <2>6. dr \in [Draft -> DraftRow]
    <3>1. attempt[a].snapshot \in Content
      BY <1>t DEF AttemptRow
    <3>2. [draft[d] EXCEPT !.state = "submitted", !.active = None,
                           !.content = attempt[a].snapshot] \in DraftRow
      BY <2>2, <3>1 DEF DraftRow, States
    <3> QED BY <1>t, <3>2
  <2>7. attempt[a].draft = d
    OBVIOUS
  <2> HIDE DEF dr, at, d
  <2>8. Consistent(dr, at)
    <3>1. /\ Exists(dr[d]) /\ dr[d].state \notin Locking /\ at[a].state \notin Active
      BY <2>3, <2>4 DEF Exists
    <3> QED BY <1>0, <2>2, <2>3, <2>4, <2>7, <3>1, MoveConsistent
  <2>9. PICK gone \in SUBSET Draft : gone \subseteq Prunable(dr, at) /\ DeleteDrafts(gone, dr, at)
    BY <2>1 DEF PruneSubmitted, Prunable
  <2>10. \A e \in gone : /\ dr[e].active = None
                         /\ \A b \in AttemptsOf(e, at) : at[b].state \notin Active
    BY <2>9 DEF Prunable
  <2>11. Consistent(draft', attempt')
    BY <2>5, <2>6, <2>8, <2>9, <2>10, DeleteConsistent
  <2>12. \A b \in Attempt : at[b].state \in Active => attempt'[b] = at[b]
    BY <2>5, <2>9, <2>10 DEF DeleteDrafts, AttemptsOf
  <2> QED BY <1>0, <1>t, <2>1, <2>2, <2>4, <2>11, <2>12 DEF OwnedIsActive
<1>3. ASSUME NEW c \in Content, ReconcileEditable(p, a, c)
      PROVE  Consistent(draft', attempt') /\ OwnedIsActive'
  <2>1. /\ Undecided(p, a) /\ UNCHANGED <<owner, mode>>
        /\ attempt' = Reconciled(a, "unknown")
        /\ draft' = [draft EXCEPT ![d].state = "editable", ![d].active = None,
                                  ![d].version = @ + 1,
                                  ![d].content = EditableRow(a, c)]
    BY SMTT(60), <1>3 DEF ReconcileEditable
  <2>2. d \in Draft /\ draft[d].active = a /\ draft[d] \in DraftRow /\ owner[a] = None
    BY SMTT(60), <1>a, <2>1
  <2>3. /\ draft'[d].state = "editable" /\ draft'[d].active = None
        /\ \A e \in Draft \ {d} : draft'[e] = draft[e]
    BY <1>t, <2>1, <2>2 DEF DraftRow
  <2>4. /\ attempt'[a].state = "unknown" /\ attempt'[a].draft = d
        /\ \A b \in Attempt \ {a} : attempt'[b] = attempt[b]
    BY <1>b, <2>1
  <2>5. /\ Exists(draft'[d]) /\ draft'[d].state \notin Locking
        /\ attempt'[a].state \notin Active /\ attempt[a].draft = d
    BY <2>3, <2>4 DEF Exists
  <2> HIDE DEF d
  <2>6. Consistent(draft', attempt')
    BY <1>0, <2>2, <2>3, <2>4, <2>5, MoveConsistent
  <2> QED BY <1>0, <1>t, <2>1, <2>2, <2>4, <2>6 DEF OwnedIsActive
<1> HIDE DEF d
<1> QED
  BY <1>1, <1>2, <1>3 DEF Decide

-------------------------------------------------------------------------------
\* Every step of any process preserves the invariant.
LEMMA Inductive == StoreInv /\ [Next]_storeVars => StoreInv'
<1> SUFFICES ASSUME StoreInv, [Next]_storeVars PROVE StoreInv'
  OBVIOUS
<1>0. TypeOK
  BY DEF StoreInv
<1>1. ASSUME TypeOK', Consistent(draft', attempt') /\ OwnedIsActive' PROVE StoreInv'
  <2>1. \A d \in Draft : draft'[d].active \in Attempt \cup {None}
    BY <1>1 DEF TypeOK, DraftRow
  <2> QED BY <1>1, <2>1 DEF StoreInv, Consistent, Agreement, FrozenContent
<1>2. ASSUME NEW p \in Process, Lifecycle(p) PROVE StoreInv'
  BY <1>0, <1>1, <1>2, LifecycleType, LifecycleStep
<1>3. ASSUME NEW p \in Process, NEW d \in Draft, Edit(p, d) PROVE StoreInv'
  BY <1>0, <1>1, <1>3, EditType, EditStep
<1>4. ASSUME NEW p \in Process, NEW a \in Attempt, Submit(p, a) PROVE StoreInv'
  BY <1>0, <1>1, <1>4, SubmitType, SubmitStep
<1>5. ASSUME NEW p \in Process, NEW a \in Attempt, Decide(p, a) PROVE StoreInv'
  BY <1>0, <1>1, <1>5, DecideType, DecideStep
<1>6. ASSUME NEW a \in Attempt, Damage(a) PROVE StoreInv'
  <2>1. UNCHANGED <<draft, attempt, owner, mode, todo>> /\ damaged' \subseteq Attempt
    BY <1>0, <1>6 DEF Damage, TypeOK
  <2> QED BY <2>1 DEF StoreInv, TypeOK, Agreement, FrozenContent, OwnedIsActive, Exists
<1>7. CASE UNCHANGED storeVars
  BY <1>7 DEF storeVars, StoreInv, TypeOK, Agreement, FrozenContent, OwnedIsActive, Exists
<1> QED
  BY <1>2, <1>3, <1>4, <1>5, <1>6, <1>7 DEF Next

\* The inductive invariant of the store holds in every reachable state.
THEOREM StoreInvAlways == Spec => []StoreInv
BY InitStoreInv, Inductive, PTL DEF Spec

\* The rows that store.py writes have the types its schema and its row parsers
\* require, for any number of processes, drafts and attempts.
THEOREM TypeCorrect == Spec => []TypeOK
<1>1. StoreInv => TypeOK
  BY DEF StoreInv
<1> QED BY <1>1, StoreInvAlways, PTL

\* The tables drafts and submission_attempts never disagree, whatever calls,
\* recoveries and deaths of processes are interleaved.
THEOREM AgreementAlways == Spec => []Agreement
<1>1. StoreInv => Agreement
  BY DEF StoreInv
<1> QED BY <1>1, StoreInvAlways, PTL

\* A locked draft shows exactly the content and version its attempt froze.
THEOREM FrozenContentAlways == Spec => []FrozenContent
<1>1. StoreInv => FrozenContent
  BY DEF StoreInv
<1> QED BY <1>1, StoreInvAlways, PTL

\* An attempt with an owner is in progress and its owner is serving, so
\* recovery, which passes over owned attempts, passes over live ones only.
THEOREM OwnedIsActiveAlways == Spec => []OwnedIsActive
<1>1. StoreInv => OwnedIsActive
  BY DEF StoreInv
<1> QED BY <1>1, StoreInvAlways, PTL

-------------------------------------------------------------------------------
(***************************************************************************)
(* What one step may do to a row: the action properties.                   *)
(***************************************************************************)

\* What a step may do to the row of an attempt that exists: what was frozen
\* stays, evidence and counters only grow, what was submitted is final, a journal entry
\* is not left behind by an attempt that ends, and an attempt gets into progress, or is
\* there with a new marker, only by a decision.
RowGrows(b) ==
  /\ Exists(attempt'[b])
  /\ attempt'[b].draft = attempt[b].draft
  /\ attempt'[b].row = attempt[b].row
  /\ attempt'[b].snapshot = attempt[b].snapshot
  /\ attempt[b].receipts \subseteq attempt'[b].receipts
  /\ attempt[b].unknowns \subseteq attempt'[b].unknowns
  /\ attempt[b].recons <= attempt'[b].recons
  /\ attempt[b].retry <= attempt'[b].retry
  /\ attempt[b].state = "submitted" => attempt'[b] = attempt[b]
  /\ \/ attempt'[b].state \in Active
     \/ attempt[b].pending \in {None, attempt'[b].pending} \cup attempt'[b].unknowns
  /\ attempt'[b].state \in Active =>
       \/ attempt[b].state \in Active /\ attempt'[b].unknowns = attempt[b].unknowns
       \/ attempt'[b].recons > 0

\* Or the row goes: with its draft, or undone by its owner without a receipt and
\* without a journal entry.
RowGone(b) ==
  /\ attempt'[b] = Deleted(NoAttempt)
  /\ \/ draft'[attempt[b].draft].state = "deleted"
     \/ /\ owner[b] # None /\ attempt[b].state = "submitting"
        /\ attempt[b].receipts = {} /\ attempt[b].pending = None

LEMMA RowKept ==
  ASSUME TypeOK, NEW b \in Attempt, Exists(attempt[b]), attempt'[b] = attempt[b]
  PROVE  RowGrows(b)
<1>1. attempt[b] \in AttemptRow
  BY DEF TypeOK
<1> QED BY <1>1 DEF RowGrows, AttemptRow

\* Pruning after the row of attempt a has changed.
LEMMA RowPruned ==
  ASSUME StoreInv, NEW gone \in SUBSET Draft, NEW dr, NEW at,
         NEW b \in Attempt, Exists(attempt[b]),
         DeleteDrafts(gone, dr, at),
         at[b] = attempt[b] \/ (/\ Exists(at[b])
                                /\ at[b].draft = attempt[b].draft
                                /\ at[b].row = attempt[b].row
                                /\ at[b].snapshot = attempt[b].snapshot
                                /\ attempt[b].receipts \subseteq at[b].receipts
                                /\ attempt[b].unknowns \subseteq at[b].unknowns
                                /\ attempt[b].recons <= at[b].recons
                                /\ attempt[b].retry <= at[b].retry
                                /\ at[b].state \notin Active
                                /\ attempt[b].pending \in {None, at[b].pending} \cup at[b].unknowns
                                /\ attempt[b].state # "submitted")
  PROVE  RowGrows(b) \/ RowGone(b)
<1>1. CASE Exists(at[b]) /\ at[b].draft \in gone
  BY <1>1 DEF DeleteDrafts, RowGone, Deleted, NoDraft
<1>2. CASE ~(Exists(at[b]) /\ at[b].draft \in gone)
  <2>1. attempt'[b] = at[b]
    BY <1>2 DEF DeleteDrafts
  <2>2. TypeOK
    BY DEF StoreInv
  <2> QED BY <2>1, <2>2, RowKept DEF RowGrows
<1> QED BY <1>1, <1>2

LEMMA RowStep ==
  ASSUME StoreInv, Next, NEW b \in Attempt, Exists(attempt[b])
  PROVE  RowGrows(b) \/ RowGone(b)
<1>0. /\ TypeOK /\ draft \in [Draft -> DraftRow] /\ attempt \in [Attempt -> AttemptRow]
      /\ attempt[b] \in AttemptRow
  BY DEF StoreInv, TypeOK
<1>1. ASSUME NEW p \in Process, Lifecycle(p) PROVE RowGrows(b) \/ RowGone(b)
  <2>1. CASE Open(p)
    <3>1. PICK gone \in SUBSET Draft : DeleteDrafts(gone, draft, attempt)
      BY <2>1 DEF Open, PruneSubmitted, Prunable
    <3> QED BY <3>1, RowPruned
  <2>2. CASE ListIncomplete(p) \/ Serve(p) \/ Stop(p)
    BY <1>0, <2>2, RowKept DEF ListIncomplete, Serve, Stop
  <2>3. ASSUME NEW a \in Attempt, RecoverSkip(p, a) \/ RecoverFails(p, a)
        PROVE RowGrows(b)
    BY <1>0, <2>3, RowKept DEF RecoverSkip, RecoverFails
  <2>4. ASSUME NEW a \in Attempt, RecoverUnknown(p, a) PROVE RowGrows(b)
    <3>1. CASE b # a
      BY <1>0, <2>4, <3>1, RowKept DEF RecoverUnknown
    <3>2. CASE b = a
      BY <1>0, <2>4, <3>2 DEF RecoverUnknown, RowGrows, Exists, AttemptRow
    <3> QED BY <3>1, <3>2
  <2>5. ASSUME NEW a \in Attempt, RecoverUnreadable(p, a) PROVE RowGrows(b)
    <3>1. CASE b # a
      BY <1>0, <2>5, <3>1, RowKept DEF RecoverUnreadable
    <3>2. CASE b = a
      <4>1. /\ attempt'[b] = [attempt[b] EXCEPT !.state = "unknown"]
            /\ attempt[b].state \in Active
        BY <1>0, <2>5, <3>2 DEF RecoverUnreadable
      <4> QED BY <1>0, <4>1 DEF RowGrows, Exists, AttemptRow
    <3> QED BY <3>1, <3>2
  <2> QED BY <1>1, <2>1, <2>2, <2>3, <2>4, <2>5 DEF Lifecycle
<1>2. ASSUME NEW p \in Process, NEW d \in Draft, Edit(p, d)
      PROVE  RowGrows(b) \/ RowGone(b)
  <2>1. ASSUME NEW c, NEW v, CreateDraft(p, d, c) \/ SaveDraft(p, d, v, c) PROVE RowGrows(b)
    BY <1>0, <2>1, RowKept DEF CreateDraft, SaveDraft
  <2>2. ASSUME NEW v, DiscardDraft(p, d, v) PROVE RowGrows(b) \/ RowGone(b)
    BY <2>2, RowPruned DEF DiscardDraft
  <2>3. ASSUME NEW v, NEW a \in Attempt, LockSubmission(p, d, v, a) PROVE RowGrows(b)
    <3>1. attempt'[b] = attempt[b]
      BY <1>0, <2>3 DEF LockSubmission, Exists
    <3> QED BY <1>0, <3>1, RowKept
  <2> QED BY <1>2, <2>1, <2>2, <2>3 DEF Edit
<1>3. ASSUME NEW p \in Process, NEW a \in Attempt, Submit(p, a)
      PROVE  RowGrows(b) \/ RowGone(b)
  <2>1. ASSUME b # a, ~CompleteSubmission(p, a) PROVE RowGrows(b)
    <3>1. attempt'[b] = attempt[b]
      BY ZenonT(60), <1>0, <1>3, <2>1
         DEF Submit, RecordPlan, AuthorizeRetry, BeginDispatch, RejectDispatch,
         RecordReceipt, CancelSubmission, MarkAttemptUnknown, MarkUnknownFails
    <3> QED BY SMTT(60), <1>0, <3>1, RowKept
  <2>2. CASE CompleteSubmission(p, a)
    <3> DEFINE d  == attempt[a].draft
               at == [attempt EXCEPT
                       ![a].state = "submitted",
                       ![a].unknowns = @ \cup ({attempt[a].pending} \ {None}),
                       ![a].pending = None, ![a].op = None]
               dr == [draft EXCEPT ![d] =
                       IF draft[d].active = a
                       THEN [draft[d] EXCEPT !.state = "submitted", !.active = None]
                       ELSE draft[d]]
    <3>1. PICK gone \in SUBSET Draft : DeleteDrafts(gone, dr, at)
      BY <2>2 DEF CompleteSubmission, PruneSubmitted, Prunable
    <3>2. b # a => at[b] = attempt[b]
      BY <1>0
    <3>3. attempt[a].state \in Active
      BY <2>2 DEF CompleteSubmission, OwnedActive
    <3>4. b = a => /\ Exists(at[b]) /\ at[b].draft = attempt[b].draft
                   /\ at[b].row = attempt[b].row /\ at[b].snapshot = attempt[b].snapshot
                   /\ attempt[b].receipts \subseteq at[b].receipts
                   /\ attempt[b].unknowns \subseteq at[b].unknowns
                   /\ attempt[b].recons <= at[b].recons
                   /\ attempt[b].retry <= at[b].retry
                   /\ at[b].state \notin Active
                   /\ attempt[b].pending \in {None, at[b].pending} \cup at[b].unknowns
      BY <1>0 DEF Exists, AttemptRow
    <3> HIDE DEF at, dr
    <3> QED BY <3>1, <3>2, <3>3, <3>4, RowPruned
  <2>3. CASE b = a /\ CancelSubmission(p, a)
    BY <1>0, <2>3 DEF CancelSubmission, OwnedActive, RowGone
  <2>4. CASE b = a /\ MarkUnknownFails(p, a)
    BY <1>0, <2>4, RowKept DEF MarkUnknownFails
  <2>5. ASSUME b = a, NEW plan, RecordPlan(p, a, plan) PROVE RowGrows(b)
    BY <1>0, <2>5 DEF RecordPlan, OwnedActive, RowGrows, Exists, AttemptRow
  <2>6. ASSUME b = a, NEW s, AuthorizeRetry(p, a, s) PROVE RowGrows(b)
    BY <1>0, <2>6 DEF AuthorizeRetry, OwnedActive, RowGrows, Exists, AttemptRow
  <2>7. ASSUME b = a, NEW s \in Step, NEW op \in Operation, BeginDispatch(p, a, s, op)
        PROVE  RowGrows(b)
    BY <1>0, <2>7 DEF BeginDispatch, OwnedActive, RowGrows, Exists, AttemptRow
  <2>8. ASSUME b = a, NEW s \in Step, NEW op \in Operation, RejectDispatch(p, a, s, op)
        PROVE  RowGrows(b)
    <3>1. attempt[a].state # "submitted"
      BY <2>8 DEF RejectDispatch, StoreInv, OwnedIsActive
    <3> QED BY <1>0, <2>8, <3>1 DEF RejectDispatch, RowGrows, Exists, AttemptRow
  <2>9. ASSUME b = a, NEW s, NEW op, RecordReceipt(p, a, s, op) PROVE RowGrows(b)
    BY <1>0, <2>9 DEF RecordReceipt, OwnedActive, RowGrows, Exists, AttemptRow
  <2>10. ASSUME b = a, NEW s, MarkAttemptUnknown(p, a, s) PROVE RowGrows(b)
    BY <1>0, <2>10 DEF MarkAttemptUnknown, OwnedActive, RowGrows, Exists, AttemptRow
  <2> QED
    BY <1>3, <2>1, <2>2, <2>3, <2>4, <2>5, <2>6, <2>7, <2>8, <2>9, <2>10 DEF Submit
<1>4. ASSUME NEW p \in Process, NEW a \in Attempt, Decide(p, a)
      PROVE  RowGrows(b) \/ RowGone(b)
  <2>1. ASSUME NEW state, Undecided(p, a), state # "absent", state # "deleted"
        PROVE  /\ b # a => Reconciled(a, state)[b] = attempt[b]
               /\ b = a => /\ Exists(Reconciled(a, state)[b])
                           /\ Reconciled(a, state)[b].draft = attempt[b].draft
                           /\ Reconciled(a, state)[b].row = attempt[b].row
                           /\ Reconciled(a, state)[b].snapshot = attempt[b].snapshot
                           /\ Reconciled(a, state)[b].receipts = attempt[b].receipts
                           /\ Reconciled(a, state)[b].unknowns = attempt[b].unknowns
                           /\ attempt[b].recons <= Reconciled(a, state)[b].recons
                           /\ attempt[b].retry <= Reconciled(a, state)[b].retry
                           /\ Reconciled(a, state)[b].state = state
                           /\ Reconciled(a, state)[b].pending = attempt[b].pending
                           /\ Reconciled(a, state)[b].recons > 0
                           /\ attempt[b].state = "unknown"
    <3>1. b = a => Reconciled(a, state)[b] = [attempt[b] EXCEPT !.state = state, !.recons = @ + 1]
      BY <1>0 DEF Reconciled
    <3>2. b = a => attempt[b].state = "unknown"
      BY <2>1 DEF Undecided
    <3> QED BY <1>0, <2>1, <3>1, <3>2 DEF Reconciled, AttemptRow, Exists
  <2>2. ASSUME NEW state, Undecided(p, a), state # "absent", state # "deleted",
               attempt' = Reconciled(a, state)
        PROVE  RowGrows(b)
    <3>1. CASE b # a
      BY <1>0, <2>1, <2>2, <3>1, RowKept
    <3>2. CASE b = a
      BY <2>1, <2>2, <3>2 DEF RowGrows
    <3> QED BY <3>1, <3>2
  <2>3. CASE ReconcileRetry(p, a)
    BY <2>2, <2>3 DEF ReconcileRetry
  <2>4. CASE ReconcileSubmitted(p, a)
    <3> DEFINE at == Reconciled(a, "submitted")
    <3>1. Undecided(p, a) /\ \E dr, fresh : PruneSubmitted(dr, at, fresh)
      BY <2>4 DEF ReconcileSubmitted
    <3>2. PICK dr, gone : gone \in SUBSET Draft /\ DeleteDrafts(gone, dr, at)
      BY <3>1 DEF PruneSubmitted, Prunable
    <3>3. /\ b # a => at[b] = attempt[b]
          /\ b = a => /\ Exists(at[b]) /\ at[b].draft = attempt[b].draft
                      /\ at[b].row = attempt[b].row /\ at[b].snapshot = attempt[b].snapshot
                      /\ at[b].receipts = attempt[b].receipts
                      /\ at[b].unknowns = attempt[b].unknowns
                      /\ attempt[b].recons <= at[b].recons
                      /\ attempt[b].retry <= at[b].retry
                      /\ at[b].state \notin Active /\ at[b].pending = attempt[b].pending
                      /\ attempt[b].state = "unknown"
      BY <2>1, <3>1
    <3> HIDE DEF at
    <3> QED BY <3>2, <3>3, RowPruned
  <2>5. ASSUME NEW c, ReconcileEditable(p, a, c) PROVE RowGrows(b)
    BY <2>2, <2>5 DEF ReconcileEditable
  <2> QED BY <1>4, <2>3, <2>4, <2>5 DEF Decide
<1>5. ASSUME NEW a \in Attempt, Damage(a) PROVE RowGrows(b)
  BY <1>0, <1>5, RowKept DEF Damage
<1> QED BY <1>1, <1>2, <1>3, <1>4, <1>5 DEF Next

-------------------------------------------------------------------------------
\* A row with the version, the content and the editability of another.
DraftSame(new, old) == /\ new.version = old.version
                       /\ new.content = old.content
                       /\ (new.state = "editable") = (old.state = "editable")

\* What a step may do to a draft that exists.
DraftGuarded(d) ==
  \/ ~Exists(draft'[d])
  \/ draft'[d].version > draft[d].version
  \/ DraftSame(draft'[d], draft[d])

LEMMA DraftStep ==
  ASSUME StoreInv, Next, NEW d \in Draft, Exists(draft[d]) PROVE DraftGuarded(d)
<1>0. /\ TypeOK /\ draft \in [Draft -> DraftRow] /\ attempt \in [Attempt -> AttemptRow]
      /\ draft[d] \in DraftRow /\ draft[d].version \in Nat
      /\ Consistent(draft, attempt)
  BY ConsistentInv DEF StoreInv, TypeOK, DraftRow
<1>k. draft'[d] = draft[d] => DraftGuarded(d)
  BY DEF DraftGuarded, DraftSame
<1>s. DraftSame(draft[d], draft[d])
  BY DEF DraftSame
<1>p. ASSUME NEW fresh, NEW dr, NEW at, PruneSubmitted(dr, at, fresh), DraftSame(dr[d], draft[d])
      PROVE  DraftGuarded(d)
  <2>1. PICK gone : DeleteDrafts(gone, dr, at)
    BY <1>p DEF PruneSubmitted
  <2>2. CASE d \in gone
    BY <2>1, <2>2 DEF DeleteDrafts, DraftGuarded, Deleted, NoDraft, Exists
  <2>3. CASE d \notin gone
    BY <1>p, <2>1, <2>3 DEF DeleteDrafts, DraftGuarded
  <2> QED BY <2>2, <2>3
<1>1. ASSUME NEW p \in Process, Lifecycle(p) PROVE DraftGuarded(d)
  <2>1. CASE Open(p)
    BY <1>p, <1>s, <2>1 DEF Open
  <2>2. CASE ListIncomplete(p) \/ Serve(p) \/ Stop(p)
    BY <1>k, <2>2 DEF ListIncomplete, Serve, Stop
  <2>3. ASSUME NEW a \in Attempt, RecoverSkip(p, a) \/ RecoverFails(p, a)
        PROVE DraftGuarded(d)
    BY <1>k, <2>3 DEF RecoverSkip, RecoverFails
  <2>4. ASSUME NEW a \in Attempt, RecoverUnknown(p, a) PROVE DraftGuarded(d)
    <3>1. draft[d].active = a => draft[d].state \in Locking
      BY <1>0 DEF Consistent
    <3> QED BY <1>0, <1>k, <2>4, <3>1 DEF RecoverUnknown, DraftGuarded, DraftSame, DraftRow
  <2>5. ASSUME NEW a \in Attempt, RecoverUnreadable(p, a) PROVE DraftGuarded(d)
    <3>1. \/ draft'[d] = draft[d]
          \/ draft'[d] = [draft[d] EXCEPT !.state = "editable", !.active = None,
                                          !.version = @ + 1]
      BY <2>5 DEF RecoverUnreadable
    <3>2. draft'[d] = draft[d] \/ draft'[d].version = draft[d].version + 1
      BY <1>0, <3>1 DEF DraftRow
    <3> QED BY <1>0, <1>k, <3>2 DEF DraftGuarded
  <2> QED BY <1>1, <2>1, <2>2, <2>3, <2>4, <2>5 DEF Lifecycle
<1>2. ASSUME NEW p \in Process, NEW e \in Draft, Edit(p, e) PROVE DraftGuarded(d)
  <2>1. ASSUME NEW c \in Content, CreateDraft(p, e, c) PROVE DraftGuarded(d)
    <3>1. d # e
      BY <2>1 DEF CreateDraft, Exists
    <3>2. draft'[d] = draft[d]
      BY <1>0, <2>1, <3>1 DEF CreateDraft
    <3> QED BY <1>k, <3>2
  <2>2. ASSUME NEW v, DiscardDraft(p, e, v) PROVE DraftGuarded(d)
    <3>2. CASE d = e
      BY <2>2, <3>2 DEF DiscardDraft, DeleteDrafts, DraftGuarded, Deleted, NoDraft, Exists
    <3>3. CASE d # e
      BY <1>k, <2>2, <3>3 DEF DiscardDraft, DeleteDrafts
    <3> QED BY <3>2, <3>3
  <2>3. ASSUME NEW v \in 0 .. MaxVersion, NEW c \in Content, SaveDraft(p, e, v, c)
        PROVE  DraftGuarded(d)
    BY <1>0, <1>k, <2>3 DEF SaveDraft, DraftGuarded, DraftRow
  <2>4. ASSUME NEW v \in 0 .. MaxVersion, NEW a \in Attempt, LockSubmission(p, e, v, a)
        PROVE  DraftGuarded(d)
    BY SMTT(60), <1>0, <1>k, <2>4 DEF LockSubmission, DraftGuarded, DraftRow
  <2> QED BY <1>2, <2>1, <2>2, <2>3, <2>4 DEF Edit
<1>3. ASSUME NEW p \in Process, NEW a \in Attempt, Submit(p, a) PROVE DraftGuarded(d)
  <2>1. ASSUME NEW state, state # "editable", NEW active, SetDraft(a, state, active)
        PROVE  DraftGuarded(d)
    <3>1. draft[d].active = a => draft[d].state \in Locking
      BY <1>0 DEF Consistent
    <3> QED BY <1>0, <1>k, <2>1, <3>1 DEF SetDraft, DraftGuarded, DraftSame, DraftRow
  <2>2. CASE UNCHANGED draft
    BY <1>k, <2>2
  <2>3. CASE CancelSubmission(p, a)
    BY <1>0, <1>k, <2>3 DEF CancelSubmission, DraftGuarded, DraftRow
  <2>4. CASE CompleteSubmission(p, a)
    <3> DEFINE e  == attempt[a].draft
               at == [attempt EXCEPT
                       ![a].state = "submitted",
                       ![a].unknowns = @ \cup ({attempt[a].pending} \ {None}),
                       ![a].pending = None, ![a].op = None]
               dr == [draft EXCEPT ![e] =
                       IF draft[e].active = a
                       THEN [draft[e] EXCEPT !.state = "submitted", !.active = None]
                       ELSE draft[e]]
    <3>1. PruneSubmitted(dr, at, {e})
      BY <2>4 DEF CompleteSubmission
    <3>2. draft[d].active = a => draft[d].state \in Locking
      BY <1>0 DEF Consistent
    <3>3. DraftSame(dr[d], draft[d])
      BY <1>0, <3>2 DEF DraftSame, DraftRow
    <3> HIDE DEF at, dr
    <3> QED BY <1>p, <3>1, <3>3
  <2> QED
    BY <1>3, <2>1, <2>2, <2>3, <2>4 DEF Submit, RecordPlan, AuthorizeRetry, BeginDispatch,
       RejectDispatch, RecordReceipt, MarkAttemptUnknown, MarkUnknownFails
<1>4. ASSUME NEW p \in Process, NEW a \in Attempt, Decide(p, a) PROVE DraftGuarded(d)
  <2> DEFINE e == attempt[a].draft
  <2>1. ASSUME Undecided(p, a)
        PROVE  draft[e].state = "unknown" /\ attempt[a].snapshot = draft[e].content
    <3>1. e \in Draft
      BY <1>0, <2>1 DEF Undecided, Consistent, Exists
    <3> QED BY <1>0, <2>1, <3>1 DEF Undecided, Consistent
  <2>2. CASE ReconcileRetry(p, a)
    <3>1. /\ Undecided(p, a)
          /\ \E state \in Active :
               draft' = [draft EXCEPT ![e].state = state, ![e].content = attempt[a].snapshot]
      BY <2>2 DEF ReconcileRetry
    <3> HIDE DEF e
    <3> QED BY SMTT(60), <1>0, <1>k, <2>1, <3>1 DEF DraftGuarded, DraftSame, DraftRow
  <2>3. CASE ReconcileSubmitted(p, a)
    <3> DEFINE dr == [draft EXCEPT ![e].state = "submitted", ![e].active = None,
                                   ![e].content = attempt[a].snapshot]
    <3>1. Undecided(p, a) /\ PruneSubmitted(dr, Reconciled(a, "submitted"), {e})
      BY <2>3 DEF ReconcileSubmitted
    <3>2. DraftSame(dr[d], draft[d])
      BY SMTT(60), <1>0, <2>1, <3>1 DEF DraftSame, DraftRow
    <3> HIDE DEF dr
    <3> QED BY <1>p, <3>1, <3>2
  <2>4. ASSUME NEW c, ReconcileEditable(p, a, c) PROVE DraftGuarded(d)
    BY <1>0, <1>k, <2>4 DEF ReconcileEditable, DraftGuarded, DraftRow
  <2> QED BY <1>4, <2>2, <2>3, <2>4 DEF Decide
<1>5. ASSUME NEW a \in Attempt, Damage(a) PROVE DraftGuarded(d)
  BY <1>k, <1>5 DEF Damage
<1> QED BY <1>1, <1>2, <1>3, <1>4, <1>5 DEF Next

\* What an editor loaded with a version is the content of the draft for as long
\* as the version stays, so that comparing versions in save_draft is enough.
THEOREM VersionGuardsContentAlways == Spec => VersionGuardsContent
<1> DEFINE A == \A d \in Draft :
        Exists(draft[d]) /\ Exists(draft'[d]) =>
          /\ draft'[d].version >= draft[d].version
          /\ \/ draft'[d].version > draft[d].version
             \/ /\ draft'[d].content = draft[d].content
                /\ (draft'[d].state = "editable") = (draft[d].state = "editable")
<1>1. StoreInv /\ [Next]_storeVars => [A]_storeVars
  <2> SUFFICES ASSUME StoreInv, Next, NEW d \in Draft, Exists(draft[d]), Exists(draft'[d])
               PROVE  /\ draft'[d].version >= draft[d].version
                      /\ \/ draft'[d].version > draft[d].version
                         \/ DraftSame(draft'[d], draft[d])
    BY DEF DraftSame
  <2>1. StoreInv'
    BY Inductive
  <2>2. draft[d].version \in Nat /\ draft'[d].version \in Nat
    BY <2>1 DEF StoreInv, TypeOK, DraftRow
  <2> QED BY <2>2, DraftStep DEF DraftGuarded, DraftSame
<1> QED BY <1>1, StoreInvAlways, PTL DEF Spec, VersionGuardsContent

-------------------------------------------------------------------------------
\* An attempt that somebody owns is moved by a call of the owner alone.
OwnedKept(b) == attempt'[b] = attempt[b] /\ owner'[b] = owner[b]

\* Deleting what may be pruned does not touch an attempt in progress.
LEMMA ActiveNotPruned ==
  ASSUME NEW dr, NEW at, NEW fresh, PruneSubmitted(dr, at, fresh),
         NEW b \in Attempt, at[b].state \in Active
  PROVE  attempt'[b] = at[b]
<1>1. PICK gone : DeleteDrafts(gone, dr, at) /\ gone \subseteq Prunable(dr, at)
  BY DEF PruneSubmitted
<1>2. ~(Exists(at[b]) /\ at[b].draft \in gone)
  BY SMTT(60), <1>1 DEF Prunable, AttemptsOf
<1> QED BY <1>1, <1>2 DEF DeleteDrafts

LEMMA SubmitKeeps ==
  ASSUME StoreInv, NEW p \in Process, NEW a \in Attempt, Submit(p, a),
         NEW b \in Attempt, owner[b] # None, b # a \/ p # owner[b]
  PROVE  OwnedKept(b)
<1>0. /\ attempt \in [Attempt -> AttemptRow] /\ owner \in [Attempt -> Process \cup {None}]
      /\ attempt[b].state \in Active
  BY DEF StoreInv, TypeOK, OwnedIsActive
<1>1. owner[a] = p
  BY ZenonT(60)
     DEF Submit, RecordPlan, AuthorizeRetry, BeginDispatch, RejectDispatch, RecordReceipt,
         CancelSubmission, MarkAttemptUnknown, MarkUnknownFails, CompleteSubmission, OwnedActive
<1>2. b # a
  BY <1>1
<1>3. CASE CompleteSubmission(p, a)
  <2> DEFINE at == [attempt EXCEPT
                     ![a].state = "submitted",
                     ![a].unknowns = @ \cup ({attempt[a].pending} \ {None}),
                     ![a].pending = None, ![a].op = None]
  <2>1. at[b] = attempt[b]
    BY <1>0, <1>2
  <2>2. owner'[b] = owner[b] /\ \E dr, fresh : PruneSubmitted(dr, at, fresh)
    BY <1>0, <1>2, <1>3 DEF CompleteSubmission, Release
  <2> HIDE DEF at
  <2> QED BY <1>0, <2>1, <2>2, ActiveNotPruned DEF OwnedKept
<1> QED
  BY ZenonT(60), <1>0, <1>2, <1>3
     DEF Submit, RecordPlan, AuthorizeRetry, BeginDispatch, RejectDispatch,
     RecordReceipt, CancelSubmission, MarkAttemptUnknown, MarkUnknownFails, Release, OwnedKept

LEMMA DecideKeeps ==
  ASSUME StoreInv, NEW p \in Process, NEW a \in Attempt, Decide(p, a),
         NEW b \in Attempt, owner[b] # None
  PROVE  OwnedKept(b)
<1>0. /\ attempt \in [Attempt -> AttemptRow] /\ owner \in [Attempt -> Process \cup {None}]
      /\ attempt[b].state \in Active
  BY DEF StoreInv, TypeOK, OwnedIsActive
<1>1. b # a
  BY DEF Decide, ReconcileRetry, ReconcileSubmitted, ReconcileEditable, Undecided
<1>2. ASSUME NEW state PROVE Reconciled(a, state)[b] = attempt[b]
  BY <1>0, <1>1 DEF Reconciled
<1>3. CASE ReconcileSubmitted(p, a)
  <2>1. owner' = owner /\ \E dr, fresh : PruneSubmitted(dr, Reconciled(a, "submitted"), fresh)
    BY <1>3 DEF ReconcileSubmitted
  <2> QED BY <1>0, <1>2, <2>1, ActiveNotPruned DEF OwnedKept
<1> QED
  BY <1>0, <1>1, <1>2, <1>3 DEF Decide, ReconcileRetry, ReconcileEditable, OwnedKept

LEMMA EditKeeps ==
  ASSUME StoreInv, NEW p \in Process, NEW d \in Draft, Edit(p, d),
         NEW b \in Attempt, owner[b] # None
  PROVE  OwnedKept(b)
<1>0. /\ attempt \in [Attempt -> AttemptRow] /\ owner \in [Attempt -> Process \cup {None}]
      /\ attempt[b].state \in Active /\ Consistent(draft, attempt)
  BY ConsistentInv DEF StoreInv, TypeOK, OwnedIsActive
<1>1. ASSUME NEW v, DiscardDraft(p, d, v) PROVE OwnedKept(b)
  <2>1. draft[d].state = "editable"
    BY <1>1 DEF DiscardDraft, Editable
  <2>2. attempt[b].draft # d
    BY <1>0, <2>1, ActivePair
  <2> QED BY <1>1, <2>2 DEF DiscardDraft, DeleteDrafts, OwnedKept
<1>2. ASSUME NEW v, NEW a \in Attempt, LockSubmission(p, d, v, a) PROVE OwnedKept(b)
  <2>1. a # b
    BY <1>2 DEF LockSubmission
  <2> QED BY <1>0, <1>2, <2>1 DEF LockSubmission, OwnedKept
<1> QED BY <1>1, <1>2 DEF Edit, CreateDraft, SaveDraft, OwnedKept

LEMMA LifecycleKeeps ==
  ASSUME StoreInv, NEW p \in Process, Lifecycle(p),
         NEW b \in Attempt, owner[b] # None, owner[b] # p
  PROVE  OwnedKept(b)
<1>0. /\ attempt \in [Attempt -> AttemptRow] /\ owner \in [Attempt -> Process \cup {None}]
      /\ attempt[b].state \in Active
  BY DEF StoreInv, TypeOK, OwnedIsActive
<1>1. CASE Open(p)
  BY <1>0, <1>1, ActiveNotPruned DEF Open, OwnedKept
<1>2. CASE Stop(p)
  BY <1>0, <1>2 DEF Stop, OwnedKept
<1>3. ASSUME NEW a \in Attempt, RecoverUnknown(p, a) \/ RecoverUnreadable(p, a)
      PROVE  OwnedKept(b)
  <2>1. a # b
    BY <1>3 DEF RecoverUnknown, RecoverUnreadable
  <2> QED BY <1>0, <1>3, <2>1 DEF RecoverUnknown, RecoverUnreadable, OwnedKept
<1> QED
  BY <1>1, <1>2, <1>3 DEF Lifecycle, ListIncomplete, Serve, RecoverSkip, RecoverFails, OwnedKept

-------------------------------------------------------------------------------
(***************************************************************************)
(* What a call leaves alone: other rows are as they were, or gone with     *)
(* their draft.                                                            *)
(***************************************************************************)

RowSide(b) == \/ attempt'[b] = attempt[b]
              \/ /\ Exists(attempt[b]) /\ attempt'[b] = Deleted(NoAttempt)
                 /\ \A d \in Draft : attempt[b].draft = d => draft'[d] = Deleted(NoDraft)

LEMMA PrunedSide ==
  ASSUME NEW dr, NEW at, NEW gone, DeleteDrafts(gone, dr, at),
         NEW b \in Attempt, at[b] = attempt[b]
  PROVE  RowSide(b)
BY SMTT(60) DEF DeleteDrafts, RowSide

LEMMA SubmitSide ==
  ASSUME TypeOK, NEW p \in Process, NEW a \in Attempt, Submit(p, a), NEW b \in Attempt, b # a
  PROVE  RowSide(b)
<1>0. attempt \in [Attempt -> AttemptRow]
  BY DEF TypeOK
<1>1. CASE CompleteSubmission(p, a)
  <2> DEFINE at == [attempt EXCEPT
                     ![a].state = "submitted",
                     ![a].unknowns = @ \cup ({attempt[a].pending} \ {None}),
                     ![a].pending = None, ![a].op = None]
  <2>1. at[b] = attempt[b]
    BY <1>0
  <2>2. \E dr, fresh : PruneSubmitted(dr, at, fresh)
    BY <1>1 DEF CompleteSubmission
  <2> HIDE DEF at
  <2> QED BY <2>1, <2>2, PrunedSide DEF PruneSubmitted
<1> QED
  BY ZenonT(60), <1>0, <1>1 DEF Submit, RecordPlan, AuthorizeRetry, BeginDispatch, RejectDispatch,
     RecordReceipt, CancelSubmission, MarkAttemptUnknown, MarkUnknownFails, RowSide

LEMMA DecideSide ==
  ASSUME TypeOK, NEW p \in Process, NEW a \in Attempt, Decide(p, a), NEW b \in Attempt, b # a
  PROVE  RowSide(b)
<1>0. attempt \in [Attempt -> AttemptRow]
  BY DEF TypeOK
<1>1. \A state : Reconciled(a, state)[b] = attempt[b]
  BY <1>0 DEF Reconciled
<1>2. CASE ReconcileSubmitted(p, a)
  BY <1>1, <1>2, PrunedSide DEF ReconcileSubmitted, PruneSubmitted
<1> QED BY <1>1, <1>2 DEF Decide, ReconcileRetry, ReconcileEditable, RowSide

LEMMA EditSide ==
  ASSUME TypeOK, NEW p \in Process, NEW d \in Draft, Edit(p, d), NEW b \in Attempt,
         \A v \in 0 .. MaxVersion : ~LockSubmission(p, d, v, b)
  PROVE  RowSide(b)
<1>0. attempt \in [Attempt -> AttemptRow]
  BY DEF TypeOK
<1>1. ASSUME NEW v, DiscardDraft(p, d, v) PROVE RowSide(b)
  BY <1>1, PrunedSide DEF DiscardDraft
<1>2. ASSUME NEW v \in 0 .. MaxVersion, NEW a \in Attempt, LockSubmission(p, d, v, a)
      PROVE  RowSide(b)
  <2>1. a # b
    BY <1>2
  <2> QED BY <1>0, <1>2, <2>1 DEF LockSubmission, RowSide
<1> QED BY <1>1, <1>2 DEF Edit, CreateDraft, SaveDraft, RowSide

LEMMA LifecycleSide ==
  ASSUME TypeOK, NEW p \in Process, Lifecycle(p), NEW b \in Attempt,
         ~RecoverUnknown(p, b), ~RecoverUnreadable(p, b)
  PROVE  RowSide(b)
<1>0. attempt \in [Attempt -> AttemptRow]
  BY DEF TypeOK
<1>1. CASE Open(p)
  BY SMTT(60), <1>1, PrunedSide DEF Open, PruneSubmitted
<1>2. ASSUME NEW a \in Attempt, RecoverUnknown(p, a) \/ RecoverUnreadable(p, a)
      PROVE  RowSide(b)
  <2>1. a # b
    BY <1>2
  <2> QED BY <1>0, <1>2, <2>1 DEF RecoverUnknown, RecoverUnreadable, RowSide
<1> QED
  BY <1>1, <1>2 DEF Lifecycle, ListIncomplete, Serve, Stop, RecoverSkip, RecoverFails, RowSide

\* An attempt that does not exist stays as it is until its draft is locked.
LEMMA RowBorn ==
  ASSUME StoreInv, Next, NEW b \in Attempt, ~Exists(attempt[b])
  PROVE  \/ attempt'[b] = attempt[b]
         \/ \E p \in Process, d \in Draft, v \in 0 .. MaxVersion : LockSubmission(p, d, v, b)
<1> SUFFICES ASSUME \A p \in Process, d \in Draft, v \in 0 .. MaxVersion :
                      ~LockSubmission(p, d, v, b)
             PROVE  attempt'[b] = attempt[b]
  OBVIOUS
<1>0. TypeOK /\ OwnedIsActive /\ (RowSide(b) => attempt'[b] = attempt[b])
  BY DEF StoreInv, RowSide
<1>1. ASSUME NEW p \in Process, Lifecycle(p) PROVE attempt'[b] = attempt[b]
  <2>1. ~RecoverUnknown(p, b) /\ ~RecoverUnreadable(p, b)
    BY DEF RecoverUnknown, RecoverUnreadable, Exists
  <2> QED BY <1>0, <1>1, <2>1, LifecycleSide
<1>2. ASSUME NEW p \in Process, NEW d \in Draft, Edit(p, d) PROVE attempt'[b] = attempt[b]
  BY <1>0, <1>2, EditSide
<1>3. ASSUME NEW p \in Process, NEW a \in Attempt, Submit(p, a) PROVE attempt'[b] = attempt[b]
  <2>1. owner[a] = p
    BY ZenonT(60), <1>3 DEF Submit, RecordPlan, AuthorizeRetry, BeginDispatch, RejectDispatch,
       RecordReceipt, CancelSubmission, MarkAttemptUnknown, MarkUnknownFails,
       CompleteSubmission, OwnedActive
  <2>2. a # b
    BY <1>0, <2>1 DEF OwnedIsActive, Exists
  <2> QED BY SMTT(60), <1>0, <1>3, <2>2, SubmitSide
<1>4. ASSUME NEW p \in Process, NEW a \in Attempt, Decide(p, a) PROVE attempt'[b] = attempt[b]
  <2>1. a # b
    BY <1>4 DEF Decide, ReconcileRetry, ReconcileSubmitted, ReconcileEditable, Undecided, Exists
  <2> QED BY <1>0, <1>4, <2>1, DecideSide
<1>5. ASSUME NEW a \in Attempt, Damage(a) PROVE attempt'[b] = attempt[b]
  BY <1>5 DEF Damage
<1> QED BY <1>1, <1>2, <1>3, <1>4, <1>5 DEF Next

\* An attempt in progress has an unknown marker only after a decision about it.
Decided ==
  \A a \in Attempt : attempt[a].state \in Active /\ attempt[a].unknowns # {} =>
    attempt[a].recons > 0

LEMMA DecidedStep == StoreInv /\ Decided /\ [Next]_storeVars => Decided'
<1> SUFFICES ASSUME StoreInv, Decided, [Next]_storeVars, NEW b \in Attempt,
                    attempt'[b].state \in Active, attempt'[b].unknowns # {}
             PROVE  attempt'[b].recons > 0
  BY DEF Decided
<1>0. /\ attempt \in [Attempt -> AttemptRow] /\ attempt[b] \in AttemptRow
      /\ attempt'[b].recons \in Nat
  BY Inductive DEF StoreInv, TypeOK, AttemptRow
<1>1. CASE attempt'[b] = attempt[b]
  BY <1>1 DEF Decided
<1>2. CASE Next /\ Exists(attempt[b])
  <2>1. RowGrows(b)
    BY <1>2, RowStep DEF RowGone, Deleted, NoAttempt
  <2>2. /\ attempt[b].recons \in Nat /\ attempt[b].recons <= attempt'[b].recons
        /\ \/ attempt[b].state \in Active /\ attempt'[b].unknowns = attempt[b].unknowns
           \/ attempt'[b].recons > 0
    BY <1>0, <2>1 DEF RowGrows, AttemptRow
  <2> QED BY <1>0, <2>2 DEF Decided
<1>3. CASE Next /\ ~Exists(attempt[b])
  <2>1. ASSUME NEW p \in Process, NEW d \in Draft, NEW v \in 0 .. MaxVersion,
               LockSubmission(p, d, v, b)
        PROVE  attempt'[b].unknowns = {}
    BY <1>0, <2>1 DEF LockSubmission, NoAttempt
  <2> QED BY <1>1, <1>3, <2>1, RowBorn
<1> QED BY <1>1, <1>2, <1>3 DEF storeVars

\* While a draft exists, the evidence of its remote writes does: no operation,
\* recovery, pruning or death takes away a receipt or a marker, or lets a journal entry
\* be forgotten; and cancel_submission takes away an attempt alone only without a
\* receipt and without a marker that nobody has decided about.
THEOREM EvidenceKeptAlways == Spec => EvidenceKept
<1> DEFINE A(a) ==
        Exists(attempt[a]) =>
          \/ /\ Exists(attempt'[a])
             /\ attempt[a].receipts \subseteq attempt'[a].receipts
             /\ attempt[a].unknowns \subseteq attempt'[a].unknowns
             /\ attempt[a].state = "submitted" => attempt'[a].state = "submitted"
             /\ \/ attempt'[a].state \in Active
                \/ attempt[a].pending \in {None, attempt'[a].pending} \cup attempt'[a].unknowns
          \/ draft'[attempt[a].draft].state = "deleted"
          \/ attempt'[a].state = "deleted" /\ Undoable(a)
<1>1. Init => Decided
  BY DEF Init, Decided, NoAttempt
<1>2. StoreInv /\ Decided /\ [Next]_storeVars => [\A a \in Attempt : A(a)]_storeVars
  <2> SUFFICES ASSUME StoreInv, Decided, Next, NEW a \in Attempt, Exists(attempt[a])
               PROVE  A(a)
    OBVIOUS
  <2>1. CASE RowGrows(a)
    BY <2>1 DEF RowGrows
  <2>2. CASE RowGone(a)
    BY <2>2 DEF RowGone, Deleted, NoAttempt, Decided, Undoable
  <2> QED BY <2>1, <2>2, RowStep
<1> QED BY <1>1, <1>2, DecidedStep, StoreInvAlways, PTL DEF Spec, EvidenceKept

-------------------------------------------------------------------------------
(***************************************************************************)
(* The same of drafts that are locked.                                     *)
(***************************************************************************)

\* Pruning passes over a draft that is locked.
LEMMA LockedNotPruned ==
  ASSUME NEW dr, NEW at, NEW fresh, PruneSubmitted(dr, at, fresh),
         NEW d \in Draft, dr[d].active # None
  PROVE  draft'[d] = dr[d]
<1>1. PICK gone : DeleteDrafts(gone, dr, at) /\ gone \subseteq Prunable(dr, at)
  BY DEF PruneSubmitted
<1>2. d \notin gone
  BY SMTT(60), <1>1 DEF Prunable
<1> QED BY <1>1, <1>2 DEF DeleteDrafts

\* Only calls for the attempt a draft is locked by touch the draft.
LEMMA SubmitDraft ==
  ASSUME TypeOK, NEW p \in Process, NEW a \in Attempt, Submit(p, a),
         NEW d \in Draft, draft[d].active \notin {None, a}
  PROVE  draft'[d] = draft[d]
<1>0. draft \in [Draft -> DraftRow]
  BY DEF TypeOK
<1>1. CASE CompleteSubmission(p, a)
  <2> DEFINE e  == attempt[a].draft
             dr == [draft EXCEPT ![e] =
                     IF draft[e].active = a
                     THEN [draft[e] EXCEPT !.state = "submitted", !.active = None]
                     ELSE draft[e]]
  <2>1. dr[d] = draft[d]
    BY <1>0
  <2>2. \E at, fresh : PruneSubmitted(dr, at, fresh)
    BY <1>1 DEF CompleteSubmission
  <2> HIDE DEF dr
  <2> QED BY <2>1, <2>2, LockedNotPruned
<1>2. CASE CancelSubmission(p, a)
  <2>1. d # attempt[a].draft
    BY SMTT(60), <1>2 DEF CancelSubmission
  <2> QED BY <1>0, <1>2, <2>1 DEF CancelSubmission
<1> QED
  BY <1>0, <1>1, <1>2 DEF Submit, RecordPlan, AuthorizeRetry, BeginDispatch, RejectDispatch,
     RecordReceipt, MarkAttemptUnknown, MarkUnknownFails, SetDraft

LEMMA DecideDraft ==
  ASSUME TypeOK, NEW p \in Process, NEW a \in Attempt, Decide(p, a),
         NEW d \in Draft, draft[d].active \notin {None, a}
  PROVE  draft'[d] = draft[d]
<1>0. draft \in [Draft -> DraftRow] /\ d # attempt[a].draft
  BY DEF TypeOK, Decide, ReconcileRetry, ReconcileSubmitted, ReconcileEditable, Undecided
<1>1. CASE ReconcileSubmitted(p, a)
  <2> DEFINE e  == attempt[a].draft
             dr == [draft EXCEPT ![e].state = "submitted", ![e].active = None,
                                 ![e].content = attempt[a].snapshot]
  <2>1. dr[d] = draft[d]
    BY <1>0
  <2>2. \E at, fresh : PruneSubmitted(dr, at, fresh)
    BY <1>1 DEF ReconcileSubmitted
  <2> HIDE DEF dr
  <2> QED BY <2>1, <2>2, LockedNotPruned
<1> QED BY ZenonT(60), <1>0, <1>1 DEF Decide, ReconcileRetry, ReconcileEditable

LEMMA EditDraft ==
  ASSUME TypeOK, Agreement, NEW p \in Process, NEW e \in Draft, Edit(p, e),
         NEW d \in Draft, draft[d].active # None
  PROVE  draft'[d] = draft[d]
<1>0. draft \in [Draft -> DraftRow] /\ draft[d].state \in Locking
  BY DEF TypeOK, Agreement
<1> QED
  BY ZenonT(60), <1>0
     DEF Edit, CreateDraft, SaveDraft, DiscardDraft, LockSubmission, Editable, DeleteDrafts

LEMMA LifecycleDraft ==
  ASSUME TypeOK, NEW p \in Process, Lifecycle(p),
         NEW d \in Draft, draft[d].active # None,
         ~RecoverUnreadable(p, draft[d].active)
  PROVE  draft'[d].active = draft[d].active
<1>0. draft \in [Draft -> DraftRow] /\ draft[d] \in DraftRow
  BY DEF TypeOK
<1>1. CASE Open(p)
  BY <1>1, LockedNotPruned DEF Open
<1>2. ASSUME NEW a \in Attempt, RecoverUnknown(p, a) PROVE draft'[d].active = draft[d].active
  BY <1>0, <1>2 DEF RecoverUnknown, DraftRow
<1>3. ASSUME NEW a \in Attempt, RecoverUnreadable(p, a) PROVE draft'[d].active = draft[d].active
  <2>1. a # draft[d].active
    BY <1>3
  <2> QED BY <1>0, <1>3, <2>1 DEF RecoverUnreadable
<1> QED
  BY <1>1, <1>2, <1>3 DEF Lifecycle, ListIncomplete, Serve, Stop, RecoverSkip, RecoverFails
-------------------------------------------------------------------------------
(***************************************************************************)
(* The last attempt of a draft.                                            *)
(***************************************************************************)

\* The attempt a draft is locked by is the last one made, and so is the one a
\* submitted draft was submitted by: that is what pruning looks for.
Latest ==
  \A d \in Draft :
    /\ draft[d].active # None => IsLatest(draft[d].active, d, attempt)
    /\ draft[d].state = "submitted" =>
         \E a \in Attempt : IsLatest(a, d, attempt) /\ attempt[a].state = "submitted"

LEMMA PrunedOrSame ==
  ASSUME NEW dr, NEW at, NEW gone, DeleteDrafts(gone, dr, at)
  PROVE  /\ \A d \in Draft : draft'[d] = dr[d] \/ draft'[d] = Deleted(NoDraft)
         /\ \A a \in Attempt, d \in Draft :
              at[a].draft = d /\ draft'[d] # Deleted(NoDraft) => attempt'[a] = at[a]
BY DEF DeleteDrafts

\* A draft points at another attempt only when it is locked.
LEMMA ActiveFrom ==
  ASSUME StoreInv, Next, NEW d \in Draft, draft'[d].active # None
  PROVE  \/ draft[d].active = draft'[d].active
         \/ \E p \in Process, a \in Attempt, v \in 0 .. MaxVersion : LockSubmission(p, d, v, a)
<1> SUFFICES ASSUME \A p \in Process, a \in Attempt, v \in 0 .. MaxVersion :
                      ~LockSubmission(p, d, v, a)
             PROVE  draft[d].active = draft'[d].active
  OBVIOUS
<1>0. /\ draft \in [Draft -> DraftRow] /\ draft[d] \in DraftRow
      /\ Deleted(NoDraft).active = None /\ draft'[d] # Deleted(NoDraft)
  BY DEF StoreInv, TypeOK, Deleted, NoDraft
<1>1. ASSUME NEW p \in Process, Lifecycle(p) PROVE draft[d].active = draft'[d].active
  <2>1. ASSUME NEW a, RecoverUnknown(p, a) PROVE draft[d].active = draft'[d].active
    BY <1>0, <2>1 DEF RecoverUnknown, DraftRow
  <2>2. ASSUME NEW a, RecoverUnreadable(p, a) PROVE draft[d].active = draft'[d].active
    <3>1. \/ draft'[d] = draft[d]
          \/ draft'[d] = [draft[d] EXCEPT !.state = "editable", !.active = None,
                                          !.version = @ + 1]
      BY <2>2 DEF RecoverUnreadable
    <3> QED BY <1>0, <3>1 DEF DraftRow
  <2> QED
    BY <1>0, <1>1, <2>1, <2>2, PrunedOrSame DEF Lifecycle, Open, PruneSubmitted,
       ListIncomplete, Serve, Stop, RecoverSkip, RecoverFails
<1>2. ASSUME NEW p \in Process, NEW e \in Draft, Edit(p, e)
      PROVE  draft[d].active = draft'[d].active
  <2>1. ASSUME NEW c, CreateDraft(p, e, c) PROVE draft[d].active = draft'[d].active
    BY <1>0, <2>1 DEF CreateDraft
  <2>2. ASSUME NEW v, NEW c, SaveDraft(p, e, v, c) PROVE draft[d].active = draft'[d].active
    BY <1>0, <2>2 DEF SaveDraft, DraftRow
  <2>3. ASSUME NEW v, DiscardDraft(p, e, v) PROVE draft[d].active = draft'[d].active
    BY <1>0, <2>3, PrunedOrSame DEF DiscardDraft
  <2>4. ASSUME NEW v \in 0 .. MaxVersion, NEW a \in Attempt, LockSubmission(p, e, v, a)
        PROVE  draft[d].active = draft'[d].active
    <3>1. d # e
      BY <2>4
    <3> QED BY ZenonT(60), <1>0, <2>4, <3>1 DEF LockSubmission
  <2> QED BY <1>2, <2>1, <2>2, <2>3, <2>4 DEF Edit
<1>3. ASSUME NEW p \in Process, NEW a \in Attempt, Submit(p, a)
      PROVE  draft[d].active = draft'[d].active
  <2>1. ASSUME NEW state, SetDraft(a, state, a) PROVE draft[d].active = draft'[d].active
    BY ZenonT(60), <1>0, <2>1 DEF SetDraft, DraftRow
  <2>2. CASE CancelSubmission(p, a)
    BY <1>0, <2>2 DEF CancelSubmission, DraftRow
  <2>3. CASE CompleteSubmission(p, a)
    <3> DEFINE e  == attempt[a].draft
               dr == [draft EXCEPT ![e] =
                       IF draft[e].active = a
                       THEN [draft[e] EXCEPT !.state = "submitted", !.active = None]
                       ELSE draft[e]]
    <3>1. \E at, fresh : PruneSubmitted(dr, at, fresh)
      BY <2>3 DEF CompleteSubmission
    <3>2. draft'[d] = dr[d]
      BY ZenonT(60), <1>0, <3>1, PrunedOrSame DEF PruneSubmitted
    <3> QED BY <1>0, <3>2 DEF DraftRow
  <2> QED
    BY <1>3, <2>1, <2>2, <2>3 DEF Submit, RecordPlan, AuthorizeRetry, BeginDispatch,
       RejectDispatch, RecordReceipt, MarkAttemptUnknown, MarkUnknownFails
<1>4. ASSUME NEW p \in Process, NEW a \in Attempt, Decide(p, a)
      PROVE  draft[d].active = draft'[d].active
  <2> DEFINE e == attempt[a].draft
  <2>1. CASE ReconcileRetry(p, a)
    <3>1. \E state : draft' = [draft EXCEPT ![e].state = state, ![e].content = attempt[a].snapshot]
      BY <2>1 DEF ReconcileRetry
    <3> HIDE DEF e
    <3> QED BY <1>0, <3>1 DEF DraftRow
  <2>2. CASE ReconcileSubmitted(p, a)
    <3> DEFINE dr == [draft EXCEPT ![e].state = "submitted", ![e].active = None,
                                   ![e].content = attempt[a].snapshot]
    <3>1. \E at, fresh : PruneSubmitted(dr, at, fresh)
      BY SMTT(60), <2>2 DEF ReconcileSubmitted
    <3>2. draft'[d] = dr[d]
      BY ZenonT(60), <1>0, <3>1, PrunedOrSame DEF PruneSubmitted
    <3> QED BY <1>0, <3>2 DEF DraftRow
  <2>3. ASSUME NEW c, ReconcileEditable(p, a, c) PROVE draft[d].active = draft'[d].active
    BY <1>0, <2>3 DEF ReconcileEditable, DraftRow
  <2> QED BY <1>4, <2>1, <2>2, <2>3 DEF Decide
<1>5. ASSUME NEW a \in Attempt, Damage(a) PROVE draft[d].active = draft'[d].active
  BY <1>5 DEF Damage
<1> QED BY <1>1, <1>2, <1>3, <1>4, <1>5 DEF Next

\* A draft is submitted by the attempt it is locked by.
LEMMA SubmittedFrom ==
  ASSUME StoreInv, Next, NEW d \in Draft, draft'[d].state = "submitted"
  PROVE  \/ draft[d].state = "submitted"
         \/ draft[d].active # None /\ attempt'[draft[d].active].state = "submitted"
<1> DEFINE Goal == \/ draft[d].state = "submitted"
                   \/ draft[d].active # None /\ attempt'[draft[d].active].state = "submitted"
<1>0. /\ draft \in [Draft -> DraftRow] /\ draft[d] \in DraftRow
      /\ attempt \in [Attempt -> AttemptRow]
      /\ draft'[d] # Deleted(NoDraft)
  BY DEF StoreInv, TypeOK, Deleted, NoDraft
<1>1. ASSUME NEW p \in Process, Lifecycle(p) PROVE Goal
  <2>1. ASSUME NEW a, RecoverUnknown(p, a) PROVE Goal
    BY <1>0, <2>1 DEF RecoverUnknown, DraftRow
  <2>2. ASSUME NEW a, RecoverUnreadable(p, a) PROVE Goal
    BY <1>0, <2>2 DEF RecoverUnreadable, DraftRow
  <2>3. CASE Open(p)
    BY <1>0, <2>3, PrunedOrSame DEF Open, PruneSubmitted
  <2> QED
    BY <1>1, <2>1, <2>2, <2>3 DEF Lifecycle, ListIncomplete, Serve, Stop, RecoverSkip, RecoverFails
<1>2. ASSUME NEW p \in Process, NEW e \in Draft, Edit(p, e) PROVE Goal
  <2>1. ASSUME NEW c, CreateDraft(p, e, c) PROVE Goal
    BY <1>0, <2>1 DEF CreateDraft
  <2>2. ASSUME NEW v, NEW c, SaveDraft(p, e, v, c) PROVE Goal
    BY <1>0, <2>2 DEF SaveDraft, DraftRow
  <2>3. ASSUME NEW v, DiscardDraft(p, e, v) PROVE Goal
    BY <1>0, <2>3, PrunedOrSame DEF DiscardDraft
  <2>4. ASSUME NEW v, NEW a, LockSubmission(p, e, v, a) PROVE Goal
    BY SMTT(60), <1>0, <2>4 DEF LockSubmission, DraftRow
  <2> QED BY <1>2, <2>1, <2>2, <2>3, <2>4 DEF Edit
<1>3. ASSUME NEW p \in Process, NEW a \in Attempt, Submit(p, a) PROVE Goal
  <2>1. ASSUME NEW state, state # "submitted", SetDraft(a, state, a) PROVE Goal
    BY <1>0, <2>1 DEF SetDraft, DraftRow
  <2>2. CASE CancelSubmission(p, a)
    BY <1>0, <2>2 DEF CancelSubmission, DraftRow
  <2>3. CASE CompleteSubmission(p, a)
    <3> DEFINE e  == attempt[a].draft
               at == [attempt EXCEPT
                       ![a].state = "submitted",
                       ![a].unknowns = @ \cup ({attempt[a].pending} \ {None}),
                       ![a].pending = None, ![a].op = None]
               dr == [draft EXCEPT ![e] =
                       IF draft[e].active = a
                       THEN [draft[e] EXCEPT !.state = "submitted", !.active = None]
                       ELSE draft[e]]
    <3>1. PruneSubmitted(dr, at, {e})
      BY <2>3 DEF CompleteSubmission
    <3>2. draft'[d] = dr[d]
      <4> HIDE DEF at, dr
      <4> QED BY <1>0, <3>1, PrunedOrSame DEF PruneSubmitted
    <3>3. CASE d = e /\ draft[d].active = a
      <4>1. at[a].draft = d /\ at[a].state = "submitted"
        BY <1>0, <3>3 DEF AttemptRow
      <4> HIDE DEF at, dr, e
      <4>2. attempt'[a] = at[a]
        BY <1>0, <3>1, <4>1, PrunedOrSame DEF PruneSubmitted
      <4>3. a # None
        OBVIOUS
      <4> QED BY <3>3, <4>1, <4>2, <4>3
    <3>4. CASE ~(d = e /\ draft[d].active = a)
      BY <1>0, <3>2, <3>4
    <3> QED BY <3>3, <3>4
  <2> QED
    BY <1>3, <2>1, <2>2, <2>3 DEF Submit, RecordPlan, AuthorizeRetry, BeginDispatch,
       RejectDispatch, RecordReceipt, MarkAttemptUnknown, MarkUnknownFails
<1>4. ASSUME NEW p \in Process, NEW a \in Attempt, Decide(p, a) PROVE Goal
  <2> DEFINE e == attempt[a].draft
  <2>1. CASE ReconcileRetry(p, a)
    <3>1. PICK state \in {"submitting", "partial"} :
            draft' = [draft EXCEPT ![e].state = state, ![e].content = attempt[a].snapshot]
      <4> DEFINE st == IF attempt[a].receipts = {} THEN "submitting" ELSE "partial"
      <4>1. /\ draft' = [draft EXCEPT ![e].state = st, ![e].content = attempt[a].snapshot]
            /\ st \in {"submitting", "partial"}
        BY <2>1 DEF ReconcileRetry
      <4> QED BY <4>1
    <3> HIDE DEF e
    <3> QED BY SMTT(60), <1>0, <3>1 DEF DraftRow
  <2>2. CASE ReconcileSubmitted(p, a)
    <3> DEFINE dr == [draft EXCEPT ![e].state = "submitted", ![e].active = None,
                                   ![e].content = attempt[a].snapshot]
               at == Reconciled(a, "submitted")
    <3>1. PruneSubmitted(dr, at, {e}) /\ draft[e].active = a
      BY <2>2 DEF ReconcileSubmitted, Undecided
    <3>2. draft'[d] = dr[d]
      BY ZenonT(60), <1>0, <3>1, PrunedOrSame DEF PruneSubmitted
    <3>3. CASE d = e
      <4>1. at[a].draft = d /\ at[a].state = "submitted"
        BY <1>0, <3>3 DEF Reconciled, AttemptRow
      <4> HIDE DEF at, dr, e
      <4>2. attempt'[a] = at[a]
        BY <1>0, <3>1, <4>1, PrunedOrSame DEF PruneSubmitted
      <4>3. a # None
        OBVIOUS
      <4> QED BY <3>1, <3>3, <4>1, <4>2, <4>3
    <3>4. CASE d # e
      BY <1>0, <3>2, <3>4
    <3> QED BY <3>3, <3>4
  <2>3. ASSUME NEW c, ReconcileEditable(p, a, c) PROVE Goal
    BY <1>0, <2>3 DEF ReconcileEditable, DraftRow
  <2> QED BY <1>4, <2>1, <2>2, <2>3 DEF Decide
<1>5. ASSUME NEW a \in Attempt, Damage(a) PROVE Goal
  BY <1>5 DEF Damage
<1> QED BY <1>1, <1>2, <1>3, <1>4, <1>5 DEF Next

\* While a draft is not locked anew, its last attempt stays the last one.
LEMMA LatestKept ==
  ASSUME StoreInv, Next, NEW d \in Draft, NEW a \in Attempt,
         IsLatest(a, d, attempt), Exists(attempt'[a]),
         \A p \in Process, v \in 0 .. MaxVersion, b \in Attempt : ~LockSubmission(p, d, v, b)
  PROVE  IsLatest(a, d, attempt')
<1>1. \A b \in AttemptsOf(d, attempt) : Exists(attempt'[b]) =>
         attempt'[b].row = attempt[b].row /\ attempt'[b].draft = d
  BY RowStep DEF AttemptsOf, RowGrows, RowGone, Exists, Deleted, NoAttempt
<1>2. AttemptsOf(d, attempt') \subseteq AttemptsOf(d, attempt)
  <2> SUFFICES ASSUME NEW b \in Attempt, Exists(attempt'[b]), attempt'[b].draft = d
               PROVE  Exists(attempt[b]) /\ attempt[b].draft = d
    BY DEF AttemptsOf
  <2>1. CASE Exists(attempt[b])
    BY <2>1, RowStep DEF RowGrows, RowGone, Exists, Deleted, NoAttempt
  <2>2. ASSUME NEW p \in Process, NEW e \in Draft, NEW v \in 0 .. MaxVersion,
               LockSubmission(p, e, v, b)
        PROVE  FALSE
    <3>1. attempt \in [Attempt -> AttemptRow]
      BY DEF StoreInv, TypeOK
    <3>2. PICK row :
            attempt' = [attempt EXCEPT
              ![b] = [NoAttempt EXCEPT !.state = "submitting", !.draft = e, !.row = row,
                                       !.frozen = v, !.snapshot = draft[e].content]]
      BY <2>2 DEF LockSubmission
    <3>3. attempt'[b].draft = e
      BY <3>1, <3>2 DEF NoAttempt
    <3> QED BY <2>2, <3>3
  <2> QED BY <2>1, <2>2, RowBorn
<1>3. a \in AttemptsOf(d, attempt')
  BY <1>1 DEF IsLatest, AttemptsOf
<1> QED
  BY <1>1, <1>2, <1>3 DEF IsLatest, AttemptsOf

LEMMA LatestStep == StoreInv /\ Latest /\ [Next]_storeVars => Latest'
<1> SUFFICES ASSUME StoreInv, Latest, Next, NEW d \in Draft
             PROVE  /\ draft'[d].active # None => IsLatest(draft'[d].active, d, attempt')
                    /\ draft'[d].state = "submitted" =>
                         \E a \in Attempt : /\ IsLatest(a, d, attempt')
                                            /\ attempt'[a].state = "submitted"
  BY DEF Latest, storeVars, IsLatest, AttemptsOf
<1>0. StoreInv' /\ attempt \in [Attempt -> AttemptRow] /\ draft \in [Draft -> DraftRow]
  BY Inductive DEF StoreInv, TypeOK
<1>1. \A e \in Draft : draft[e].active \in Attempt \cup {None}
  BY <1>0 DEF DraftRow
<1>2. ASSUME NEW p \in Process, NEW v \in 0 .. MaxVersion, NEW a \in Attempt,
             LockSubmission(p, d, v, a)
      PROVE  /\ draft'[d].active = a /\ draft'[d].state = "submitting"
             /\ IsLatest(a, d, attempt')
  <2>1. PICK row \in 1 .. Cardinality(Attempt) :
          /\ NextRow(row)
          /\ attempt' = [attempt EXCEPT
               ![a] = [NoAttempt EXCEPT !.state = "submitting", !.draft = d, !.row = row,
                                        !.frozen = v, !.snapshot = draft[d].content]]
    BY <1>2 DEF LockSubmission
  <2>2. attempt'[a].row = row /\ attempt'[a].draft = d /\ attempt'[a].state = "submitting"
    BY <1>0, <2>1 DEF NoAttempt
  <2>3. \A b \in Attempt : attempt'[b].row <= row
    <3> SUFFICES ASSUME NEW b \in Attempt PROVE attempt'[b].row <= row
      OBVIOUS
    <3>1. CASE b = a
      BY <2>2, <3>1
    <3>2. CASE b # a
      <4>1. attempt'[b] = attempt[b] /\ attempt[b].row \in Nat /\ attempt[b].row < row
        BY <1>0, <2>1, <3>2 DEF NextRow, AttemptRow
      <4> QED BY <4>1
    <3> QED BY <3>1, <3>2
  <2>4. draft'[d].active = a /\ draft'[d].state = "submitting"
    BY <1>0, <1>2 DEF LockSubmission, DraftRow
  <2> QED BY <2>2, <2>3, <2>4 DEF IsLatest, AttemptsOf, Exists
<1>3. ASSUME \A p \in Process, v \in 0 .. MaxVersion, b \in Attempt : ~LockSubmission(p, d, v, b),
             draft'[d].active # None
      PROVE  IsLatest(draft'[d].active, d, attempt')
  <2>1. draft[d].active = draft'[d].active /\ draft[d].active \in Attempt
    BY <1>1, <1>3, ActiveFrom
  <2>2. Exists(attempt'[draft[d].active])
    BY <1>0, <1>3, <2>1 DEF StoreInv, Agreement, Exists
  <2> QED BY <1>3, <2>1, <2>2, LatestKept DEF Latest
<1>4. ASSUME \A p \in Process, v \in 0 .. MaxVersion, b \in Attempt : ~LockSubmission(p, d, v, b),
             draft'[d].state = "submitted"
      PROVE  \E a \in Attempt : IsLatest(a, d, attempt') /\ attempt'[a].state = "submitted"
  <2>1. CASE draft[d].state = "submitted"
    <3>1. PICK a \in Attempt : IsLatest(a, d, attempt) /\ attempt[a].state = "submitted"
      BY <2>1 DEF Latest
    <3>2. RowGrows(a)
      BY <1>4, <3>1, RowStep DEF RowGone, IsLatest, AttemptsOf
    <3> QED BY <1>4, <3>1, <3>2, LatestKept DEF RowGrows
  <2>2. CASE draft[d].active # None /\ attempt'[draft[d].active].state = "submitted"
    BY <1>1, <1>4, <2>2, LatestKept DEF Latest, Exists
  <2> QED BY <1>4, <2>1, <2>2, SubmittedFrom
<1> QED BY <1>2, <1>3, <1>4

\* store.py's prune_submitted keeps the table of drafts from growing for ever: a
\* submitted draft always meets its conditions, whatever else was going on.
THEOREM SubmittedIsPrunable ==
  Spec => [](\A d \in Draft : draft[d].state = "submitted" => d \in Prunable(draft, attempt))
<1>1. Init => Latest
  BY DEF Init, Latest, NoDraft
<1>2. StoreInv /\ Latest =>
        \A d \in Draft : draft[d].state = "submitted" => d \in Prunable(draft, attempt)
  <2> SUFFICES ASSUME StoreInv, Latest, NEW d \in Draft, draft[d].state = "submitted"
               PROVE  d \in Prunable(draft, attempt)
    OBVIOUS
  <2>1. draft[d].active = None
    BY DEF StoreInv, Agreement
  <2>2. \A a \in AttemptsOf(d, attempt) : attempt[a].state \notin Active
    BY <2>1 DEF StoreInv, Agreement, AttemptsOf
  <2> QED BY <2>1, <2>2 DEF Prunable, Latest
<1> QED BY <1>1, <1>2, LatestStep, StoreInvAlways, PTL DEF Spec
===============================================================================
