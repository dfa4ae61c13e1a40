# tongs in TLA+

Specifications, model-checked and to a large part proved, of the parts of tongs
where several actors, crashes and lost answers meet. Paths are relative to the
repository. Every definition that stands for code is listed with its lines in
`PROJECT.json` under `map`.

1. [The system](#1-the-system)
2. [The modules and the code](#2-the-modules-and-the-code)
3. [What the runs check](#3-what-the-runs-check)
4. [Disagreements and observations](#4-disagreements-and-observations)
5. [Bounds](#5-bounds)
6. [Fairness](#6-fairness)
7. [What is proved](#7-what-is-proved)
8. [What is not modelled](#8-what-is-not-modelled)
9. [Plan](#9-plan)

## 1. The system

tongs reviews merge requests and pull requests of several forges. It runs as a
terminal program, as an MCP server, and as a desktop application: an Electron
main process that starts a Python *sidecar* and talks to it over stdin and
stdout. Several of these processes may run at once for one user; what they
share is on disk: the draft database, the lock files beside it, and the
response cache. A per-user installer puts versions of the desktop application
under the user's data directory.

| component | state it keeps | operations | what makes it correct |
|---|---|---|---|
| Attempt lock files (`state/drafts/_locks.py`) | one lock file per submission attempt, held descriptors | acquire, release, remove stale, probe | one owner per attempt, whatever system calls are interleaved; nobody deletes a file under its owner |
| Draft store (`state/drafts/store.py`, `models.py`, `reconciliation.py`) | SQLite tables of drafts, attempts, journal, receipts, unknown steps; the locks it holds | create, save, discard, lock, record plan, journal, receipt, reject, mark unknown, cancel, complete, authorize a retry, reconcile three ways, recover, prune | drafts and attempts agree; frozen content does not change under an attempt; no evidence of a write is lost |
| Review submission (`services/review_submission.py`) | calls under way, one asyncio lock per attempt | start, resume, reconcile, close | a write that may have happened is not repeated without the user's decision; a confirmed item is not sent again; a draft comes back with what is unconfirmed |
| Write services and operation ledger (`services/operation_ledger.py`, `ci_mutations.py`, `review_mutations.py`, `mr_actions.py`) | owner and waiters per operation id, hint and refresh tasks | reserve, send, complete, fail, release, wait, hints, close | one dispatch per operation id; every waiter is answered, with one answer; an unknown outcome stays unknown |
| Response cache (`cache/`) | entries on disk, dirty marks with generations, reads in flight, deletion tasks | read, store, mark, invalidate, drain, prune | a read never answers with content from before an invalidation |
| Application session (`services/session.py`) | clients, services, store, cache, the close task | start, get a client, close, retry a close | close releases everything once, also when start or a caller is cancelled; every call returns |
| HTTP layer and registry (`forges/http.py`, `registry.py`) | request slots per host, token, clients, shared look-ups, remembered refusals | request, refresh a token, retry, redirect, look up, close all | a slot is given back exactly once; a write acts once; one look-up serves all waiters |
| Sidecar server (`desktop/protocol/server.py`) | request table, writer lock, handshake and stop flags, event buffer | handshake, schedule, serve, cancel, write, pump, shutdown | one answer per request at most; slots are freed; changes reach the window or it is told to read anew; shutdown ends |
| Electron main process (`desktop/src/main/`) | child process, session, pending requests, event number, recovery | start, stop, restart, reap, request, recover, reload, quit | one service at a time; pending calls belong to the session that runs; a lost service is brought back or given up in words |
| Desktop installer (`desktop/installer/`) | version directories, state document, journal, menu entry | install, update, repair, re-download, uninstall, recover | after a kill anywhere the next command can go on; no version is lost track of; success means what it says |
| Request handlers, handles and snapshots (`desktop/protocol/`) | LRU of handles, bounded expiring snapshots | open, page, release, expire | a page belongs to the snapshot asked for; an evicted handle is refused |
| Plugins (`plugins/`) | life-cycle state per plugin | discover, start, call, stop | a plugin that hangs or fails does not hold the others |
| Electron renderer, terminal UI, diff engine | view state; pure functions of text | display, paging, alignment | positions map to the lines they were taken from |
| Forge clients, MCP server, configuration, scanner, artifact contract, packaging | none that changes | | |

How they interact. The submission service calls the store (every call a
transaction in a worker thread) and the write services, which call a forge
client through the response cache and the HTTP layer; the store calls the lock
files. The session owns them all, and the sidecar server, the terminal UI and the
MCP server own a session each. The server runs a task per request, an event pump
and a reader on one event loop; they share the connection by a writer lock. Main
process and sidecar exchange JSON lines: requests and cancellations one way,
responses and numbered events the other. Between processes there is only the
disk: database transactions, lock files, and the installer's documents.

What is hard: a process that dies between telling the forge and recording the
answer; two windows working on one draft; a lock file that is deleted while
somebody opens it; a read that began before a write and ends after it;
cancellation at any await; a service that dies while it is being replaced;
shutdown racing with all of that. `PROJECT.json` lists these hazards at their
lines, with the properties that guard them.

## 2. The modules and the code

```
OwnershipLock  <--implements--  AttemptLock  <-- MCAttemptLock, AttemptLockProofs
      :  (the meaning of `owner`)
DraftStore  <-- MCDraftStore, DraftStoreProofs
      ^ EXTENDS
ReviewSubmission  <-- MCReviewSubmission, ReviewSubmissionProofs (with DraftStoreProofs)

CachedReads
      ^ EXTENDS, and implemented by
WriteServices  <-- MCWriteServices, WriteServicesProofs (with the theorems of CachedReads)

ForgeTransport  <--EXTENDS--  ForgeRegistry  <--EXTENDS--  ApplicationSession
      (MCApplicationSession, ApplicationSessionProofs)

EventBuffer  <--EXTENDS--  SidecarServer     <-- MCSidecarServer, SidecarServerProofs
             <--EXTENDS--  SidecarTransport  <-- MCSidecarTransport, SidecarTransportProofs

ActivationPointer  <--implements--  DesktopActivation
      (MCDesktopActivation, DesktopActivationProofs)
```

**OwnershipLock** is what the store is promised: one attempt, at most one owner,
taken only while free, given up by the owner or by its death.

**AttemptLock** is `_locks.py` on POSIX, one action per system call: `OpenLockFile`
(`open`, with `O_CREAT`), `Flock` (non-blocking), `ClaimFstat` and `ClaimLstat` (is the
descriptor still the file at the path?), `ClaimStale` (close and try again, a
bounded number of times), `ReleaseFstat`, `ReleaseLstat`, `Unlink`, `Unlock`.
`RemoveStale` and `Probe` run the same protocol and release at once. `Crash` may
happen at any point: the kernel closes the descriptor, the file stays. Inode
numbers are used again once nothing refers to them. Windows, where the file is
never deleted, is left out.

**DraftStore** has one action per public operation, because the code runs each in
one `BEGIN IMMEDIATE` transaction; a refused or failed one is rolled back and is a
stuttering step, but for `mark_attempt_unknown`, which gives up ownership even when
its write fails (`MarkUnknownFails`). `draft` and `attempt` are the tables (journal,
receipts and unknown steps are fields of the attempt), `owner` is who holds the
lock of an attempt, `mode` and `todo` are where a process is in its start-up.
Recovery is not one transaction: `ListIncomplete` lists, then each attempt is
visited on its own (`RecoverSkip`, `RecoverUnknown`, `RecoverUnreadable`,
`RecoverFails`) while other processes go on. `Damage` makes a row unreadable. Pruning
is part of the actions that prune. Here the caller is the most general one: any
process calls anything at any time.

**ReviewSubmission** puts the service on top of it. A call is a record in `task`
with a program point per await; `Start`, `Call` begin one, `Progress` advances it,
`Exit` kills the process with all its calls, `StartUp` recovers. The plan of steps
is computed from the frozen content as the code does for the two kinds of forge
(`PlanOf`), with `Units` saying what each step puts on the forge. A plan is a set:
its order is the same in every plan that has two steps in common, so `Position`
gives it once and `First` takes the next step. `LockFree` is the asyncio lock of an
attempt, which a call has from the read of the attempt to its end. `Answer` is the
forge: confirmed, refused for certain, unknown, or an exception. `inDoubt`,
`confirmed`, `sentOps` and `marked` record what was sent and what the user was asked
to decide. No action reads them; the properties do.

**CachedReads** is `cached_client.py` over `store.py` for one repository. Content is
the set of writes it shows, so "older" is "subset". `Miss`, `BeginRead`,
`ForgeServes`, `Store`, `EndRead` are a read between its awaits; `Mark` gives the
prefixes of a scope a new generation; `Wrote` (a successful mutation) starts the
background `drain` of its scope, `Invalidate` runs the same in the task of somebody
who waits. `Pruned` forgets the marks older than the oldest read in flight. Reads,
writers and deletion tasks are most general here: `ReadsSpec` is both the model and
the specification that the next module implements.

**WriteServices** puts the three services over it. They differ in what follows an
answer and share the ledger: `Reserve` takes, joins or refuses an operation id,
`Released`, `Retained`, `Completed`, `Failed` are the methods of the entry. `ForgeApplies`
may happen after the call has given up. CI actions invalidate the lists before
anybody gets the receipt (`HintStarts`, `HintEnds`), comments and reviews refresh
after an uncertain outcome (`RefreshStarts`, `RefreshEnds`), merge and close do
nothing then. `Close` is the two phases of each service's close, in the session's
order. `scenario` is chosen once and says what happens together in a behaviour, so
that the run is a union of small instances.

**ForgeTransport** is a request to one host: slot, rejected token and its shared
refresh, one retry after a rate limit, redirects, cancellation. **ForgeRegistry** adds
the shared token look-up, the remembered refusal and `close_all`.
**ApplicationSession** adds `start`, `close` with its one close task, and
`_get_client`, which looks at the session before and after. `tasks` are the close
tasks in the order they were made, of which only the last can run; a closer and a
cancelled start remember which one they wait for. Write services appear
as one step that waits for the writes still in them or gives up.

**EventBuffer** is `_EventBuffer`, the pump, and the branch of `consumeFrame` in
`sidecar.ts` that numbers events. What an event says is a version of what its
replaceable key names, so that "the client knows of the change" is `known[k] =
latest[k]`. Whether an event fits the frame or the negotiated budget is a choice.

**SidecarServer** is `DesktopSidecarServer` on the same connection. `loop` is `run()`:
it reads a frame, writes a response, or is in `_shutdown`. `task[r]` is the
`_serve` task of a request, and `pending` the table of slots. A cancellation is
requested in one step (`cancel`) and delivered where the task runs next. That is
how asyncio does it, and a task cancelled before its first step ends without
entering its body (`Begin`). `writer` is the writer lock; a write takes it
(`Writes`), drains (`WriteDrained`), or fails by timeout or a broken connection. An
operation may also hang and ignore its cancellation (`hung`). Taking a free writer
lock does not suspend a task in the code; in the model the task may be
interrupted there, which adds behaviours and removes none.

**SidecarTransport** is the other end: `SidecarTransport` of `sidecar.ts`
(`start`, `startOnce`, `stop`, `stopSession`, `restart`, requests and their timers,
`failConnection`, `onExit`), the recovery coordinator and policy of
`renderer_lifecycle.ts`, and how `index.ts` wires them. `starting` and `stop` are
where the two promises are, `desk` is everything above the transport. JavaScript
runs to completion: while a promise is settled whose continuation has not run
(`Settling`), no outside event comes. A new child gets a new, empty event buffer.

**ActivationPointer** is what a launch is promised: the pointer to the active version
moves in one step, only to a version that is whole, and no command takes away the
version it points at. **DesktopActivation** is `activation.py`, `menu.py` and
`commands.py`: one command holds the file lock (`cmd`), and each of its effects on
disk is a step that may fail before or after taking effect (`Outcome`), with `Kill`
between any two. `Tamper` and `EditMenu` are somebody else's changes. The list of
versions to clean up is a set here: each is removed on its own and in any order.

Definitions that begin with "Mutant of" or "A mutant" in their comment are wrong
variants of the one below. No specification uses them; they are there to show
that a property can fail.

## 3. What the runs check

| run | configuration | checks |
|---|---|---|
| `attempt_lock` | `MCAttemptLock.cfg` | `SingleOwner`, `OwnerKeepsFile`, `UnlinksOwnFile` (a process unlinks the path only while it names its own locked file), and `ImplementsOwnership`: every step is a step of OwnershipLock or leaves the owner alone |
| `draft_store` | `MCDraftStore.cfg` | `Agreement` of the two tables; `FrozenContent`; `VersionGuardsContent` (content changes only with a new version, so an editor that loaded an older one is refused); `EvidenceKept` (receipts and markers stay as long as the row does, and the row goes with its draft, or alone where it has no receipt and no marker that nobody decided about: `Undoable`) |
| `submission` | `MCReviewSubmission.cfg` | one process with two attempts and a verdict, and two processes on one attempt: `SubmittedIsConfirmed`, `SendIsJournaled`, `OneSender`, `DoubtIsRecorded`, `ReturnsRemainder`, `ConfirmedSentOnce`, `NoBlindReplay`, `OperationIdsFresh`, `CancelsNeverDispatched` (an attempt taken from a draft that stays has left no trace), `LeavesItRecoverable` (a call that ends leaves a journal entry only where recovery looks) |
| `writes` | `MCWriteServices.cfg` | repeated, shared, cancelled, refused, lost and closed calls beside readers and a refresh: `SentOnce`, `SameAnswer`, `NobodyForgotten`, `ReadYourWrites`, `CacheIsCurrent` |
| `session` | `MCApplicationSession.cfg` | two callers on one slot while tokens expire and requests fail; two callers that meet start and two closes: `SlotsAccounted`, `ActsOnce`, `WritesLandFirst`, `NothingLeftOpen`, and under fairness `EveryCallReturns` |
| `sidecar` | `MCSidecarServer.cfg` | a read and a mutation, with cancellation, blocked and broken writes, the pump and shutdown: `AnsweredOnce`, and under fairness `SlotsFreed` and `Closes` |
| `transport` | `MCSidecarTransport.cfg` | crashes, bad frames, failed handshakes, children that do not exit, reloads, quitting, and events that overflow and coalesce: `OneService`, `SessionIsLive`, `ReloadedIsCovered` (no change is lost silently in the session the document was loaded in), `Contiguous` (numbers on their way have no gap in front of which no marker comes), and under fairness `LossIsHandled` |
| `activation` | `MCDesktopActivation.cfg` | every command from two environments, failing or killed at any effect: `NothingOrphaned`, `JournalIsCurrent`, `Delivers`, and `ImplementsPointer` |
| `verdict_resent` | `MCReviewVerdict.cfg` | violated: `VerdictSentOnce` |
| `stale_return` | `MCReviewStale.cfg` | violated: `ReturnsRemainder`, with two processes |
| `cancel_unanswered` | `MCSidecarCancel.cfg` | violated: `CancelIsAnswered` |
| `silent_stale` | `MCSidecarPump.cfg` | violated: `ChangesAreTold` |

Every property of a passing run has a mutant in `PROJECT.json`: a definition of the
model replaced by a plausible slip of the code, under which the same run finds the
property violated. The type invariants and `OwnedIsActive` are
proved, for every instance (section 7); the runs spend their time on the rest.

Deadlock is checked in `attempt_lock`, `draft_store` and `submission`: a process can
always go on. The other runs really may stop: a closed server, an application that
was quit, calls that have ended, no command after the last generation.

`ReturnsRemainder` holds in `submission` and fails in `stale_return`. The first
shows that within one process the asyncio lock makes the computation of the
remainder sound, which is also proved for every instance; the second that this lock
does not reach another process.

## 4. Disagreements and observations

Found violated by a run:

* **A confirmed verdict comes back** (`verdict_resent`, `store.py:1733`). When an
  attempt returns to editing, `editable_remainder` leaves a confirmed verdict out, and
  `reconcile_attempt` fills it in again from the frozen snapshot. The next submission
  sends it a second time, although `reconciliation.py:25` says "Remove only confirmed
  content" and `docs/desktop/reviewing.md:171` "Confirmed steps are never replayed
  automatically".
* **A remainder computed from an old read** (`stale_return`, `review_submission.py:235`).
  Between the read of the attempt and the write of the remainder another process may
  retry and confirm a step and leave the attempt unknown again. The confirmed
  comment then comes back for editing.
* **A cancelled read that is never answered** (`cancel_unanswered`, `server.py:806`). A
  cancel frame read together with its request cancels a task that has not started:
  neither the answer nor the release of the slot in `_serve` runs. The id stays
  refused as a duplicate, and one of the 64 slots is lost, until shutdown.
* **Silent stale window** (`silent_stale`, `server.py:1777`). The pump ends when one event
  cannot be written in time. The connection may recover and requests are served
  again, but no event is sent any more and nobody is told.

Met while modelling; the properties are stated around them where they say so:

* *Drafts.* `cancel_submission` raises "only a never-dispatched submission attempt can
  be cancelled" (`store.py:1237`), but asks only that the attempt is submitting, without
  receipt and without journal entry (`store.py:1231`). A step is journaled, the process
  dies, recovery marks the step unknown, the user decides to retry: now the attempt is
  submitting again with its marker, and the store cancels it, marker included.
  `CancelsNeverDispatched` says what the message says; it is false of DraftStore, whose
  callers are the most general ones (TLC finds those nine states when `MCDraftStore`
  checks it), and `EvidenceKept` states the exception (`Undoable`). The service asks
  for no unknown outcome and no earlier decision either (`_return_paused_to_editing`,
  `review_submission.py:759`) and never gets there: `CancelsNeverDispatched` is checked in
  `submission` and proved.
* *Submission.* Every write that follows an answer is protected from the cancellation
  of its call but one: where the forge reports that the outcome is unknown,
  `mark_attempt_unknown` is called directly (`review_submission.py:593`). Cancelled while
  it waits for the store, it neither writes nor gives up ownership: the attempt stays
  owned with its journal entry until somebody resumes or returns it or the process
  ends, and recovery passes over it. `MarkUnknown` models it; `LeavesItRecoverable` does
  not speak of that place. A start that is cancelled after its lock was written undoes
  it outside the attempt's asyncio lock. No other call of the process comes between
  (`LockFree`), because the store serves a process first come, first served; the code
  does not say that it relies on this.
* *Cache.* Two quick mutations of different reviews: the drain of the second takes
  the newest generation of its scope, takes back the mark of the list and not that
  of the first review, and stops; that review stays uncached until its next
  mutation. An uncertain merge or close invalidates nothing. A page other than the
  first deletes stored first pages without a mark, so a first-page read in flight
  can store an older one.
* *Session.* A look-up of another host that ends during close closes the clients of
  writes the services still work on, although `session.py:413` says that the registry
  stays open for them. A caller that is cancelled while it waits for the lock around
  its late client leaves it unclosed, although `session.py:1206` says that it cannot leak
  (`abandoned` marks the case for `NothingLeftOpen`). With three overlapping calls of
  close, a final one may join another's retry that is not final and return with the
  session still closing.
* *Main process.* A request that is sent while a stop waits for its reply is not
  rejected when the child exits; it waits for its timer, although
  `docs/work/desktop-production.md:259` says that shutdown rejects pending calls
  (`late` marks it for `SessionIsLive`). A stop called while a start still reaps an
  unkilled child does not keep that start from spawning another when the child
  exits: `closeRequested` is not looked at again (`sidecar.ts:412`). A handshake that
  fails counts as a deliberate stop, so a failed reload stays stopped and is not
  reported; a test expects that.
* *Installer.* A kill between `install_user_menu` and `write_state` of a first install,
  then `uninstall`: version and journal are removed, the menu entry stays, and later
  installs refuse to replace it, although `docs/reference/desktop-lifecycle.md:36` says
  that uninstall removes its own menu entry. The same after an update makes
  `remove_user_menu` refuse from then on.

## 5. Bounds

| run | instance | why it is enough |
|---|---|---|
| `attempt_lock` | 3 processes, 4 inodes, 2 tries | three processes are an owner, one that deletes and one that opens; each has at most one file open and one more can be linked, so a fifth inode is never needed; a second try is the first repetition |
| `draft_store` | 2 processes, 1 draft, 2 attempts, 1 step, 4 versions, 1 retry, 1 reconciliation | one draft suffices, since no operation relates two; two attempts are needed for "the latest attempt"; four versions are a creation, an edit and two submissions; items are left to the next module, the verdict stands for content |
| `submission` | the union of two instances (`Instances`): one process at a time, 2 attempts, no retry; and 2 processes, 2 calls, 1 attempt, 1 retry, 1 reconciliation, without a verdict. A comment and a body, both kinds of forge | two attempts in a row are what it takes to send a thing again; the interesting interleavings of processes are of two calls on one attempt. 761,802 states; the calls of one process are not bounded |
| `writes` | 3 calls, 2 operation ids, 1 review, 2 readers, 1 refresh, ledgers of 1 or 2; ten scenarios of which each behaviour has one | an owner, a call that repeats its id and one of another id, with every combination of services that share something; reads are beside one write or two, as the cache takes nothing else from the services. About 686,000 states |
| `session` | 2 callers (one writes), 1 slot, 2 closers (one final); `traffic` without start and close, `closing` without token and rate limits | the two halves meet only in whether a request is under way, which both have. 80,756 states |
| `sidecar` | 2 requests (one a mutation), 3 frames after the handshake, 1 event | a request, its cancellation and a third frame that competes for the writer; the writer has all three kinds of holder |
| `transport` | 1 request and that for the assets, 1 automatic restart, 3 faults (reloads among them); 2 keys with 2 versions, buffer of 2; where something goes wrong, 1 change | three faults are a loss, another in its recovery and a child that does not exit; overflow, replacement in place and events behind a marker occur without faults. 549,961 states |
| `activation` | 4 versions, 2 environments, 8 generations, symmetric | active, previous, one to clean up and a new one; eight generations are an install and two updates or repairs with recoveries in between. 301,269 states |

`MaxVersion`, `MaxRetry`, `MaxRecons`, `MaxSequence`, `MaxFrames`, `MaxFaults` and
`MaxGeneration` cut off counters that have no limit in the code. `AcquireTries`,
`MaxQueued`, `MaxPending`, `MaxParallel` and `MaxRestarts` are constants of the code with
smaller values. A token expires once and a call is redirected once. Symmetry is
used for processes, attempts, calls, inodes, readers, versions and environments,
never in a run with a liveness property.

## 6. Fairness

AttemptLock, DraftStore, ReviewSubmission, CachedReads, WriteServices and
DesktopActivation state safety only and assume no fairness: processes may stop
anywhere.

* *SidecarServer*: weak fairness of the reader's steps, of each task's steps and of
  the pump's steps. The asyncio event loop runs every ready callback in the order it
  became ready, and every wait in these tasks (writer lock, drain, shutdown) has a
  timeout, so a step that stays possible is taken. None for the client, the session's
  changes, or an operation that hangs.
* *ApplicationSession*: weak fairness of each request (the HTTP client has timeouts),
  of the look-up (see below), of start, of the close task (each of its steps has a timeout) and
  of who waits for it; strong fairness of a caller that waits for a slot, the token's
  lock or the client lock, since asyncio's semaphore and lock serve their waiters
  first come, first served. None for callers, closers and cancellations. Fairness of the
  look-up assumes that it ends. It asks the forge's command-line tool (with a timeout),
  the netrc file and the keyring in a worker thread; the last (`forges/auth.py:151-163`) has no
  time limit, and a keyring that waits for the user to unlock it holds every caller
  of that host for as long. `EveryCallReturns` is a statement about keyrings that answer.
* *SidecarTransport*: weak fairness of continuations, of the end of a handshake, of
  request timers, of the reply to a stop, of loading a document, and of "a child told
  to end exits, or is given up": all have timers. None for faults, reloads and quitting.

## 7. What is proved

Every invariant that a passing run checks, every action property and every
refinement is a theorem, for every value of the constants that the assumptions
named in the modules allow: any number of processes, drafts, attempts, calls, keys,
requests, versions, and any bound of the counters. Two action properties of
ReviewSubmission have a condition (below). The assumptions say that the constants are
of the right kind and apart from each other (`None` is no request, no event, no
payload), that limits are numbers, and that the callers of the session are finitely
many, since its slots are counted. A run evaluates each of them.

`AttemptLockProofs`: `SingleOwnerAlways`, `OwnerKeepsFileAlways`, `UnlinksOwnFileAlways`,
and `Refinement`, that AttemptLock implements OwnershipLock. `SingleOwner` is not
inductive: it says nothing of a process that has `flock` and has not yet looked at
the path. The invariant is `TypeOK /\ FlockInv /\ LinkInv`. `FlockInv`: whoever is at a
point where it believes to hold the lock has a file open and holds `flock` on it.
`LinkInv`: once the check against the path has succeeded, the path stays linked to
that very file. Two owners would then hold `flock` on one inode. The step that needs
care is `Unlink`: a process that deletes the path has itself a verified file there, so
no other process has one.

`DraftStoreProofs`: `TypeCorrect`, `AgreementAlways`, `FrozenContentAlways`,
`OwnedIsActiveAlways`. `StoreInv` is the conjunction of the four, since a draft and its
active attempt move together and each clause needs the others. There is one lemma
for each group of operations (life cycle, editing, submission, decisions) and two
about the tables: deleting a draft with its attempts, and moving a draft and its
attempt at once, keep them consistent. From `StoreInv` follow the two action
properties `EvidenceKeptAlways` and `VersionGuardsContentAlways`, and `SubmittedIsPrunable`,
that the last attempt of a submitted draft is the submitted one, so that pruning
gets to it. `EvidenceKeptAlways` needs one more invariant, `Decided`: an attempt in
progress that has a marker has gone through a decision. What a step can do to one row is stated once for all operations
(`RowStep`, `ActiveFrom`, `PrunedOrSame`), which the next module cites.

`ReviewSubmissionProofs` rests on `UsesTheStore`: every step of the service is a step of
the store or leaves it alone, so `StoreInv` holds here too. `SubmissionInv` adds

* what calls are (`CallOK`), and that two of one process are not in one attempt
  (`Exclusive`);
* `OnPlan`: a call that advances owns its attempt, has exactly those steps left that
  have no receipt, and while it sends, the journal entry is its own. Ownership
  excludes the calls of other processes, `Exclusive` those of its own, so nobody
  changes the row under it;
* `RowOnPlan`, `DoubtOK`, `Clear`: what may be on the forge without an answer belongs to
  the attempt its draft is locked by, which has it in the journal or on record; a
  call that is about to send has an attempt without either;
* `ConfirmedOK`, `SubmittedOK`: receipts and what is confirmed agree;
* `IdsOK`, `FreshOK`: the counters of an attempt only grow, and no id made of their
  present values was sent for a step that is left.

They give `SendIsJournaledAlways`, `OneSenderAlways`, `DoubtIsRecordedAlways`,
`SubmittedIsConfirmedAlways`, and the action properties `NoBlindReplayAlways` and
`OperationIdsFreshAlways`: a write of unknown outcome is not replayed, whatever
crashes, recovers or runs beside it. About how calls end: `EndsWell` says that a call
at a point from which it returns owns its attempt, and that one about to cancel has
found no marker. Those points are reached from many places, and the row is kept for
them by ownership. It gives `CancelsNeverDispatchedAlways` and
`LeavesItRecoverableAlways`. `ConfirmedNotSentAgain` says that within an attempt
nothing is sent twice.

Across attempts that is true only while one process at a time has the database open,
as `stale_return` shows. `ReturnsRemainderAlone` and `ConfirmedSentOnceAlone` prove
`ReturnsRemainder` and `ConfirmedSentOnce` from `[]OneOpen`, for any number of processes
one after another and any crashes between. `RemainderInv` is the reason: a call that
is about to write a decision has seen the receipts there are (`SeenOK`); what is
confirmed of a locked draft has a receipt in its attempt (`Exact`), and nothing in a
draft that is being edited is confirmed (`Clean`). The last two need each other: what
is locked was edited before, and what is edited may have been locked.

`WriteServicesProofs`, about the cache: `ReadsTypeCorrect` and `CacheIsCurrentAlways`.
`CacheIsCurrent` says nothing of reads that will store nor of tasks that will take a
mark back. `ReadsInv` adds that a result about to be stored is current or covered by a
mark newer than its read (`GotIsCurrent`), which pruning keeps, and that an old entry
is below a mark that no task is about to take back (`OldIsMarked`). About the ledger:
`SentOnceAlways`, `SameAnswerAlways`, `NobodyForgottenAlways`. `LedgerInv` says for each
place a call can be at what its entry and its request are (`Stage`); that a call that
was sent, or has a result, owns its operation id (`Retains`), so that two senders of
one id would be one; and that the owner of an id, and whoever is waited for, has left
a result or still works for one (`Bound`, `WaitsWell`). Both together:
`ImplementsReads`, that WriteServices implements `ReadsSpec`, and from it
`WritesCacheIsCurrent`: no theorem about the cache has to be proved again. With the
ledger it gives `ReadYourWritesAlways`: a receipt becomes known only after the forge
has made the change, and tells the reader so only after the keys were invalidated
(`Told`), so the change is in what is promised, which the cache never falls behind.

`ApplicationSessionProofs`: `SessionTypeCorrect`, `SlotsAccountedAlways`, `ActsOnceAlways`,
`WritesLandFirstAlways`, `NothingLeftOpenAlways`. `Requests` is inductive for the HTTP layer
alone: the slots that are not free are as many as there are requests in flight, and
what is sent again has not acted yet. `Course` follows the close tasks: only the last
can run, one that ended well or was final has closed the session, and the task has
made sure at each of its steps of what `NothingLeftOpen` claims at the end
(`ResultOK`). `Clients` counts the open clients: the one in the registry, and the one
the holder of the client lock is closing.

`SidecarServerProofs`: `AnsweredOnceAlways` and `PendingIsLimited` (the table of requests
never exceeds the limit, and no slot is given away while its task runs). Answers are
bounded by frames only if those still to come are counted: a task owes a response
until it has written it, the loop the one it is writing (`Owed`).

`SidecarTransportProofs`: `TransportTypeCorrect`, `OneServiceAlways`, `SessionIsLiveAlways`,
`ContiguousAlways`, `ReloadedIsCoveredAlways`. `ChildInv`: the process that runs is the child
of the session. `Session` says where starting, stopping and recovery can be at the
same time, which is what makes the status and the pending requests belong to that
child. `Buffer`: one event of a key, with the latest version, consecutive numbers, and
what the pump has taken is overtaken only by what is in the buffer. `Documented` joins
them: a new child comes with an empty buffer, and a document is loaded in the
session its numbers belong to.

`DesktopActivationProofs`: `TypeCorrect`, `NothingOrphanedAlways`, `JournalIsCurrentAlways`,
`DeliversAlways`, and `PointerImplemented`, that DesktopActivation implements
ActivationPointer. `Books` is about the documents alone and holds whichever step a
kill comes after: besides what is checked, that a journal that waits names a version
the state does not know (`JournalOK`), and that a retired installation remembers its
menu entry until that is gone (`MarkOK`). `Course` says what the checks and effects of a
command guarantee at the step it has reached; the file lock keeps it true.

Only model-checked: the liveness properties (`EveryCallReturns`, `SlotsFreed`, `Closes`,
`LossIsHandled`), which are out of the prover's reach together with ENABLED; and
`ReturnsRemainder` and `ConfirmedSentOnce` where two processes have the database open at
once. There they hold in `submission` because the violation takes two
reconciliations of an attempt, and fail with two of them (`stale_return`). The
properties of the runs that expect a violation have no theorem.

## 8. What is not modelled

* Windows locking, file permissions and directory creation of the lock files.
* Contents: texts, positions, identities of forges and reviews. A comment is an item,
  a plan a set of step ids, an event a version, cached content a set of writes.
* SQLite itself: a transaction is atomic and durable; statements of the cache take
  effect in the order they are queued.
* Cache and write services: closing the cached client, its limit of 64 background
  invalidations, entries that never change, times to live as numbers (an entry may be
  gone any time), what a command validates before it is sent, receipt look-ups.
* Session and HTTP: more than one host, more than one start, cancelled closers, issued
  references, paging, streamed and bounded bodies, host detection.
* Sidecar: what operations compute, snapshots released by a cancellation, plugin start
  and stop inside handshake and shutdown, and JSON limits as numbers.
* Main process: frames of a replaced child (they are ignored by a check of the child),
  the limit of 64 pending requests, cancel frames; the waits for SIGTERM and SIGKILL
  are one step that gives up; the IPC handlers that translate between renderer and
  transport.
* Installer: release discovery, download, verification, extraction, the watermark
  and the downgrade guard, the launcher. A version always declares an icon; sweeping
  and discarding a stage succeed; a failed check of the environment does nothing.
* Request handlers, forge clients, artifact contract, configuration, MCP server,
  scanner, terminal UI and packaging: translation, input and output, or display, with
  no state of their own that several actors change.
* Handles and snapshots, plugins, editor exports, renderer and diff engine: see the
  plan.

## 9. Plan

Done: locks, drafts, submission, response cache, write services, session with registry
and HTTP layer, sidecar server, main process, installer. What is left, in order:

1. Handles and snapshots (`desktop/protocol/state.py`): eviction in LRU order against a
   client that still pages; the invariant that a page belongs to the snapshot asked
   for, with its proof.
2. Plugins (`plugins/desktop_registry.py`): stop with a timeout against a start that
   returns late.
3. Pure algorithms: alignment and position mapping of the diff engine against a
   reference definition over bounded inputs.
4. An abstract specification of what a submission promises (a unit is put on the
   forge once, or a user has decided), implemented by ReviewSubmission.
