---------------------------- MODULE WriteServices ----------------------------
(***************************************************************************)
(* The write services of the application session and their one ledger      *)
(* policy (tongs/services/operation_ledger.py): CI actions                 *)
(* (ci_mutations.py), comments and reviews (review_mutations.py), and      *)
(* merge, close and reopen (mr_actions.py), over the response cache of     *)
(* CachedReads.  A call executes one command under an operation id.  The   *)
(* first call of an id owns it: it prepares, sends once, and its result is *)
(* kept; the calls that repeat the id wait for it.                         *)
(*                                                                         *)
(* A step is the code between two awaits.  Calls may be cancelled by their *)
(* callers at any await, the answer of the forge may be lost or late, and  *)
(* the services are closed while calls run.                                *)
(***************************************************************************)
EXTENDS CachedReads, FiniteSets

CONSTANTS Call,           \* calls of execute, one task each
          Op,             \* operation ids
          OpOf,           \* the operation id of each call
          ReviewOf,       \* the review each call is about
          User,           \* the job of a user who refreshes the list
          Scenarios,      \* bound: what happens together in one behaviour
          MaxGeneration   \* bound: the user does not refresh after it

Command == {"ci", "comment", "merge", "close"}

\* What the calls that are made ask for, how many entries a ledger holds, who
\* reads what through the cache, whether the user refreshes and the session is
\* closed.
Scenario == [command : [Call -> Command \cup {"not made"}], capacity : Nat,
             readers : SUBSET Reader, shown : SUBSET Key,
             refreshes : BOOLEAN, closes : BOOLEAN]

ASSUME WritesAssumption ==
  /\ Call \subseteq Write /\ Call \subseteq Job /\ User \in Job \ Call
  /\ OpOf \in [Call -> Op] /\ ReviewOf \in [Call -> Review]
  /\ Scenarios \subseteq Scenario
  /\ MaxGeneration \in Nat

VARIABLES scenario,  \* chosen once
          ledger,    \* of each service and operation id: the call that owns its entry
          entry,     \* of each owner: its OperationEntry
          call,      \* of each call: where it is
          request,   \* of each call: what became of its request
          service    \* of each service: open, or how far its close has come

writeVars == <<scenario, ledger, entry, call, request, service>>
vars == <<readVars, writeVars>>

Service == {"ci", "review", "action"}
ServiceOf(kind) == CASE kind = "ci" -> "ci" [] kind = "comment" -> "review"
                     [] OTHER -> "action"
At(c, step) == call[c].at = step
Kind(c) == scenario.command[c]
ServiceOfCall(c) == ServiceOf(Kind(c))
Mine(c) == service[ServiceOfCall(c)]
Owner(c) == ledger[ServiceOfCall(c)][OpOf[c]]
SameCommand(c, d) == Kind(c) = Kind(d) /\ ReviewOf[c] = ReviewOf[d]

\* What a write changes, and the prefixes the client marks when it succeeds.
Affects(c) == CASE Kind(c) = "ci" -> {List} [] Kind(c) = "merge" -> Key
                [] OTHER -> {List, ReviewOf[c]}
ScopeOf(c) == IF Kind(c) = "merge" THEN {Repo} ELSE ReviewScope(ReviewOf[c])

Outcome == {"known", "unknown", "rejected"}
NoEntry == [receipt |-> "none", resync |-> TRUE, error |-> "none", done |-> FALSE]
NoCall == [at |-> "idle", on |-> None, answer |-> "none", cancelled |-> FALSE]

Init ==
  /\ ReadsInit
  /\ scenario \in Scenarios
  /\ ledger = [s \in Service |-> [o \in Op |-> None]]
  /\ entry = [c \in Call |-> NoEntry]
  /\ call = [c \in Call |-> NoCall]
  /\ request = [c \in Call |-> "none"]
  /\ service = [s \in Service |-> "open"]

(***************************************************************************)
(* operation_ledger.py                                                     *)
(***************************************************************************)
Entries(s) == {o \in Op : ledger[s][o] # None}
Bind(c) == ledger' = [ledger EXCEPT ![ServiceOfCall(c)][OpOf[c]] = c]

\* release: nothing is kept of a command that was not sent.
Released(c) ==
  /\ ledger' = [ledger EXCEPT ![ServiceOfCall(c)][OpOf[c]] = IF @ = c THEN None ELSE @]
  /\ entry' = [entry EXCEPT ![c].error = "released", ![c].done = TRUE]

Retained(c, receipt) ==
  /\ entry' = [entry EXCEPT ![c].receipt = receipt]
  /\ UNCHANGED ledger

Completed(c, receipt, resync) ==
  /\ entry' = [entry EXCEPT ![c].receipt = receipt, ![c].resync = resync,
                            ![c].done = TRUE]
  /\ UNCHANGED ledger

\* A mutant: does not wake the calls that wait.
FailedUnfinished(c) == /\ entry' = [entry EXCEPT ![c].error = "rejected"]
                       /\ UNCHANGED ledger

Failed(c) == /\ entry' = [entry EXCEPT ![c].error = "rejected", ![c].done = TRUE]
             /\ UNCHANGED ledger

\* result: what a call that waits for the entry of c gets.
ResultOf(c) == CASE entry[c].error = "rejected" -> "rejected"
                 [] entry[c].error = "released" -> "none"
                 [] OTHER -> entry[c].receipt

(***************************************************************************)
(* execute, up to the request to the forge; the same in every service.     *)
(***************************************************************************)
\* "none" answers with an error or a cancellation that says nothing of an outcome.
Answered(c, answer) ==
  call' = [call EXCEPT ![c] = [NoCall EXCEPT !.at = "ended", !.answer = answer]]
Moved(c, step) == call' = [call EXCEPT ![c].at = step]

\* Closed, full, or an id that is bound to another command.
Refused(c) == \/ Mine(c) # "open"
              \/ Owner(c) = None /\ Cardinality(Entries(ServiceOfCall(c))) >= scenario.capacity
              \/ Owner(c) # None /\ ~SameCommand(c, Owner(c))

\* A mutant: every call runs its command.
ReserveAlways(c) ==
  /\ At(c, "idle") /\ Kind(c) # "not made" /\ Mine(c) = "open"
  /\ Cardinality(Entries(ServiceOfCall(c))) < scenario.capacity
  /\ Bind(c) /\ Moved(c, "prepare")
  /\ UNCHANGED <<readVars, scenario, entry, request, service>>

\* _reserve, under the admission lock that close takes too.
Reserve(c) ==
  /\ At(c, "idle") /\ Kind(c) # "not made"
  /\ \/ Refused(c) /\ Answered(c, "none") /\ UNCHANGED ledger
     \/ /\ ~Refused(c) /\ Owner(c) = None
        /\ Bind(c) /\ Moved(c, "prepare")
     \/ /\ ~Refused(c) /\ Owner(c) # None
        /\ call' = [call EXCEPT ![c].at = "waiting", ![c].on = Owner(c)]
        /\ UNCHANGED ledger
  /\ UNCHANGED <<readVars, scenario, entry, request, service>>

Wake(c) == /\ At(c, "waiting") /\ entry[call[c].on].done
           /\ Answered(c, ResultOf(call[c].on))
           /\ UNCHANGED <<readVars, scenario, ledger, entry, request, service>>

StopWaiting(c) == /\ At(c, "waiting") /\ Answered(c, "none")
                  /\ UNCHANGED <<readVars, scenario, ledger, entry, request, service>>

\* A mutant: a cancelled call is released although its request is on the way.
PrepareFailsLate(c) ==
  /\ At(c, "prepare") \/ At(c, "sent")
  /\ Released(c)
  /\ Answered(c, "none")
  /\ UNCHANGED <<readVars, scenario, request, service>>

\* The target has changed, a read fails, or the call is cancelled.
PrepareFails(c) ==
  /\ At(c, "prepare") /\ Released(c)
  /\ Answered(c, "none")
  /\ UNCHANGED <<readVars, scenario, request, service>>

Send(c) == /\ At(c, "prepare") /\ Moved(c, "sent")
           /\ request' = [request EXCEPT ![c] = "sent"]
           /\ UNCHANGED <<readVars, scenario, ledger, entry, service>>

(***************************************************************************)
(* The forge.  It may act after the call has given up on the answer.       *)
(***************************************************************************)
ForgeApplies(c) == /\ request[c] = "sent" /\ request' = [request EXCEPT ![c] = "applied"]
                   /\ ForgeChanges(c, Affects(c))
                   /\ UNCHANGED <<scenario, ledger, entry, call, service>>

ForgeRefuses(c) == /\ request[c] = "sent" /\ At(c, "sent") /\ request' = [request EXCEPT ![c] = "refused"]
                   /\ UNCHANGED <<readVars, scenario, ledger, entry, call, service>>

\* A known rejection is kept.
Rejected(c) == /\ At(c, "sent") /\ request[c] = "refused"
               /\ Failed(c) /\ Answered(c, "rejected")
               /\ UNCHANGED <<readVars, scenario, request, service>>

(***************************************************************************)
(* ci_mutations.py: the receipt is kept at once; a coordinator then        *)
(* invalidates the cached lists before anybody gets it.                    *)
(***************************************************************************)
\* A mutant: a closed service finishes the entry with nothing in it.
CIOutcomeEmpty(c, receipt, cancelled) ==
  IF Mine(c) = "open"
  THEN /\ Retained(c, receipt)
       /\ call' = [call EXCEPT ![c].at = "hints", ![c].cancelled = cancelled]
  ELSE /\ Completed(c, "none", TRUE)
       /\ Answered(c, IF cancelled THEN "none" ELSE receipt)

\* _finish_hints
CIOutcome(c, receipt, cancelled) ==
  IF Mine(c) = "open"
  THEN /\ Retained(c, receipt)
       /\ call' = [call EXCEPT ![c].at = "hints", ![c].cancelled = cancelled]
  ELSE /\ Completed(c, receipt, TRUE)
       /\ Answered(c, IF cancelled THEN "none" ELSE receipt)

CIAnswered(c) == /\ Kind(c) = "ci" /\ At(c, "sent") /\ request[c] = "applied"
                 /\ CIOutcome(c, "known", FALSE)
                 /\ UNCHANGED <<readVars, scenario, request, service>>

\* An uncertain error, or a cancelled call.
CIUncertain(c) == /\ Kind(c) = "ci" /\ At(c, "sent")
                  /\ \E cancelled \in BOOLEAN : CIOutcome(c, "unknown", cancelled)
                  /\ UNCHANGED <<readVars, scenario, request, service>>

HintStarts(c) == /\ At(c, "hints") /\ Invalidate(c, {List}) /\ Moved(c, "hinting")
                 /\ UNCHANGED <<scenario, ledger, entry, request, service>>

\* A mutant: the receipt promises fresh reads after a failed hint too.
HintOkAlways(c) == TRUE

\* The hint has succeeded when its invalidation ran to its end, even one that
\* leaves its marks behind.
HintOk(c) == At(c, "hinting") /\ job[c].at = "none"

\* _coordinate_hints: done, failed, timed out or, by close, cancelled.
HintEnds(c) ==
  /\ At(c, "hints") \/ At(c, "hinting")
  /\ \E cancelled \in {call[c].cancelled, call[c].cancelled \/ Mine(c) = "cancel hints"} :
       Answered(c, IF cancelled THEN "none" ELSE entry[c].receipt)
  /\ \E resync \in {~HintOk(c), TRUE} : Completed(c, entry[c].receipt, resync)
  /\ IF job[c].at = "none" THEN UNCHANGED readVars ELSE JobCancelled(c)
  /\ UNCHANGED <<scenario, request, service>>

\* A call cancelled now goes on to the end of its hints.
CancelInHints(c) == /\ At(c, "hints") \/ At(c, "hinting")
                    /\ call' = [call EXCEPT ![c].cancelled = TRUE]
                    /\ UNCHANGED <<readVars, scenario, ledger, entry, request, service>>

(***************************************************************************)
(* review_mutations.py: a result is complete at once; after an uncertain   *)
(* one the reads of the review are invalidated.                            *)
(***************************************************************************)
CommentAnswered(c) ==
  /\ Kind(c) = "comment" /\ At(c, "sent") /\ request[c] = "applied"
  /\ Wrote(ScopeOf(c)) /\ Completed(c, "known", TRUE) /\ Answered(c, "known")
  /\ UNCHANGED <<scenario, request, service>>

\* _unknown; a cancelled call gets the uncertain outcome too.
CommentUncertain(c) ==
  /\ Kind(c) = "comment" /\ At(c, "sent")
  /\ Completed(c, "unknown", TRUE)
  /\ IF Mine(c) = "open" THEN Moved(c, "refresh") ELSE Answered(c, "unknown")
  /\ UNCHANGED <<readVars, scenario, request, service>>

RefreshStarts(c) == /\ At(c, "refresh") /\ Invalidate(c, ScopeOf(c)) /\ Moved(c, "refreshing")
                    /\ UNCHANGED <<scenario, ledger, entry, request, service>>

\* Done, timed out, or cancelled with its call or by close.
RefreshEnds(c) ==
  /\ At(c, "refresh") \/ At(c, "refreshing")
  /\ \E answer \in {"unknown", "none"} : Answered(c, answer)
  /\ IF job[c].at = "none" THEN UNCHANGED readVars ELSE JobCancelled(c)
  /\ UNCHANGED <<scenario, ledger, entry, request, service>>

(***************************************************************************)
(* mr_actions.py: nothing is invalidated after an uncertain action.        *)
(***************************************************************************)
ActionAnswered(c) ==
  /\ ServiceOfCall(c) = "action" /\ At(c, "sent") /\ request[c] = "applied"
  /\ Wrote(ScopeOf(c)) /\ Completed(c, "known", TRUE)
  /\ \E answer \in {"known", "none"} : Answered(c, answer)
  /\ UNCHANGED <<scenario, request, service>>

ActionUncertain(c) ==
  /\ ServiceOfCall(c) = "action" /\ At(c, "sent")
  /\ Completed(c, "unknown", TRUE)
  /\ \E answer \in {"unknown", "none"} : Answered(c, answer)
  /\ UNCHANGED <<readVars, scenario, request, service>>

(***************************************************************************)
(* close of a service, and the user.                                       *)
(***************************************************************************)
Owning(s) == {c \in Call : ServiceOfCall(c) = s /\ call[c].at \in {"prepare", "sent"}}
Hinting(s) == {c \in Call : ServiceOfCall(c) = s
                            /\ call[c].at \in {"hints", "hinting", "refresh", "refreshing"}}

\* The session closes one service after the other.
MayClose(s) == /\ s = "ci" => service["action"] = "closed"
               /\ s = "review" => service["ci"] = "closed"

\* No new call; the owners are cancelled first, then the hints.
Close(s) ==
  /\ scenario.closes
  /\ \/ service[s] = "open" /\ MayClose(s)
        /\ service' = [service EXCEPT ![s] = "cancel owners"]
     \/ /\ service[s] = "cancel owners" /\ Owning(s) = {}
        /\ service' = [service EXCEPT ![s] = "cancel hints"]
     \/ /\ service[s] = "cancel hints" /\ Hinting(s) = {}
        /\ service' = [service EXCEPT ![s] = "closed"]
  /\ UNCHANGED <<readVars, scenario, ledger, entry, call, request>>

UserRefreshes == /\ scenario.refreshes /\ generation < MaxGeneration /\ Invalidate(User, {List})
                 /\ UNCHANGED writeVars

\* The user's refresh may be cancelled; that of a call is by its own steps.
Cached == /\ \/ Reads(scenario.readers, scenario.shown) \/ Drains \/ JobCancelled(User)
             \/ \E j \in Job : JobDeletes(j) \/ JobEnds(j)
          /\ UNCHANGED writeVars

Finish(c) == \/ Rejected(c) \/ CIAnswered(c) \/ CIUncertain(c)
             \/ CommentAnswered(c) \/ CommentUncertain(c)
             \/ ActionAnswered(c) \/ ActionUncertain(c)

Next == \/ \E c \in Call :
             \/ Reserve(c) \/ Wake(c) \/ StopWaiting(c) \/ PrepareFails(c) \/ Send(c)
             \/ ForgeApplies(c) \/ ForgeRefuses(c) \/ Finish(c)
             \/ HintStarts(c) \/ HintEnds(c) \/ CancelInHints(c)
             \/ RefreshStarts(c) \/ RefreshEnds(c)
        \/ \E s \in Service : Close(s)
        \/ UserRefreshes \/ Cached

Spec == Init /\ [][Next]_vars

(***************************************************************************)
(* Properties.                                                             *)
(***************************************************************************)
EntryType == [receipt : {"none", "known", "unknown"}, resync : BOOLEAN,
              error : {"none", "released", "rejected"}, done : BOOLEAN]

\* Of the two results of an entry at most one is there, and one of them when it
\* is done: result never finds a finished operation with no result.
EntryOK(e) ==
  /\ e.receipt = "none" \/ e.error = "none"
  /\ e.done => e.receipt # "none" \/ e.error # "none"

WritesTypeOK ==
  /\ ReadsTypeOK
  /\ scenario \in Scenarios /\ ledger \in [Service -> [Op -> Call \cup {None}]]
  /\ entry \in [Call -> EntryType] /\ \A c \in Call : EntryOK(entry[c])
  /\ call \in [Call -> [at : {"idle", "waiting", "prepare", "sent", "hints", "hinting",
                             "refresh", "refreshing", "ended"},
                       on : Call \cup {None}, answer : {"none"} \cup Outcome, cancelled : BOOLEAN]]
  /\ request \in [Call -> {"none", "sent", "applied", "refused"}]
  /\ service \in [Service -> {"open", "cancel owners", "cancel hints", "closed"}]

\* An operation id is sent at most once however often it is repeated, retried
\* after a release, cancelled or overtaken by close, and from then on the ledger
\* keeps the entry of the call that sent it.
SentOnce ==
  \A c \in Call : request[c] # "none" =>
    /\ Owner(c) = c
    /\ \A d \in Call \ {c} : OpOf[d] = OpOf[c] /\ ServiceOfCall(d) = ServiceOfCall(c)
                             => request[d] = "none"

\* All calls of one operation that get its outcome get the same one, and it is
\* the one the ledger keeps.
SameAnswer ==
  \A c \in Call : call[c].answer \in Outcome =>
    /\ Owner(c) # None /\ SameCommand(c, Owner(c)) /\ entry[Owner(c)].done
    /\ call[c].answer = ResultOf(Owner(c))

\* No call waits for an entry that nobody will finish: a call that still works on
\* it is behind every unfinished entry, also while the service is closed.
NobodyForgotten ==
  \A c \in Call : At(c, "waiting") /\ ~entry[call[c].on].done =>
    call[call[c].on].at \in {"prepare", "sent", "hints", "hinting"}

\* After a write is known to have succeeded, and the receipt of a CI action does
\* not ask for a refresh, the cache answers no read with content from before it.
ReadYourWrites ==
  \A c \in Call :
    /\ entry[c].done /\ entry[c].receipt = "known"
    /\ Kind(c) = "ci" => ~entry[c].resync
    => \A k \in Affects(c) : ~IsDirty(k) /\ cache[k] # Nothing => c \in cache[k]
===============================================================================
