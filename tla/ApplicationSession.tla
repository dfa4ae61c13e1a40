--------------------------- MODULE ApplicationSession ---------------------------
(***************************************************************************)
(* The application session (tongs/services/session.py): start opens the    *)
(* cache and the draft store and makes the registry; callers get a client  *)
(* and make a request each; close settles the write services and closes    *)
(* what start opened, once, in a task of its own that every close, and a   *)
(* failed start, waits for.                                                *)
(*                                                                         *)
(* A step is the code between two awaits.  Every wait of the close task is *)
(* bounded by a timeout: a step that closes something may also give it up. *)
(***************************************************************************)
EXTENDS ForgeRegistry, Sequences

CONSTANTS Closer,   \* calls of close
          Final     \* those with final

ASSUME SessionAssumption == Final \subseteq Closer

VARIABLES state,      \* _SessionState
          requested,  \* _close_requested
          starter,    \* the call of start
          cache,      \* the response cache: unopened, open, closed
          store,      \* the draft store
          clientLock, \* who holds _client_lock
          attempted,  \* _registry_close_attempted
          registryOk, \* FALSE once _registry_close_failure is set
          tasks,      \* the close tasks so far: is it final, how did it end
          task,       \* where the last one is
          closer,     \* of each call of close
          abandoned   \* a late caller was cancelled before it had closed its client

sessionVars == <<state, requested, starter, cache, store, clientLock, attempted,
                 registryOk, tasks, task, closer, abandoned>>
vars == <<transportVars, registryVars, sessionVars>>

NoTask == [at |-> "none", failed |-> FALSE]

Last == tasks[Len(tasks)]
Ended(n) == tasks[n].result # "running"

Init ==
  /\ TransportInit /\ RegistryInit
  /\ state = IF scenario.closes THEN "new" ELSE "started"
  /\ requested = FALSE
  /\ starter = [at |-> IF scenario.closes THEN "idle" ELSE "started", cancelled |-> FALSE, on |-> 0]
  /\ cache = IF scenario.closes THEN "unopened" ELSE "open"
  /\ store = cache
  /\ clientLock = None /\ attempted = FALSE /\ registryOk = TRUE
  /\ tasks = << >> /\ task = NoTask
  /\ closer = [k \in Closer |-> [at |-> "idle", on |-> 0, waits |-> 0]]
  /\ abandoned = FALSE

Starting == starter.at \in {"cache", "store"}

(***************************************************************************)
(* _ensure_close_task: the running task, or a new one when there was none  *)
(* or the last one has left the session closing.                           *)
(***************************************************************************)
NeedsTask == tasks = << >> \/ (Ended(Len(tasks)) /\ state = "closing")

EnsureTask(final) ==
  IF NeedsTask
  THEN /\ requested' = TRUE /\ task' = [NoTask EXCEPT !.at = "settle"]
       /\ tasks' = Append(tasks, [final |-> final, result |-> "running"])
  ELSE UNCHANGED <<requested, tasks, task>>

(***************************************************************************)
(* start                                                                   *)
(***************************************************************************)
StartUnchanged == UNCHANGED <<transportVars, registryVars, clientLock, attempted, registryOk,
                              closer, abandoned>>

Start ==
  /\ starter.at = "idle"
  /\ IF requested THEN starter' = [starter EXCEPT !.at = "ended"] /\ UNCHANGED state
     ELSE starter' = [starter EXCEPT !.at = "cache"] /\ state' = "starting"
  /\ StartUnchanged /\ UNCHANGED <<requested, cache, store, tasks, task>>

\* _cleanup_after_failed_start, once _startup_settled is set.
CleansUp == EnsureTask(FALSE) /\ starter' = [starter EXCEPT !.at = "cleanup", !.on = Len(tasks')]

Opens ==
  /\ Starting
  /\ IF starter.at = "cache" THEN cache' = "open" /\ UNCHANGED store
     ELSE store' = "open" /\ UNCHANGED cache
  /\ \/ /\ requested /\ CleansUp /\ UNCHANGED state
     \/ /\ ~requested /\ UNCHANGED <<requested, tasks, task>>
        /\ IF starter.at = "cache" THEN starter' = [starter EXCEPT !.at = "store"] /\ UNCHANGED state
           ELSE starter' = [starter EXCEPT !.at = "started"] /\ state' = "started"
  /\ StartUnchanged

\* An error, or the cancellation by close.
StartFails == /\ Starting /\ CleansUp /\ UNCHANGED <<state, cache, store>> /\ StartUnchanged

StartReturns == /\ starter.at = "cleanup" /\ Ended(starter.on)
                /\ starter' = [starter EXCEPT !.at = "ended"]
                /\ StartUnchanged
                /\ UNCHANGED <<state, requested, cache, store, tasks, task>>

(***************************************************************************)
(* close                                                                   *)
(***************************************************************************)
CloserUnchanged == UNCHANGED <<transportVars, registryVars, state, starter, cache, store,
                               clientLock, attempted, registryOk, abandoned>>

Closes(k) == /\ scenario.closes /\ closer[k].at = "idle"
             /\ EnsureTask(k \in Final)
             /\ closer' = [closer EXCEPT ![k] = [at |-> "waiting", on |-> Len(tasks'), waits |-> 1]]
             /\ CloserUnchanged

Returns(k) == /\ closer' = [closer EXCEPT ![k].at = "returned"]
              /\ UNCHANGED <<requested, tasks, task>>

\* A final close tries again when the task it waited for has left the session closing.
CloseReturns(k) ==
  /\ closer[k].at = "waiting" /\ Ended(closer[k].on)
  /\ IF /\ tasks[closer[k].on].result = "failed" /\ state = "closing"
        /\ k \in Final /\ closer[k].waits = 1
     THEN /\ EnsureTask(TRUE)
          /\ closer' = [closer EXCEPT ![k].on = Len(tasks'), ![k].waits = 2]
     ELSE Returns(k)
  /\ CloserUnchanged

(***************************************************************************)
(* _coordinate_close and _close_resources, the close task.                 *)
(***************************************************************************)
TaskUnchanged == UNCHANGED <<transportVars, requested, closer>>
Proceeds(to, failed) == task' = [task EXCEPT !.at = to, !.failed = @ \/ failed]
Ends(outcome) == tasks' = [tasks EXCEPT ![Len(tasks)].result = outcome]

CancelsStart ==
  /\ task.at = "settle" /\ Starting /\ ~starter.cancelled
  /\ starter' = [starter EXCEPT !.cancelled = TRUE]
  /\ TaskUnchanged
  /\ UNCHANGED <<registryVars, state, cache, store, clientLock, attempted, registryOk, task,
                 tasks, abandoned>>

Settles ==
  /\ task.at = "settle" /\ (Starting => starter.cancelled)
  /\ state' = "closing" /\ Proceeds("services", Starting)
  /\ TaskUnchanged
  /\ UNCHANGED <<registryVars, starter, cache, store, clientLock, attempted, registryOk, tasks,
                 abandoned>>

\* A write that its service still works on.
InService == {c \in Writing : request[c].at \notin {"none", "over"}}

ServicesUnchanged == UNCHANGED <<registryVars, state, starter, cache, store, clientLock,
                                 attempted, registryOk, abandoned>>

\* A mutant: a service that did not settle does not stop the close.
ServicesCloseAnyway ==
  /\ task.at = "services"
  /\ \E failed \in BOOLEAN : Proceeds("store", failed) /\ (InService = {} \/ failed)
  /\ UNCHANGED tasks
  /\ TaskUnchanged /\ ServicesUnchanged

\* The services cancel their owners and wait for them; when one does not settle,
\* only a final close goes on.
ServicesClose ==
  /\ task.at = "services"
  /\ \/ InService = {} /\ Proceeds("store", FALSE) /\ UNCHANGED tasks
     \/ Last.final /\ Proceeds("store", TRUE) /\ UNCHANGED tasks
     \/ ~Last.final /\ Proceeds("none", TRUE) /\ Ends("failed")
  /\ TaskUnchanged /\ ServicesUnchanged

\* What was opened is closed, or stays open with a failure.
ClosesResource(resource, failed) ==
  resource' = IF resource = "open" /\ ~failed THEN "closed" ELSE resource

StoreCloses == /\ task.at = "store"
               /\ \E failed \in BOOLEAN : ClosesResource(store, failed) /\ Proceeds("registry", failed)
               /\ TaskUnchanged
               /\ UNCHANGED <<registryVars, state, starter, cache, clientLock, attempted,
                              registryOk, tasks, abandoned>>

\* _close_registry; a registry is there when start got that far.
RegistryCloses ==
  /\ task.at = "registry"
  /\ \/ /\ \/ starter.at # "started" /\ Proceeds("cache", FALSE)
           \/ starter.at = "started" /\ clientLock # None /\ Proceeds("cache", TRUE)
           \/ clientLock = None /\ attempted /\ Proceeds("cache", ~registryOk)
        /\ UNCHANGED <<cached, takers, clientLock, attempted>>
     \/ /\ starter.at = "started" /\ clientLock = None /\ ~attempted
        /\ Proceeds("closing", FALSE)
        /\ attempted' = TRUE /\ clientLock' = Coordinator /\ Takes(Coordinator)
  /\ TaskUnchanged
  /\ UNCHANGED <<looking, failure, open, state, starter, cache, store, registryOk, tasks,
                 abandoned>>

ClientsClosed(party) ==
  /\ clientLock' = None /\ UNCHANGED cached
  /\ \/ Gives(party) /\ UNCHANGED registryOk
     \/ party \in takers /\ takers' = takers \ {party} /\ registryOk' = FALSE /\ UNCHANGED open

RegistryClosed ==
  /\ task.at = "closing" /\ ClientsClosed(Coordinator) /\ Proceeds("cache", ~registryOk')
  /\ TaskUnchanged
  /\ UNCHANGED <<looking, failure, state, starter, cache, store, attempted, tasks, abandoned>>

CacheCloses ==
  /\ task.at = "cache" /\ state' = "closed"
  /\ \E failed \in BOOLEAN :
       /\ ClosesResource(cache, failed) /\ Proceeds("none", failed)
       /\ Ends(IF task.failed \/ failed THEN "failed" ELSE "ok")
  /\ TaskUnchanged
  /\ UNCHANGED <<registryVars, starter, store, clientLock, attempted, registryOk, abandoned>>

TaskStep == \/ CancelsStart \/ Settles \/ ServicesClose \/ StoreCloses \/ RegistryCloses
            \/ RegistryClosed \/ CacheCloses

(***************************************************************************)
(* _get_client: every caller checks the session before and after.          *)
(***************************************************************************)
CallUnchanged == UNCHANGED <<state, requested, starter, cache, store, tasks, task, closer>>

Calls(c) ==
  /\ c \in scenario.callers /\ IsAt(c, "none")
  /\ IF state = "started" /\ ~requested THEN Asks(c) ELSE Over(c) /\ UNCHANGED <<looking, failure>>
  /\ UNCHANGED <<scenario, slots, token, valid, refresher, acted, cached, open, takers>>
  /\ CallUnchanged /\ UNCHANGED <<clientLock, attempted, registryOk, abandoned>>

\* A mutant: a registry that was closed once is not closed again.
LateCloseOnce(c) == IF attempted THEN UNCHANGED <<cached, takers>> ELSE Takes(c)

\* _close_late_clients
LateClose(c) == Takes(c)

\* Under _client_lock the caller sends its request, or closes what it has made late.
GetsClient(c) ==
  /\ IsAt(c, "client") /\ clientLock = None
  /\ \/ /\ ~requested /\ Sends(c, request[c])
        /\ UNCHANGED <<cached, takers, clientLock, attempted>>
     \/ /\ requested /\ Moves(c, [request[c] EXCEPT !.at = "closing"])
        /\ clientLock' = c /\ LateClose(c) /\ attempted' = TRUE
  /\ UNCHANGED <<scenario, slots, token, valid, refresher, acted, looking, failure, open,
                 registryOk, abandoned>>
  /\ CallUnchanged

LateClosed(c) == /\ IsAt(c, "closing") /\ ClientsClosed(c) /\ Over(c)
                 /\ UNCHANGED <<scenario, slots, token, valid, refresher, acted, looking, failure,
                                attempted, abandoned>>
                 /\ CallUnchanged

\* A late caller that is cancelled leaves its client; it may count as a failed close.
LateCancelled(c) ==
  /\ IsAt(c, "client") \/ IsAt(c, "closing")
  /\ Over(c) /\ takers' = takers \ {c}
  /\ clientLock' = IF clientLock = c THEN None ELSE clientLock
  /\ registryOk' \in IF IsAt(c, "closing") THEN {registryOk, FALSE} ELSE {registryOk}
  /\ abandoned' = (abandoned \/ requested)
  /\ UNCHANGED <<scenario, slots, token, valid, refresher, acted, looking, failure, cached, open,
                 attempted>>
  /\ CallUnchanged

CallStep(c) ==
  \/ RequestStep(c) /\ UNCHANGED <<registryVars, sessionVars>>
  \/ MakesClient(c) /\ UNCHANGED sessionVars
  \/ GetsClient(c) \/ LateClosed(c)

StartStep == Opens \/ StartFails \/ StartReturns

Next ==
  \/ \E c \in Caller : \/ Calls(c) \/ CallStep(c) \/ LateCancelled(c)
                       \/ Cancels(c) /\ UNCHANGED <<registryVars, sessionVars>>
  \/ LookupEnds /\ UNCHANGED sessionVars
  \/ Ages /\ UNCHANGED sessionVars
  \/ Expires /\ UNCHANGED <<registryVars, sessionVars>>
  \/ Start \/ StartStep \/ TaskStep
  \/ \E k \in Closer : Closes(k) \/ CloseReturns(k)

\* What runs goes on: the forge answers or the request times out, the tools that
\* find tokens end or are stopped, and every step of close is bounded by a timeout.
\* asyncio serves who waits for a slot or a lock in turn.
Waits(c) == request[c].at \in {"slot", "lock", "client"} /\ CallStep(c)

Fairness == /\ \A c \in Caller : WF_vars(CallStep(c)) /\ SF_vars(Waits(c))
            /\ WF_vars(LookupEnds /\ UNCHANGED sessionVars)
            /\ WF_vars(StartStep) /\ WF_vars(TaskStep)
            /\ \A k \in Closer : WF_vars(CloseReturns(k))

Spec == Init /\ [][Next]_vars /\ Fairness

(***************************************************************************)
(* Properties.                                                             *)
(***************************************************************************)
SessionTypeOK ==
  /\ TransportTypeOK /\ RegistryTypeOK /\ SlotsAccounted
  /\ state \in {"new", "starting", "started", "closing", "closed"} /\ requested \in BOOLEAN
  /\ starter \in [at : {"idle", "cache", "store", "started", "cleanup", "ended"}, cancelled : BOOLEAN,
                  on : 0 .. Len(tasks)]
  /\ cache \in {"unopened", "open", "closed"} /\ store \in {"unopened", "open", "closed"}
  /\ clientLock \in Caller \cup {Coordinator, None}
  /\ attempted \in BOOLEAN /\ registryOk \in BOOLEAN /\ abandoned \in BOOLEAN
  /\ tasks \in Seq([final : BOOLEAN, result : {"running", "failed", "ok"}])
  /\ task \in [at : {"none", "settle", "services", "store", "registry", "closing", "cache"},
               failed : BOOLEAN]
  /\ closer \in [Closer -> [at : {"idle", "waiting", "returned"}, on : 0 .. Len(tasks),
                            waits : 0 .. 2]]

\* The draft store and the cache are closed under a write that its service still
\* works on only by a final close, never by one that can be retried.
WritesLandFirst ==
  store = "closed" \/ cache = "closed" => InService = {} \/ Last.final

Quiet == \A c \in Caller : request[c].at \in {"none", "over"}

\* A close that reports no failure has left nothing open once no caller is on its way,
\* whatever start, look-ups and callers were doing when it was called; and after a
\* final close nothing waits for a retry, unless the task it joined last was another
\* call's.
NothingLeftOpen ==
  /\ state = "closed" /\ Last.result = "ok" /\ Quiet /\ registryOk /\ ~abandoned
     => cache # "open" /\ store # "open" /\ open = 0
  /\ \A k \in Final : closer[k].at = "returned" =>
       state = "closed" \/ (closer[k].waits = 2 /\ ~tasks[closer[k].on].final)

\* Every call of the session returns: requests, start and close, whoever fails, is
\* cancelled or waits for a slot, a token, a lock or the close task.
EveryCallReturns ==
  /\ \A c \in Caller : request[c].at # "none" ~> request[c].at = "over"
  /\ \A k \in Closer : closer[k].at = "waiting" ~> closer[k].at = "returned"
  /\ Starting \/ starter.at = "cleanup" ~> starter.at \in {"started", "ended"}
===============================================================================
