---------------------------- MODULE SidecarTransport ----------------------------
(***************************************************************************)
(* The main process of the desktop application and its service process:    *)
(* SidecarTransport (desktop/src/main/sidecar.ts), which starts, stops and *)
(* replaces the child and matches answers to requests; and what index.ts   *)
(* and renderer_lifecycle.ts put on top: one recovery at a time, which     *)
(* restarts the service and loads the document anew, and the policy that   *)
(* asks for one when the service is lost.                                  *)
(*                                                                         *)
(* JavaScript runs to completion: an event of the outside comes only when  *)
(* every continuation of the last one has run (Settling).  The service is  *)
(* the event buffer of EventBuffer, a new one for every child.             *)
(***************************************************************************)
EXTENDS EventBuffer, FiniteSets

CONSTANTS Request,      \* requests of the window
          Assets,       \* the request for the catalog of assets
          MaxRestarts,  \* MAX_AUTOMATIC_RESTARTS
          MaxFaults     \* bound on what goes wrong and on reloads

ASSUME TransportAssumption == /\ Assets \notin Request
                              /\ MaxRestarts \in Nat /\ MaxFaults \in Nat

VARIABLES generation,
          alive,      \* generations whose process runs
          link,       \* the connection to the child
          starting,   \* where startOnce is
          stop,       \* where stopOnce is
          req,        \* the pending requests, in their generation
          desk,       \* recovery: coordinator, policy, quitting
          lost,       \* a crash was reported and the service has not been back since
          faults      \* how much has gone wrong

transportVars == <<generation, alive, link, starting, stop, req, desk, lost, faults>>
vars == <<eventVars, transportVars>>

Settled == [at |-> "settled", gen |-> 0, late |-> FALSE]

\* The application starts the service before there is a window.
Init ==
  /\ EventInit
  /\ generation = 1 /\ alive = {1}
  /\ link = [child |-> 1, open |-> TRUE, failed |-> FALSE, expected |-> FALSE, killed |-> FALSE,
             state |-> "stopped", notified |-> FALSE]
  /\ starting = "handshake" /\ stop = "no"
  /\ req = [r \in Request \cup {Assets} |-> [at |-> "new", gen |-> 0, late |-> FALSE]]
  /\ desk = [at |-> "starting", again |-> FALSE, policy |-> "idle", recovery |-> "idle",
             restarts |-> 0, report |-> FALSE, booted |-> FALSE, closing |-> FALSE,
             quit |-> "no", document |-> 0]
  /\ lost = FALSE /\ faults = 0

Fault == faults < MaxFaults /\ sequence <= 1 /\ faults' = faults + 1

\* A promise is settled and who awaits it has not gone on yet.
Settling == \/ desk.at \in {"restart", "start", "fetch", "drained"} \/ desk.report
            \/ stop = "ended" \/ starting \in {"reaped", "catch", "resolved", "rejected"}

Running == desk.quit # "gone"
Outside == Running /\ ~Settling

-------------------------------------------------------------------------------
(***************************************************************************)
(* Requests.                                                               *)
(***************************************************************************)
Writable == link.child # 0 /\ link.open /\ ~link.failed

\* Every pending request is rejected; the one for the assets fails its recovery,
\* or the start of the application.
Rejected == [r \in DOMAIN req |-> IF req[r].at = "pending" THEN Settled ELSE req[r]]

Gives(d) == IF d.booted THEN [d EXCEPT !.at = "failing"] ELSE [d EXCEPT !.quit = "gone"]
AssetsLost(d) == IF req[Assets].at = "pending" THEN Gives(d) ELSE d

Sent == [at |-> "pending", gen |-> generation, late |-> stop # "no"]

\* A request that finds no service outside a stop reports it once per session.
FindsNone == link.expected \/ link.notified \/ desk.closing
NotRunning(d) == /\ link' = [link EXCEPT !.notified = @ \/ ~FindsNone]
                 /\ desk' = [d EXCEPT !.report = @ \/ ~FindsNone]

Asks(r) ==
  /\ Outside /\ desk.booted /\ desk.quit = "no" /\ req[r].at = "new"
  /\ IF Writable THEN req' = [req EXCEPT ![r] = Sent] /\ UNCHANGED <<link, desk>>
                 ELSE req' = [req EXCEPT ![r] = Settled] /\ NotRunning(desk)
  /\ UNCHANGED <<generation, alive, starting, stop, lost, faults, eventVars>>

\* The service reads no frame behind the one that told it to shut down.
Answers(r) ==
  /\ Outside /\ Writable /\ req[r].at = "pending" /\ req[r].gen = link.child /\ ~req[r].late
  /\ stop = "no"
  /\ req' = [req EXCEPT ![r] = Settled]
  /\ desk' = IF r # Assets THEN desk
             ELSE IF desk.booted THEN [desk EXCEPT !.at = "loading"]
             ELSE [desk EXCEPT !.booted = TRUE, !.at = "idle", !.document = generation]
  /\ known' = IF r = Assets /\ ~desk.booted THEN latest ELSE known
  /\ UNCHANGED <<generation, alive, link, starting, stop, lost, faults>>
  /\ UNCHANGED <<queue, sequence, closed, pump, hand, latest, last>>

\* Its timer runs out, or it is refused.
TimesOut(r) ==
  /\ Outside /\ req[r].at = "pending"
  /\ req' = [req EXCEPT ![r] = Settled]
  /\ desk' = IF r = Assets THEN Gives(desk) ELSE desk
  /\ UNCHANGED <<generation, alive, link, starting, stop, lost, faults, eventVars>>

(***************************************************************************)
(* The connection fails; the child exits.                                  *)
(***************************************************************************)
\* A handshake that waits is rejected with the rest.
Unstarted == IF starting = "handshake" THEN "catch" ELSE starting

Crashes == ~link.expected /\ desk.booted

FailConnection(child, s) ==
  /\ link' = [link EXCEPT !.child = child, !.failed = TRUE, !.killed = TRUE, !.state = "stopped",
                          !.open = @ /\ stop # "reply"]
  /\ req' = Rejected
  /\ starting' = s
  /\ stop' = IF stop = "reply" THEN "exit" ELSE stop
  /\ desk' = [AssetsLost(desk) EXCEPT !.report = @ \/ Crashes]
  /\ lost' = (lost \/ Crashes)

\* A bad frame, a broken pipe.
ConnectionFails ==
  /\ Outside /\ link.child # 0 /\ ~link.failed /\ Fault
  /\ FailConnection(link.child, Unstarted)
  /\ UNCHANGED <<generation, alive, eventVars>>

\* onExit, and who waits for it
ExitOf == IF ~link.expected /\ ~link.failed
          THEN FailConnection(0, Unstarted)
          ELSE /\ link' = [link EXCEPT !.child = 0]
               /\ stop' = IF stop = "exit" THEN "ended" ELSE stop
               /\ starting' = IF starting = "reap" THEN "reaped" ELSE starting
               /\ UNCHANGED <<req, desk, lost>>

\* A service ends when it is told to, at the end of its input, or on its own.
Told == ~link.open \/ link.killed

ServiceGone == /\ closed' = TRUE /\ queue' = <<>> /\ hand' = None /\ pump' = "ended"
               /\ UNCHANGED <<sequence, latest, known, last>>

Exits == /\ Outside /\ link.child \in alive
         /\ IF Told \/ stop = "reply" THEN UNCHANGED faults ELSE Fault
         /\ alive' = alive \ {link.child}
         /\ ExitOf /\ ServiceGone
         /\ UNCHANGED generation

(***************************************************************************)
(* stop, and the part of it that restart uses.                             *)
(***************************************************************************)
\* stopSession: joins the stop under way, or ends this session.
StopSession(s, d) ==
  /\ starting' = s
  /\ IF stop # "no"
     THEN desk' = d /\ UNCHANGED <<link, stop, req>>
     ELSE /\ link' = [link EXCEPT !.expected = TRUE, !.state = "stopped", !.open = Writable]
          /\ stop' = IF link.child = 0 THEN "ended" ELSE IF Writable THEN "reply" ELSE "exit"
          /\ req' = Rejected
          /\ desk' = AssetsLost(d)

\* shutdown is answered, or not in time, and the input is closed.
StopReplied ==
  /\ Outside /\ stop = "reply"
  /\ link' = [link EXCEPT !.open = FALSE]
  /\ stop' = IF link.child = 0 THEN "ended" ELSE "exit"
  /\ UNCHANGED <<generation, alive, starting, req, desk, lost, faults, eventVars>>

\* The child does not exit: SIGTERM, SIGKILL, and stop gives up.
StopTimesOut ==
  /\ Outside /\ stop = "exit" /\ Fault
  /\ link' = [link EXCEPT !.killed = TRUE]
  /\ stop' = "ended"
  /\ UNCHANGED <<generation, alive, starting, req, desk, lost, eventVars>>

StopReturns ==
  /\ Running /\ stop = "ended"
  /\ stop' = "no"
  /\ starting' = IF starting = "settling" THEN "rejected" ELSE starting
  /\ desk' = IF desk.quit = "stopping" THEN [desk EXCEPT !.quit = "gone"]
             ELSE IF desk.at = "stopping" THEN [desk EXCEPT !.at = "start"]
             ELSE desk
  /\ UNCHANGED <<generation, alive, link, req, lost, faults, eventVars>>

(***************************************************************************)
(* start.                                                                  *)
(***************************************************************************)
\* The rest of startOnce: a new session, and its child unless spawn throws.
Spawns(d) ==
  /\ generation' = generation + 1
  /\ queue' = <<>> /\ sequence' = 0 /\ hand' = None /\ last' = 0
  /\ closed' = FALSE /\ pump' = "none"
  /\ desk' = d
  /\ \/ /\ link' = [link EXCEPT !.child = generation', !.open = TRUE, !.failed = FALSE,
                                !.expected = FALSE, !.killed = FALSE]
        /\ alive' = alive \cup {generation'}
        /\ starting' = "handshake"
        /\ UNCHANGED faults
     \/ /\ Fault
        /\ link' = [link EXCEPT !.failed = FALSE, !.expected = FALSE]
        /\ starting' = "rejected"
        /\ UNCHANGED alive
  /\ UNCHANGED <<stop, req, lost, latest, known>>

\* Mutant of StartOnce: the last child is not waited for.
StartOnceAtOnce(d) == Spawns(d)

\* startOnce waits for the last child to end.
StartOnce(d) ==
  \/ link.child = 0 /\ Spawns(d)
  \/ /\ link.child # 0
     /\ desk' = d /\ starting' = "reap"
     /\ UNCHANGED <<generation, alive, link, stop, req, lost, faults, eventVars>>

\* start, as restart calls it: nothing stops or starts at this point.
StartCalls ==
  /\ Running /\ desk.at = "start"
  /\ \/ /\ desk.closing
        /\ desk' = Gives(desk)
        /\ UNCHANGED <<generation, alive, link, starting, stop, req, lost, faults, eventVars>>
     \/ ~desk.closing /\ StartOnce([desk EXCEPT !.at = "starting"])

Reaped == Running /\ starting = "reaped" /\ Spawns(desk)

\* The last child outlives SIGTERM and SIGKILL.
ReapTimesOut ==
  /\ Outside /\ starting = "reap" /\ Fault
  /\ link' = [link EXCEPT !.killed = TRUE]
  /\ starting' = "rejected"
  /\ UNCHANGED <<generation, alive, stop, req, desk, lost, eventVars>>

\* The answer to the handshake.  A bad frame may follow in the same chunk.
HandshakeAnswered ==
  /\ Outside /\ starting = "handshake" /\ pump = "ready"
  /\ \/ /\ starting' = "resolved"
        /\ UNCHANGED <<link, stop, req, desk, lost, faults>>
     \/ Fault /\ FailConnection(link.child, "resolved")
  /\ pump' = "idle"
  /\ UNCHANGED <<generation, alive, queue, sequence, closed, hand, latest, known, last>>

\* An answer that is an error or does not fit, or none in time.
HandshakeFails ==
  /\ Outside /\ starting = "handshake" /\ Fault
  /\ starting' = "catch"
  /\ UNCHANGED <<generation, alive, link, stop, req, desk, lost, eventVars>>

Catches == /\ Running /\ starting = "catch"
           /\ StopSession("settling", desk)
           /\ UNCHANGED <<generation, alive, lost, faults, eventVars>>

\* Mutant of Connects: the session is good whatever has happened since the answer.
ConnectsAnyway == starting = "resolved"

\* The handshake has succeeded and nothing has failed since.
Connects == starting = "resolved" /\ ~link.failed

\* start returns, or throws; a connection ends a recovery that was given up.
StartReturns ==
  /\ Running /\ starting \in {"resolved", "rejected"}
  /\ starting' = "no"
  /\ link' = IF Connects THEN [link EXCEPT !.state = "connected", !.notified = FALSE] ELSE link
  /\ lost' = (lost /\ ~Connects)
  /\ LET d == [desk EXCEPT !.recovery = IF Connects /\ @ = "failed" THEN "idle" ELSE @]
     IN desk' = IF starting = "resolved" THEN [d EXCEPT !.at = "fetch"] ELSE Gives(d)
  /\ UNCHANGED <<generation, alive, stop, req, faults, eventVars>>

(***************************************************************************)
(* Recovery: restart, assets, document.                                    *)
(***************************************************************************)
Restarts ==
  /\ Running /\ desk.at = "restart"
  /\ \/ /\ desk.closing
        /\ desk' = Gives(desk)
        /\ UNCHANGED <<link, starting, stop, req>>
     \/ ~desk.closing /\ StopSession(starting, [desk EXCEPT !.at = "stopping"])
  /\ UNCHANGED <<generation, alive, lost, faults, eventVars>>

Fetches ==
  /\ Running /\ desk.at = "fetch"
  /\ IF Writable
     THEN /\ req' = [req EXCEPT ![Assets] = Sent]
          /\ desk' = [desk EXCEPT !.at = "assets"]
          /\ UNCHANGED link
     ELSE NotRunning(Gives(desk)) /\ UNCHANGED req
  /\ UNCHANGED <<generation, alive, starting, stop, lost, faults, eventVars>>

\* The document is loaded, after a failure too; it reads everything anew.
Loads ==
  /\ Outside /\ desk.at \in {"loading", "failing"}
  /\ desk' = [desk EXCEPT !.at = "drained",
                          !.document = IF link.state = "connected" THEN generation ELSE @]
  /\ known' = IF link.state = "connected" THEN latest ELSE known
  /\ UNCHANGED <<generation, alive, link, starting, stop, req, lost, faults>>
  /\ UNCHANGED <<queue, sequence, closed, pump, hand, latest, last>>

LoadFails ==
  /\ Outside /\ desk.at \in {"loading", "failing"} /\ Fault
  /\ desk' = [desk EXCEPT !.at = IF @ = "loading" THEN "failing" ELSE "drained"]
  /\ UNCHANGED <<generation, alive, link, starting, stop, req, lost, eventVars>>

\* request of the coordinator: starts a recovery, or has the running one repeated.
Recover(d) == IF d.at = "idle" THEN [d EXCEPT !.at = "restart"] ELSE [d EXCEPT !.again = TRUE]

\* One round of the policy's loop.
PolicyRound(d) ==
  IF d.quit # "no" THEN [d EXCEPT !.policy = "idle", !.recovery = "idle"]
  ELSE IF d.restarts >= MaxRestarts THEN [d EXCEPT !.policy = "idle", !.recovery = "failed"]
  ELSE Recover([d EXCEPT !.policy = "waiting", !.recovery = "restarting", !.restarts = @ + 1])

\* Mutant of Returned: a restart counts as successful when it has returned.
ReturnedAnyway(d) == IF d.policy = "idle" THEN d
                     ELSE [d EXCEPT !.policy = "idle", !.recovery = "idle"]

\* The policy's restart returns.
Returned(d) == IF d.policy = "idle" THEN d
               ELSE IF link.state = "connected" THEN [d EXCEPT !.policy = "idle", !.recovery = "idle"]
               ELSE PolicyRound(d)

\* The recovery is repeated if one was requested meanwhile, or ends.
Drains ==
  /\ Running /\ desk.at = "drained"
  /\ desk' = IF desk.again THEN [desk EXCEPT !.again = FALSE, !.at = "restart"]
             ELSE Returned([desk EXCEPT !.at = "idle"])
  /\ UNCHANGED <<generation, alive, link, starting, stop, req, lost, faults, eventVars>>

\* serviceLost
ServiceLost ==
  /\ Running /\ desk.report
  /\ LET told == [desk EXCEPT !.report = FALSE]
     IN desk' = IF desk.policy = "waiting" \/ desk.recovery = "failed" \/ desk.quit # "no"
                THEN told ELSE PolicyRound(told)
  /\ UNCHANGED <<generation, alive, link, starting, stop, req, lost, faults, eventVars>>

\* The user reloads, or the renderer is gone.
Reloads ==
  /\ Outside /\ desk.booted /\ desk.quit = "no" /\ Fault
  /\ desk' = Recover(desk)
  /\ UNCHANGED <<generation, alive, link, starting, stop, req, lost, eventVars>>

\* An automatic restart leaves the window of time.
Forgets ==
  /\ Outside /\ desk.restarts > 0
  /\ desk' = [desk EXCEPT !.restarts = @ - 1]
  /\ UNCHANGED <<generation, alive, link, starting, stop, req, lost, faults, eventVars>>

Quits ==
  /\ Outside /\ desk.quit = "no"
  /\ desk' = [desk EXCEPT !.quit = "quitting"]
  /\ UNCHANGED <<generation, alive, link, starting, stop, req, lost, faults, eventVars>>

WillQuit ==
  /\ Outside /\ desk.quit = "quitting"
  /\ StopSession(Unstarted, [desk EXCEPT !.quit = "stopping", !.closing = TRUE])
  /\ UNCHANGED <<generation, alive, lost, faults, eventVars>>

(***************************************************************************)
(* The service and its events.  The client reads those of its child.       *)
(***************************************************************************)
Greets == /\ Outside /\ starting = "handshake" /\ link.child \in alive /\ SetLimits
          /\ UNCHANGED transportVars

\* Bound: where something goes wrong, there is one change.
Room == faults = 0 \/ \A k \in Key : latest[k] = 0

Events == /\ Outside /\ link.child \in alive /\ ~link.failed
          /\ \/ Room /\ \E k \in Key, fits \in BOOLEAN : Publish(k, fits)
             \/ faults = 0 /\ \E fits \in BOOLEAN : PublishNotice(fits)
             \/ Take \/ Deliver \/ Drained \/ PumpEnds
             \/ stop # "no" /\ Close
          /\ UNCHANGED transportVars

Continues == Restarts \/ StopReturns \/ StartCalls \/ Reaped \/ Catches \/ StartReturns
             \/ Fetches \/ Drains \/ ServiceLost

HandshakeEnds == HandshakeFails \/ HandshakeAnswered

Next == \/ Continues \/ HandshakeEnds
        \/ \E r \in Request : Asks(r)
        \/ \E r \in Request \cup {Assets} : Answers(r) \/ TimesOut(r)
        \/ ConnectionFails \/ Exits \/ StopReplied \/ StopTimesOut \/ ReapTimesOut
        \/ Loads \/ LoadFails \/ Reloads \/ Forgets \/ Quits \/ WillQuit
        \/ Greets \/ Events

\* Continuations run, every wait has a timer, and a process that was told to end
\* ends or is given up.
Fairness == /\ WF_vars(Continues) /\ WF_vars(HandshakeEnds) /\ WF_vars(Greets)
            /\ \A r \in Request \cup {Assets} : WF_vars(TimesOut(r))
            /\ WF_vars((Told /\ Exits) \/ StopTimesOut \/ ReapTimesOut) /\ WF_vars(StopReplied)
            /\ WF_vars(Loads)

Spec == Init /\ [][Next]_vars /\ Fairness

(***************************************************************************)
(* Properties.                                                             *)
(***************************************************************************)
Link == [child : Nat, open : BOOLEAN, failed : BOOLEAN, expected : BOOLEAN, killed : BOOLEAN,
         state : {"stopped", "connected"}, notified : BOOLEAN]
Desk == [at : {"idle", "restart", "stopping", "start", "starting", "fetch", "assets", "loading",
               "failing", "drained"},
         again : BOOLEAN, policy : {"idle", "waiting"},
         recovery : {"idle", "restarting", "failed"}, restarts : Nat,
         report : BOOLEAN, booted : BOOLEAN, closing : BOOLEAN,
         quit : {"no", "quitting", "stopping", "gone"}, document : Nat]
Pending == [at : {"new", "pending", "settled"}, gen : Nat, late : BOOLEAN]

TransportTypeOK ==
  /\ generation \in Nat \ {0} /\ alive \subseteq 1 .. generation
  /\ link \in Link /\ desk \in Desk
  /\ req \in [Request \cup {Assets} -> Pending]
  /\ starting \in {"no", "reap", "reaped", "handshake", "catch", "settling", "resolved", "rejected"}
  /\ stop \in {"no", "reply", "exit", "ended"}
  /\ lost \in BOOLEAN /\ faults \in Nat

\* Two services never run at the same time, however start, restart, stop and the
\* exit of a child meet.
OneService == Cardinality(alive) <= 1

\* What the window is told, and what it waits for, belongs to the session that runs:
\* the status says connected only while the child of this session runs and its
\* connection has not failed, and a crash or a stop rejects what is pending (but
\* for a request that is sent while the service is being stopped, which waits for
\* its timer).
SessionIsLive ==
  Running =>
    /\ link.state = "connected" => /\ link.child = generation /\ link.child \in alive
                                   /\ ~link.failed /\ stop = "no"
    /\ \A r \in DOMAIN req :
         req[r].at = "pending" /\ ~req[r].late => req[r].gen = link.child /\ ~link.failed

\* A service that is lost is brought back, or the policy says that it gave up.
LossIsHandled == lost ~> ~lost \/ desk.recovery = "failed" \/ desk.quit # "no"

\* In the session the document was loaded in, no change is lost silently.
ReloadedIsCovered == desk.document = generation => Covered
===============================================================================
