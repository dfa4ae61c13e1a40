---------------------------- MODULE ForgeTransport ----------------------------
(***************************************************************************)
(* Requests to one forge host (tongs/forges/http.py): the slots that bound *)
(* the requests in flight, the bearer token that is looked up again when   *)
(* the forge rejects it, and the one retry after a rate limit.             *)
(*                                                                         *)
(* A step is the code between two awaits.  The client library is the code  *)
(* outside the repository: it reads and closes a response before it sends  *)
(* the next request of the same call, and closes it on every error.        *)
(***************************************************************************)
EXTENDS Naturals, FiniteSets

CONSTANTS Caller,       \* tasks that make one request each
          Writing,      \* those whose request is not safe to send twice
          MaxParallel,  \* slots of the host
          Scenarios,    \* bound: what happens together in one behaviour
          None

\* callers: who calls.  plain: without redirects, rejected tokens, rate limits and
\* failed look-ups.  closes: the session is started and closed too; otherwise it runs.
Scenario == [callers : SUBSET Caller, plain : BOOLEAN, closes : BOOLEAN]

ASSUME TransportAssumption == /\ IsFiniteSet(Caller) /\ Writing \subseteq Caller
                              /\ MaxParallel \in Nat \ {0}
                              /\ Scenarios \subseteq Scenario /\ None \notin Caller

VARIABLES scenario,   \* chosen once
          slots,      \* free slots of the HostRequestLimiter
          token,      \* RefreshingTokenAuth._token, of the client in use
          valid,      \* the token the forge accepts
          refresher,  \* who holds the lock of the token
          request,    \* of each caller: its request
          acted       \* of each caller: how often the forge has done what it asks

transportVars == <<scenario, slots, token, valid, refresher, request, acted>>

\* sent: the token of its header; retried: after a rate limit; renewed: with a new
\* token; moved: after a redirect (bound: one in a call).
NoRequest == [at |-> "none", sent |-> 0, answer |-> "none",
              retried |-> FALSE, renewed |-> FALSE, moved |-> FALSE]

TransportInit ==
  /\ scenario \in Scenarios
  /\ slots = MaxParallel
  /\ token = 0 /\ valid = 0
  /\ refresher = None
  /\ request = [c \in Caller |-> NoRequest]
  /\ acted = [c \in Caller |-> 0]

IsAt(c, step) == request[c].at = step
Moves(c, to) == request' = [request EXCEPT ![c] = to]
Over(c) == Moves(c, [NoRequest EXCEPT !.at = "over"])

\* _Slot.release
GivesBack == slots' = slots + 1

\* What the forge has done when no answer tells.
MayAct(c) == acted' = acted \/ acted' = [acted EXCEPT ![c] = @ + 1]

(***************************************************************************)
(* _LimitedTransport: a slot from send until the response is closed.       *)
(***************************************************************************)
\* async_auth_flow puts the token into the header; then the request waits.
Sends(c, to) == Moves(c, [to EXCEPT !.at = "slot", !.sent = token])

TakesSlot(c) ==
  /\ IsAt(c, "slot") /\ slots > 0
  /\ slots' = slots - 1 /\ Moves(c, [request[c] EXCEPT !.at = "sent"])
  /\ UNCHANGED <<scenario, token, valid, refresher, acted>>

Answers == IF scenario.plain THEN {"ok", "failed"} ELSE {"ok", "failed", "limited", "moved"}

\* A rejected token, a rate limit and a redirect mean that nothing was done.
ForgeAnswers(c) ==
  /\ IsAt(c, "sent")
  /\ \E answer \in Answers \cup {"rejected"} :
       /\ answer = "rejected" <=> request[c].sent # valid
       /\ answer = "moved" => ~request[c].moved
       /\ Moves(c, [request[c] EXCEPT !.at = "reading", !.answer = answer])
       /\ CASE answer = "ok" -> acted' = [acted EXCEPT ![c] = @ + 1]
            [] answer = "failed" -> MayAct(c)
            [] OTHER -> UNCHANGED acted
  /\ UNCHANGED <<scenario, slots, token, valid, refresher>>

\* A mutant: the slot of a request without a response is lost.
TransportFailsKeeps(c) ==
  /\ IsAt(c, "sent") \/ IsAt(c, "reading")
  /\ IF IsAt(c, "sent") THEN MayAct(c) /\ UNCHANGED slots ELSE GivesBack /\ UNCHANGED acted
  /\ Over(c)
  /\ UNCHANGED <<scenario, token, valid, refresher>>

\* A mutant: a timeout is retried once.
TransportFailsRetries(c) ==
  /\ IsAt(c, "sent") \/ IsAt(c, "reading")
  /\ IF IsAt(c, "sent") THEN MayAct(c) ELSE UNCHANGED acted
  /\ GivesBack
  /\ IF request[c].retried THEN Over(c) ELSE Sends(c, [NoRequest EXCEPT !.retried = TRUE])
  /\ UNCHANGED <<scenario, token, valid, refresher>>

\* A timeout or a broken connection, before or after the response.
TransportFails(c) ==
  /\ IsAt(c, "sent") \/ IsAt(c, "reading")
  /\ IF IsAt(c, "sent") THEN MayAct(c) ELSE UNCHANGED acted
  /\ GivesBack /\ Over(c)
  /\ UNCHANGED <<scenario, token, valid, refresher>>

\* A mutant: the rejected response is still open while the token is refreshed.
ReadsBodyLate(c) ==
  /\ IsAt(c, "reading")
  /\ IF request[c].answer = "rejected" THEN UNCHANGED slots ELSE GivesBack
  /\ CASE request[c].answer = "moved" -> Moves(c, [request[c] EXCEPT !.at = "slot", !.answer = "none", !.moved = TRUE])
       [] request[c].answer = "rejected" /\ ~request[c].renewed ->
            Moves(c, [request[c] EXCEPT !.at = "lock", !.answer = "none"])
       [] OTHER -> Over(c)
  /\ UNCHANGED <<scenario, token, valid, refresher, acted>>

\* The response is read and closed, and with it the slot is free.  Then a redirect
\* is followed, a rejected token is renewed once, and a read that met a rate limit
\* sleeps once unless the wait is too long; everything else is the answer.
ReadsBody(c) ==
  /\ IsAt(c, "reading") /\ GivesBack
  /\ \/ /\ request[c].answer = "moved"
        /\ Moves(c, [request[c] EXCEPT !.at = "slot", !.answer = "none", !.moved = TRUE])
     \/ /\ request[c].answer = "rejected" /\ ~request[c].renewed
        /\ Moves(c, [request[c] EXCEPT !.at = "lock", !.answer = "none"])
     \/ /\ request[c].answer = "limited" /\ ~request[c].retried /\ c \notin Writing
        /\ Moves(c, [NoRequest EXCEPT !.at = "sleep"])
     \/ /\ \/ request[c].answer \in {"ok", "failed", "limited"}
           \/ request[c].answer = "rejected" /\ request[c].renewed
        /\ Over(c)
  /\ UNCHANGED <<scenario, token, valid, refresher, acted>>

Wakes(c) ==
  /\ IsAt(c, "sleep") /\ Sends(c, [NoRequest EXCEPT !.retried = TRUE])
  /\ UNCHANGED <<scenario, slots, token, valid, refresher, acted>>

(***************************************************************************)
(* RefreshingTokenAuth.async_auth_flow after a 401.                        *)
(***************************************************************************)
Renewed(c, new) == Moves(c, [request[c] EXCEPT !.at = "slot", !.sent = new, !.renewed = TRUE])

\* Another request may have refreshed the token while this one waited.
LocksToken(c) ==
  /\ IsAt(c, "lock") /\ refresher = None
  /\ \/ /\ token # request[c].sent /\ Renewed(c, token) /\ UNCHANGED refresher
     \/ /\ token = request[c].sent /\ refresher' = c
        /\ Moves(c, [request[c] EXCEPT !.at = "refresh"])
  /\ UNCHANGED <<scenario, slots, token, valid, acted>>

\* The worker thread finds a new token, or none that is better.
Refreshes(c) ==
  /\ IsAt(c, "refresh") /\ refresher' = None
  /\ \/ token' = valid /\ Renewed(c, valid)
     \/ Over(c) /\ UNCHANGED token
  /\ UNCHANGED <<scenario, slots, valid, acted>>

\* The caller is cancelled, wherever its request is (with its client: LateCancelled).
Cancels(c) ==
  /\ request[c].at \notin {"none", "client", "closing", "over"}
  /\ Over(c)
  /\ IF IsAt(c, "sent") \/ IsAt(c, "reading") THEN GivesBack ELSE UNCHANGED slots
  /\ IF IsAt(c, "sent") THEN MayAct(c) ELSE UNCHANGED acted
  /\ refresher' = IF refresher = c THEN None ELSE refresher
  /\ UNCHANGED <<scenario, token, valid>>

\* The token expires and the user's tools have a new one (bound: once).
Expires == /\ ~scenario.plain /\ valid = 0 /\ valid' = 1
           /\ UNCHANGED <<scenario, slots, token, refresher, request, acted>>

RequestStep(c) == \/ TakesSlot(c) \/ ForgeAnswers(c) \/ TransportFails(c) \/ ReadsBody(c)
                  \/ Wakes(c) \/ LocksToken(c) \/ Refreshes(c)

(***************************************************************************)
(* Properties.                                                             *)
(***************************************************************************)
TransportTypeOK ==
  /\ scenario \in Scenarios /\ slots \in 0 .. MaxParallel
  /\ token \in {0, 1} /\ valid \in {0, 1}
  /\ refresher \in Caller \cup {None}
  /\ request \in [Caller -> [at : {"none", "lookup", "found", "client", "closing", "slot",
                                   "sent", "reading", "lock", "refresh", "sleep", "over"},
                             sent : {0, 1},
                             answer : {"none", "ok", "failed", "limited", "moved", "rejected"},
                             retried : BOOLEAN, renewed : BOOLEAN, moved : BOOLEAN]]
  /\ acted \in [Caller -> Nat]

\* A slot is held by a request in flight and by nobody else: none is lost, and
\* none given back twice, on any way a request can end.
SlotsAccounted ==
  slots + Cardinality({c \in Caller : request[c].at \in {"sent", "reading"}}) = MaxParallel

\* The forge does what a write asks for at most once, whatever was rejected,
\* redirected, limited, timed out or sent again.
ActsOnce == \A c \in Writing : acted[c] <= 1
===============================================================================
