------------------------ MODULE ApplicationSessionProofs ------------------------
(***************************************************************************)
(* Theorems about ApplicationSession and the modules it extends, for any   *)
(* number of callers, closes and slots and any tokens, answers, failures   *)
(* and cancellations: slots are accounted for, a write acts once, writes   *)
(* land before their stores close, and a clean close leaves nothing open.  *)
(*                                                                         *)
(* The inductive invariant SInv has four parts.  Requests is about the     *)
(* requests and their slots alone; Typed gives the types.  Course follows  *)
(* the close tasks: which have ended and how, what the running one has     *)
(* already made sure of, and what may still change beside it.  Clients     *)
(* counts the clients that are open: the one in the registry and the one   *)
(* the holder of the client lock is closing.                               *)
(***************************************************************************)
EXTENDS ApplicationSession, FiniteSetTheorems, SequenceTheorems, TLAPS

\* Where a request holds a slot.
Flying == {"sent", "reading"}
InFlight == {c \in Caller : request[c].at \in Flying}

\* The forge has done what is asked once at most, and only for a request whose
\* answer says so, or that has ended: what is sent again has done nothing yet.
ActedOK == \A c \in Caller :
  /\ acted[c] \in {0, 1}
  /\ \/ acted[c] = 0
     \/ request[c].at = "over"
     \/ request[c].at = "reading" /\ request[c].answer \in {"ok", "failed"}

\* Part one.
Requests == TransportTypeOK /\ SlotsAccounted /\ ActedOK

\* A close has been asked for when there is a task.  Only the last task can run; a
\* task that has ended left the session closing, and closed it if it was final or
\* went well.  Nothing runs in a closed session.
TaskOK ==
  /\ requested <=> tasks # << >>
  /\ tasks = << >> => task.at = "none"
  /\ \A n \in 1 .. Len(tasks) : ~Ended(n) <=> (n = Len(tasks) /\ task.at # "none")
  /\ \A n \in 1 .. Len(tasks) : Ended(n) => state \in {"closing", "closed"}
  /\ \A n \in 1 .. Len(tasks) :
       Ended(n) /\ (tasks[n].result = "ok" \/ tasks[n].final) => state = "closed"
  /\ state = "closed" => requested /\ task.at = "none"
  /\ task.at \notin {"none", "settle"} => state = "closing"

\* What waits, waits for a task there is; a final close has returned after a task
\* that closed the session, or after its second wait, for a task that was not final.
ClosersOK ==
  /\ starter.at = "cleanup" => starter.on \in 1 .. Len(tasks)
  /\ \A k \in Closer : closer[k].at # "idle" =>
       closer[k].on \in 1 .. Len(tasks) /\ closer[k].waits \in {1, 2}
  /\ \A k \in Final : closer[k].at = "returned" =>
       state = "closed" \/ (closer[k].waits = 2 /\ ~tasks[closer[k].on].final)

\* No write is in the hands of its service, or the close is final.
Settled == InService = {} \/ Last.final

\* Past the services the writes have settled, and before nothing is closed.
LandOK ==
  /\ task.at \in {"store", "registry", "closing", "cache"} => Settled
  /\ store = "closed" \/ cache = "closed" =>
       /\ requested /\ Settled
       /\ state = "closed" \/ task.at \in {"store", "registry", "closing", "cache"}

\* Whoever closes a client holds the client lock, which is used late only.
LockOK ==
  /\ takers \subseteq {clientLock}
  /\ \A c \in Caller : IsAt(c, "closing") <=> clientLock = c
  /\ clientLock = Coordinator <=> task.at = "closing"
  /\ clientLock # None => requested /\ attempted
  /\ attempted => requested

\* The client in the registry, and the one that is being closed.
Held == (IF cached THEN 1 ELSE 0) + (IF takers = {} THEN 0 ELSE 1)

\* No client is open that is neither, except after a failure.  A client made after the
\* registry was closed has a caller who will close it; none is made before start ends.
ClientsOK ==
  /\ open >= Held
  /\ registryOk /\ ~abandoned => open = Held
  /\ attempted /\ cached /\ ~abandoned => \E c \in Caller : IsAt(c, "client")
  /\ state = "started" => starter.at = "started"
  /\ starter.at # "started" =>
       ~cached /\ open = 0 /\ ~looking /\ \A c \in Caller : request[c].at \in {"none", "over"}

\* No step of the last close task has failed.
Faultless == \/ task.at # "none" /\ ~task.failed
             \/ tasks # << >> /\ Last.result = "ok"

\* What a close task without a failure has made sure of, at each of its steps.
ResultOK ==
  /\ Faultless /\ task.at # "settle" => ~Starting
  /\ Faultless /\ task.at \in {"none", "registry", "closing", "cache"} => store # "open"
  /\ Faultless /\ task.at = "none" => cache # "open"
  /\ Faultless /\ task.at \in {"none", "cache"} => attempted \/ starter.at # "started"

\* The rows of tasks, starter and closer, and the types of the session.
TaskRow == [final : BOOLEAN, result : {"running", "failed", "ok"}]

\* Part two.
Typed ==
  /\ RegistryTypeOK
  /\ state \in {"new", "starting", "started", "closing", "closed"} /\ requested \in BOOLEAN
  /\ starter \in [at : {"idle", "cache", "store", "started", "cleanup", "ended"},
                  cancelled : BOOLEAN, on : 0 .. Len(tasks)]
  /\ cache \in {"unopened", "open", "closed"} /\ store \in {"unopened", "open", "closed"}
  /\ clientLock \in Caller \cup {Coordinator, None}
  /\ attempted \in BOOLEAN /\ registryOk \in BOOLEAN /\ abandoned \in BOOLEAN
  /\ tasks \in Seq(TaskRow)
  /\ task \in [at : {"none", "settle", "services", "store", "registry", "closing", "cache"},
               failed : BOOLEAN]
  /\ closer \in [Closer -> [at : {"idle", "waiting", "returned"}, on : 0 .. Len(tasks),
                            waits : 0 .. 2]]

\* Parts three and four.
Course == TaskOK /\ ClosersOK /\ LandOK /\ ResultOK
Clients == LockOK /\ ClientsOK
SInv == Requests /\ Typed /\ Course /\ Clients

USE TransportAssumption, RegistryAssumption, SessionAssumption

\* A request, and the slot it needs.
Request == [at : {"none", "lookup", "found", "client", "closing", "slot",
                  "sent", "reading", "lock", "refresh", "sleep", "over"},
            sent : {0, 1},
            answer : {"none", "ok", "failed", "limited", "moved", "rejected"},
            retried : BOOLEAN, renewed : BOOLEAN, moved : BOOLEAN]

Weight(r) == IF r.at \in Flying THEN 1 ELSE 0

\* What is in flight is a finite set.
LEMMA FlightFinite == IsFiniteSet(InFlight) /\ Cardinality(InFlight) \in Nat
<1>1. IsFiniteSet(InFlight)
  BY FS_Subset DEF InFlight
<1> QED  BY <1>1, FS_CardinalityType

\* One request moves, and the slots follow: all stay accounted for.
LEMMA SlotMoves ==
  ASSUME TransportTypeOK, SlotsAccounted, NEW c \in Caller, NEW r \in Request,
         request' = [request EXCEPT ![c] = r],
         slots' = slots + Weight(request[c]) - Weight(r), slots' \in Nat
  PROVE  SlotsAccounted' /\ slots' \in 0 .. MaxParallel /\ request' \in [Caller -> Request]
<1>0. request \in [Caller -> Request] /\ slots \in Nat
  BY DEF TransportTypeOK, Request
<1>1. IsFiniteSet(InFlight) /\ Cardinality(InFlight) \in Nat
  BY FlightFinite
<1>2. \A d \in Caller : request'[d] = IF d = c THEN r ELSE request[d]
  BY <1>0
<1>3. Cardinality(InFlight') = Cardinality(InFlight) + Weight(r) - Weight(request[c])
  <2>1. CASE r.at \in Flying /\ request[c].at \notin Flying
    <3>1. InFlight' = InFlight \cup {c} /\ c \notin InFlight
      BY <1>2, <2>1 DEF InFlight
    <3>2. Cardinality(InFlight \cup {c}) = Cardinality(InFlight) + 1
      BY <3>1, <1>1, FS_AddElement
    <3> QED  BY <3>1, <3>2, <1>1, <2>1 DEF Weight
  <2>2. CASE r.at \notin Flying /\ request[c].at \in Flying
    <3>1. InFlight' = InFlight \ {c} /\ c \in InFlight
      BY <1>2, <2>2 DEF InFlight
    <3>2. Cardinality(InFlight \ {c}) = Cardinality(InFlight) - 1
      BY <3>1, <1>1, FS_RemoveElement
    <3> QED  BY <3>1, <3>2, <1>1, <2>2 DEF Weight
  <2>3. CASE r.at \in Flying <=> request[c].at \in Flying
    <3>1. InFlight' = InFlight
      BY <1>2, <2>3 DEF InFlight
    <3> QED  BY <3>1, <1>1, <2>3 DEF Weight
  <2> QED  BY <2>1, <2>2, <2>3
<1>4. slots + Cardinality(InFlight) = MaxParallel
  BY DEF SlotsAccounted, InFlight, Flying
<1>5. slots' + Cardinality(InFlight') = MaxParallel
  BY <1>0, <1>1, <1>3, <1>4 DEF Weight
<1>6. SlotsAccounted'
  BY <1>5 DEF SlotsAccounted, InFlight, Flying
<1>7. Cardinality(InFlight') \in Nat
  BY FS_Subset, FS_CardinalityType DEF InFlight
<1>8. slots' \in 0 .. MaxParallel
  BY <1>5, <1>7
<1> QED  BY <1>0, <1>6, <1>8

\* A request that moves keeps what holds of all requests.
LEMMA RequestMoves ==
  ASSUME Requests, NEW c \in Caller, NEW r \in Request, Moves(c, r),
         slots' = slots + Weight(request[c]) - Weight(r), slots' \in Nat,
         scenario' = scenario, token' \in {0, 1}, valid' \in {0, 1},
         refresher' \in Caller \cup {None},
         acted' = acted \/ acted' = [acted EXCEPT ![c] = @ + 1],
         acted'[c] \in {0, 1},
         \/ acted'[c] = 0
         \/ r.at = "over"
         \/ r.at = "reading" /\ r.answer \in {"ok", "failed"}
  PROVE  Requests'
<1>1. TransportTypeOK /\ SlotsAccounted /\ ActedOK
  BY DEF Requests
<1>2. SlotsAccounted' /\ slots' \in 0 .. MaxParallel /\ request' \in [Caller -> Request]
  BY <1>1, SlotMoves DEF Moves
<1>3. request \in [Caller -> Request] /\ acted \in [Caller -> Nat]
  BY <1>1 DEF TransportTypeOK, Request
<1>4. acted' \in [Caller -> Nat] /\ \A d \in Caller \ {c} : acted'[d] = acted[d]
  BY <1>3
<1>5. \A d \in Caller : request'[d] = IF d = c THEN r ELSE request[d]
  BY <1>3 DEF Moves
<1>6. TransportTypeOK'
  BY <1>1, <1>2, <1>4 DEF TransportTypeOK, Request
<1>7. ActedOK'
  BY <1>1, <1>4, <1>5 DEF ActedOK
<1> QED  BY <1>2, <1>6, <1>7 DEF Requests

\* What is known of one request and of what all share.
LEMMA RequestFacts ==
  ASSUME Requests, NEW c \in Caller
  PROVE  /\ request[c] \in Request /\ NoRequest \in Request /\ slots \in Nat
         /\ token \in {0, 1} /\ valid \in {0, 1} /\ refresher \in Caller \cup {None}
         /\ acted \in [Caller -> Nat] /\ acted[c] \in {0, 1}
         /\ request[c].at \notin {"reading", "over"} => acted[c] = 0
         /\ request[c].at = "reading" /\ request[c].answer \notin {"ok", "failed"} => acted[c] = 0
<1>1. /\ request \in [Caller -> Request] /\ slots \in Nat
      /\ token \in {0, 1} /\ valid \in {0, 1} /\ refresher \in Caller \cup {None}
      /\ acted \in [Caller -> Nat]
  BY DEF Requests, TransportTypeOK, Request
<1>2. NoRequest \in Request
  BY DEF NoRequest, Request
<1>3. /\ acted[c] \in {0, 1}
      /\ request[c].at \notin {"reading", "over"} => acted[c] = 0
      /\ request[c].at = "reading" /\ request[c].answer \notin {"ok", "failed"} => acted[c] = 0
  BY DEF Requests, ActedOK
<1> QED  BY <1>1, <1>2, <1>3

\* A request that ends, given back what it held.
LEMMA RequestOver ==
  ASSUME Requests, NEW c \in Caller, Over(c), slots' = slots + Weight(request[c]),
         UNCHANGED <<scenario, valid>>, token' \in {0, 1}, refresher' \in Caller \cup {None},
         acted' = acted \/ (request[c].at = "sent" /\ acted' = [acted EXCEPT ![c] = @ + 1])
  PROVE  Requests'
<1> DEFINE r == [NoRequest EXCEPT !.at = "over"]
<1>1. r \in Request /\ Weight(r) = 0 /\ r.at = "over" /\ Moves(c, r)
  BY DEF NoRequest, Request, Weight, Over, Flying
<1>2. slots \in Nat /\ valid \in {0, 1} /\ acted \in [Caller -> Nat] /\ acted[c] \in {0, 1}
  BY RequestFacts
<1>3. request[c].at = "sent" => acted[c] = 0
  BY RequestFacts
<1>4. Weight(request[c]) \in {0, 1}
  BY DEF Weight
<1>5. acted'[c] \in {0, 1} /\ (acted' = acted \/ acted' = [acted EXCEPT ![c] = @ + 1])
  BY <1>2, <1>3
<1>6. slots' \in Nat /\ slots' = slots + Weight(request[c]) - Weight(r)
  BY <1>1, <1>2, <1>4
<1> HIDE DEF r
<1> QED  BY <1>1, <1>2, <1>5, <1>6, RequestMoves

\* A request that goes on without an answer that did something.
LEMMA RequestGoesOn ==
  ASSUME Requests, NEW c \in Caller, NEW r \in Request, Moves(c, r), acted[c] = 0,
         slots' = slots + Weight(request[c]) - Weight(r), slots' \in Nat,
         UNCHANGED <<scenario, valid, acted>>, token' \in {0, 1},
         refresher' \in Caller \cup {None}
  PROVE  Requests'
<1>1. valid \in {0, 1}
  BY RequestFacts
<1> QED  BY <1>1, RequestMoves

\* A request takes a free slot.
LEMMA TakesSlotKeeps ==
  ASSUME Requests, NEW c \in Caller, TakesSlot(c)
  PROVE  Requests'
<1> DEFINE r == [request[c] EXCEPT !.at = "sent"]
<1>1. request[c] \in Request /\ request[c].at = "slot" /\ slots \in Nat /\ slots > 0
  BY RequestFacts DEF TakesSlot, IsAt
<1>2. r \in Request /\ Weight(r) = 1 /\ Weight(request[c]) = 0
  BY <1>1 DEF Request, Weight, Flying
<1>3. acted[c] = 0 /\ token \in {0, 1} /\ refresher \in Caller \cup {None}
  BY <1>1, RequestFacts
<1>4. Moves(c, r) /\ slots' = slots - 1 /\ UNCHANGED <<scenario, token, valid, refresher, acted>>
  BY DEF TakesSlot
<1> HIDE DEF r
<1>5. slots' \in Nat /\ slots' = slots + Weight(request[c]) - Weight(r)
  BY <1>1, <1>2, <1>4
<1> QED  BY <1>2, <1>3, <1>4, <1>5, RequestGoesOn

\* The forge answers: it has done what was asked when it says so, or may have.
LEMMA ForgeAnswersKeeps ==
  ASSUME Requests, NEW c \in Caller, ForgeAnswers(c)
  PROVE  Requests'
<1>1. /\ request[c] \in Request /\ request[c].at = "sent" /\ slots \in Nat /\ acted[c] = 0
      /\ acted \in [Caller -> Nat]
      /\ token \in {0, 1} /\ valid \in {0, 1} /\ refresher \in Caller \cup {None}
  BY RequestFacts DEF ForgeAnswers, IsAt
<1>2. PICK answer \in {"ok", "failed", "limited", "moved", "rejected"} :
        /\ Moves(c, [request[c] EXCEPT !.at = "reading", !.answer = answer])
        /\ \/ acted' = acted
           \/ answer \in {"ok", "failed"} /\ acted' = [acted EXCEPT ![c] = @ + 1]
  BY DEF ForgeAnswers, Answers, MayAct
<1>3. UNCHANGED <<scenario, slots, token, valid, refresher>>
  BY DEF ForgeAnswers
<1> DEFINE r == [request[c] EXCEPT !.at = "reading", !.answer = answer]
<1>4. /\ r \in Request /\ Weight(r) = 1 /\ Weight(request[c]) = 1
      /\ r.at = "reading" /\ r.answer = answer
  BY <1>1 DEF Request, Weight, Flying
<1>5. acted'[c] \in {0, 1} /\ (acted'[c] = 0 \/ answer \in {"ok", "failed"})
  BY <1>1, <1>2
<1>6. Moves(c, r)
  BY <1>2
<1> HIDE DEF r
<1>7. slots' = slots + Weight(request[c]) - Weight(r) /\ slots' \in Nat
  BY <1>1, <1>3, <1>4
<1> QED  BY <1>1, <1>2, <1>3, <1>4, <1>5, <1>6, <1>7, RequestMoves

\* A request that times out gives its slot back and is not sent again.
LEMMA FailureKeeps ==
  ASSUME Requests, NEW c \in Caller, TransportFails(c)
  PROVE  Requests'
<1>0. request[c].at \in Flying
  BY DEF TransportFails, IsAt, Flying
<1>1. Weight(request[c]) = 1
  BY <1>0 DEF Weight
<1>2. token \in {0, 1} /\ refresher \in Caller \cup {None}
  BY RequestFacts
<1>3. /\ Over(c) /\ slots' = slots + 1 /\ UNCHANGED <<scenario, token, valid, refresher>>
      /\ acted' = acted \/ (request[c].at = "sent" /\ acted' = [acted EXCEPT ![c] = @ + 1])
  BY DEF TransportFails, GivesBack, MayAct, IsAt
<1> QED  BY <1>1, <1>2, <1>3, RequestOver

\* A response that is read gives its slot back; what goes on has done nothing.
LEMMA ReadsBodyKeeps ==
  ASSUME Requests, NEW c \in Caller, ReadsBody(c)
  PROVE  Requests'
<1>1. /\ request[c] \in Request /\ request[c].at = "reading" /\ slots \in Nat
      /\ token \in {0, 1} /\ valid \in {0, 1} /\ refresher \in Caller \cup {None}
      /\ NoRequest \in Request
      /\ request[c].answer \notin {"ok", "failed"} => acted[c] = 0
  BY RequestFacts DEF ReadsBody, IsAt
<1>2. slots' = slots + 1 /\ UNCHANGED <<scenario, token, valid, refresher, acted>>
  BY DEF ReadsBody, GivesBack
<1>3. Weight(request[c]) = 1
  BY <1>1 DEF Weight, Flying
<1>4. ASSUME NEW r \in Request, Weight(r) = 0, Moves(c, r), acted[c] = 0
      PROVE  Requests'
  <2>1. slots' = slots + Weight(request[c]) - Weight(r) /\ slots' \in Nat
    BY <1>1, <1>2, <1>3, <1>4
  <2> QED  BY <1>1, <1>2, <1>4, <2>1, RequestGoesOn
<1>5. ASSUME request[c].answer = "moved",
             Moves(c, [request[c] EXCEPT !.at = "slot", !.answer = "none", !.moved = TRUE])
      PROVE  Requests'
  <2>1. /\ [request[c] EXCEPT !.at = "slot", !.answer = "none", !.moved = TRUE] \in Request
        /\ Weight([request[c] EXCEPT !.at = "slot", !.answer = "none", !.moved = TRUE]) = 0
    BY <1>1 DEF Request, Weight, Flying
  <2> QED  BY <1>1, <1>4, <1>5, <2>1
<1>6. ASSUME request[c].answer = "rejected",
             Moves(c, [request[c] EXCEPT !.at = "lock", !.answer = "none"])
      PROVE  Requests'
  <2>1. /\ [request[c] EXCEPT !.at = "lock", !.answer = "none"] \in Request
        /\ Weight([request[c] EXCEPT !.at = "lock", !.answer = "none"]) = 0
    BY <1>1 DEF Request, Weight, Flying
  <2> QED  BY <1>1, <1>4, <1>6, <2>1
<1>7. ASSUME request[c].answer = "limited", Moves(c, [NoRequest EXCEPT !.at = "sleep"])
      PROVE  Requests'
  <2>1. /\ [NoRequest EXCEPT !.at = "sleep"] \in Request
        /\ Weight([NoRequest EXCEPT !.at = "sleep"]) = 0
    BY DEF NoRequest, Request, Weight, Flying
  <2> QED  BY <1>1, <1>4, <1>7, <2>1
<1>8. ASSUME Over(c)
      PROVE  Requests'
  BY <1>1, <1>2, <1>3, <1>8, RequestOver
<1> QED  BY <1>5, <1>6, <1>7, <1>8 DEF ReadsBody

\* The retry after a rate limit starts without a slot.
LEMMA WakesKeeps ==
  ASSUME Requests, NEW c \in Caller, Wakes(c)
  PROVE  Requests'
<1> DEFINE r == [[NoRequest EXCEPT !.retried = TRUE] EXCEPT !.at = "slot", !.sent = token]
<1>1. /\ request[c].at = "sleep" /\ slots \in Nat /\ acted[c] = 0
      /\ token \in {0, 1} /\ refresher \in Caller \cup {None}
  BY RequestFacts DEF Wakes, IsAt
<1>2. r \in Request /\ Weight(r) = 0 /\ Weight(request[c]) = 0
  BY <1>1 DEF NoRequest, Request, Weight, Flying
<1>3. Moves(c, r) /\ UNCHANGED <<scenario, slots, token, valid, refresher, acted>>
  BY DEF Wakes, Sends
<1> HIDE DEF r
<1>4. slots' = slots + Weight(request[c]) - Weight(r) /\ slots' \in Nat
  BY <1>1, <1>2, <1>3
<1> QED  BY <1>1, <1>2, <1>3, <1>4, RequestGoesOn

\* A request with a new token starts without a slot.
LEMMA RenewedKeeps ==
  ASSUME Requests, NEW c \in Caller, NEW new \in {0, 1}, Renewed(c, new),
         request[c].at \in {"lock", "refresh"}, token' \in {0, 1},
         refresher' \in Caller \cup {None}, UNCHANGED <<scenario, slots, valid, acted>>
  PROVE  Requests'
<1> DEFINE r == [request[c] EXCEPT !.at = "slot", !.sent = new, !.renewed = TRUE]
<1>1. request[c] \in Request /\ slots \in Nat /\ acted[c] = 0
  BY RequestFacts
<1>2. r \in Request /\ Weight(r) = 0 /\ Weight(request[c]) = 0
  BY <1>1 DEF Request, Weight, Flying
<1>3. Moves(c, r)
  BY DEF Renewed
<1> HIDE DEF r
<1>4. slots' = slots + Weight(request[c]) - Weight(r) /\ slots' \in Nat
  BY <1>1, <1>2
<1> QED  BY <1>1, <1>2, <1>3, <1>4, RequestGoesOn

\* A rejected request waits for the token without a slot.
LEMMA LocksTokenKeeps ==
  ASSUME Requests, NEW c \in Caller, LocksToken(c)
  PROVE  Requests'
<1>1. /\ request[c] \in Request /\ request[c].at = "lock" /\ slots \in Nat /\ acted[c] = 0
      /\ token \in {0, 1} /\ refresher \in Caller \cup {None}
  BY RequestFacts DEF LocksToken, IsAt
<1>2. UNCHANGED <<scenario, slots, token, valid, acted>>
  BY DEF LocksToken
<1>3. ASSUME Renewed(c, token), UNCHANGED refresher
      PROVE  Requests'
  BY <1>1, <1>2, <1>3, RenewedKeeps
<1>4. ASSUME refresher' = c, Moves(c, [request[c] EXCEPT !.at = "refresh"])
      PROVE  Requests'
  <2> DEFINE r == [request[c] EXCEPT !.at = "refresh"]
  <2>1. r \in Request /\ Weight(r) = 0 /\ Weight(request[c]) = 0
    BY <1>1 DEF Request, Weight, Flying
  <2>2. Moves(c, r)
    BY <1>4
  <2> HIDE DEF r
  <2>3. slots' = slots + Weight(request[c]) - Weight(r) /\ slots' \in Nat
    BY <1>1, <1>2, <2>1
  <2> QED  BY <1>1, <1>2, <1>4, <2>1, <2>2, <2>3, RequestGoesOn
<1> QED  BY <1>3, <1>4 DEF LocksToken

\* The look-up of a new token ends.
LEMMA RefreshesKeeps ==
  ASSUME Requests, NEW c \in Caller, Refreshes(c)
  PROVE  Requests'
<1>1. /\ request[c].at = "refresh" /\ slots \in Nat /\ token \in {0, 1} /\ valid \in {0, 1}
      /\ refresher' = None /\ UNCHANGED <<scenario, slots, valid, acted>>
  BY RequestFacts DEF Refreshes, IsAt
<1>2. Weight(request[c]) = 0
  BY <1>1 DEF Weight, Flying
<1>3. ASSUME token' = valid, Renewed(c, valid)
      PROVE  Requests'
  BY <1>1, <1>3, RenewedKeeps
<1>4. ASSUME Over(c), UNCHANGED token
      PROVE  Requests'
  BY <1>1, <1>2, <1>4, RequestOver
<1> QED  BY <1>3, <1>4 DEF Refreshes

\* A cancelled request gives back the slot it has.
LEMMA CancelsKeeps ==
  ASSUME Requests, NEW c \in Caller, Cancels(c)
  PROVE  Requests'
<1>1. slots \in Nat /\ token \in {0, 1} /\ refresher \in Caller \cup {None}
  BY RequestFacts
<1>2. slots' = slots + Weight(request[c])
  BY <1>1 DEF Cancels, IsAt, GivesBack, Weight, Flying
<1>3. /\ Over(c) /\ UNCHANGED <<scenario, token, valid>> /\ refresher' \in Caller \cup {None}
      /\ acted' = acted \/ (request[c].at = "sent" /\ acted' = [acted EXCEPT ![c] = @ + 1])
  BY <1>1 DEF Cancels, MayAct, IsAt
<1> QED  BY <1>1, <1>2, <1>3, RequestOver

\* Part one holds after every step of a request.
LEMMA RequestStepKeeps ==
  ASSUME Requests, NEW c \in Caller, RequestStep(c)
  PROVE  Requests'
<1>1. ASSUME TakesSlot(c)  PROVE Requests'
  BY <1>1, TakesSlotKeeps
<1>2. ASSUME ForgeAnswers(c)  PROVE Requests'
  BY <1>2, ForgeAnswersKeeps
<1>3. ASSUME TransportFails(c)  PROVE Requests'
  BY <1>3, FailureKeeps
<1>4. ASSUME ReadsBody(c)  PROVE Requests'
  BY <1>4, ReadsBodyKeeps
<1>5. ASSUME Wakes(c)  PROVE Requests'
  BY <1>5, WakesKeeps
<1>6. ASSUME LocksToken(c)  PROVE Requests'
  BY <1>6, LocksTokenKeeps
<1>7. ASSUME Refreshes(c)  PROVE Requests'
  BY <1>7, RefreshesKeeps
<1> QED  BY <1>1, <1>2, <1>3, <1>4, <1>5, <1>6, <1>7 DEF RequestStep

\* What no step of a caller changes.
Standing == <<state, requested, starter, cache, store, tasks, task, closer>>

\* Requests that go on, or end, once their caller has its client.
Stays ==
  \A c \in Caller :
    \/ request'[c].at = request[c].at
    \/ /\ request[c].at \notin {"none", "over", "client", "closing"}
       /\ request'[c].at \notin {"none", "client", "closing"}

\* Callers do not disturb the close tasks as long as no write comes in late.
LEMMA CourseStands ==
  ASSUME Typed, Course, UNCHANGED Standing, attempted => attempted',
         requested => InService' \subseteq InService
  PROVE  Course'
<1>1. /\ UNCHANGED <<state, requested, starter, cache, store>>
      /\ UNCHANGED <<tasks, task, closer>>
  BY DEF Standing
<1>2. TaskOK'
  BY <1>1 DEF Course, TaskOK, Ended
<1>3. ClosersOK'
  BY <1>1 DEF Course, ClosersOK
<1>4. requested /\ Settled => Settled'
  BY <1>1 DEF Settled, Last
<1>5. task.at # "none" => requested
  BY DEF Course, TaskOK
<1>6. LandOK'
  BY <1>1, <1>4, <1>5 DEF Course, LandOK
<1>7. ResultOK'
  BY <1>1 DEF Course, ResultOK, Faultless, Last, Starting
<1> QED  BY <1>2, <1>3, <1>6, <1>7 DEF Course

\* Requests that go on change neither the course of the close nor the clients.
LEMMA CallersGoOn ==
  ASSUME Typed, Course, Clients, UNCHANGED <<registryVars, sessionVars>>, Stays
  PROVE  Typed' /\ Course' /\ Clients'
<1>1. UNCHANGED <<looking, failure, cached, open, takers>>
  BY DEF registryVars
<1>2. /\ UNCHANGED <<state, requested, starter, cache, store, clientLock>>
      /\ UNCHANGED <<attempted, registryOk, tasks, task, closer, abandoned>>
  BY DEF sessionVars
<1>3. Typed'
  BY <1>1, <1>2 DEF Typed, RegistryTypeOK
<1>4. InService' \subseteq InService
  BY DEF InService, Stays
<1>5. Course'
  BY <1>2, <1>4, CourseStands DEF Standing
<1>6. /\ \A c \in Caller : request'[c].at = "closing" <=> request[c].at = "closing"
      /\ \A c \in Caller : request'[c].at = "client" <=> request[c].at = "client"
      /\ \A c \in Caller : request[c].at \in {"none", "over"} => request'[c].at = request[c].at
  BY DEF Stays
<1>7. LockOK'
  BY <1>1, <1>2, <1>6 DEF Clients, LockOK, IsAt
<1>8. ClientsOK'
  BY <1>1, <1>2, <1>6 DEF Clients, ClientsOK, Held, IsAt
<1> QED  BY <1>3, <1>5, <1>7, <1>8 DEF Clients

\* The steps of a request, and its cancellation, are of that kind.
LEMMA RequestStepStays ==
  ASSUME Requests, NEW c \in Caller, RequestStep(c) \/ Cancels(c)
  PROVE  Stays
<1>1. request \in [Caller -> Request] /\ request[c] \in Request
  BY DEF Requests, TransportTypeOK, Request
<1>2. ASSUME NEW r, Moves(c, r), request[c].at \notin {"none", "over", "client", "closing"},
             r.at \notin {"none", "client", "closing"}
      PROVE  Stays
  <2>1. \A d \in Caller : request'[d] = IF d = c THEN r ELSE request[d]
    BY <1>1, <1>2 DEF Moves
  <2> QED  BY <1>2, <2>1 DEF Stays
<1>3. CASE TakesSlot(c)
  BY <1>1, <1>2, <1>3 DEF TakesSlot, IsAt, Request
<1>4. CASE ForgeAnswers(c)
  <2>1. PICK answer : Moves(c, [request[c] EXCEPT !.at = "reading", !.answer = answer])
    BY <1>4 DEF ForgeAnswers
  <2> QED  BY <1>1, <1>2, <1>4, <2>1 DEF ForgeAnswers, IsAt, Request
<1>5. ASSUME Over(c), request[c].at \notin {"none", "over", "client", "closing"}
      PROVE  Stays
  BY <1>2, <1>5 DEF Over, NoRequest
<1>6. CASE TransportFails(c)
  <2>1. Over(c) /\ request[c].at \notin {"none", "over", "client", "closing"}
    BY <1>6 DEF TransportFails, IsAt
  <2> QED  BY <1>5, <2>1
<1>7. CASE ReadsBody(c)
  <2>1. request[c].at = "reading"
    BY <1>7 DEF ReadsBody, IsAt
  <2>2. ASSUME Moves(c, [request[c] EXCEPT !.at = "slot", !.answer = "none", !.moved = TRUE])
        PROVE  Stays
    BY <1>1, <1>2, <2>1, <2>2 DEF Request
  <2>3. ASSUME Moves(c, [request[c] EXCEPT !.at = "lock", !.answer = "none"])
        PROVE  Stays
    BY <1>1, <1>2, <2>1, <2>3 DEF Request
  <2>4. ASSUME Moves(c, [NoRequest EXCEPT !.at = "sleep"])
        PROVE  Stays
    BY <1>2, <2>1, <2>4 DEF NoRequest
  <2>5. ASSUME Over(c)
        PROVE  Stays
    BY <1>5, <2>1, <2>5
  <2> QED  BY <1>7, <2>2, <2>3, <2>4, <2>5 DEF ReadsBody
<1>8. CASE Wakes(c)
  BY <1>2, <1>8 DEF Wakes, IsAt, Sends, NoRequest
<1>9. ASSUME NEW new, Renewed(c, new), request[c].at \in {"lock", "refresh"}
      PROVE  Stays
  BY <1>1, <1>2, <1>9 DEF Renewed, Request
<1>10. CASE LocksToken(c)
  <2>1. ASSUME Moves(c, [request[c] EXCEPT !.at = "refresh"]), request[c].at = "lock"
        PROVE  Stays
    BY <1>1, <1>2, <2>1 DEF Request
  <2> QED  BY <1>9, <1>10, <2>1 DEF LocksToken, IsAt
<1>11. CASE Refreshes(c)
  BY <1>5, <1>9, <1>11 DEF Refreshes, IsAt
<1>12. CASE Cancels(c)
  BY <1>5, <1>12 DEF Cancels
<1> QED
  BY <1>3, <1>4, <1>6, <1>7, <1>8, <1>10, <1>11, <1>12 DEF RequestStep

\* A caller moves outside its flight; what the forge has done stays.
LEMMA CallerMoves ==
  ASSUME Requests, NEW c \in Caller, NEW r \in Request, Moves(c, r),
         request[c].at \notin Flying, r.at \notin Flying, r.at = "over" \/ acted[c] = 0,
         UNCHANGED <<scenario, slots, valid, refresher, acted>>, token' \in {0, 1}
  PROVE  Requests'
<1>1. slots \in Nat /\ valid \in {0, 1} /\ refresher \in Caller \cup {None} /\ acted[c] \in {0, 1}
  BY RequestFacts
<1>2. Weight(request[c]) = 0 /\ Weight(r) = 0
  BY DEF Weight
<1>3. slots' = slots + Weight(request[c]) - Weight(r) /\ slots' \in Nat
  BY <1>1, <1>2
<1> QED  BY <1>1, <1>3, RequestMoves

\* A caller ends outside its flight.
LEMMA CallerOver ==
  ASSUME Requests, NEW c \in Caller, Over(c), request[c].at \notin Flying,
         UNCHANGED <<scenario, slots, token, valid, refresher, acted>>
  PROVE  Requests'
<1>1. slots \in Nat /\ token \in {0, 1} /\ refresher \in Caller \cup {None}
  BY RequestFacts
<1>2. slots' = slots + Weight(request[c])
  BY <1>1 DEF Weight
<1> QED  BY <1>1, <1>2, RequestOver

\* A call begins: part one.
LEMMA CallsKeepsRequests ==
  ASSUME Requests, NEW c \in Caller, Calls(c)
  PROVE  Requests'
<1>1. request[c] \in Request /\ request[c].at = "none" /\ acted[c] = 0
  BY RequestFacts DEF Calls, IsAt
<1>2. UNCHANGED <<scenario, slots, token, valid, refresher, acted>> /\ token \in {0, 1}
  BY RequestFacts DEF Calls
<1>3. ASSUME NEW at \in {"client", "lookup"}, Moves(c, [request[c] EXCEPT !.at = at])
      PROVE  Requests'
  <2> DEFINE r == [request[c] EXCEPT !.at = at]
  <2>1. r \in Request /\ r.at \notin Flying /\ request[c].at \notin Flying
    BY <1>1 DEF Request, Flying
  <2>2. Moves(c, r)
    BY <1>3
  <2> HIDE DEF r
  <2> QED  BY <1>1, <1>2, <2>1, <2>2, CallerMoves
<1>4. ASSUME Over(c)
      PROVE  Requests'
  BY <1>1, <1>2, <1>4, CallerOver DEF Flying
<1> QED  BY <1>3, <1>4 DEF Calls, Asks

\* The shared look-up ends for all who wait for it: part one.
LEMMA LookupKeepsRequests ==
  ASSUME Requests, LookupEnds
  PROVE  Requests'
<1>1. /\ request \in [Caller -> Request] /\ acted \in [Caller -> Nat]
      /\ valid \in {0, 1} /\ TransportTypeOK /\ SlotsAccounted /\ ActedOK
  BY DEF Requests, TransportTypeOK, Request
<1>2. UNCHANGED <<scenario, slots, token, valid, refresher, acted>>
  BY DEF LookupEnds
<1>3. ASSUME NEW d \in Caller
      PROVE  /\ request'[d] \in Request
             /\ \/ request'[d] = request[d]
                \/ request[d].at = "lookup" /\ request'[d].at \in {"found", "over"}
  <2>0. request[d] \in Request /\ valid \in {0, 1}
    BY <1>1
  <2>1. /\ [request[d] EXCEPT !.at = "found", !.sent = valid] \in Request
        /\ [request[d] EXCEPT !.at = "found", !.sent = valid].at = "found"
    BY <2>0 DEF Request
  <2>2. /\ [request[d] EXCEPT !.at = "over"] \in Request
        /\ [request[d] EXCEPT !.at = "over"].at = "over"
    BY <2>0 DEF Request
  <2>3. \/ request'[d] = [request[d] EXCEPT !.at = "found", !.sent = valid]
           /\ request[d].at = "lookup"
        \/ request'[d] = [request[d] EXCEPT !.at = "over"] /\ request[d].at = "lookup"
        \/ request'[d] = request[d]
    BY DEF LookupEnds, IsAt
  <2> QED  BY <2>0, <2>1, <2>2, <2>3
<1>4. request' \in [Caller -> Request]
  <2>1. request' = [d \in Caller |-> request'[d]]
    BY DEF LookupEnds
  <2> QED  BY <1>3, <2>1
<1>5. TransportTypeOK'
  BY <1>1, <1>2, <1>4 DEF TransportTypeOK, Request
<1>6. {d \in Caller : request'[d].at \in {"sent", "reading"}}
        = {d \in Caller : request[d].at \in {"sent", "reading"}}
  BY <1>3
<1>7. SlotsAccounted'
  BY <1>1, <1>2, <1>6 DEF SlotsAccounted
<1>8. ActedOK'
  BY <1>1, <1>2, <1>3 DEF ActedOK
<1> QED  BY <1>5, <1>7, <1>8 DEF Requests

\* A client is made or found: part one.
LEMMA MakesClientKeepsRequests ==
  ASSUME Requests, NEW c \in Caller, MakesClient(c)
  PROVE  Requests'
<1> DEFINE r == [request[c] EXCEPT !.at = "client"]
<1>1. /\ request[c] \in Request /\ request[c].at = "found" /\ acted[c] = 0
      /\ token \in {0, 1}
  BY RequestFacts DEF MakesClient, IsAt
<1>2. /\ r \in Request /\ r.at \notin Flying
      /\ request[c].at \notin Flying /\ request[c].sent \in {0, 1}
  BY <1>1 DEF Request, Flying
<1>3. Moves(c, r) /\ token' \in {0, 1} /\ UNCHANGED <<scenario, slots, valid, refresher, acted>>
  BY <1>1, <1>2 DEF MakesClient
<1> HIDE DEF r
<1> QED  BY <1>1, <1>2, <1>3, CallerMoves

\* A caller sends its request or comes too late: part one.
LEMMA GetsClientKeepsRequests ==
  ASSUME Requests, NEW c \in Caller, GetsClient(c)
  PROVE  Requests'
<1>1. /\ request[c] \in Request /\ request[c].at = "client" /\ acted[c] = 0
      /\ token \in {0, 1} /\ UNCHANGED <<scenario, slots, token, valid, refresher, acted>>
  BY RequestFacts DEF GetsClient, IsAt
<1>2. ASSUME Sends(c, request[c])
      PROVE  Requests'
  <2> DEFINE r == [request[c] EXCEPT !.at = "slot", !.sent = token]
  <2>1. r \in Request /\ r.at \notin Flying /\ request[c].at \notin Flying
    BY <1>1 DEF Request, Flying
  <2>2. Moves(c, r)
    BY <1>2 DEF Sends
  <2> HIDE DEF r
  <2> QED  BY <1>1, <2>1, <2>2, CallerMoves
<1>3. ASSUME Moves(c, [request[c] EXCEPT !.at = "closing"])
      PROVE  Requests'
  <2> DEFINE r == [request[c] EXCEPT !.at = "closing"]
  <2>1. r \in Request /\ r.at \notin Flying /\ request[c].at \notin Flying
    BY <1>1 DEF Request, Flying
  <2>2. Moves(c, r)
    BY <1>3
  <2> HIDE DEF r
  <2> QED  BY <1>1, <2>1, <2>2, CallerMoves
<1> QED  BY <1>2, <1>3 DEF GetsClient

\* A late caller ends: part one.
LEMMA LateKeepsRequests ==
  ASSUME Requests, NEW c \in Caller, LateClosed(c) \/ LateCancelled(c)
  PROVE  Requests'
BY CallerOver DEF LateClosed, LateCancelled, IsAt, Flying

\* The token expires: part one.
LEMMA ExpiresKeepsRequests ==
  ASSUME Requests, Expires
  PROVE  Requests'
BY DEF Requests, Expires, TransportTypeOK, SlotsAccounted, ActedOK

\* Start and close touch no request.
LEMMA RequestsStand ==
  ASSUME Requests, UNCHANGED transportVars
  PROVE  Requests'
BY DEF Requests, transportVars, TransportTypeOK, SlotsAccounted, ActedOK

\* The request of one caller moves and no other.
LEMMA OthersStay ==
  ASSUME Requests, NEW c \in Caller, NEW r, Moves(c, r)
  PROVE  \A d \in Caller : request'[d] = IF d = c THEN r ELSE request[d]
BY DEF Requests, TransportTypeOK, Moves

\* What the holder of the client lock tells.
LEMMA LockHolder ==
  ASSUME Typed, Clients
  PROVE  /\ clientLock = None => takers = {}
         /\ \A c \in Caller : IsAt(c, "closing") <=> clientLock = c
         /\ clientLock # None => requested /\ attempted
         /\ attempted => requested
<1>1. None \notin takers
  BY DEF Typed, RegistryTypeOK
<1> QED  BY <1>1 DEF Clients, LockOK

\* Types, when a caller makes the step.
LEMMA TypesStand ==
  ASSUME Typed, RegistryTypeOK', UNCHANGED Standing,
         clientLock' \in Caller \cup {Coordinator, None},
         attempted' \in BOOLEAN, registryOk' \in BOOLEAN, abandoned' \in BOOLEAN
  PROVE  Typed'
<1>1. /\ UNCHANGED <<state, requested, starter, cache, store>>
      /\ UNCHANGED <<tasks, task, closer>>
  BY DEF Standing
<1> QED  BY <1>1 DEF Typed

\* A call begins: only an open session lets a new request in.
LEMMA CallsKeeps ==
  ASSUME Requests, Typed, Course, Clients, NEW c \in Caller, Calls(c)
  PROVE  Typed' /\ Course' /\ Clients'
<1>1. /\ request[c] \in Request /\ request[c].at = "none"
      /\ UNCHANGED <<cached, open, takers, clientLock, attempted, registryOk, abandoned>>
      /\ UNCHANGED Standing
  BY RequestFacts DEF Calls, CallUnchanged, Standing, IsAt
<1>2. /\ UNCHANGED <<state, requested, starter, cache, store>>
      /\ UNCHANGED <<tasks, task, closer>>
  BY <1>1 DEF Standing
<1>3. PICK r : /\ Moves(c, r) /\ r.at \in {"client", "lookup", "over"}
               /\ r.at # "over" => state = "started" /\ ~requested
               /\ looking' # looking => state = "started"
  <2>1. ASSUME Over(c), UNCHANGED looking
        PROVE  \E r : /\ Moves(c, r) /\ r.at \in {"client", "lookup", "over"}
                      /\ r.at # "over" => state = "started" /\ ~requested
                      /\ looking' # looking => state = "started"
    BY <2>1 DEF Over, NoRequest
  <2>2. ASSUME NEW at \in {"client", "lookup"}, Moves(c, [request[c] EXCEPT !.at = at]),
               state = "started", ~requested
        PROVE  \E r : /\ Moves(c, r) /\ r.at \in {"client", "lookup", "over"}
                      /\ r.at # "over" => state = "started" /\ ~requested
                      /\ looking' # looking => state = "started"
    <3>1. [request[c] EXCEPT !.at = at].at = at
      BY <1>1 DEF Request
    <3> QED  BY <2>2, <3>1
  <2> QED  BY <2>1, <2>2 DEF Calls, Asks
<1>4. \A d \in Caller : request'[d] = IF d = c THEN r ELSE request[d]
  BY <1>3, OthersStay
<1>5. looking' \in BOOLEAN /\ failure' \in {"none", "recent", "old"}
  BY DEF Calls, Asks, Typed, RegistryTypeOK
<1>6. Typed'
  <2>1. RegistryTypeOK'
    BY <1>1, <1>5 DEF Typed, RegistryTypeOK
  <2> QED  BY <1>1, <2>1, TypesStand DEF Typed
<1>7. requested => InService' \subseteq InService
  BY <1>3, <1>4 DEF InService
<1>8. Course'
  BY <1>1, <1>7, CourseStands
<1>9. LockOK'
  BY <1>1, <1>2, <1>3, <1>4 DEF Clients, LockOK, IsAt
<1>10. ClientsOK'
  BY <1>1, <1>2, <1>3, <1>4 DEF Clients, ClientsOK, Held, IsAt
<1> QED  BY <1>6, <1>8, <1>9, <1>10 DEF Clients

\* A client is made: by a caller who then is on its way to the client lock.
LEMMA MakesClientKeeps ==
  ASSUME Requests, Typed, Course, Clients, NEW c \in Caller, MakesClient(c), UNCHANGED sessionVars
  PROVE  Typed' /\ Course' /\ Clients'
<1>1. /\ request[c] \in Request /\ request[c].at = "found" /\ UNCHANGED <<looking, failure, takers>>
      /\ Moves(c, [request[c] EXCEPT !.at = "client"])
  BY RequestFacts DEF MakesClient, IsAt
<1>2. /\ UNCHANGED <<state, requested, starter, cache, store, clientLock>>
      /\ UNCHANGED <<attempted, registryOk, tasks, task, closer, abandoned>>
  BY DEF sessionVars
<1>3. cached' = TRUE /\ open' = IF cached THEN open ELSE open + 1
  BY DEF MakesClient, Typed, RegistryTypeOK
<1>4. \A d \in Caller :
        request'[d] = IF d = c THEN [request[c] EXCEPT !.at = "client"] ELSE request[d]
  BY <1>1, OthersStay
<1>5. request'[c].at = "client" /\ \A d \in Caller \ {c} : request'[d] = request[d]
  BY <1>1, <1>4 DEF Request
<1>6. Typed'
  <2>1. RegistryTypeOK'
    BY <1>1, <1>3 DEF Typed, RegistryTypeOK
  <2> QED  BY <1>2, <2>1, TypesStand DEF Typed, Standing
<1>7. InService' \subseteq InService
  BY <1>1, <1>5 DEF InService
<1>8. Course'
  BY <1>2, <1>7, CourseStands DEF Standing
<1>9. LockOK'
  BY <1>1, <1>2, <1>5 DEF Clients, LockOK, IsAt
<1>10. open \in Nat /\ cached \in BOOLEAN /\ starter.at = "started"
  BY <1>1 DEF Typed, RegistryTypeOK, Clients, ClientsOK
<1>11. ClientsOK'
  BY <1>1, <1>2, <1>3, <1>5, <1>10 DEF Clients, ClientsOK, Held, IsAt
<1> QED  BY <1>6, <1>8, <1>9, <1>11 DEF Clients

\* The shared look-up ends.
LEMMA LookupKeeps ==
  ASSUME Requests, Typed, Course, Clients, LookupEnds, UNCHANGED sessionVars
  PROVE  Typed' /\ Course' /\ Clients'
<1>1. UNCHANGED <<cached, open, takers>> /\ looking /\ looking' = FALSE
  BY DEF LookupEnds
<1>2. /\ UNCHANGED <<state, requested, starter, cache, store, clientLock>>
      /\ UNCHANGED <<attempted, registryOk, tasks, task, closer, abandoned>>
  BY DEF sessionVars
<1>3. \A d \in Caller : \/ request'[d] = request[d]
                        \/ request[d].at = "lookup" /\ request'[d].at \in {"found", "over"}
  <2>1. request \in [Caller -> Request]
    BY DEF Requests, TransportTypeOK, Request
  <2>2. ASSUME NEW d \in Caller
        PROVE  /\ [request[d] EXCEPT !.at = "found", !.sent = valid].at = "found"
               /\ [request[d] EXCEPT !.at = "over"].at = "over"
    BY <2>1 DEF Request
  <2> QED  BY <2>2 DEF LookupEnds, IsAt
<1>4. failure' \in {"none", "recent", "old"}
  BY DEF LookupEnds, Typed, RegistryTypeOK
<1>5. Typed'
  <2>1. RegistryTypeOK'
    BY <1>1, <1>4 DEF Typed, RegistryTypeOK
  <2> QED  BY <1>2, <2>1, TypesStand DEF Typed, Standing
<1>6. InService' \subseteq InService
  BY <1>3 DEF InService
<1>7. Course'
  BY <1>2, <1>6, CourseStands DEF Standing
<1>8. LockOK'
  BY <1>1, <1>2, <1>3 DEF Clients, LockOK, IsAt
<1>9. starter.at = "started"
  BY <1>1 DEF Clients, ClientsOK
<1>10. ClientsOK'
  BY <1>1, <1>2, <1>3, <1>9 DEF Clients, ClientsOK, Held, IsAt
<1> QED  BY <1>5, <1>7, <1>8, <1>10 DEF Clients

\* A remembered refusal ages.
LEMMA AgesKeeps ==
  ASSUME Requests, Typed, Course, Clients, Ages, UNCHANGED sessionVars
  PROVE  Typed' /\ Course' /\ Clients'
<1>1. UNCHANGED <<request, looking, cached, open, takers>>
  BY DEF Ages, transportVars
<1>2. /\ UNCHANGED <<state, requested, starter, cache, store, clientLock>>
      /\ UNCHANGED <<attempted, registryOk, tasks, task, closer, abandoned>>
  BY DEF sessionVars
<1>3. failure' \in {"none", "recent", "old"}
  BY DEF Ages
<1>4. Typed'
  <2>1. RegistryTypeOK'
    BY <1>1, <1>3 DEF Typed, RegistryTypeOK
  <2> QED  BY <1>2, <2>1, TypesStand DEF Typed, Standing
<1>5. Course'
  BY <1>1, <1>2, CourseStands DEF Standing, InService
<1>6. LockOK' /\ ClientsOK'
  BY <1>1, <1>2 DEF Clients, LockOK, ClientsOK, Held, IsAt
<1> QED  BY <1>4, <1>5, <1>6 DEF Clients

\* A caller sends its request, or takes the late client from the registry.
LEMMA GetsClientKeeps ==
  ASSUME Requests, Typed, Course, Clients, NEW c \in Caller, GetsClient(c)
  PROVE  Typed' /\ Course' /\ Clients'
<1>1. /\ request[c] \in Request /\ request[c].at = "client" /\ clientLock = None /\ takers = {}
      /\ UNCHANGED <<looking, failure, open, registryOk, abandoned>> /\ UNCHANGED Standing
  BY RequestFacts, LockHolder DEF GetsClient, CallUnchanged, Standing, IsAt
<1>2. /\ UNCHANGED <<state, requested, starter, cache, store>>
      /\ UNCHANGED <<tasks, task, closer>>
  BY <1>1 DEF Standing
<1>3. starter.at = "started" /\ task.at # "closing"
  BY <1>1 DEF Clients, ClientsOK, LockOK
<1>4. ASSUME ~requested, Sends(c, request[c]), UNCHANGED <<cached, takers, clientLock, attempted>>
      PROVE  Typed' /\ Course' /\ Clients'
  <2>1. \A d \in Caller : request'[d] =
           IF d = c THEN [request[c] EXCEPT !.at = "slot", !.sent = token] ELSE request[d]
    BY <1>4, OthersStay DEF Sends
  <2>2. request'[c].at = "slot" /\ \A d \in Caller \ {c} : request'[d] = request[d]
    BY <1>1, <2>1 DEF Request
  <2>3. Typed'
    BY <1>1, <1>4, TypesStand DEF Typed, RegistryTypeOK
  <2>4. Course'
    BY <1>1, <1>4, CourseStands
  <2>5. LockOK'
    BY <1>1, <1>2, <1>4, <2>2 DEF Clients, LockOK, IsAt
  <2>6. ClientsOK'
    BY <1>1, <1>2, <1>3, <1>4, <2>2 DEF Clients, ClientsOK, LockOK, Held, IsAt
  <2> QED  BY <2>3, <2>4, <2>5, <2>6 DEF Clients
<1>5. ASSUME requested, Moves(c, [request[c] EXCEPT !.at = "closing"]), clientLock' = c,
             LateClose(c), attempted' = TRUE
      PROVE  Typed' /\ Course' /\ Clients'
  <2>1. \A d \in Caller : request'[d] =
           IF d = c THEN [request[c] EXCEPT !.at = "closing"] ELSE request[d]
    BY <1>5, OthersStay
  <2>2. request'[c].at = "closing" /\ \A d \in Caller \ {c} : request'[d] = request[d]
    BY <1>1, <2>1 DEF Request
  <2>3. cached' = FALSE /\ takers' = IF cached THEN {c} ELSE {}
    BY <1>1, <1>5 DEF LateClose, Takes
  <2>4. Typed'
    <3>1. RegistryTypeOK'
      BY <1>1, <2>3 DEF Typed, RegistryTypeOK
    <3> QED  BY <1>1, <1>5, <3>1, TypesStand DEF Typed
  <2>5. InService' \subseteq InService
    BY <1>1, <2>2 DEF InService
  <2>6. Course'
    BY <1>1, <1>5, <2>5, CourseStands
  <2>7. LockOK'
    <3>1. c # Coordinator /\ c # None
      OBVIOUS
    <3> QED  BY <1>1, <1>2, <1>3, <1>5, <2>2, <2>3, <3>1 DEF Clients, LockOK, IsAt
  <2>8. ClientsOK'
    BY <1>1, <1>2, <1>3, <2>3 DEF Clients, ClientsOK, Held
  <2> QED  BY <2>4, <2>6, <2>7, <2>8 DEF Clients
<1> QED  BY <1>4, <1>5 DEF GetsClient

\* A late caller is done with the client it closes, or was about to ask for.
LEMMA LateKeeps ==
  ASSUME Requests, Typed, Course, Clients, NEW c \in Caller,
         request[c].at \in {"client", "closing"},
         Over(c), UNCHANGED Standing, UNCHANGED <<looking, failure, cached, attempted>>,
         registryOk' \in BOOLEAN, abandoned' \in BOOLEAN, open' \in Nat,
         takers' = takers \ {c},
         clientLock' = IF clientLock = c THEN None ELSE clientLock,
         request[c].at = "client" => open' = open /\ registryOk' = registryOk
                                     /\ (attempted => abandoned') /\ (abandoned => abandoned'),
         request[c].at = "closing" =>
           \/ abandoned' /\ open' = open
           \/ ~registryOk' /\ open' = open /\ abandoned' = abandoned
           \/ /\ registryOk' = registryOk /\ abandoned' = abandoned
              /\ open' = IF c \in takers THEN open - 1 ELSE open
  PROVE  Typed' /\ Course' /\ Clients'
<1>1. /\ UNCHANGED <<state, requested, starter, cache, store>>
      /\ UNCHANGED <<tasks, task, closer>>
  BY DEF Standing
<1>2. request'[c].at = "over" /\ \A d \in Caller \ {c} : request'[d] = request[d]
  BY OthersStay DEF Over, NoRequest
<1>3. /\ clientLock = None => takers = {}
      /\ IsAt(c, "closing") <=> clientLock = c
      /\ clientLock # None => requested /\ attempted
      /\ takers \subseteq {clientLock}
  BY LockHolder DEF Clients, LockOK
<1>4. Typed'
  <2>1. RegistryTypeOK'
    BY DEF Typed, RegistryTypeOK
  <2> QED  BY <2>1, TypesStand DEF Typed
<1>5. InService' \subseteq InService
  BY <1>2 DEF InService
<1>6. Course'
  BY <1>5, CourseStands
<1>7. c # Coordinator /\ c # None /\ Coordinator # None
  OBVIOUS
<1>8. LockOK'
  BY <1>1, <1>2, <1>3, <1>7 DEF Clients, LockOK, IsAt
<1>9. starter.at = "started"
  BY DEF Clients, ClientsOK
<1>10. open \in Nat /\ cached \in BOOLEAN
  BY DEF Typed, RegistryTypeOK
<1>11. ClientsOK'
  <2>1. ASSUME request[c].at = "client"
        PROVE  ClientsOK'
    <3>1. clientLock # c
      BY <1>3, <2>1 DEF IsAt
    <3>2. takers' = takers
      BY <1>3, <3>1
    <3> QED  BY <1>1, <1>2, <1>9, <1>10, <2>1, <3>2 DEF Clients, ClientsOK, LockOK, Held, IsAt
  <2>2. ASSUME request[c].at = "closing"
        PROVE  ClientsOK'
    <3>1. takers' = {} /\ (c \in takers <=> takers # {})
      BY <1>3, <2>2 DEF IsAt
    <3>2. Held' = IF cached THEN 1 ELSE 0
      BY <3>1 DEF Held
    <3>3. Held = Held' + IF c \in takers THEN 1 ELSE 0
      BY <3>1, <3>2 DEF Held
    <3>4. /\ open' >= Held' /\ (registryOk' /\ ~abandoned' => open' = Held')
          /\ ~abandoned' => ~abandoned
      BY <1>10, <2>2, <3>2, <3>3 DEF Clients, ClientsOK
    <3> QED  BY <1>1, <1>2, <1>9, <2>2, <3>4 DEF Clients, ClientsOK, IsAt
  <2> QED  BY <2>1, <2>2
<1> QED  BY <1>4, <1>6, <1>8, <1>11 DEF Clients

\* A late caller has closed its client, or failed to.
LEMMA LateClosedKeeps ==
  ASSUME Requests, Typed, Course, Clients, NEW c \in Caller, LateClosed(c)
  PROVE  Typed' /\ Course' /\ Clients'
<1>1. request[c].at = "closing" /\ clientLock = c
  BY DEF LateClosed, IsAt, Clients, LockOK
<1>2. /\ Over(c) /\ UNCHANGED Standing
      /\ UNCHANGED <<looking, failure, cached, attempted, abandoned>>
      /\ clientLock' = None
  BY DEF LateClosed, CallUnchanged, Standing, ClientsClosed
<1>3. open \in Nat /\ open >= Held /\ registryOk \in BOOLEAN /\ abandoned \in BOOLEAN
  BY DEF Typed, RegistryTypeOK, Clients, ClientsOK
<1>4. /\ takers' = takers \ {c}
      /\ \/ ~registryOk' /\ registryOk' \in BOOLEAN /\ open' = open
         \/ registryOk' = registryOk /\ open' = IF c \in takers THEN open - 1 ELSE open
  BY DEF LateClosed, ClientsClosed, Gives
<1>5. c \in takers => open - 1 \in Nat
  BY <1>3 DEF Held
<1>6. open' \in Nat /\ registryOk' \in BOOLEAN
  BY <1>3, <1>4, <1>5
<1> QED  BY <1>1, <1>2, <1>3, <1>4, <1>6, LateKeeps

\* A late caller is cancelled: what it leaves open is recorded as abandoned.
LEMMA LateCancelledKeeps ==
  ASSUME Requests, Typed, Course, Clients, NEW c \in Caller, LateCancelled(c)
  PROVE  Typed' /\ Course' /\ Clients'
<1>1. /\ request[c].at \in {"client", "closing"} /\ Over(c) /\ takers' = takers \ {c}
      /\ clientLock' = IF clientLock = c THEN None ELSE clientLock
      /\ UNCHANGED <<looking, failure, cached, open, attempted>> /\ UNCHANGED Standing
  BY DEF LateCancelled, IsAt, CallUnchanged, Standing
<1>2. open \in Nat /\ registryOk \in BOOLEAN /\ abandoned \in BOOLEAN /\ requested \in BOOLEAN
  BY DEF Typed, RegistryTypeOK
<1>3. /\ attempted => requested
      /\ request[c].at = "closing" => requested
  BY LockHolder DEF IsAt
<1>4. /\ registryOk' \in BOOLEAN /\ (request[c].at = "client" => registryOk' = registryOk)
      /\ abandoned' = (abandoned \/ requested)
  BY <1>2 DEF LateCancelled, IsAt
<1>5. abandoned' \in BOOLEAN /\ (requested => abandoned')
  BY <1>2, <1>4
<1> QED  BY <1>1, <1>2, <1>3, <1>4, <1>5, LateKeeps

\* Where a close task can be.
TaskAts == {"none", "settle", "services", "store", "registry", "closing", "cache"}

\* The types, field by field.
LEMMA TypeFacts ==
  ASSUME Typed
  PROVE  /\ tasks \in Seq(TaskRow) /\ Len(tasks) \in Nat
         /\ \A n \in 1 .. Len(tasks) : tasks[n] \in TaskRow
         /\ task.at \in TaskAts /\ task.failed \in BOOLEAN
         /\ task = [at |-> task.at, failed |-> task.failed]
         /\ requested \in BOOLEAN /\ starter.on \in 0 .. Len(tasks)
         /\ starter.at \in {"idle", "cache", "store", "started", "cleanup", "ended"}
         /\ starter.cancelled \in BOOLEAN
         /\ state \in {"new", "starting", "started", "closing", "closed"}
<1>1. tasks \in Seq(TaskRow)
  BY DEF Typed
<1>2. Len(tasks) \in Nat /\ \A n \in 1 .. Len(tasks) : tasks[n] \in TaskRow
  BY <1>1, LenProperties, ElementOfSeq
<1> QED  BY <1>1, <1>2 DEF Typed, TaskAts

\* A new close task is the last of the tasks and starts over.
LEMMA EnsureFacts ==
  ASSUME Typed, TaskOK, NEW final \in BOOLEAN, EnsureTask(final)
  PROVE  /\ tasks' \in Seq(TaskRow) /\ Len(tasks') \in Nat /\ Len(tasks') >= Len(tasks)
         /\ Len(tasks') \in 1 .. Len(tasks')
         /\ \A n \in 1 .. Len(tasks) : tasks'[n] = tasks[n]
         /\ requested'
         /\ \/ UNCHANGED <<requested, tasks, task>>
            \/ /\ Len(tasks') = Len(tasks) + 1
               /\ tasks'[Len(tasks')] = [final |-> final, result |-> "running"]
               /\ task' = [at |-> "settle", failed |-> FALSE]
               /\ task.at = "none" /\ state # "closed" /\ requested' = TRUE
<1> DEFINE row == [final |-> final, result |-> "running"]
<1>1. tasks \in Seq(TaskRow) /\ Len(tasks) \in Nat /\ requested \in BOOLEAN
  BY TypeFacts
<1>2. tasks # << >> => Len(tasks) > 0
  BY <1>1, EmptySeq
<1>3. CASE NeedsTask
  <2>1. row \in TaskRow
    BY DEF TaskRow
  <2>2. /\ tasks' = Append(tasks, row) /\ requested' = TRUE
        /\ task' = [at |-> "settle", failed |-> FALSE]
    BY <1>3 DEF EnsureTask, NoTask
  <2> HIDE DEF row
  <2>3. /\ tasks' \in Seq(TaskRow) /\ Len(tasks') = Len(tasks) + 1
        /\ \A n \in 1 .. Len(tasks) : tasks'[n] = tasks[n]
        /\ tasks'[Len(tasks')] = row
    BY <1>1, <2>1, <2>2, AppendProperties
  <2>4. task.at = "none" /\ state # "closed"
    <3>1. ASSUME tasks = << >>
          PROVE  task.at = "none" /\ state # "closed"
      BY <3>1 DEF TaskOK
    <3>2. ASSUME Ended(Len(tasks)), state = "closing", tasks # << >>
          PROVE  task.at = "none" /\ state # "closed"
      <4>1. Len(tasks) \in 1 .. Len(tasks)
        BY <1>1, <1>2, <3>2
      <4> QED  BY <3>2, <4>1 DEF TaskOK
    <3> QED  BY <1>3, <3>1, <3>2 DEF NeedsTask
  <2>5. tasks'[Len(tasks')] = [final |-> final, result |-> "running"]
    BY <2>3 DEF row
  <2>6. Len(tasks') \in Nat /\ Len(tasks') >= Len(tasks) /\ Len(tasks') \in 1 .. Len(tasks')
    BY <1>1, <2>3
  <2>7. requested'
    BY <2>2
  <2> QED  BY <2>2, <2>3, <2>4, <2>5, <2>6, <2>7
<1>4. CASE ~NeedsTask
  <2>1. UNCHANGED <<requested, tasks, task>> /\ tasks # << >>
    BY <1>4 DEF EnsureTask, NeedsTask
  <2>2. requested
    BY <2>1 DEF TaskOK
  <2> QED  BY <1>1, <1>2, <2>1, <2>2
<1> QED  BY <1>3, <1>4

\* What goes on beside the close task keeps its course.
LEMMA CourseGoesOn ==
  ASSUME Typed, Course, NEW final \in BOOLEAN,
         EnsureTask(final) \/ UNCHANGED <<requested, tasks, task>>,
         UNCHANGED <<state, request, attempted>>,
         store' = "closed" => store = "closed", cache' = "closed" => cache = "closed",
         store' = "open" => store = "open" \/ Starting,
         cache' = "open" => cache = "open" \/ Starting,
         Starting' => Starting \/ ~requested,
         starter'.at = "started" => starter.at = "started" \/ ~requested'
  PROVE  TaskOK' /\ LandOK' /\ ResultOK'
<1>0. /\ TaskOK /\ LandOK /\ ResultOK
      /\ tasks \in Seq(TaskRow) /\ Len(tasks) \in Nat
      /\ tasks # << >> => Len(tasks) \in 1 .. Len(tasks)
  <2>1. TaskOK /\ LandOK /\ ResultOK /\ tasks \in Seq(TaskRow) /\ Len(tasks) \in Nat
    BY TypeFacts DEF Course
  <2> QED  BY <2>1, EmptySeq
<1>1. ASSUME UNCHANGED <<requested, tasks, task>>
      PROVE  TaskOK' /\ LandOK' /\ ResultOK'
  <2>1. TaskOK'
    BY <1>0, <1>1 DEF TaskOK, Ended
  <2>2. Settled' <=> Settled
    BY <1>1 DEF Settled, Last, InService
  <2>3. LandOK'
    BY <1>0, <1>1, <2>2 DEF LandOK
  <2>4. Faultless' <=> Faultless
    BY <1>1 DEF Faultless, Last
  <2>5. Faultless => requested
    BY <1>0 DEF Faultless, TaskOK
  <2>6. ResultOK'
    BY <1>0, <1>1, <2>4, <2>5 DEF ResultOK
  <2> QED  BY <2>1, <2>3, <2>6
<1>2. ASSUME Len(tasks') = Len(tasks) + 1,
             \A n \in 1 .. Len(tasks) : tasks'[n] = tasks[n],
             tasks'[Len(tasks')] = [final |-> final, result |-> "running"],
             task' = [at |-> "settle", failed |-> FALSE],
             task.at = "none", state # "closed", requested' = TRUE,
             tasks' \in Seq(TaskRow)
      PROVE  TaskOK' /\ LandOK' /\ ResultOK'
  <2>1. tasks' # << >>
    BY <1>0, <1>2, EmptySeq
  <2>2. \A n \in 1 .. Len(tasks') : n \in 1 .. Len(tasks) \/ n = Len(tasks')
    BY <1>0, <1>2
  <2>3. tasks'[Len(tasks')].result = "running"
    BY <1>2
  <2>4. \A n \in 1 .. Len(tasks) : Ended(n)' <=> Ended(n)
    BY <1>2 DEF Ended
  <2>5. \A n \in 1 .. Len(tasks) : n # Len(tasks')
    BY <1>0, <1>2
  <2>6. \A n \in 1 .. Len(tasks) : Ended(n)
    BY <1>0, <1>2 DEF TaskOK
  <2>7. TaskOK'
    <3>1. \A n \in 1 .. Len(tasks') : Ended(n)' <=> n \in 1 .. Len(tasks)
      BY <2>2, <2>3, <2>4, <2>5, <2>6 DEF Ended
    <3>2. \A n \in 1 .. Len(tasks') : ~Ended(n)' <=> (n = Len(tasks') /\ task'.at # "none")
      BY <1>2, <2>2, <2>5, <3>1
    <3>3. \A n \in 1 .. Len(tasks') : Ended(n)' => state' \in {"closing", "closed"}
      BY <1>0, <2>6, <3>1 DEF TaskOK
    <3>4. \A n \in 1 .. Len(tasks') :
            ~(Ended(n)' /\ (tasks'[n].result = "ok" \/ tasks'[n].final))
      BY <1>0, <1>2, <2>6, <3>1 DEF TaskOK
    <3> QED  BY <1>2, <2>1, <3>2, <3>3, <3>4 DEF TaskOK
  <2>8. store' # "closed" /\ cache' # "closed"
    BY <1>0, <1>2 DEF LandOK
  <2>9. LandOK'
    BY <1>2, <2>8 DEF LandOK
  <2>10. ResultOK'
    BY <1>2 DEF ResultOK
  <2> QED  BY <2>7, <2>9, <2>10
<1>3. CASE EnsureTask(final)
  <2> QED  BY <1>0, <1>1, <1>2, <1>3, EnsureFacts
<1> QED  BY <1>1, <1>3

\* Closes and cleanups keep what they joined.
LEMMA ClosersGoOn ==
  ASSUME Typed, Course, Len(tasks') \in Nat, Len(tasks') >= Len(tasks),
         \A n \in 1 .. Len(tasks) : tasks'[n].final = tasks[n].final,
         state = "closed" => state' = "closed",
         starter'.at = "cleanup" => starter'.on \in 1 .. Len(tasks')
                                    \/ (starter.at = "cleanup" /\ starter'.on = starter.on),
         UNCHANGED closer
  PROVE  ClosersOK'
<1>1. ClosersOK /\ Len(tasks) \in Nat
  BY TypeFacts DEF Course
<1>2. 1 .. Len(tasks) \subseteq 1 .. Len(tasks')
  BY <1>1
<1> QED  BY <1>1, <1>2 DEF ClosersOK

\* Part four, when no client is made, taken or closed.
LEMMA ClientsGoOn ==
  ASSUME Clients, UNCHANGED registryVars,
         UNCHANGED <<request, clientLock, attempted, registryOk, abandoned>>,
         task'.at = "closing" <=> task.at = "closing", requested => requested',
         state' = "started" => starter'.at = "started",
         starter'.at # "started" => starter.at # "started"
  PROVE  Clients'
<1>1. UNCHANGED <<looking, failure, cached, open, takers>>
  BY DEF registryVars
<1>2. LockOK'
  BY <1>1 DEF Clients, LockOK, IsAt
<1>3. ClientsOK'
  BY <1>1 DEF Clients, ClientsOK, Held, IsAt
<1> QED  BY <1>2, <1>3 DEF Clients

\* Before anybody has asked for a close there is no task.
LEMMA CourseBefore ==
  ASSUME Typed, Course, ~requested, UNCHANGED <<requested, tasks, task>>,
         store' # "closed", cache' # "closed", state' # "closed"
  PROVE  TaskOK' /\ LandOK' /\ ResultOK'
<1>1. tasks = << >> /\ task.at = "none" /\ Len(tasks) = 0
  BY EmptySeq DEF Course, TaskOK
<1>2. TaskOK'
  BY <1>1 DEF Course, TaskOK
<1>3. LandOK' /\ ResultOK'
  BY <1>1 DEF LandOK, ResultOK, Faultless
<1> QED  BY <1>2, <1>3

\* The rows of Typed.
StarterRow == [at : {"idle", "cache", "store", "started", "cleanup", "ended"}, cancelled : BOOLEAN,
               on : 0 .. Len(tasks)]
CloserRow == [at : {"idle", "waiting", "returned"}, on : 0 .. Len(tasks), waits : 0 .. 2]
TaskState == [at : {"none", "settle", "services", "store", "registry", "closing", "cache"},
              failed : BOOLEAN]

\* More tasks change no type.
LEMMA RowsGrow ==
  ASSUME Typed, Len(tasks') \in Nat, Len(tasks') >= Len(tasks)
  PROVE  /\ starter \in StarterRow' /\ starter \in StarterRow
         /\ closer \in [Closer -> CloserRow'] /\ closer \in [Closer -> CloserRow]
<1>1. Len(tasks) \in Nat
  BY TypeFacts
<1>2. 0 .. Len(tasks) \subseteq 0 .. Len(tasks')
  BY <1>1
<1>3. starter \in StarterRow /\ closer \in [Closer -> CloserRow]
  BY DEF Typed, StarterRow, CloserRow
<1>4. \A r \in StarterRow : r \in StarterRow'
  BY <1>2 DEF StarterRow
<1>5. \A r \in CloserRow : r \in CloserRow'
  BY <1>2 DEF CloserRow
<1> QED  BY <1>3, <1>4, <1>5

\* Types, when start or close makes the step.
LEMMA TypesGoOn ==
  ASSUME Typed, RegistryTypeOK', state' \in {"new", "starting", "started", "closing", "closed"},
         requested' \in BOOLEAN, starter' \in StarterRow',
         cache' \in {"unopened", "open", "closed"}, store' \in {"unopened", "open", "closed"},
         clientLock' \in Caller \cup {Coordinator, None},
         attempted' \in BOOLEAN, registryOk' \in BOOLEAN, UNCHANGED abandoned,
         tasks' \in Seq(TaskRow), task' \in TaskState, closer' \in [Closer -> CloserRow']
  PROVE  Typed'
BY DEF Typed, StarterRow, CloserRow, TaskState

\* start begins, or refuses.
LEMMA StartKeeps ==
  ASSUME Typed, Course, Clients, Start
  PROVE  Typed' /\ Course' /\ Clients'
<1>1. /\ starter.at = "idle" /\ UNCHANGED <<requested, cache, store, tasks, task, closer>>
      /\ UNCHANGED registryVars
      /\ UNCHANGED <<request, clientLock, attempted, registryOk, abandoned>>
  BY DEF Start, StartUnchanged, transportVars
<1>2. UNCHANGED <<looking, failure, cached, open, takers>>
  BY <1>1 DEF registryVars
<1>3. Len(tasks) \in Nat /\ tasks \in Seq(TaskRow)
  BY TypeFacts
<1>4. starter \in StarterRow' /\ closer \in [Closer -> CloserRow']
  BY <1>1, <1>3, RowsGrow
<1>5. /\ \/ requested /\ starter' = [starter EXCEPT !.at = "ended"] /\ state' = state
         \/ ~requested /\ starter' = [starter EXCEPT !.at = "cache"] /\ state' = "starting"
  BY DEF Start
<1>6. /\ starter' \in StarterRow'
      /\ \/ requested /\ starter'.at = "ended" /\ state' = state
         \/ ~requested /\ starter'.at = "cache" /\ state' = "starting"
  BY <1>4, <1>5 DEF StarterRow
<1>7. Typed'
  <2>1. RegistryTypeOK' /\ task' \in TaskState
    BY <1>1, <1>2 DEF Typed, RegistryTypeOK, TaskState
  <2> QED  BY <1>1, <1>3, <1>4, <1>6, <2>1, TypesGoOn DEF Typed
<1>8. TaskOK' /\ LandOK' /\ ResultOK'
  <2>1. ASSUME requested, starter'.at = "ended", state' = state
        PROVE  TaskOK' /\ LandOK' /\ ResultOK'
    BY <1>1, <2>1, CourseGoesOn DEF Starting
  <2>2. ASSUME ~requested, state' = "starting"
        PROVE  TaskOK' /\ LandOK' /\ ResultOK'
    <3>1. store # "closed" /\ cache # "closed"
      BY <2>2 DEF Course, LandOK
    <3> QED  BY <1>1, <2>2, <3>1, CourseBefore
  <2> QED  BY <1>6, <2>1, <2>2
<1>9. state # "closed" \/ requested
  BY DEF Course, TaskOK
<1>10. ClosersOK'
  BY <1>1, <1>3, <1>6, <1>9, ClosersGoOn
<1>11. Clients'
  <2>1. state' = "started" => starter'.at = "started"
    BY <1>1, <1>6 DEF Clients, ClientsOK
  <2> QED  BY <1>1, <2>1, ClientsGoOn
<1> QED  BY <1>7, <1>8, <1>10, <1>11 DEF Course

\* The cleanup of a failed start joins the close task.
LEMMA CleansUpKeeps ==
  ASSUME Typed, Course, Clients, Starting, CleansUp, UNCHANGED state, StartUnchanged,
         cache' \in {cache, "open"}, store' \in {store, "open"}
  PROVE  Typed' /\ Course' /\ Clients'
<1>1. /\ UNCHANGED registryVars /\ UNCHANGED <<request, clientLock, attempted, registryOk>>
      /\ UNCHANGED <<abandoned, closer>>
  BY DEF StartUnchanged, transportVars
<1>2. UNCHANGED <<looking, failure, cached, open, takers>>
  BY <1>1 DEF registryVars
<1>3. EnsureTask(FALSE) /\ starter' = [starter EXCEPT !.at = "cleanup", !.on = Len(tasks')]
  BY DEF CleansUp
<1>4. /\ tasks' \in Seq(TaskRow) /\ Len(tasks') \in Nat /\ Len(tasks') >= Len(tasks)
      /\ Len(tasks') \in 1 .. Len(tasks') /\ \A n \in 1 .. Len(tasks) : tasks'[n] = tasks[n]
      /\ requested' /\ (requested' = TRUE \/ requested' = requested)
      /\ task' = task \/ (task' = [at |-> "settle", failed |-> FALSE] /\ task.at = "none")
  BY <1>3, EnsureFacts DEF Course
<1>5. starter \in StarterRow' /\ closer \in [Closer -> CloserRow']
  BY <1>4, RowsGrow
<1>6. starter' \in StarterRow' /\ starter'.at = "cleanup" /\ starter'.on = Len(tasks')
  <2>1. Len(tasks') \in 0 .. Len(tasks')
    BY <1>4
  <2> DEFINE n == Len(tasks')
  <2>2. n \in 0 .. n /\ starter' = [starter EXCEPT !.at = "cleanup", !.on = n]
        /\ starter \in [at : {"idle", "cache", "store", "started", "cleanup", "ended"},
                        cancelled : BOOLEAN, on : 0 .. n]
    BY <1>3, <1>5, <2>1 DEF StarterRow
  <2> HIDE DEF n
  <2>3. starter'.at = "cleanup" /\ starter'.on = n
        /\ starter' \in [at : {"idle", "cache", "store", "started", "cleanup", "ended"},
                         cancelled : BOOLEAN, on : 0 .. n]
    BY <2>2
  <2> QED  BY <2>3 DEF n, StarterRow
<1>7. Typed'
  <2>1. RegistryTypeOK' /\ requested' \in BOOLEAN
    BY <1>2, <1>4, TypeFacts DEF Typed, RegistryTypeOK
  <2>2. task' \in TaskState
    <3>1. task \in TaskState /\ [at |-> "settle", failed |-> FALSE] \in TaskState
      BY DEF Typed, TaskState
    <3> QED  BY <1>4, <3>1
  <2> QED  BY <1>1, <1>4, <1>5, <1>6, <2>1, <2>2, TypesGoOn DEF Typed
<1>8. TaskOK' /\ LandOK' /\ ResultOK'
  BY <1>1, <1>3, <1>6, CourseGoesOn DEF Starting
<1>9. ClosersOK'
  BY <1>1, <1>4, <1>6, ClosersGoOn
<1>10. Clients'
  <2>1. starter.at # "started" /\ state' # "started"
    BY DEF Starting, Clients, ClientsOK
  <2> QED  BY <1>1, <1>4, <1>6, <2>1, ClientsGoOn
<1> QED  BY <1>7, <1>8, <1>9, <1>10 DEF Course

\* start has opened the cache or the store.
LEMMA OpensKeeps ==
  ASSUME Typed, Course, Clients, Opens
  PROVE  Typed' /\ Course' /\ Clients'
<1>1. /\ Starting /\ StartUnchanged /\ starter.at \in {"cache", "store"}
      /\ cache' \in {cache, "open"} /\ store' \in {store, "open"}
  BY DEF Opens, Starting
<1>2. ASSUME requested, CleansUp, UNCHANGED state
      PROVE  Typed' /\ Course' /\ Clients'
  BY <1>1, <1>2, CleansUpKeeps
<1>3. ASSUME ~requested, UNCHANGED <<requested, tasks, task>>,
             \/ starter' = [starter EXCEPT !.at = "store"] /\ UNCHANGED state
             \/ starter' = [starter EXCEPT !.at = "started"] /\ state' = "started"
      PROVE  Typed' /\ Course' /\ Clients'
  <2>1. /\ UNCHANGED registryVars /\ UNCHANGED <<request, clientLock, attempted, registryOk>>
        /\ UNCHANGED <<abandoned, closer>>
    BY <1>1 DEF StartUnchanged, transportVars
  <2>2. UNCHANGED <<looking, failure, cached, open, takers>>
    BY <2>1 DEF registryVars
  <2>3. Len(tasks) \in Nat /\ tasks \in Seq(TaskRow)
    BY TypeFacts
  <2>4. starter \in StarterRow' /\ closer \in [Closer -> CloserRow']
    BY <1>3, <2>3, RowsGrow
  <2>5. /\ starter' \in StarterRow'
        /\ \/ starter'.at = "store" /\ state' = state
           \/ starter'.at = "started" /\ state' = "started"
    BY <1>3, <2>4 DEF StarterRow
  <2>6. store # "closed" /\ cache # "closed" /\ state # "closed"
    BY <1>3 DEF Course, LandOK, TaskOK
  <2>7. state # "started"
    BY <1>1 DEF Clients, ClientsOK
  <2>8. Typed'
    <3>1. /\ RegistryTypeOK' /\ task' \in TaskState
          /\ cache' \in {"unopened", "open", "closed"} /\ store' \in {"unopened", "open", "closed"}
          /\ state' \in {"new", "starting", "started", "closing", "closed"}
      BY <1>1, <1>3, <2>2, <2>5 DEF Typed, RegistryTypeOK, TaskState
    <3> QED  BY <1>3, <2>1, <2>3, <2>4, <2>5, <3>1, TypesGoOn DEF Typed
  <2>9. TaskOK' /\ LandOK' /\ ResultOK'
    BY <1>1, <1>3, <2>5, <2>6, CourseBefore
  <2>10. ClosersOK'
    BY <1>3, <2>1, <2>3, <2>5, <2>6, ClosersGoOn
  <2>11. Clients'
    BY <1>1, <1>3, <2>1, <2>5, <2>7, ClientsGoOn
  <2> QED  BY <2>8, <2>9, <2>10, <2>11 DEF Course
<1> QED  BY <1>2, <1>3 DEF Opens

\* start fails.
LEMMA StartFailsKeeps ==
  ASSUME Typed, Course, Clients, StartFails
  PROVE  Typed' /\ Course' /\ Clients'
BY CleansUpKeeps DEF StartFails

\* start returns after its cleanup.
LEMMA StartReturnsKeeps ==
  ASSUME Typed, Course, Clients, StartReturns
  PROVE  Typed' /\ Course' /\ Clients'
<1>1. /\ starter.at = "cleanup" /\ UNCHANGED <<state, requested, cache, store, tasks, task>>
      /\ UNCHANGED registryVars /\ UNCHANGED <<request, clientLock, attempted, registryOk>>
      /\ UNCHANGED <<abandoned, closer>> /\ starter' = [starter EXCEPT !.at = "ended"]
  BY DEF StartReturns, StartUnchanged, transportVars
<1>2. UNCHANGED <<looking, failure, cached, open, takers>>
  BY <1>1 DEF registryVars
<1>3. Len(tasks) \in Nat /\ tasks \in Seq(TaskRow)
  BY TypeFacts
<1>4. starter \in StarterRow' /\ closer \in [Closer -> CloserRow']
  BY <1>1, <1>3, RowsGrow
<1>5. starter' \in StarterRow' /\ starter'.at = "ended"
  BY <1>1, <1>4 DEF StarterRow
<1>6. Typed'
  <2>1. RegistryTypeOK' /\ task' \in TaskState
    BY <1>1, <1>2 DEF Typed, RegistryTypeOK, TaskState
  <2> QED  BY <1>1, <1>3, <1>4, <1>5, <2>1, TypesGoOn DEF Typed
<1>7. TaskOK' /\ LandOK' /\ ResultOK'
  BY <1>1, <1>5, CourseGoesOn DEF Starting
<1>8. ClosersOK'
  BY <1>1, <1>3, <1>5, ClosersGoOn
<1>9. Clients'
  <2>1. state # "started"
    BY <1>1 DEF Clients, ClientsOK
  <2> QED  BY <1>1, <1>5, <2>1, ClientsGoOn
<1> QED  BY <1>6, <1>7, <1>8, <1>9 DEF Course

\* What a close that joins a task keeps.
LEMMA JoinKeeps ==
  ASSUME Typed, Course, Clients, NEW final \in BOOLEAN, CloserUnchanged,
         EnsureTask(final) \/ UNCHANGED <<requested, tasks, task>>,
         closer' \in [Closer -> CloserRow'], ClosersOK'
  PROVE  Typed' /\ Course' /\ Clients'
<1>1. /\ UNCHANGED registryVars /\ UNCHANGED <<request, clientLock, attempted, registryOk>>
      /\ UNCHANGED <<abandoned, state, starter, cache, store>>
  BY DEF CloserUnchanged, transportVars
<1>2. UNCHANGED <<looking, failure, cached, open, takers>>
  BY <1>1 DEF registryVars
<1>3. TaskOK /\ requested \in BOOLEAN /\ tasks \in Seq(TaskRow) /\ Len(tasks) \in Nat
  BY TypeFacts DEF Course
<1>4. /\ tasks' \in Seq(TaskRow) /\ Len(tasks') \in Nat /\ Len(tasks') >= Len(tasks)
      /\ (requested => requested') /\ requested' \in BOOLEAN
      /\ task' = task \/ (task' = [at |-> "settle", failed |-> FALSE] /\ task.at = "none")
  <2>1. ASSUME EnsureTask(final)
        PROVE  /\ tasks' \in Seq(TaskRow) /\ Len(tasks') \in Nat /\ Len(tasks') >= Len(tasks)
               /\ requested' /\ (requested' = TRUE \/ requested' = requested)
               /\ task' = task \/ (task' = [at |-> "settle", failed |-> FALSE] /\ task.at = "none")
    BY <1>3, <2>1, EnsureFacts
  <2>2. ASSUME UNCHANGED <<requested, tasks, task>>
        PROVE  /\ tasks' \in Seq(TaskRow) /\ Len(tasks') \in Nat /\ Len(tasks') >= Len(tasks)
               /\ requested' = requested /\ task' = task
    BY <1>3, <2>2
  <2> QED  BY <1>3, <2>1, <2>2
<1>5. starter' \in StarterRow'
  BY <1>1, <1>4, RowsGrow
<1>6. task' \in TaskState
  <2>1. task \in TaskState /\ [at |-> "settle", failed |-> FALSE] \in TaskState
    BY DEF Typed, TaskState
  <2> QED  BY <1>4, <2>1
<1>7. Typed'
  <2>1. RegistryTypeOK'
    BY <1>2 DEF Typed, RegistryTypeOK
  <2> QED  BY <1>1, <1>4, <1>5, <1>6, <2>1, TypesGoOn DEF Typed
<1>8. TaskOK' /\ LandOK' /\ ResultOK'
  BY <1>1, CourseGoesOn DEF Starting
<1>9. Clients'
  <2>1. task'.at = "closing" <=> task.at = "closing"
    BY <1>4
  <2>2. state' = "started" => starter'.at = "started"
    BY <1>1 DEF Clients, ClientsOK
  <2> QED  BY <1>1, <1>4, <2>1, <2>2, ClientsGoOn
<1> QED  BY <1>7, <1>8, <1>9 DEF Course

\* A call of close.
LEMMA ClosesKeeps ==
  ASSUME Typed, Course, Clients, NEW k \in Closer, Closes(k)
  PROVE  Typed' /\ Course' /\ Clients'
<1> DEFINE final == k \in Final
<1>1. /\ closer[k].at = "idle" /\ CloserUnchanged /\ EnsureTask(final) /\ final \in BOOLEAN
      /\ closer' = [closer EXCEPT ![k] = [at |-> "waiting", on |-> Len(tasks'), waits |-> 1]]
  BY DEF Closes
<1> HIDE DEF final
<1>2. /\ Len(tasks') \in Nat /\ Len(tasks') >= Len(tasks) /\ Len(tasks') \in 1 .. Len(tasks')
      /\ \A n \in 1 .. Len(tasks) : tasks'[n] = tasks[n]
  BY <1>1, EnsureFacts DEF Course
<1>3. closer \in [Closer -> CloserRow'] /\ closer \in [Closer -> CloserRow]
  BY <1>2, RowsGrow
<1>4. \A j \in Closer : closer'[j] =
         IF j = k THEN [at |-> "waiting", on |-> Len(tasks'), waits |-> 1] ELSE closer[j]
  BY <1>1, <1>3
<1>5. closer' \in [Closer -> CloserRow']
  <2>1. [at |-> "waiting", on |-> Len(tasks'), waits |-> 1] \in CloserRow'
    BY <1>2 DEF CloserRow
  <2> QED  BY <1>1, <1>3, <2>1
<1>6. ClosersOK /\ Len(tasks) \in Nat /\ UNCHANGED <<state, starter>>
  BY <1>1, TypeFacts DEF Course, CloserUnchanged
<1>7. 1 .. Len(tasks) \subseteq 1 .. Len(tasks')
  BY <1>2, <1>6
<1>8. ClosersOK'
  <2>1. starter'.at = "cleanup" => starter'.on \in 1 .. Len(tasks')
    BY <1>6, <1>7 DEF ClosersOK
  <2>2. \A j \in Closer : closer'[j].at # "idle" =>
          closer'[j].on \in 1 .. Len(tasks') /\ closer'[j].waits \in {1, 2}
    BY <1>2, <1>4, <1>6, <1>7 DEF ClosersOK
  <2>3. \A j \in Final : closer'[j].at = "returned" =>
          state' = "closed" \/ (closer'[j].waits = 2 /\ ~tasks'[closer'[j].on].final)
    BY <1>2, <1>4, <1>6 DEF ClosersOK
  <2> QED  BY <2>1, <2>2, <2>3 DEF ClosersOK
<1> QED  BY <1>1, <1>5, <1>8, JoinKeeps

\* A close returns, or a final one asks for one more task.
LEMMA CloseReturnsKeeps ==
  ASSUME Typed, Course, Clients, NEW k \in Closer, CloseReturns(k)
  PROVE  Typed' /\ Course' /\ Clients'
<1> DEFINE n == closer[k].on
<1>1. /\ closer[k].at = "waiting" /\ Ended(n) /\ CloserUnchanged
      /\ UNCHANGED <<state, starter>>
  BY DEF CloseReturns, CloserUnchanged
<1>2. /\ ClosersOK /\ TaskOK /\ Len(tasks) \in Nat
      /\ n \in 1 .. Len(tasks) /\ tasks[n] \in TaskRow /\ closer[k].waits \in {1, 2}
  <2>1. ClosersOK /\ TaskOK
    BY DEF Course
  <2>2. n \in 1 .. Len(tasks) /\ closer[k].waits \in {1, 2}
    BY <1>1, <2>1 DEF ClosersOK
  <2> QED  BY <2>1, <2>2, TypeFacts
<1> HIDE DEF n
<1>3. ASSUME state = "closing", k \in Final, closer[k].waits = 1, EnsureTask(TRUE),
             closer' = [closer EXCEPT ![k].on = Len(tasks'), ![k].waits = 2]
      PROVE  Typed' /\ Course' /\ Clients'
  <2>1. /\ Len(tasks') \in Nat /\ Len(tasks') >= Len(tasks) /\ Len(tasks') \in 1 .. Len(tasks')
        /\ \A m \in 1 .. Len(tasks) : tasks'[m] = tasks[m]
    BY <1>2, <1>3, EnsureFacts
  <2>2. closer \in [Closer -> CloserRow'] /\ closer \in [Closer -> CloserRow]
    BY <2>1, RowsGrow
  <2>3. /\ \A j \in Closer \ {k} : closer'[j] = closer[j]
        /\ closer'[k].at = "waiting" /\ closer'[k].on = Len(tasks') /\ closer'[k].waits = 2
        /\ closer'[k] = [at |-> "waiting", on |-> Len(tasks'), waits |-> 2]
    BY <1>1, <1>3, <2>2 DEF CloserRow
  <2>4. [at |-> "waiting", on |-> Len(tasks'), waits |-> 2] \in CloserRow'
    BY <2>1 DEF CloserRow
  <2>5. closer' = [j \in Closer |-> closer'[j]]
    BY <1>3, <2>2
  <2>6. closer' \in [Closer -> CloserRow']
    BY <2>2, <2>3, <2>4, <2>5
  <2>7. 1 .. Len(tasks) \subseteq 1 .. Len(tasks')
    BY <1>2, <2>1
  <2>8. ClosersOK'
    <3>1. starter'.at = "cleanup" => starter'.on \in 1 .. Len(tasks')
      BY <1>1, <1>2, <2>7 DEF ClosersOK
    <3>2. \A j \in Closer : closer'[j].at # "idle" =>
            closer'[j].on \in 1 .. Len(tasks') /\ closer'[j].waits \in {1, 2}
      BY <1>2, <2>1, <2>3, <2>7 DEF ClosersOK
    <3>3. \A j \in Final : closer'[j].at = "returned" =>
            state' = "closed" \/ (closer'[j].waits = 2 /\ ~tasks'[closer'[j].on].final)
      BY <1>1, <1>2, <2>1, <2>3 DEF ClosersOK
    <3> QED  BY <3>1, <3>2, <3>3 DEF ClosersOK
  <2> QED  BY <1>1, <1>3, <2>6, <2>8, JoinKeeps
<1>4. ASSUME ~(/\ tasks[n].result = "failed" /\ state = "closing"
               /\ k \in Final /\ closer[k].waits = 1),
             Returns(k)
      PROVE  Typed' /\ Course' /\ Clients'
  <2>1. /\ closer' = [closer EXCEPT ![k].at = "returned"] /\ UNCHANGED <<requested, tasks, task>>
        /\ closer \in [Closer -> CloserRow]
    BY <1>2, <1>4, RowsGrow DEF Returns
  <2>2. closer \in [Closer -> CloserRow']
    BY <2>1, <1>2, RowsGrow
  <2>3. /\ \A j \in Closer \ {k} : closer'[j] = closer[j]
        /\ closer'[k].at = "returned" /\ closer'[k].on = n /\ closer'[k].waits = closer[k].waits
        /\ closer' \in [Closer -> CloserRow']
    BY <2>1, <2>2 DEF CloserRow, n
  <2>4. \/ state = "closed"
        \/ k \notin Final
        \/ closer[k].waits = 2 /\ ~tasks[n].final
    BY <1>1, <1>2, <1>4 DEF TaskOK, Ended, TaskRow
  <2>5. ClosersOK'
    BY <1>1, <1>2, <2>1, <2>3, <2>4 DEF ClosersOK
  <2> QED  BY <1>1, <2>1, <2>3, <2>5, JoinKeeps
<1> QED  BY <1>3, <1>4 DEF CloseReturns, n

\* The close task goes to its next step and remembers a failure.
LEMMA ProceedsFacts ==
  ASSUME Typed, NEW to \in TaskAts, NEW failed \in BOOLEAN, Proceeds(to, failed)
  PROVE  /\ task' \in TaskState /\ task'.at = to /\ task'.failed = (task.failed \/ failed)
         /\ (failed => task'.failed) /\ (task.failed => task'.failed)
         /\ (~task'.failed => ~task.failed /\ ~failed)
<1>1. task \in TaskState /\ task.failed \in BOOLEAN
  BY TypeFacts DEF Typed, TaskState
<1>2. task' = [task EXCEPT !.at = to, !.failed = (task.failed \/ failed)]
  BY DEF Proceeds
<1>3. (task.failed \/ failed) \in BOOLEAN
  BY <1>1
<1>4. task'.at = to /\ task'.failed = (task.failed \/ failed) /\ task' \in TaskState
  BY <1>1, <1>2, <1>3 DEF TaskState, TaskAts
<1> QED  BY <1>4

\* While a task runs the last row is its row, and the session is not closed.
LEMMA Running ==
  ASSUME Typed, Course, task.at # "none"
  PROVE  /\ Len(tasks) \in Nat /\ Len(tasks) \in 1 .. Len(tasks) /\ requested
         /\ state # "closed" /\ tasks # << >>
         /\ tasks[Len(tasks)] \in TaskRow /\ tasks[Len(tasks)].result = "running"
         /\ \A n \in 1 .. Len(tasks) : n # Len(tasks) => Ended(n)
         /\ \A n \in 1 .. Len(tasks) : Ended(n) => ~tasks[n].final /\ tasks[n].result # "ok"
         /\ Faultless <=> ~task.failed
<1>1. TaskOK /\ tasks \in Seq(TaskRow) /\ Len(tasks) \in Nat /\ task.failed \in BOOLEAN
  BY TypeFacts DEF Course
<1>2. tasks # << >> /\ requested /\ state # "closed"
  BY <1>1 DEF TaskOK
<1>3. Len(tasks) \in 1 .. Len(tasks)
  BY <1>1, <1>2, EmptySeq
<1>4. tasks[Len(tasks)] \in TaskRow /\ tasks[Len(tasks)].result = "running"
  BY <1>1, <1>3, TypeFacts DEF TaskOK, Ended
<1>5. \A n \in 1 .. Len(tasks) : n # Len(tasks) => Ended(n)
  BY <1>1 DEF TaskOK
<1>6. \A n \in 1 .. Len(tasks) : Ended(n) => ~tasks[n].final /\ tasks[n].result # "ok"
  BY <1>1, <1>2 DEF TaskOK
<1>7. Faultless <=> ~task.failed
  BY <1>2, <1>4 DEF Faultless, Last
<1> QED  BY <1>1, <1>2, <1>3, <1>4, <1>5, <1>6, <1>7

\* The close task goes on.
LEMMA TaskGoesOn ==
  ASSUME Typed, Course, task.at # "none", task'.at # "none", UNCHANGED <<requested, tasks, closer>>,
         state' = "closing" \/ (state' = state /\ task'.at = "settle"),
         starter'.at = "cleanup" => starter.at = "cleanup" /\ starter'.on = starter.on
  PROVE  TaskOK' /\ ClosersOK'
<1>1. /\ Len(tasks) \in Nat /\ state # "closed"
      /\ \A n \in 1 .. Len(tasks) : Ended(n) => ~tasks[n].final /\ tasks[n].result # "ok"
  BY Running
<1>2. TaskOK'
  BY <1>1 DEF Course, TaskOK, Ended
<1>3. ClosersOK'
  BY <1>1, ClosersGoOn
<1> QED  BY <1>2, <1>3

\* The close task ends.
LEMMA TaskEnds ==
  ASSUME Typed, Course, task.at \notin {"none", "settle"}, task'.at = "none",
         UNCHANGED <<requested, closer, starter>>,
         NEW outcome \in {"failed", "ok"}, Ends(outcome),
         \/ state' = "closed"
         \/ state' = state /\ outcome = "failed" /\ ~Last.final
  PROVE  /\ TaskOK' /\ ClosersOK' /\ tasks' \in Seq(TaskRow) /\ Len(tasks') = Len(tasks)
         /\ Last' = [final |-> Last.final, result |-> outcome] /\ tasks' # << >>
<1> DEFINE n == Len(tasks)
<1>1. /\ Len(tasks) \in Nat /\ n \in 1 .. Len(tasks) /\ requested /\ state # "closed"
      /\ tasks[n] \in TaskRow /\ tasks[n].result = "running"
      /\ \A j \in 1 .. Len(tasks) : j # n => Ended(j)
      /\ \A j \in 1 .. Len(tasks) : Ended(j) => ~tasks[j].final /\ tasks[j].result # "ok"
  BY Running
<1>2. tasks \in Seq(TaskRow) /\ state = "closing" /\ tasks[n].final = Last.final
  BY TypeFacts DEF Course, TaskOK, Last
<1>3. tasks' = [tasks EXCEPT ![n] = [tasks[n] EXCEPT !.result = outcome]]
  BY DEF Ends
<1>4. /\ [tasks[n] EXCEPT !.result = outcome] = [final |-> tasks[n].final, result |-> outcome]
      /\ [tasks[n] EXCEPT !.result = outcome] \in TaskRow
  BY <1>1 DEF TaskRow
<1> HIDE DEF n
<1>5. /\ tasks' \in Seq(TaskRow) /\ Len(tasks') = Len(tasks)
      /\ \A j \in 1 .. Len(tasks) :
           tasks'[j] = IF j = n THEN [final |-> tasks[n].final, result |-> outcome] ELSE tasks[j]
  BY <1>1, <1>2, <1>3, <1>4, ExceptSeq
<1>6. Last' = [final |-> Last.final, result |-> outcome]
  BY <1>1, <1>2, <1>5 DEF Last, n
<1>7. tasks' # << >>
  BY <1>1, <1>5, EmptySeq
<1>8. TaskOK'
  <2>1. \A j \in 1 .. Len(tasks) : Ended(j)'
    BY <1>1, <1>5 DEF Ended
  <2>2. \A j \in 1 .. Len(tasks) : tasks'[j].final \/ tasks'[j].result = "ok" => state' = "closed"
    BY <1>1, <1>2, <1>5
  <2>3. state' \in {"closing", "closed"}
    BY <1>2
  <2> QED  BY <1>1, <1>5, <1>7, <2>1, <2>2, <2>3 DEF TaskOK
<1>9. ClosersOK'
  <2>1. \A j \in 1 .. Len(tasks) : tasks'[j].final = tasks[j].final
    BY <1>5
  <2>2. Len(tasks') \in Nat /\ Len(tasks') >= Len(tasks)
    BY <1>1, <1>5
  <2> QED  BY <1>1, <2>1, <2>2, ClosersGoOn
<1> QED  BY <1>5, <1>6, <1>7, <1>8, <1>9

\* What a step of the close task leaves alone, field by field.
LEMMA TaskTypes ==
  ASSUME Typed, UNCHANGED <<requested, closer, abandoned, starter>>, RegistryTypeOK',
         state' \in {"new", "starting", "started", "closing", "closed"},
         cache' \in {"unopened", "open", "closed"}, store' \in {"unopened", "open", "closed"},
         clientLock' \in Caller \cup {Coordinator, None}, attempted' \in BOOLEAN,
         registryOk' \in BOOLEAN, tasks' \in Seq(TaskRow), Len(tasks') = Len(tasks),
         task' \in TaskState
  PROVE  Typed'
<1>1. Len(tasks) \in Nat /\ requested \in BOOLEAN
  BY TypeFacts
<1>2. starter' \in StarterRow' /\ closer' \in [Closer -> CloserRow']
  BY <1>1, RowsGrow
<1> QED  BY <1>1, <1>2, TypesGoOn

\* The close task cancels a start that is under way.
LEMMA CancelsStartKeeps ==
  ASSUME Typed, Course, Clients, CancelsStart
  PROVE  Typed' /\ Course' /\ Clients'
<1>1. /\ task.at = "settle" /\ UNCHANGED registryVars
      /\ UNCHANGED <<request, requested, closer, state, cache, store, clientLock, attempted>>
      /\ UNCHANGED <<registryOk, task, tasks, abandoned>>
      /\ starter' = [starter EXCEPT !.cancelled = TRUE]
  BY DEF CancelsStart, TaskUnchanged, transportVars
<1>2. UNCHANGED <<looking, failure, cached, open, takers>>
  BY <1>1 DEF registryVars
<1>3. Len(tasks) \in Nat /\ tasks \in Seq(TaskRow)
  BY TypeFacts
<1>4. starter \in StarterRow' /\ closer \in [Closer -> CloserRow']
  BY <1>1, <1>3, RowsGrow
<1>5. starter' \in StarterRow' /\ starter'.at = starter.at /\ starter'.on = starter.on
  BY <1>1, <1>4 DEF StarterRow
<1>6. Typed'
  <2>1. RegistryTypeOK' /\ task' \in TaskState
    BY <1>1, <1>2 DEF Typed, RegistryTypeOK, TaskState
  <2> QED  BY <1>1, <1>3, <1>4, <1>5, <2>1, TypesGoOn DEF Typed
<1>7. TaskOK' /\ LandOK' /\ ResultOK'
  BY <1>1, <1>5, CourseGoesOn DEF Starting
<1>8. ClosersOK'
  BY <1>1, <1>3, <1>5, ClosersGoOn
<1>9. Clients'
  <2>1. state' = "started" => starter'.at = "started"
    BY <1>1, <1>5 DEF Clients, ClientsOK
  <2> QED  BY <1>1, <1>5, <2>1, ClientsGoOn
<1> QED  BY <1>6, <1>7, <1>8, <1>9 DEF Course

\* The start has settled, or is given up with a failure.
LEMMA SettlesKeeps ==
  ASSUME Typed, Course, Clients, Settles
  PROVE  Typed' /\ Course' /\ Clients'
<1> DEFINE failed == Starting
<1>1. /\ task.at = "settle" /\ UNCHANGED registryVars /\ state' = "closing"
      /\ UNCHANGED <<request, requested, closer, starter, cache, store, clientLock, attempted>>
      /\ UNCHANGED <<registryOk, tasks, abandoned>> /\ Proceeds("services", failed)
  BY DEF Settles, TaskUnchanged, transportVars
<1>2. UNCHANGED <<looking, failure, cached, open, takers>>
  BY <1>1 DEF registryVars
<1>3. failed \in BOOLEAN /\ (failed <=> Starting) /\ (Starting' <=> Starting)
  BY <1>1 DEF Starting
<1> HIDE DEF failed
<1>4. task' \in TaskState /\ task'.at = "services" /\ (~task'.failed => ~failed)
  BY <1>1, <1>3, ProceedsFacts DEF TaskAts
<1>5. tasks \in Seq(TaskRow) /\ requested
  BY <1>1, TypeFacts, Running
<1>6. Typed'
  <2>1. RegistryTypeOK'
    BY <1>2 DEF Typed, RegistryTypeOK
  <2> QED  BY <1>1, <1>4, <1>5, <2>1, TaskTypes DEF Typed
<1>7. TaskOK' /\ ClosersOK'
  BY <1>1, <1>4, TaskGoesOn
<1>8. LandOK'
  BY <1>1, <1>4, Running DEF Course, LandOK
<1>9. ResultOK'
  <2>1. Faultless' => ~task'.failed
    <3>1. Last' # [final |-> FALSE, result |-> "ok"] /\ Last'.result = "running"
      BY <1>1, Running DEF Last
    <3> QED  BY <3>1, <1>4 DEF Faultless
  <2> QED  BY <1>3, <1>4, <2>1 DEF ResultOK
<1>10. Clients'
  BY <1>1, <1>4, ClientsGoOn
<1> QED  BY <1>6, <1>7, <1>8, <1>9, <1>10 DEF Course

\* A running task is without fault when its own record says so.
LEMMA FaultlessGoesOn ==
  ASSUME Typed, Course, task.at # "none", UNCHANGED tasks, task'.at # "none"
  PROVE  Faultless' <=> ~task'.failed
<1>1. Last'.result = "running"
  BY Running DEF Last
<1> QED  BY <1>1 DEF Faultless

\* The services have settled, or only a final close goes on.
LEMMA ServicesCloseKeeps ==
  ASSUME Typed, Course, Clients, ServicesClose
  PROVE  Typed' /\ Course' /\ Clients'
<1>1. /\ task.at = "services" /\ UNCHANGED registryVars
      /\ UNCHANGED <<request, requested, closer, state, starter, cache, store, clientLock>>
      /\ UNCHANGED <<attempted, registryOk, abandoned>>
  BY DEF ServicesClose, TaskUnchanged, ServicesUnchanged, transportVars
<1>2. UNCHANGED <<looking, failure, cached, open, takers>>
  BY <1>1 DEF registryVars
<1>3. /\ state = "closing" /\ tasks \in Seq(TaskRow) /\ store # "closed" /\ cache # "closed"
      /\ (Starting' <=> Starting)
  BY <1>1, TypeFacts DEF Course, TaskOK, LandOK, Starting
<1>4. RegistryTypeOK' /\ (state' = "started" => starter'.at = "started")
  BY <1>1, <1>2, <1>3 DEF Typed, RegistryTypeOK
<1>5. ASSUME NEW failed \in BOOLEAN, Proceeds("store", failed), UNCHANGED tasks,
             InService = {} \/ Last.final
      PROVE  Typed' /\ Course' /\ Clients'
  <2>1. task' \in TaskState /\ task'.at = "store" /\ (~task'.failed => ~task.failed)
    BY <1>5, ProceedsFacts DEF TaskAts
  <2>2. Typed'
    BY <1>1, <1>3, <1>4, <1>5, <2>1, TaskTypes DEF Typed
  <2>3. TaskOK' /\ ClosersOK'
    BY <1>1, <1>3, <1>5, <2>1, TaskGoesOn
  <2>4. Settled'
    BY <1>1, <1>5 DEF Settled, InService, Last
  <2>5. LandOK'
    BY <1>1, <1>3, <2>4 DEF LandOK
  <2>6. Faultless' => Faultless
    BY <1>1, <1>5, <2>1, FaultlessGoesOn, Running
  <2>7. ResultOK'
    BY <1>1, <1>3, <2>1, <2>6 DEF Course, ResultOK
  <2>8. Clients'
    BY <1>1, <1>4, <2>1, ClientsGoOn
  <2> QED  BY <2>2, <2>3, <2>5, <2>7, <2>8 DEF Course
<1>6. ASSUME ~Last.final, Proceeds("none", TRUE), Ends("failed")
      PROVE  Typed' /\ Course' /\ Clients'
  <2>1. task' \in TaskState /\ task'.at = "none" /\ task'.failed
    BY <1>6, ProceedsFacts DEF TaskAts
  <2>2. /\ TaskOK' /\ ClosersOK' /\ tasks' \in Seq(TaskRow) /\ Len(tasks') = Len(tasks)
        /\ Last' = [final |-> Last.final, result |-> "failed"]
    BY <1>1, <1>6, <2>1, TaskEnds
  <2>3. Typed'
    BY <1>1, <1>3, <1>4, <2>1, <2>2, TaskTypes DEF Typed
  <2>4. LandOK'
    BY <1>1, <1>3, <2>1 DEF LandOK
  <2>5. ~Faultless'
    BY <2>1, <2>2 DEF Faultless
  <2>6. ResultOK'
    BY <2>5 DEF ResultOK
  <2>7. Clients'
    BY <1>1, <1>4, <2>1, ClientsGoOn
  <2> QED  BY <2>2, <2>3, <2>4, <2>6, <2>7 DEF Course
<1> QED  BY <1>5, <1>6 DEF ServicesClose

\* The draft store is closed, or stays open with a failure.
LEMMA StoreClosesKeeps ==
  ASSUME Typed, Course, Clients, StoreCloses
  PROVE  Typed' /\ Course' /\ Clients'
<1>1. /\ task.at = "store" /\ UNCHANGED registryVars
      /\ UNCHANGED <<request, requested, closer, state, starter, cache, clientLock>>
      /\ UNCHANGED <<attempted, registryOk, abandoned, tasks>>
  BY DEF StoreCloses, TaskUnchanged, transportVars
<1>2. UNCHANGED <<looking, failure, cached, open, takers>>
  BY <1>1 DEF registryVars
<1>3. PICK failed \in BOOLEAN : /\ store' = IF store = "open" /\ ~failed THEN "closed" ELSE store
                                /\ Proceeds("registry", failed)
  BY DEF StoreCloses, ClosesResource
<1>4. /\ state = "closing" /\ tasks \in Seq(TaskRow) /\ requested /\ (Starting' <=> Starting)
      /\ Settled
  BY <1>1, TypeFacts, Running DEF Course, TaskOK, LandOK, Starting
<1>5. RegistryTypeOK' /\ store' \in {"unopened", "open", "closed"}
  BY <1>2, <1>3 DEF Typed, RegistryTypeOK
<1>6. task' \in TaskState /\ task'.at = "registry" /\ (~task'.failed => ~task.failed /\ ~failed)
  BY <1>3, ProceedsFacts DEF TaskAts
<1>7. Typed'
  BY <1>1, <1>4, <1>5, <1>6, TaskTypes DEF Typed
<1>8. TaskOK' /\ ClosersOK'
  BY <1>1, <1>4, <1>6, TaskGoesOn
<1>9. Settled'
  BY <1>1, <1>4 DEF Settled, InService, Last
<1>10. LandOK'
  BY <1>1, <1>4, <1>6, <1>9 DEF LandOK
<1>11. Faultless' => Faultless /\ ~failed
  BY <1>1, <1>6, FaultlessGoesOn, Running
<1>12. ResultOK'
  BY <1>1, <1>3, <1>4, <1>6, <1>11 DEF Course, ResultOK
<1>13. Clients'
  BY <1>1, <1>4, <1>6, ClientsGoOn
<1> QED  BY <1>7, <1>8, <1>10, <1>12, <1>13 DEF Course

\* The client is taken from the registry, or that was done before.
LEMMA RegistryClosesKeeps ==
  ASSUME Typed, Course, Clients, RegistryCloses
  PROVE  Typed' /\ Course' /\ Clients'
<1>1. /\ task.at = "registry"
      /\ UNCHANGED <<request, requested, closer, state, starter, cache, store>>
      /\ UNCHANGED <<looking, failure, open, registryOk, abandoned, tasks>>
  BY DEF RegistryCloses, TaskUnchanged, transportVars
<1>2. /\ state = "closing" /\ tasks \in Seq(TaskRow) /\ requested /\ (Starting' <=> Starting)
      /\ Settled
  BY <1>1, TypeFacts, Running DEF Course, TaskOK, LandOK, Starting
<1>3. Settled'
  BY <1>1, <1>2 DEF Settled, InService, Last
<1>4. ASSUME NEW failed \in BOOLEAN, Proceeds("cache", failed),
             UNCHANGED <<cached, takers, clientLock, attempted>>,
             failed \/ attempted \/ starter.at # "started"
      PROVE  Typed' /\ Course' /\ Clients'
  <2>1. task' \in TaskState /\ task'.at = "cache" /\ (~task'.failed => ~task.failed /\ ~failed)
    BY <1>4, ProceedsFacts DEF TaskAts
  <2>2. Typed'
    <3>1. RegistryTypeOK'
      BY <1>1, <1>4 DEF Typed, RegistryTypeOK
    <3> QED  BY <1>1, <1>2, <1>4, <2>1, <3>1, TaskTypes DEF Typed
  <2>3. TaskOK' /\ ClosersOK'
    BY <1>1, <1>2, <2>1, TaskGoesOn
  <2>4. LandOK'
    BY <1>1, <1>2, <1>3, <2>1 DEF LandOK
  <2>5. Faultless' => Faultless /\ ~failed
    BY <1>1, <2>1, FaultlessGoesOn, Running
  <2>6. ResultOK'
    BY <1>1, <1>2, <1>4, <2>1, <2>5 DEF Course, ResultOK
  <2>7. Clients'
    BY <1>1, <1>2, <1>4, <2>1, ClientsGoOn DEF registryVars
  <2> QED  BY <2>2, <2>3, <2>4, <2>6, <2>7 DEF Course
<1>5. ASSUME starter.at = "started", clientLock = None, Proceeds("closing", FALSE),
             attempted' = TRUE, clientLock' = Coordinator, Takes(Coordinator)
      PROVE  Typed' /\ Course' /\ Clients'
  <2>1. task' \in TaskState /\ task'.at = "closing" /\ (~task'.failed => ~task.failed)
    BY <1>5, ProceedsFacts DEF TaskAts
  <2>2. takers = {} /\ cached' = FALSE /\ takers' = IF cached THEN {Coordinator} ELSE {}
    BY <1>5, LockHolder DEF Takes
  <2>3. Typed'
    <3>1. RegistryTypeOK'
      BY <1>1, <2>2 DEF Typed, RegistryTypeOK
    <3> QED  BY <1>1, <1>2, <1>5, <2>1, <3>1, TaskTypes DEF Typed
  <2>4. TaskOK' /\ ClosersOK'
    BY <1>1, <1>2, <2>1, TaskGoesOn
  <2>5. LandOK'
    BY <1>1, <1>2, <1>3, <2>1 DEF LandOK
  <2>6. Faultless' => Faultless
    BY <1>1, <2>1, FaultlessGoesOn, Running
  <2>7. ResultOK'
    BY <1>1, <1>2, <1>5, <2>1, <2>6 DEF Course, ResultOK
  <2>8. \A c \in Caller : c # Coordinator /\ c # None
    OBVIOUS
  <2>9. Coordinator # None
    OBVIOUS
  <2>10. LockOK'
    <3>1. takers' \subseteq {clientLock'}
      BY <1>5, <2>2
    <3>2. \A c \in Caller : request'[c].at = "closing" <=> clientLock' = c
      BY <1>1, <1>5, <2>8 DEF Clients, LockOK, IsAt
    <3> QED  BY <1>1, <1>2, <1>5, <2>1, <2>9, <3>1, <3>2 DEF LockOK, IsAt
  <2>11. ClientsOK'
    BY <1>1, <1>2, <1>5, <2>2 DEF Clients, ClientsOK, Held, IsAt
  <2> QED  BY <2>3, <2>4, <2>5, <2>7, <2>10, <2>11 DEF Course, Clients
<1>6. registryOk \in BOOLEAN
  BY DEF Typed
<1>7. ASSUME starter.at # "started", Proceeds("cache", FALSE),
             UNCHANGED <<cached, takers, clientLock, attempted>>
      PROVE  Typed' /\ Course' /\ Clients'
  BY <1>4, <1>7
<1>8. ASSUME Proceeds("cache", TRUE), UNCHANGED <<cached, takers, clientLock, attempted>>
      PROVE  Typed' /\ Course' /\ Clients'
  BY <1>4, <1>8
<1>9. ASSUME attempted, Proceeds("cache", ~registryOk),
             UNCHANGED <<cached, takers, clientLock, attempted>>
      PROVE  Typed' /\ Course' /\ Clients'
  <2> DEFINE failed == ~registryOk
  <2>1. failed \in BOOLEAN /\ Proceeds("cache", failed)
    BY <1>6, <1>9
  <2> HIDE DEF failed
  <2> QED  BY <1>4, <1>9, <2>1
<1> QED  BY <1>5, <1>7, <1>8, <1>9 DEF RegistryCloses

\* The client of the registry is closed, or the failure is remembered.
LEMMA RegistryClosedKeeps ==
  ASSUME Typed, Course, Clients, RegistryClosed
  PROVE  Typed' /\ Course' /\ Clients'
<1> DEFINE failed == ~registryOk'
<1>1. /\ task.at = "closing" /\ Proceeds("cache", failed) /\ clientLock' = None
      /\ UNCHANGED <<request, requested, closer, state, starter, cache, store>>
      /\ UNCHANGED <<looking, failure, cached, attempted, abandoned, tasks>>
  BY DEF RegistryClosed, TaskUnchanged, transportVars, ClientsClosed
<1>2. /\ state = "closing" /\ tasks \in Seq(TaskRow) /\ requested /\ (Starting' <=> Starting)
      /\ Settled /\ clientLock = Coordinator /\ attempted /\ Coordinator # None
  <2>1. clientLock = Coordinator /\ Coordinator # None
    BY <1>1 DEF Clients, LockOK
  <2> QED  BY <1>1, <2>1, TypeFacts, Running, LockHolder DEF Course, TaskOK, LandOK, Starting
<1>3. takers \subseteq {Coordinator} /\ open \in Nat /\ cached \in BOOLEAN /\ registryOk \in BOOLEAN
  BY <1>2 DEF Clients, LockOK, Typed, RegistryTypeOK
<1>4. /\ takers' = {}
      /\ \/ registryOk' = registryOk /\ open' = IF Coordinator \in takers THEN open - 1 ELSE open
         \/ registryOk' = FALSE /\ open' = open
  BY <1>3 DEF RegistryClosed, ClientsClosed, Gives
<1>5. Held' = (IF cached THEN 1 ELSE 0) /\ Held = Held' + IF Coordinator \in takers THEN 1 ELSE 0
  BY <1>1, <1>3, <1>4 DEF Held
<1>6. /\ open' \in Nat /\ open' >= Held' /\ registryOk' \in BOOLEAN
      /\ registryOk' /\ ~abandoned' => open' = Held'
      /\ open = 0 => open' = 0
  <2>1. open >= Held /\ (registryOk /\ ~abandoned => open = Held)
    BY DEF Clients, ClientsOK
  <2>2. Held' \in {0, 1} /\ Held \in {0, 1, 2}
    BY <1>5
  <2>3. ASSUME registryOk' = registryOk,
               open' = IF Coordinator \in takers THEN open - 1 ELSE open
        PROVE  open' \in Nat /\ open' >= Held' /\ (registryOk' /\ ~abandoned' => open' = Held')
               /\ (open = 0 => open' = 0)
    BY <1>1, <1>3, <1>5, <2>1, <2>2, <2>3
  <2>4. ASSUME registryOk' = FALSE, open' = open
        PROVE  open' \in Nat /\ open' >= Held' /\ (registryOk' /\ ~abandoned' => open' = Held')
               /\ (open = 0 => open' = 0)
    BY <1>3, <1>5, <2>1, <2>2, <2>4
  <2> QED  BY <1>3, <1>4, <2>3, <2>4
<1>7. failed \in BOOLEAN
  BY <1>6
<1> HIDE DEF failed
<1>8. task' \in TaskState /\ task'.at = "cache" /\ (~task'.failed => ~task.failed)
  BY <1>1, <1>7, ProceedsFacts DEF TaskAts
<1>9. Typed'
  <2>1. RegistryTypeOK'
    BY <1>1, <1>4, <1>6 DEF Typed, RegistryTypeOK
  <2> QED  BY <1>1, <1>2, <1>6, <1>8, <2>1, TaskTypes DEF Typed
<1>10. TaskOK' /\ ClosersOK'
  BY <1>1, <1>2, <1>8, TaskGoesOn
<1>11. Settled'
  BY <1>1, <1>2 DEF Settled, InService, Last
<1>12. LandOK'
  BY <1>1, <1>2, <1>8, <1>11 DEF LandOK
<1>13. Faultless' => Faultless
  BY <1>1, <1>8, FaultlessGoesOn, Running
<1>14. ResultOK'
  BY <1>1, <1>2, <1>8, <1>13 DEF Course, ResultOK
<1>15. LockOK'
  <2>1. \A c \in Caller : request[c].at # "closing" /\ c # None
    BY <1>2, LockHolder DEF IsAt
  <2> QED  BY <1>1, <1>2, <1>4, <1>8, <2>1 DEF LockOK, IsAt
<1>16. ClientsOK'
  <2>1. /\ attempted' /\ cached' /\ ~abandoned' => \E c \in Caller : request'[c].at = "client"
        /\ state' = "started" => starter'.at = "started"
        /\ starter'.at # "started" =>
             ~cached' /\ ~looking' /\ \A c \in Caller : request'[c].at \in {"none", "over"}
        /\ starter'.at # "started" => open = 0
    BY <1>1, <1>2 DEF Clients, ClientsOK, IsAt
  <2> QED  BY <1>6, <2>1 DEF ClientsOK, IsAt
<1> QED  BY <1>9, <1>10, <1>12, <1>14, <1>15, <1>16 DEF Course, Clients

\* The cache is closed and the task ends.
LEMMA CacheClosesKeeps ==
  ASSUME Typed, Course, Clients, CacheCloses
  PROVE  Typed' /\ Course' /\ Clients'
<1>1. /\ task.at = "cache" /\ state' = "closed" /\ UNCHANGED registryVars
      /\ UNCHANGED <<request, requested, closer, starter, store, clientLock>>
      /\ UNCHANGED <<attempted, registryOk, abandoned>>
  BY DEF CacheCloses, TaskUnchanged, transportVars
<1>2. UNCHANGED <<looking, failure, cached, open, takers>>
  BY <1>1 DEF registryVars
<1>3. PICK failed \in BOOLEAN :
        /\ cache' = IF cache = "open" /\ ~failed THEN "closed" ELSE cache
        /\ Proceeds("none", failed)
        /\ Ends(IF task.failed \/ failed THEN "failed" ELSE "ok")
  BY DEF CacheCloses, ClosesResource
<1> DEFINE outcome == IF task.failed \/ failed THEN "failed" ELSE "ok"
<1>4. outcome \in {"failed", "ok"} /\ Ends(outcome) /\ (outcome = "ok" => ~task.failed /\ ~failed)
  BY <1>3
<1> HIDE DEF outcome
<1>5. task' \in TaskState /\ task'.at = "none"
  BY <1>3, ProceedsFacts DEF TaskAts
<1>6. /\ TaskOK' /\ ClosersOK' /\ tasks' \in Seq(TaskRow) /\ Len(tasks') = Len(tasks)
      /\ Last' = [final |-> Last.final, result |-> outcome]
  BY <1>1, <1>4, <1>5, TaskEnds
<1>7. Typed'
  <2>1. RegistryTypeOK' /\ cache' \in {"unopened", "open", "closed"}
    BY <1>2, <1>3 DEF Typed, RegistryTypeOK
  <2> QED  BY <1>1, <1>5, <1>6, <2>1, TaskTypes DEF Typed
<1>8. Settled' /\ requested /\ (Starting' <=> Starting)
  BY <1>1, <1>6, Running DEF Course, LandOK, Settled, InService, Starting
<1>9. LandOK'
  BY <1>1, <1>5, <1>8 DEF LandOK
<1>10. Faultless' => Faultless /\ ~failed
  BY <1>1, <1>4, <1>5, <1>6, Running DEF Faultless
<1>11. ResultOK'
  BY <1>1, <1>3, <1>5, <1>8, <1>10 DEF Course, ResultOK
<1>12. Clients'
  BY <1>1, <1>5, ClientsGoOn
<1> QED  BY <1>6, <1>7, <1>9, <1>11, <1>12 DEF Course

\* Part one holds initially.
LEMMA RequestsInit ==
  ASSUME TransportInit
  PROVE  Requests
<1>1. NoRequest \in Request /\ NoRequest.at = "none"
  BY DEF NoRequest, Request
<1>2. /\ request = [c \in Caller |-> NoRequest] /\ acted = [c \in Caller |-> 0]
      /\ slots = MaxParallel /\ scenario \in Scenarios /\ token = 0 /\ valid = 0 /\ refresher = None
  BY DEF TransportInit
<1>3. TransportTypeOK
  BY <1>1, <1>2 DEF TransportTypeOK, Request
<1>4. {c \in Caller : request[c].at \in {"sent", "reading"}} = {}
  BY <1>1, <1>2
<1>5. SlotsAccounted
  <2>1. Cardinality({c \in Caller : request[c].at \in {"sent", "reading"}}) = 0
    BY <1>4, FS_EmptySet
  <2> QED  BY <1>2, <2>1 DEF SlotsAccounted
<1>6. ActedOK
  BY <1>2 DEF ActedOK
<1> QED  BY <1>3, <1>5, <1>6 DEF Requests

\* The inductive invariant holds initially ...
LEMMA SessionInit ==
  ASSUME Init
  PROVE  SInv
<1>1. Requests
  BY RequestsInit DEF Init
<1>2. /\ tasks = << >> /\ Len(tasks) = 0 /\ tasks \in Seq(TaskRow)
      /\ task = [at |-> "none", failed |-> FALSE]
      /\ requested = FALSE /\ clientLock = None /\ attempted = FALSE /\ registryOk = TRUE
      /\ abandoned = FALSE /\ closer = [k \in Closer |-> [at |-> "idle", on |-> 0, waits |-> 0]]
      /\ looking = FALSE /\ failure = "none" /\ cached = FALSE /\ open = 0 /\ takers = {}
  BY EmptySeq DEF Init, NoTask, RegistryInit
<1>3. /\ \/ state = "new" /\ starter = [at |-> "idle", cancelled |-> FALSE, on |-> 0]
            /\ cache = "unopened"
         \/ state = "started" /\ starter = [at |-> "started", cancelled |-> FALSE, on |-> 0]
            /\ cache = "open"
      /\ store = cache
  BY DEF Init
<1>4. Typed
  <2>1. RegistryTypeOK
    BY <1>2 DEF RegistryTypeOK
  <2>2. starter \in StarterRow /\ closer \in [Closer -> CloserRow] /\ task \in TaskState
    <3>1. 0 \in 0 .. Len(tasks)
      BY <1>2
    <3>2. starter \in StarterRow
      <4>1. /\ [at |-> "idle", cancelled |-> FALSE, on |-> 0] \in StarterRow
            /\ [at |-> "started", cancelled |-> FALSE, on |-> 0] \in StarterRow
        BY <3>1 DEF StarterRow
      <4> QED  BY <1>3, <4>1
    <3>3. [at |-> "idle", on |-> 0, waits |-> 0] \in CloserRow
      BY <3>1 DEF CloserRow
    <3>4. task \in TaskState
      BY <1>2 DEF TaskState
    <3> QED  BY <1>2, <3>2, <3>3, <3>4
  <2> QED  BY <1>2, <1>3, <2>1, <2>2 DEF Typed, StarterRow, CloserRow, TaskState
<1>5. TaskOK /\ LandOK /\ ResultOK
  BY <1>2, <1>3 DEF TaskOK, LandOK, ResultOK, Faultless
<1>6. ClosersOK
  BY <1>2, <1>3 DEF ClosersOK
<1>7. \A c \in Caller : request[c].at = "none" /\ c # None
  BY DEF Init, TransportInit, NoRequest
<1>8. LockOK
  BY <1>2, <1>7 DEF LockOK, IsAt
<1>9. ClientsOK
  BY <1>2, <1>3, <1>7 DEF ClientsOK, Held
<1> QED  BY <1>1, <1>4, <1>5, <1>6, <1>8, <1>9 DEF SInv, Course, Clients

\* ... and after every step.
LEMMA SessionInductive ==
  ASSUME SInv, [Next]_vars
  PROVE  SInv'
<1>0. Requests /\ Typed /\ Course /\ Clients
  BY DEF SInv
<1>1. ASSUME NEW c \in Caller, Calls(c)  PROVE SInv'
  BY <1>0, <1>1, CallsKeeps, CallsKeepsRequests DEF SInv
<1>2. ASSUME NEW c \in Caller, CallStep(c)  PROVE SInv'
  <2>1. ASSUME RequestStep(c), UNCHANGED <<registryVars, sessionVars>>  PROVE SInv'
    BY <1>0, <2>1, RequestStepKeeps, RequestStepStays, CallersGoOn DEF SInv
  <2>2. ASSUME MakesClient(c), UNCHANGED sessionVars  PROVE SInv'
    BY <1>0, <2>2, MakesClientKeeps, MakesClientKeepsRequests DEF SInv
  <2>3. ASSUME GetsClient(c)  PROVE SInv'
    BY <1>0, <2>3, GetsClientKeeps, GetsClientKeepsRequests DEF SInv
  <2>4. ASSUME LateClosed(c)  PROVE SInv'
    BY <1>0, <2>4, LateClosedKeeps, LateKeepsRequests DEF SInv
  <2> QED  BY <1>2, <2>1, <2>2, <2>3, <2>4 DEF CallStep
<1>3. ASSUME NEW c \in Caller, LateCancelled(c)  PROVE SInv'
  BY <1>0, <1>3, LateCancelledKeeps, LateKeepsRequests DEF SInv
<1>4. ASSUME NEW c \in Caller, Cancels(c), UNCHANGED <<registryVars, sessionVars>>  PROVE SInv'
  BY <1>0, <1>4, CancelsKeeps, RequestStepStays, CallersGoOn DEF SInv
<1>5. ASSUME LookupEnds, UNCHANGED sessionVars  PROVE SInv'
  BY <1>0, <1>5, LookupKeeps, LookupKeepsRequests DEF SInv
<1>6. ASSUME Ages, UNCHANGED sessionVars  PROVE SInv'
  <2>1. Requests'
    BY <1>0, <1>6, RequestsStand DEF Ages, transportVars
  <2> QED  BY <1>0, <1>6, <2>1, AgesKeeps DEF SInv
<1>7. ASSUME Expires, UNCHANGED <<registryVars, sessionVars>>  PROVE SInv'
  <2>1. Stays
    BY <1>7 DEF Expires, Stays
  <2> QED  BY <1>0, <1>7, <2>1, ExpiresKeepsRequests, CallersGoOn DEF SInv
<1>8. ASSUME Start \/ StartStep  PROVE SInv'
  <2>1. Requests'
    <3>1. UNCHANGED transportVars
      BY <1>8 DEF Start, StartStep, Opens, StartFails, StartReturns, StartUnchanged
    <3> QED  BY <1>0, <3>1, RequestsStand
  <2>2. Typed' /\ Course' /\ Clients'
    BY <1>0, <1>8, StartKeeps, OpensKeeps, StartFailsKeeps, StartReturnsKeeps DEF StartStep
  <2> QED  BY <2>1, <2>2 DEF SInv
<1>9. ASSUME TaskStep  PROVE SInv'
  <2>1. Requests'
    <3>1. UNCHANGED transportVars
      BY <1>9 DEF TaskStep, CancelsStart, Settles, ServicesClose, StoreCloses, RegistryCloses,
                  RegistryClosed, CacheCloses, TaskUnchanged
    <3> QED  BY <1>0, <3>1, RequestsStand
  <2>2. Typed' /\ Course' /\ Clients'
    BY <1>0, <1>9, CancelsStartKeeps, SettlesKeeps, ServicesCloseKeeps, StoreClosesKeeps,
       RegistryClosesKeeps, RegistryClosedKeeps, CacheClosesKeeps DEF TaskStep
  <2> QED  BY <2>1, <2>2 DEF SInv
<1>10. ASSUME NEW k \in Closer, Closes(k) \/ CloseReturns(k)  PROVE SInv'
  <2>1. Requests'
    <3>1. UNCHANGED transportVars
      BY <1>10 DEF Closes, CloseReturns, CloserUnchanged
    <3> QED  BY <1>0, <3>1, RequestsStand
  <2>2. Typed' /\ Course' /\ Clients'
    BY <1>0, <1>10, ClosesKeeps, CloseReturnsKeeps
  <2> QED  BY <2>1, <2>2 DEF SInv
<1>11. ASSUME UNCHANGED vars  PROVE SInv'
  <2>1. UNCHANGED transportVars /\ UNCHANGED registryVars /\ UNCHANGED sessionVars
    BY <1>11 DEF vars
  <2>2. Requests'
    BY <1>0, <2>1, RequestsStand
  <2>3. Stays
    BY <2>1 DEF Stays, transportVars
  <2> QED  BY <1>0, <2>1, <2>2, <2>3, CallersGoOn DEF SInv
<1> QED
  BY <1>1, <1>2, <1>3, <1>4, <1>5, <1>6, <1>7, <1>8, <1>9, <1>10, <1>11 DEF Next

\* The inductive invariant holds in every state of the session.
THEOREM SessionInvAlways == Spec => []SInv
<1>1. Init => SInv
  BY SessionInit
<1>2. SInv /\ [Next]_vars => SInv'
  BY SessionInductive
<1> QED  BY <1>1, <1>2, PTL DEF Spec

\* Every variable has its type, for any number of callers, closes and close tasks.
THEOREM SessionTypeCorrect == Spec => []SessionTypeOK
<1>1. SInv => SessionTypeOK
  BY DEF SInv, Requests, Typed, TaskRow, SessionTypeOK
<1> QED  BY <1>1, SessionInvAlways, PTL

\* The slots of a host (HostRequestLimiter) are held by the requests in flight and by
\* nobody else, whichever way requests end.
THEOREM SlotsAccountedAlways == Spec => []SlotsAccounted
<1>1. SInv => SlotsAccounted
  BY DEF SInv, Requests
<1> QED  BY <1>1, SessionInvAlways, PTL

\* The forge does what a write asks for at most once, whatever is rejected, redirected,
\* limited, timed out or sent again.
THEOREM ActsOnceAlways == Spec => []ActsOnce
<1>1. SInv => ActsOnce
  BY DEF SInv, Requests, ActedOK, ActsOnce
<1> QED  BY <1>1, SessionInvAlways, PTL

\* No store is closed under a write that its service still works on, except by a final
\* close, however many tasks have tried.
THEOREM WritesLandFirstAlways == Spec => []WritesLandFirst
<1>1. SInv => WritesLandFirst
  BY DEF SInv, Course, LandOK, Settled, WritesLandFirst
<1> QED  BY <1>1, SessionInvAlways, PTL

\* A close that reports no failure leaves nothing open, and a final close returns with
\* the session closed unless the task it joined last was another call's.
THEOREM NothingLeftOpenAlways == Spec => []NothingLeftOpen
<1>1. SInv => NothingLeftOpen
  <2> SUFFICES ASSUME SInv
               PROVE  NothingLeftOpen
    OBVIOUS
  <2>1. TaskOK /\ ClosersOK /\ ResultOK /\ LockOK /\ ClientsOK /\ Typed
    BY DEF SInv, Course, Clients
  <2>2. ASSUME state = "closed", Last.result = "ok", Quiet, registryOk, ~abandoned
        PROVE  cache # "open" /\ store # "open" /\ open = 0
    <3>1. task.at = "none" /\ Faultless
      BY <2>1, <2>2 DEF TaskOK, Faultless
    <3>2. cache # "open" /\ store # "open" /\ (attempted \/ starter.at # "started")
      BY <2>1, <3>1 DEF ResultOK
    <3>3. takers = {}
      <4>1. \A p \in takers : p \notin Caller /\ p # Coordinator /\ p = clientLock
        BY <2>1, <2>2, <3>1 DEF LockOK, Quiet, IsAt
      <4>2. takers \subseteq Caller \cup {Coordinator}
        BY <2>1 DEF Typed, RegistryTypeOK
      <4> QED  BY <4>1, <4>2
    <3>4. open = 0
      <4>1. ASSUME starter.at = "started"
            PROVE  open = 0
        <5>1. ~cached
          BY <2>1, <2>2, <3>2, <4>1 DEF ClientsOK, Quiet, IsAt
        <5> QED  BY <2>1, <2>2, <3>3, <5>1 DEF ClientsOK, Held
      <4> QED  BY <2>1, <4>1 DEF ClientsOK
    <3> QED  BY <3>2, <3>4
  <2> QED  BY <2>1, <2>2 DEF NothingLeftOpen, ClosersOK
<1> QED  BY <1>1, SessionInvAlways, PTL
===============================================================================
