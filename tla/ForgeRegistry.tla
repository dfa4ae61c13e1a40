----------------------------- MODULE ForgeRegistry -----------------------------
(***************************************************************************)
(* The forge registry (tongs/forges/registry.py) for one host: callers     *)
(* share one look-up of the token in a worker thread, a refused look-up is *)
(* remembered for a while, and the first caller that finds a token makes   *)
(* the client all of them use.  close_all takes the client and closes it.  *)
(***************************************************************************)
EXTENDS ForgeTransport

CONSTANT Coordinator   \* the task that closes the session

ASSUME RegistryAssumption == Coordinator \notin Caller \cup {None}

VARIABLES looking,   \* a shared look-up runs
          failure,   \* the remembered refusal: none, recent (within the grace), old
          cached,    \* a client is in _clients
          open,      \* clients made and not closed
          takers     \* who is closing a client it took from the registry

registryVars == <<looking, failure, cached, open, takers>>

RegistryInit == /\ looking = FALSE /\ failure = "none"
                /\ cached = FALSE /\ open = 0 /\ takers = {}

\* get_client up to its first await, after forget_auth_failures with refresh if
\* the call is a refresh: then only a recent refusal is kept.
Asks(c) ==
  \/ /\ cached /\ Moves(c, [request[c] EXCEPT !.at = "client"])
     /\ UNCHANGED <<looking, failure>>
  \/ /\ ~cached /\ failure # "none" /\ Over(c)
     /\ UNCHANGED <<looking, failure>>
  \/ /\ ~cached /\ failure # "recent"
     /\ looking' = TRUE /\ failure' = "none"
     /\ Moves(c, [request[c] EXCEPT !.at = "lookup"])

\* resolve_token returns, finds no token, or fails otherwise; _finish_lookup runs
\* before the callers that share the look-up go on.
LookupEnds ==
  /\ looking /\ looking' = FALSE
  /\ \/ /\ request' = [c \in Caller |-> IF IsAt(c, "lookup")
                         THEN [request[c] EXCEPT !.at = "found", !.sent = valid] ELSE request[c]]
        /\ UNCHANGED failure
     \/ /\ ~scenario.plain
        /\ request' = [c \in Caller |-> IF IsAt(c, "lookup")
                         THEN [request[c] EXCEPT !.at = "over"] ELSE request[c]]
        /\ failure' \in {"recent", failure}
  /\ UNCHANGED <<scenario, slots, token, valid, refresher, acted, cached, open, takers>>

\* The grace of a refusal, then its time to live, has passed.
Ages == /\ failure # "none"
        /\ failure' = IF failure = "recent" THEN "old" ELSE "none"
        /\ UNCHANGED <<transportVars, looking, cached, open, takers>>

\* Another caller may have made the client while this one waited.
MakesClient(c) ==
  /\ IsAt(c, "found") /\ Moves(c, [request[c] EXCEPT !.at = "client"])
  /\ IF cached THEN UNCHANGED <<cached, open, token>>
     ELSE cached' = TRUE /\ open' = open + 1 /\ token' = request[c].sent
  /\ UNCHANGED <<scenario, slots, valid, refresher, acted, looking, failure, takers>>

\* close_all by a party: takes the client, and closes it or fails to.
Takes(party) == /\ cached' = FALSE
                /\ takers' = IF cached THEN takers \cup {party} ELSE takers

Gives(party) == /\ takers' = takers \ {party}
                /\ open' = IF party \in takers THEN open - 1 ELSE open

RegistryTypeOK ==
  /\ looking \in BOOLEAN /\ failure \in {"none", "recent", "old"}
  /\ cached \in BOOLEAN /\ open \in Nat /\ takers \subseteq Caller \cup {Coordinator}
===============================================================================
