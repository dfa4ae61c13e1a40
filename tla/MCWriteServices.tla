---------------------------- MODULE MCWriteServices ----------------------------
(***************************************************************************)
(* WriteServices on a small instance: two calls with one operation id and  *)
(* a third with another, about one review.                                 *)
(***************************************************************************)
EXTENDS WriteServices, TLC

CONSTANTS c1, c2, c3, o1, o2, r1, d1, d2

MCOpOf == c1 :> o1 @@ c2 :> o1 @@ c3 :> o2
MCReviewOf == [c \in Call |-> r1]

Writing(x, y, z, capacity) ==
  [command |-> c1 :> x @@ c2 :> y @@ c3 :> z, capacity |-> capacity,
   readers |-> {}, shown |-> {}, refreshes |-> FALSE, closes |-> TRUE]
Reading(x, z, readers, keys, refreshes) ==
  [command |-> c1 :> x @@ c2 :> "not made" @@ c3 :> z, capacity |-> 2,
   readers |-> readers, shown |-> keys, refreshes |-> refreshes, closes |-> FALSE]

MCScenarios ==
  \* A repeat, a retry, a full ledger and one with room, another command under the
  \* same id, in one service and in two; the session is closed.
  {Writing("ci", "ci", "ci", 1), Writing("comment", "comment", "comment", 1),
   Writing("close", "close", "merge", 2), Writing("merge", "close", "not made", 1),
   Writing("ci", "comment", "not made", 1)}
  \* Reads beside one write or two.
  \cup {Reading("ci", "not made", {d1, d2}, {List}, TRUE),
        Reading("comment", "not made", {d1, d2}, {List, r1}, FALSE),
        Reading("comment", "comment", {d1}, {List}, FALSE),
        Reading("close", "merge", {d1}, {List}, FALSE),
        Reading("ci", "comment", {d1}, {List}, FALSE)}

Symmetry == Permutations(Reader)
===============================================================================
