------------------------- MODULE MCApplicationSession -------------------------
(***************************************************************************)
(* ApplicationSession on a small instance: two callers share one slot      *)
(* while the session runs, or two callers meet start and two closes.       *)
(***************************************************************************)
EXTENDS ApplicationSession

CONSTANTS c1, c2

MCScenarios == {[callers |-> {c1, c2}, plain |-> FALSE, closes |-> FALSE],
                [callers |-> {c1, c2}, plain |-> TRUE, closes |-> TRUE]}
===============================================================================
