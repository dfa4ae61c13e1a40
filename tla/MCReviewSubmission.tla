--------------------------- MODULE MCReviewSubmission ---------------------------
(***************************************************************************)
(* ReviewSubmission on small instances.                                    *)
(***************************************************************************)
EXTENDS ReviewSubmission, TLC

CONSTANTS c1

MCPlans == {plan : plan \in SUBSET Step}
MCPosition == [s \in Step |-> CASE s = c1 -> 1 [] s = Body -> 2 [] s = Batch -> 3
                                [] s = Review -> 4 [] s = Vote -> 5]
MCOperations == (0 .. MaxRecons) \X (0 .. MaxRetry)

\* Bounds of the state space.  A behaviour stays within one of two instances: one
\* process at a time with two attempts of a draft and no retries, or two processes
\* that share one attempt, without a verdict.
OneProcess == /\ Cardinality({p \in Process : mode[p] # "closed"}) <= 1
              /\ \A a \in Attempt : attempt[a].retry = 0
OneAttempt == /\ Cardinality({a \in Attempt : attempt[a].state # "absent"}) <= 1
              /\ \A d \in Draft : draft[d].version <= 3 /\ draft[d].content.verdict = None
              /\ \A a \in Attempt : attempt[a].snapshot.verdict = None
Instances == OneProcess \/ OneAttempt

Symmetry == Permutations(Process) \cup Permutations(Attempt) \cup Permutations(Task)
===============================================================================
