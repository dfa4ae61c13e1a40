---------------------------- MODULE OwnershipLock ----------------------------
(***************************************************************************)
(* What the draft store is promised about the ownership of one submission  *)
(* attempt (tongs/state/drafts/_locks.py): at any moment at most one       *)
(* process owns it, ownership is only taken while nobody has it, and it is *)
(* given up by the owner or by the death of the owner.                     *)
(***************************************************************************)

CONSTANTS Process,   \* the tongs processes that may own the attempt
          None       \* "nobody"

VARIABLE owner       \* the owning process, or None

Init == owner = None

Acquire(p) == owner = None /\ owner' = p

GiveUp(p) == owner = p /\ owner' = None

Next == \E p \in Process : Acquire(p) \/ GiveUp(p)

Spec == Init /\ [][Next]_owner

TypeOK == owner \in Process \cup {None}
===============================================================================
