-------------------------- MODULE ActivationPointer --------------------------
(***************************************************************************)
(* What a launch is promised about the per-user desktop installation       *)
(* (tongs/desktop/installer/activation.py), whatever commands run, fail or *)
(* are killed: the pointer to the active payload moves in one step, only   *)
(* to a payload that is whole on disk, and no command takes away the       *)
(* payload it points at.  Only somebody else can spoil that one.           *)
(***************************************************************************)

CONSTANTS Payload,   \* the version directories
          None       \* "no per-user activation is active"

VARIABLES active,    \* the payload a launch would start, or None
          whole,     \* the version directories that are complete on disk
          spoiled    \* those somebody else changed

vars == <<active, whole, spoiled>>

Init == active = None /\ whole = {} /\ spoiled = {}

Arrive(p) == /\ p \notin whole \cup spoiled \cup {active}
             /\ whole' = whole \cup {p} /\ UNCHANGED <<active, spoiled>>

Activate(p) == /\ p \in (whole \cup spoiled) \ {active} /\ active' = p
               /\ UNCHANGED <<whole, spoiled>>

Deactivate == active # None /\ active' = None /\ UNCHANGED <<whole, spoiled>>

Remove(p) == /\ p \in (whole \cup spoiled) \ {active}
             /\ whole' = whole \ {p} /\ spoiled' = spoiled \ {p}
             /\ UNCHANGED active

Spoil(p) == /\ p \in whole
            /\ whole' = whole \ {p} /\ spoiled' = spoiled \cup {p}
            /\ UNCHANGED active

Next == \/ \E p \in Payload : Arrive(p) \/ Activate(p) \/ Remove(p) \/ Spoil(p)
        \/ Deactivate

Spec == Init /\ [][Next]_vars
===============================================================================
