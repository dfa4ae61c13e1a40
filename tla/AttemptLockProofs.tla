--------------------------- MODULE AttemptLockProofs ---------------------------
(***************************************************************************)
(* The lock-file protocol of AttemptLock is correct for any number of      *)
(* processes and any set of inode numbers.  SingleOwner is not inductive:  *)
(* it rests on who holds flock on what (FlockInv) and on the fact that the *)
(* file a process has verified stays linked until that process deletes it  *)
(* (LinkInv).                                                              *)
(***************************************************************************)
EXTENDS AttemptLock, TLAPS

\* From the fstat that found the file linked up to the unlink.
Verified == {"lstat", "held", "rel_fstat", "rel_lstat", "rel_unlink"}

\* A program point after flock was granted means the descriptor is open and
\* its inode is locked by this process, and nobody else's lock is recorded.
FlockInv ==
  /\ \A p \in Process : pc[p] \in Locked => fd[p] \in Inode /\ flock[fd[p]] = p
  /\ \A i \in Inode, p \in Process :
       flock[i] = p => pc[p] \in Locked /\ fd[p] = i
  /\ \A p \in Process : pc[p] = "flock" => fd[p] \in Inode

\* A verified file is still the one at the path.
LinkInv == \A p \in Process : pc[p] \in Verified => path = fd[p]

IInv == TypeOK /\ FlockInv /\ LinkInv

-------------------------------------------------------------------------------
\* The protocol starts with no file, no lock and every process idle.
LEMMA InitIInv == Init => IInv
  BY LockAssumption DEF Init, IInv, TypeOK, FlockInv, LinkInv, Locked, Verified

\* Typing of every step of the protocol.
LEMMA TypeStep == TypeOK /\ FlockInv /\ [Next]_vars => TypeOK'
  <1> SUFFICES ASSUME TypeOK, FlockInv, [Next]_vars PROVE TypeOK'
    OBVIOUS
  <1> USE LockAssumption DEF TypeOK, Locked, Return
  <1>1. CASE UNCHANGED vars
    BY <1>1 DEF vars
  <1>2. ASSUME NEW p \in Process, TryAcquire(p) PROVE TypeOK'
    BY <1>2 DEF TryAcquire
  <1>3. ASSUME NEW p \in Process, RemoveStale(p) PROVE TypeOK'
    BY <1>3 DEF RemoveStale
  <1>4. ASSUME NEW p \in Process, Probe(p) PROVE TypeOK'
    BY <1>4 DEF Probe
  <1>5. ASSUME NEW p \in Process, OpenLockFile(p) PROVE TypeOK'
    BY <1>5 DEF OpenLockFile
  <1>6. ASSUME NEW p \in Process, Flock(p) PROVE TypeOK'
    <2>1. flock' \in [Inode -> Process \cup {None}]
      BY <1>6 DEF Flock
    <2>2. tries' \in [Process -> 0 .. AcquireTries]
      BY <1>6 DEF Flock
    <2>3. sweep' \in [Process -> BOOLEAN]
      BY <1>6 DEF Flock
    <2>4. /\ path' \in Inode \cup {None}
          /\ fd' \in [Process -> Inode \cup {None}]
          /\ pc' \in [Process -> Locked \cup {"idle", "open", "flock"}]
      BY <1>6 DEF Flock
    <2> QED BY <2>1, <2>2, <2>3, <2>4
  <1>7. ASSUME NEW p \in Process, ClaimFstat(p) PROVE TypeOK'
    BY <1>7 DEF ClaimFstat
  <1>8. ASSUME NEW p \in Process, ClaimLstat(p) PROVE TypeOK'
    BY <1>8 DEF ClaimLstat
  <1>9. ASSUME NEW p \in Process, ClaimStale(p) PROVE TypeOK'
    <2>1. flock' \in [Inode -> Process \cup {None}]
      BY <1>9 DEF ClaimStale
    <2>2. tries' \in [Process -> 0 .. AcquireTries]
      BY <1>9 DEF ClaimStale
    <2>3. /\ path' \in Inode \cup {None}
          /\ fd' \in [Process -> Inode \cup {None}]
      BY <1>9 DEF ClaimStale
    <2>4. /\ pc' \in [Process -> Locked \cup {"idle", "open", "flock"}]
          /\ sweep' \in [Process -> BOOLEAN]
      BY <1>9 DEF ClaimStale
    <2> QED BY <2>1, <2>2, <2>3, <2>4
  <1>10. ASSUME NEW p \in Process, Release(p) PROVE TypeOK'
    BY <1>10 DEF Release
  <1>11. ASSUME NEW p \in Process, ReleaseFstat(p) \/ ReleaseLstat(p)
         PROVE TypeOK'
    BY <1>11 DEF ReleaseFstat, ReleaseLstat
  <1>12. ASSUME NEW p \in Process, Unlink(p) PROVE TypeOK'
    BY <1>12 DEF Unlink
  <1>13. ASSUME NEW p \in Process, Unlock(p) PROVE TypeOK'
    <2>1. flock' \in [Inode -> Process \cup {None}]
      BY <1>13 DEF Unlock
    <2>2. /\ tries' \in [Process -> 0 .. AcquireTries]
          /\ sweep' \in [Process -> BOOLEAN]
      BY <1>13 DEF Unlock
    <2>3. /\ path' \in Inode \cup {None}
          /\ fd' \in [Process -> Inode \cup {None}]
          /\ pc' \in [Process -> Locked \cup {"idle", "open", "flock"}]
      BY <1>13 DEF Unlock
    <2> QED BY <2>1, <2>2, <2>3
  <1>14. ASSUME NEW p \in Process, Crash(p) PROVE TypeOK'
    BY <1>14 DEF Crash
  <1> QED
    BY <1>1, <1>2, <1>3, <1>4, <1>5, <1>6, <1>7, <1>8, <1>9, <1>10, <1>11,
       <1>12, <1>13, <1>14 DEF Next, Step

\* Who holds flock on what, across every step.
LEMMA FlockStep == IInv /\ [Next]_vars => FlockInv'
  <1> SUFFICES ASSUME IInv, [Next]_vars PROVE FlockInv'
    OBVIOUS
  <1> USE LockAssumption DEF IInv, TypeOK, FlockInv, Locked, Return
  <1>1. CASE UNCHANGED vars
    BY <1>1 DEF vars
  <1>2. ASSUME NEW p \in Process, TryAcquire(p) PROVE FlockInv'
    BY <1>2 DEF TryAcquire
  <1>3. ASSUME NEW p \in Process, RemoveStale(p) PROVE FlockInv'
    BY <1>3 DEF RemoveStale
  <1>4. ASSUME NEW p \in Process, Probe(p) PROVE FlockInv'
    BY <1>4 DEF Probe
  <1>5. ASSUME NEW p \in Process, OpenLockFile(p) PROVE FlockInv'
    BY <1>5 DEF OpenLockFile
  <1>6. ASSUME NEW p \in Process, Flock(p) PROVE FlockInv'
    BY <1>6 DEF Flock
  <1>7. ASSUME NEW p \in Process, ClaimFstat(p) PROVE FlockInv'
    BY <1>7 DEF ClaimFstat
  <1>8. ASSUME NEW p \in Process, ClaimLstat(p) PROVE FlockInv'
    BY <1>8 DEF ClaimLstat
  <1>9. ASSUME NEW p \in Process, ClaimStale(p) PROVE FlockInv'
    BY <1>9 DEF ClaimStale
  <1>10. ASSUME NEW p \in Process, Release(p) PROVE FlockInv'
    BY <1>10 DEF Release
  <1>11. ASSUME NEW p \in Process, ReleaseFstat(p) \/ ReleaseLstat(p)
         PROVE FlockInv'
    BY <1>11 DEF ReleaseFstat, ReleaseLstat
  <1>12. ASSUME NEW p \in Process, Unlink(p) PROVE FlockInv'
    BY <1>12 DEF Unlink
  <1>13. ASSUME NEW p \in Process, Unlock(p) PROVE FlockInv'
    BY <1>13 DEF Unlock
  <1>14. ASSUME NEW p \in Process, Crash(p) PROVE FlockInv'
    BY <1>14 DEF Crash
  <1> QED
    BY <1>1, <1>2, <1>3, <1>4, <1>5, <1>6, <1>7, <1>8, <1>9, <1>10, <1>11,
       <1>12, <1>13, <1>14 DEF Next, Step

\* A verified file stays linked: only a process that has locked it unlinks it.
LEMMA LinkStep == IInv /\ [Next]_vars => LinkInv'
  <1> SUFFICES ASSUME IInv, [Next]_vars PROVE LinkInv'
    OBVIOUS
  <1> USE LockAssumption DEF IInv, TypeOK, FlockInv, LinkInv, Locked, Verified,
                             Return
  <1>1. CASE UNCHANGED vars
    BY <1>1 DEF vars
  <1>2. ASSUME NEW p \in Process, TryAcquire(p) PROVE LinkInv'
    BY <1>2 DEF TryAcquire
  <1>3. ASSUME NEW p \in Process, RemoveStale(p) PROVE LinkInv'
    BY <1>3 DEF RemoveStale
  <1>4. ASSUME NEW p \in Process, Probe(p) PROVE LinkInv'
    BY <1>4 DEF Probe
  <1>5. ASSUME NEW p \in Process, OpenLockFile(p) PROVE LinkInv'
    BY <1>5 DEF OpenLockFile
  <1>6. ASSUME NEW p \in Process, Flock(p) PROVE LinkInv'
    BY <1>6 DEF Flock
  <1>7. ASSUME NEW p \in Process, ClaimFstat(p) PROVE LinkInv'
    BY <1>7 DEF ClaimFstat, Linked
  <1>8. ASSUME NEW p \in Process, ClaimLstat(p) PROVE LinkInv'
    BY <1>8 DEF ClaimLstat, Linked
  <1>9. ASSUME NEW p \in Process, ClaimStale(p) PROVE LinkInv'
    BY <1>9 DEF ClaimStale
  <1>10. ASSUME NEW p \in Process, Release(p) PROVE LinkInv'
    BY <1>10 DEF Release
  <1>11. ASSUME NEW p \in Process, ReleaseFstat(p) \/ ReleaseLstat(p)
         PROVE LinkInv'
    BY <1>11 DEF ReleaseFstat, ReleaseLstat, Linked
  <1>12. ASSUME NEW p \in Process, Unlink(p) PROVE LinkInv'
    <2> SUFFICES ASSUME NEW q \in Process, pc'[q] \in Verified PROVE path' = fd'[q]
      OBVIOUS
    <2>1. q # p /\ pc[q] \in Verified /\ path = fd[q]
      BY <1>12 DEF Unlink
    <2>2. path = fd[p] /\ flock[path] = p
      BY <1>12 DEF Unlink
    <2>3. flock[path] = q
      BY <2>1
    <2> QED BY <2>1, <2>2, <2>3
  <1>13. ASSUME NEW p \in Process, Unlock(p) PROVE LinkInv'
    BY <1>13 DEF Unlock
  <1>14. ASSUME NEW p \in Process, Crash(p) PROVE LinkInv'
    BY <1>14 DEF Crash
  <1> QED
    BY <1>1, <1>2, <1>3, <1>4, <1>5, <1>6, <1>7, <1>8, <1>9, <1>10, <1>11,
       <1>12, <1>13, <1>14 DEF Next, Step

\* Every step, of any process, preserves the invariant.
LEMMA Inductive == IInv /\ [Next]_vars => IInv'
  BY TypeStep, FlockStep, LinkStep DEF IInv

\* The inductive invariant of the lock-file protocol: its typing, who holds
\* flock on what, and that a verified file stays linked.
THEOREM IInvAlways == Spec => []IInv
  BY InitIInv, Inductive, PTL DEF Spec

-------------------------------------------------------------------------------
\* Two owners would hold flock on the one inode at the path.
LEMMA IInvSingleOwner == IInv => SingleOwner
  BY DEF IInv, TypeOK, FlockInv, LinkInv, SingleOwner, Locked, Verified

\* At most one process ever owns an attempt, whatever crashes, sweeps and
\* deletions of lock files (release, remove_stale) are interleaved.
THEOREM SingleOwnerAlways == Spec => []SingleOwner
  BY IInvAlways, IInvSingleOwner, PTL

\* The file of an owner stays at the path, locked by the owner.
THEOREM OwnerKeepsFileAlways == Spec => []OwnerKeepsFile
  <1>1. IInv => OwnerKeepsFile
    BY LockAssumption DEF IInv, TypeOK, FlockInv, LinkInv, OwnerKeepsFile, Locked, Verified
  <1> QED BY <1>1, IInvAlways, PTL

\* unlink only ever removes the file the unlinking process has locked.
THEOREM UnlinksOwnFileAlways == Spec => UnlinksOwnFile
  <1> DEFINE Own == path' = None /\ path # None =>
                      \E p \in Process : /\ pc[p] = "rel_unlink" /\ fd[p] = path
                                         /\ flock[path] = p
  <1>1. IInv /\ [Next]_vars => [Own]_vars
    <2> SUFFICES ASSUME IInv, Next, path' = None, path # None PROVE Own
      OBVIOUS
    <2> USE LockAssumption DEF IInv, TypeOK, FlockInv, LinkInv, Locked, Verified
    <2>1. ASSUME NEW p \in Process, Unlink(p) PROVE Own
      BY <2>1 DEF Unlink
    <2>2. ASSUME NEW p \in Process, OpenLockFile(p) PROVE FALSE
      BY <2>2 DEF OpenLockFile
    <2>3. ASSUME NEW p \in Process, path' = path PROVE FALSE
      BY <2>3
    <2> QED
      BY <2>1, <2>2, <2>3 DEF Next, Step, TryAcquire, RemoveStale, Probe, Release,
         Crash, Flock, ClaimFstat, ClaimLstat, ClaimStale, ReleaseFstat,
         ReleaseLstat, Unlock
  <1> QED BY <1>1, IInvAlways, PTL DEF Spec, UnlinksOwnFile

-------------------------------------------------------------------------------
\* The abstract owner is the process in "held", and nobody when there is none.
LEMMA OwnerIs ==
  ASSUME SingleOwner
  PROVE  /\ \A p \in Process : pc[p] = "held" => owner = p
         /\ (\A p \in Process : pc[p] # "held") => owner = None
  BY DEF SingleOwner, owner

\* The protocol implements the abstract ownership lock.
THEOREM Refinement == Spec => ImplementsOwnership
  <1>1. Init => Ownership!Init
    BY DEF Init, Ownership!Init, owner
  <1>2. IInv /\ IInv' /\ [Next]_vars => [Ownership!Next]_owner
    <2> SUFFICES ASSUME IInv, IInv', [Next]_vars, owner' # owner
                 PROVE  Ownership!Next
      OBVIOUS
    <2>1. /\ SingleOwner
          /\ \A p \in Process : pc'[p] = "held" => owner' = p
          /\ (\A p \in Process : pc'[p] # "held") => owner' = None
      <3>1. SingleOwner /\ SingleOwner'
        BY IInvSingleOwner DEF IInv, TypeOK, FlockInv, LinkInv, SingleOwner,
           Locked, Verified
      <3> QED BY <3>1 DEF SingleOwner, owner
    <2>2. /\ \A p \in Process : pc[p] = "held" => owner = p
          /\ (\A p \in Process : pc[p] # "held") => owner = None
      BY <2>1, OwnerIs
    <2>3. ASSUME \A q \in Process : pc'[q] = "held" <=> pc[q] = "held"
          PROVE  FALSE
      BY <2>1, <2>2, <2>3
    <2> USE DEF IInv, TypeOK, Return
    <2>4. ASSUME NEW p \in Process, ClaimLstat(p) PROVE Ownership!Next
      <3>1. pc[p] = "lstat" /\ \A q \in Process \ {p} : pc'[q] = pc[q]
        BY <2>4 DEF ClaimLstat
      <3>2. pc'[p] = "held"
        BY <3>1, <2>3
      <3>3. \A q \in Process : pc[q] # "held"
        BY <3>1 DEF FlockInv, LinkInv, Locked, Verified
      <3> QED BY <2>1, <2>2, <3>2, <3>3 DEF Ownership!Next, Ownership!Acquire
    <2>5. ASSUME NEW p \in Process, Release(p) \/ Crash(p) PROVE Ownership!Next
      <3>1. /\ pc'[p] # "held"
            /\ \A q \in Process \ {p} : pc'[q] = pc[q]
        BY <2>5 DEF Release, Crash
      <3>2. pc[p] = "held"
        BY <3>1, <2>3
      <3>3. \A q \in Process : pc'[q] # "held"
        BY <2>1, <3>1, <3>2 DEF SingleOwner
      <3> QED BY <2>1, <2>2, <3>2, <3>3 DEF Ownership!Next, Ownership!GiveUp
    <2>6. ASSUME NEW p \in Process,
                 \/ TryAcquire(p) \/ RemoveStale(p) \/ Probe(p) \/ OpenLockFile(p)
                 \/ Flock(p) \/ ClaimFstat(p) \/ ClaimStale(p) \/ ReleaseFstat(p)
                 \/ ReleaseLstat(p) \/ Unlink(p) \/ Unlock(p)
          PROVE  FALSE
      <3>1. \A q \in Process : pc'[q] = "held" <=> pc[q] = "held"
        BY <2>6 DEF TryAcquire, RemoveStale, Probe, OpenLockFile, Flock, ClaimFstat,
           ClaimStale, ReleaseFstat, ReleaseLstat, Unlink, Unlock
      <3> QED BY <3>1, <2>3
    <2>7. CASE UNCHANGED vars
      BY <2>7, <2>3 DEF vars
    <2> QED BY <2>4, <2>5, <2>6, <2>7 DEF Next, Step
  <1> QED BY <1>1, <1>2, IInvAlways, PTL DEF Spec, ImplementsOwnership, Ownership!Spec
===============================================================================
