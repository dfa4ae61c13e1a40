----------------------------- MODULE AttemptLock -----------------------------
(***************************************************************************)
(* The advisory lock file of one submission attempt, on POSIX             *)
(* (tongs/state/drafts/_locks.py).  A process opens or creates             *)
(* <attempt>.lock, takes flock on the descriptor without blocking, and     *)
(* then checks that the descriptor is still the file at the path; the      *)
(* holder deletes the file before it unlocks.  Every system call is a step *)
(* of its own, so another process may run between any two of them, and a   *)
(* process may die at any point: the kernel then closes its descriptor,    *)
(* which drops the flock, and the file stays behind.                       *)
(*                                                                         *)
(* An inode number is reused by the file system once nothing links to it   *)
(* and no descriptor is open on it, which is why creation picks any FREE   *)
(* inode rather than a fresh one.                                          *)
(***************************************************************************)
EXTENDS Naturals, FiniteSets

CONSTANTS Process,        \* the processes that touch this attempt's lock
          Inode,          \* inode numbers of the lock directory's file system
          None,           \* no inode, no process
          AcquireTries    \* _ACQUIRE_TRIES

ASSUME LockAssumption == /\ None \notin Process
                         /\ None \notin Inode
                         /\ AcquireTries \in Nat \ {0}

VARIABLES path,    \* the inode linked at <attempt>.lock, or None
          flock,   \* the process whose descriptor holds flock on an inode
          fd,      \* the inode a process has open, or None
          pc,      \* the next system call of a process
          tries,   \* iterations left of try_acquire's loop
          sweep    \* the process releases at once what it acquires: it runs
                   \* remove_stale or the attempt_held_elsewhere probe

vars == <<path, flock, fd, pc, tries, sweep>>

\* Program points at which the process holds flock on its descriptor.
Locked == {"fstat", "lstat", "stale", "held",
           "rel_fstat", "rel_lstat", "rel_unlink", "rel_unlock"}

Init == /\ path = None
        /\ flock = [i \in Inode |-> None]
        /\ fd = [p \in Process |-> None]
        /\ pc = [p \in Process |-> "idle"]
        /\ tries = [p \in Process |-> 0]
        /\ sweep = [p \in Process |-> FALSE]

FreeInode(i) == i # path /\ \A p \in Process : fd[p] # i

\* Mutant of Linked: a lock that was granted is not checked against the path.
LinkedUnchecked(p) == TRUE

\* The descriptor is the one link of its inode at the path: st_nlink is 1 in
\* the fstat, and the lstat of the path finds the same inode.
Linked(p) == path = fd[p]

\* The call ends and its local variables go out of scope.
Return(p) == /\ pc' = [pc EXCEPT ![p] = "idle"]
             /\ tries' = [tries EXCEPT ![p] = 0]
             /\ sweep' = [sweep EXCEPT ![p] = FALSE]

-------------------------------------------------------------------------------
\* try_acquire is called: by lock_submission, by recovery or by reconciliation.
TryAcquire(p) ==
  /\ pc[p] = "idle"
  /\ pc' = [pc EXCEPT ![p] = "open"]
  /\ tries' = [tries EXCEPT ![p] = AcquireTries]
  /\ sweep' = [sweep EXCEPT ![p] = FALSE]
  /\ UNCHANGED <<path, flock, fd>>

\* Mutant of RemoveStale: an old file is deleted without taking its lock.
RemoveStaleUnlocked(p) ==
  /\ pc[p] = "idle" /\ path # None
  /\ path' = None
  /\ UNCHANGED <<flock, fd, pc, tries, sweep>>

\* remove_stale found the file in the lock directory.  That the file is older
\* than the cutoff is a matter of time only: any file may have become so.
RemoveStale(p) ==
  /\ pc[p] = "idle"
  /\ path # None
  /\ pc' = [pc EXCEPT ![p] = "open"]
  /\ tries' = [tries EXCEPT ![p] = AcquireTries]
  /\ sweep' = [sweep EXCEPT ![p] = TRUE]
  /\ UNCHANGED <<path, flock, fd>>

\* attempt_held_elsewhere takes the lock and drops it again.
Probe(p) ==
  /\ pc[p] = "idle"
  /\ pc' = [pc EXCEPT ![p] = "open"]
  /\ tries' = [tries EXCEPT ![p] = AcquireTries]
  /\ sweep' = [sweep EXCEPT ![p] = TRUE]
  /\ UNCHANGED <<path, flock, fd>>

\* os.open with O_CREAT: the linked file, or a new one.
OpenLockFile(p) ==
  /\ pc[p] = "open"
  /\ \/ path # None /\ path' = path
     \/ path = None /\ \E i \in Inode : FreeInode(i) /\ path' = i
  /\ fd' = [fd EXCEPT ![p] = path']
  /\ pc' = [pc EXCEPT ![p] = "flock"]
  /\ UNCHANGED <<flock, tries, sweep>>

\* Mutant of Flock: LOCK_SH, which is granted to everybody.
FlockShared(p) ==
  /\ pc[p] = "flock"
  /\ flock' = [flock EXCEPT ![fd[p]] = p]
  /\ pc' = [pc EXCEPT ![p] = "fstat"]
  /\ UNCHANGED <<path, fd, tries, sweep>>

\* flock(LOCK_EX | LOCK_NB): granted, or somebody holds it and try_acquire
\* closes the descriptor and returns None.
Flock(p) ==
  /\ pc[p] = "flock"
  /\ \/ /\ flock[fd[p]] = None
        /\ flock' = [flock EXCEPT ![fd[p]] = p]
        /\ pc' = [pc EXCEPT ![p] = "fstat"]
        /\ UNCHANGED <<fd, tries, sweep>>
     \/ /\ flock[fd[p]] # None
        /\ Return(p)
        /\ fd' = [fd EXCEPT ![p] = None]
        /\ flock' = flock
  /\ UNCHANGED path

\* The two reads of _names_path after the lock was granted.
ClaimFstat(p) ==
  /\ pc[p] = "fstat"
  /\ pc' = [pc EXCEPT ![p] = IF Linked(p) THEN "lstat" ELSE "stale"]
  /\ UNCHANGED <<path, flock, fd, tries, sweep>>

ClaimLstat(p) ==
  /\ pc[p] = "lstat"
  /\ pc' = [pc EXCEPT ![p] = IF ~Linked(p) THEN "stale"
                              ELSE IF sweep[p] THEN "rel_fstat" ELSE "held"]
  /\ UNCHANGED <<path, flock, fd, tries, sweep>>

\* A deleted file was locked: unlock, close, and try once more or give up.
ClaimStale(p) ==
  /\ pc[p] = "stale"
  /\ flock' = [flock EXCEPT ![fd[p]] = None]
  /\ fd' = [fd EXCEPT ![p] = None]
  /\ \/ /\ tries[p] > 1
        /\ tries' = [tries EXCEPT ![p] = @ - 1]
        /\ pc' = [pc EXCEPT ![p] = "open"]
        /\ sweep' = sweep
     \/ tries[p] <= 1 /\ Return(p)
  /\ UNCHANGED path

-------------------------------------------------------------------------------
\* Mutant of Release: unlocks before it deletes.
ReleaseUnlocksFirst(p) ==
  /\ pc[p] = "held"
  /\ flock' = [flock EXCEPT ![fd[p]] = None]
  /\ pc' = [pc EXCEPT ![p] = "rel_fstat"]
  /\ UNCHANGED <<path, fd, tries, sweep>>

\* release(): the owner stops being one, and deletes the file before unlocking.
Release(p) ==
  /\ pc[p] = "held"
  /\ pc' = [pc EXCEPT ![p] = "rel_fstat"]
  /\ UNCHANGED <<path, flock, fd, tries, sweep>>

ReleaseFstat(p) ==
  /\ pc[p] = "rel_fstat"
  /\ pc' = [pc EXCEPT ![p] = IF Linked(p) THEN "rel_lstat" ELSE "rel_unlock"]
  /\ UNCHANGED <<path, flock, fd, tries, sweep>>

ReleaseLstat(p) ==
  /\ pc[p] = "rel_lstat"
  /\ pc' = [pc EXCEPT ![p] = IF Linked(p) THEN "rel_unlink" ELSE "rel_unlock"]
  /\ UNCHANGED <<path, flock, fd, tries, sweep>>

\* os.unlink removes whatever the path names now; an OSError leaves it there.
Unlink(p) ==
  /\ pc[p] = "rel_unlink"
  /\ path' \in {None, path}
  /\ pc' = [pc EXCEPT ![p] = "rel_unlock"]
  /\ UNCHANGED <<flock, fd, tries, sweep>>

\* LOCK_UN and close.
Unlock(p) ==
  /\ pc[p] = "rel_unlock"
  /\ flock' = [flock EXCEPT ![fd[p]] = None]
  /\ fd' = [fd EXCEPT ![p] = None]
  /\ Return(p)
  /\ UNCHANGED path

\* The process dies and may be started again later.
Crash(p) ==
  /\ pc[p] # "idle"
  /\ flock' = [i \in Inode |-> IF flock[i] = p THEN None ELSE flock[i]]
  /\ fd' = [fd EXCEPT ![p] = None]
  /\ Return(p)
  /\ UNCHANGED path

-------------------------------------------------------------------------------
\* One system call of a release or of a claim that is under way.
Step(p) == \/ OpenLockFile(p) \/ Flock(p)
           \/ ClaimFstat(p) \/ ClaimLstat(p) \/ ClaimStale(p)
           \/ ReleaseFstat(p) \/ ReleaseLstat(p) \/ Unlink(p) \/ Unlock(p)

Next == \E p \in Process :
          TryAcquire(p) \/ RemoveStale(p) \/ Probe(p)
            \/ Release(p) \/ Crash(p) \/ Step(p)

Spec == Init /\ [][Next]_vars

-------------------------------------------------------------------------------
\* The values the protocol's variables take; a loop counter never runs below 0.
TypeOK ==
  /\ path \in Inode \cup {None}
  /\ flock \in [Inode -> Process \cup {None}]
  /\ fd \in [Process -> Inode \cup {None}]
  /\ pc \in [Process -> Locked \cup {"idle", "open", "flock"}]
  /\ tries \in [Process -> 0 .. AcquireTries]
  /\ sweep \in [Process -> BOOLEAN]

\* Deleting lock files never lets two processes own one attempt.
SingleOwner ==
  \A p, q \in Process : pc[p] = "held" /\ pc[q] = "held" => p = q

\* The file of an owner is never taken away from it: as long as the attempt is
\* owned, the path names the very inode its owner has locked, so whoever opens
\* the path next finds it held.  The sweep of stale files on open and a release
\* that races a new owner are what could break this.
OwnerKeepsFile ==
  \A p \in Process :
    pc[p] = "held" => path = fd[p] /\ path # None /\ flock[path] = p

\* A process deletes the file at the path only while the file is its own.
UnlinksOwnFile ==
  [][ path' = None /\ path # None =>
        \E p \in Process : /\ pc[p] = "rel_unlink" /\ fd[p] = path
                           /\ flock[path] = p ]_vars

\* The abstract owner this protocol implements.
owner == IF \E p \in Process : pc[p] = "held"
         THEN CHOOSE p \in Process : pc[p] = "held"
         ELSE None

Ownership == INSTANCE OwnershipLock WITH owner <- owner

\* The lock-file protocol implements the ownership the store is promised.
ImplementsOwnership == Ownership!Spec
===============================================================================
