---------------------------- MODULE MCAttemptLock ----------------------------
(* Three processes compete for one attempt's lock.  Four inodes are enough:  *)
(* at most three are open and the fourth can be linked at the path.          *)
EXTENDS AttemptLock, TLC

Symmetry == Permutations(Process) \cup Permutations(Inode)
===============================================================================
