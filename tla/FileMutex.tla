------------------------------ MODULE FileMutex -----------------------------
(***************************************************************************)
(* What a file lock promises (utilz.FileLock and FileUnlock, and what zql  *)
(* wants of the lock it takes around its calls): one user at a time        *)
(* between a lock that succeeds and its unlock.  A lock that times out     *)
(* changes nothing.                                                        *)
(***************************************************************************)
EXTENDS FiniteSets

CONSTANT Users

VARIABLE inside  \* who is between lock and unlock

Init == inside = {}

FileLock(u) == inside = {} /\ inside' = {u}

FileUnlock(u) == inside = {u} /\ inside' = {}

Next == \E u \in Users : FileLock(u) \/ FileUnlock(u)

Spec == Init /\ [][Next]_inside
=============================================================================
