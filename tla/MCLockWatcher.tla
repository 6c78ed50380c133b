---------------------------- MODULE MCLockWatcher ----------------------------
(***************************************************************************)
(* Small instances of LockWatcher for TLC: who works on which file.        *)
(***************************************************************************)
EXTENDS LockWatcher, TLC

CONSTANTS t1, t2, t3, fa, fb

(* One client per database: each thread works on files of its own.         *)
OwnFiles == t1 :> {fa} @@ t2 :> {fb}

(* Two clients of one database.                                            *)
SharedFile == t1 :> {fa} @@ t2 :> {fa}

(* Three, with fewer slots than clients; which is which does not matter.   *)
SharedByThree == SharedFile @@ t3 :> {fa}
Symmetry == Permutations({t1, t2, t3})
=============================================================================
