----------------------------- MODULE MCLockFile -----------------------------
(* Instances of LockFile for TLC: one inode more than there are processes, *)
(* so that open() always finds a fresh one.                                *)
EXTENDS LockFile, TLC

CONSTANTS p, q, r, i1, i2, i3, i4

Symmetry == Permutations({p, q, r}) \cup Permutations({i1, i2, i3, i4})
=============================================================================
