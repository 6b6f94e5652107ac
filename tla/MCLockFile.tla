----------------------------- MODULE MCLockFile -----------------------------
(* The lock file for TLC.  A run with a liveness property takes no symmetry. *)
EXTENDS LockFile
=============================================================================
