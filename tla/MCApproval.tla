---------------------------- MODULE MCApproval ----------------------------
(* The pending queue for TLC: every list of targets that can be staged *)
EXTENDS Approval

Lists == (SUBSET Target) \ {{}}
=============================================================================
