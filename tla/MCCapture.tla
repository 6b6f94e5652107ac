---------------------------- MODULE MCCapture ----------------------------
(* The capture run for TLC: interchangeable sessions and invocations *)
EXTENDS Capture, TLC

Symmetry == Permutations(Session) \cup Permutations(Run)
=============================================================================
