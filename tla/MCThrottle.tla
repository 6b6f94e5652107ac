------------------------------ MODULE MCThrottle ------------------------------
(* The throttle for TLC: three requests at once *)
EXTENDS Throttle, TLC

CONSTANTS a, b, c3

Symmetry == Permutations(Caller)
=============================================================================
