------------------------------- MODULE MCServer -------------------------------
(* The server for TLC: two notes, and a message that cannot be parsed *)
EXTENDS Server, TLC

CONSTANTS a, b, c

Symmetry == Permutations({a, b})

\* Bound: a behaviour ends when both properties with exceptions have met one.
Bounded ==
  \/ Clean({"overwritten", "stale", "unpushed"})           \* DeletedIsKept
  \/ Clean({"failed", "missed", "dirty", "crash"})         \* MirrorUnlessMissed
=============================================================================
