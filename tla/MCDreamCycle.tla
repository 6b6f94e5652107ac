---------------------------- MODULE MCDreamCycle ----------------------------
(* The dream cycle for TLC: uids are interchangeable *)
EXTENDS DreamCycle, TLC

Symmetry == Permutations(Uid)

\* Bounds: kinds of hazards in a behaviour, notes being added at once
Bounded ==
  /\ Cardinality(hazard) <= 1
  /\ Cardinality({u \in Uid : adding[u] # "no"}) <= 1
=============================================================================
