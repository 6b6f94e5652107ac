-------------------------------- MODULE MCHook --------------------------------
(* The hook for TLC: one local and two remote knowledge bases, which may have
   the same notes *)
EXTENDS Hook
=============================================================================
