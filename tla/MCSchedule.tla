------------------------------ MODULE MCSchedule ------------------------------
(* The scheduler for TLC: four days *)
EXTENDS Schedule
=============================================================================
