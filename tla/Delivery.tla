------------------------------- MODULE Delivery -------------------------------
(***************************************************************************)
(* What submitting notes promises, whatever the route: every note owed to  *)
(* a knowledge base is settled once.  It is kept (it was put somewhere at  *)
(* least once), failed (the caller counts an error; copies may exist       *)
(* nevertheless), refused (and its knowledge base is closed), or dropped   *)
(* because its knowledge base was closed before.  Delivery is at least     *)
(* once: nothing bounds the copies.                                        *)
(***************************************************************************)
EXTENDS Naturals

CONSTANTS Item, KB, NoKB

VARIABLES
  fate,    \* [Item -> what became of it]
  copies,  \* [Item -> how often it was put somewhere]
  to,      \* [Item -> the knowledge base it is for]
  closed   \* knowledge bases that refused a note

vars == <<fate, copies, to, closed>>

Init ==
  /\ fate = [i \in Item |-> "none"]
  /\ copies = [i \in Item |-> 0]
  /\ to = [i \in Item |-> NoKB]
  /\ closed = {}

(* New obligations, all at once *)
Owe(S) ==
  /\ \A i \in S : fate[i] = "none"
  /\ fate' = [i \in Item |-> IF i \in S THEN "owed" ELSE fate[i]]
  /\ \E kb \in [S -> KB] : to' = [i \in Item |-> IF i \in S THEN kb[i] ELSE to[i]]
  /\ UNCHANGED <<copies, closed>>

Settle(i, f) ==
  /\ fate[i] = "owed"
  /\ fate' = [fate EXCEPT ![i] = f]

(* A copy is put somewhere and nobody knows yet *)
Copy(i) ==
  /\ fate[i] = "owed"
  /\ copies' = [copies EXCEPT ![i] = @ + 1]
  /\ UNCHANGED <<fate, to, closed>>

(* The last copy is acknowledged *)
Keep(i) ==
  /\ Settle(i, "kept")
  /\ copies' = [copies EXCEPT ![i] = @ + 1]
  /\ UNCHANGED <<to, closed>>

(* The caller is told it failed, which it may not have *)
Fail(i) ==
  /\ Settle(i, "failed")
  /\ copies' \in {copies, [copies EXCEPT ![i] = @ + 1]}
  /\ UNCHANGED <<to, closed>>

Refuse(i) ==
  /\ Settle(i, "refused")
  /\ closed' = closed \cup {to[i]}
  /\ UNCHANGED <<copies, to>>

Drop(i) ==
  /\ Settle(i, "dropped")
  /\ to[i] \in closed
  /\ UNCHANGED <<copies, to, closed>>

Next ==
  \/ \E S \in SUBSET Item : Owe(S)
  \/ \E i \in Item : Copy(i) \/ Keep(i) \/ Fail(i) \/ Refuse(i) \/ Drop(i)

Spec == Init /\ [][Next]_vars
=============================================================================
