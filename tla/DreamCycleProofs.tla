-------------------------- MODULE DreamCycleProofs --------------------------
(***************************************************************************)
(* For any set of uids and answers of any length: a dream cycle that acts  *)
(* on current notes forgets nothing, wherever it breaks off, one that does *)
(* not break off commits all it did, and no commit drops what the last one *)
(* held.                                                                   *)
(***************************************************************************)
EXTENDS DreamCycle, SequenceTheorems, TLAPS

LEMMA NoteType ==
  ASSUME NEW t \in Tree, NEW u \in In(t)
  PROVE  t[u] \in Note /\ t[u].facts \subseteq Uid
  BY DEF In, Tree, Note

LEMMA FoundType == TypeOK => Found \in Tree
  BY DEF TypeOK, Found, Tree

LEMMA ShownType ==
  ASSUME TypeOK, NEW S \in SUBSET In(snap)
  PROVE  Shown(S) \in SUBSET Uid
  BY NoteType DEF TypeOK, Shown, In

LEMMA KnownIn ==
  ASSUME TypeOK, NEW p \in todo
  PROVE  Known(p) \subseteq In(snap) /\ In(snap) \subseteq Uid
  BY DEF TypeOK, Known, Pending, Active, In

LEMMA ActionsType ==
  ASSUME TypeOK, NEW p \in todo
  PROVE  Actions(p) \subseteq Action
<1> SUFFICES ASSUME NEW a \in Actions(p) PROVE a \in Action
  OBVIOUS
<1>1. CASE a \in Keeps(p)
  <2>1. PICK u \in Known(p) :
          a = [kind |-> "keep", from |-> {u}, to |-> {u}, new |-> <<>>]
    BY <1>1 DEF Keeps
  <2>2. u \in Uid /\ <<>> \in Seq(SUBSET Uid)
    BY <2>1, KnownIn
  <2> QED
    BY <2>1, <2>2 DEF Action
<1>2. CASE a \in Merges(p)
  <2>1. PICK u \in Known(p) : \E t \in Active(snap) \ {u} :
          a = [kind |-> "merge", from |-> {u}, to |-> {t}, new |-> <<Shown({u, t})>>]
    BY <1>2 DEF Merges
  <2>5. PICK t \in Active(snap) \ {u} :
          a = [kind |-> "merge", from |-> {u}, to |-> {t}, new |-> <<Shown({u, t})>>]
    BY <2>1
  <2>2. u \in In(snap) /\ t \in In(snap) /\ u \in Uid /\ t \in Uid
    BY <2>1, <2>5, KnownIn DEF Active
  <2>3. Shown({u, t}) \in SUBSET Uid
    BY <2>2, ShownType
  <2>4. <<Shown({u, t})>> \in Seq(SUBSET Uid)
    BY <2>3
  <2> QED
    BY <2>5, <2>2, <2>4 DEF Action
<1>3. CASE a \in Splits(p)
  <2>1. PICK u \in Known(p) : \E F \in SUBSET snap[u].facts :
          a = [kind |-> "split", from |-> {u}, to |-> {},
               new |-> <<F, snap[u].facts \ F>>]
    BY <1>3 DEF Splits
  <2>2. u \in In(snap) /\ u \in Uid /\ snap[u].facts \subseteq Uid
    BY <2>1, KnownIn, NoteType DEF TypeOK
  <2> QED
    BY <2>1, <2>2 DEF Action
<1>4. CASE a \in Consolidations(p)
  <2>1. PICK S \in SUBSET Known(p) :
          a = [kind |-> "consolidate", from |-> S, to |-> {}, new |-> <<Shown(S)>>]
    BY <1>4 DEF Consolidations
  <2>2. S \subseteq In(snap) /\ S \subseteq Uid
    BY <2>1, KnownIn
  <2>3. Shown(S) \in SUBSET Uid
    BY <2>2, ShownType
  <2>4. <<Shown(S)>> \in Seq(SUBSET Uid)
    BY <2>3
  <2> QED
    BY <2>1, <2>2, <2>4 DEF Action
<1> QED
  BY <1>1, <1>2, <1>3, <1>4 DEF Actions

LEMMA AnswersType ==
  ASSUME TypeOK, NEW p \in todo, NEW a \in Answers(p)
  PROVE  a \in Seq(Action) /\ \A i \in DOMAIN a : a[i] \in Actions(p)
<1>1. PICK n \in 1..MaxActions : a \in [1..n -> Actions(p)]
  BY DEF Answers
<1>2. n \in Nat
  BY <1>1, DreamAssumption
<1> QED
  BY <1>1, <1>2, ActionsType

LEMMA HeadType ==
  ASSUME TypeOK, plan # <<>>
  PROVE  /\ Act \in Action /\ Act = plan[1] /\ 1 \in DOMAIN plan
         /\ Tail(plan) \in Seq(Action)
         /\ \A i \in DOMAIN Tail(plan) : i + 1 \in DOMAIN plan /\ Tail(plan)[i] = plan[i + 1]
  BY DEF TypeOK, Act

\* What MergeWrite, WriteNew and DeleteSource do to the action under way
Wrote(a)      == [a EXCEPT !.new = Tail(@)]
Removed(a, u) == [a EXCEPT !.from = @ \ {u}]

LEMMA WroteType ==
  ASSUME NEW a \in Action, a.new # <<>>
  PROVE  /\ Wrote(a) \in Action /\ Head(a.new) \in SUBSET Uid
         /\ Wrote(a).kind = a.kind /\ Wrote(a).from = a.from /\ Wrote(a).to = a.to
         /\ Wrote(a).new = Tail(a.new)
  BY DEF Wrote, Action

LEMMA RemovedType ==
  ASSUME NEW a \in Action, NEW u \in Uid
  PROVE  /\ Removed(a, u) \in Action
         /\ Removed(a, u).kind = a.kind /\ Removed(a, u).from = a.from \ {u}
         /\ Removed(a, u).to = a.to /\ Removed(a, u).new = a.new
  BY DEF Removed, Action

LEMMA ReplaceHead ==
  ASSUME TypeOK, plan # <<>>, NEW b \in Action
  PROVE  LET q == [plan EXCEPT ![1] = b]
         IN /\ q \in Seq(Action) /\ DOMAIN q = DOMAIN plan /\ q # <<>>
            /\ Head(q) = b /\ q[1] = b
            /\ \A i \in DOMAIN q : i > 1 => q[i] = plan[i]
  BY DEF TypeOK

-----------------------------------------------------------------------------
(* Type correctness *)

LEMMA TypeInductive == TypeOK /\ [Next]_vars => TypeOK'
<1> SUFFICES ASSUME TypeOK, [Next]_vars PROVE TypeOK'
  OBVIOUS
<1> USE DEF git, lists, others
<1>1. ASSUME NEW u \in Uid, AddNote(u) PROVE TypeOK'
  BY <1>1 DEF TypeOK, AddNote, Captured, Tree, Note
<1>2. ASSUME NEW u \in Uid, AddStage(u) PROVE TypeOK'
  BY <1>2 DEF TypeOK, AddStage, Tree
<1>3. ASSUME NEW u \in Uid, AddCommit(u) PROVE TypeOK'
  BY <1>3 DEF TypeOK, AddCommit
<1>4. ASSUME NEW u \in Uid, AddFails(u) PROVE TypeOK'
  BY <1>4 DEF TypeOK, AddFails
<1>5. CASE Reindex
  BY <1>5 DEF TypeOK, Reindex
<1>6. CASE Start
  BY <1>6, FoundType DEF TypeOK, Start
<1>7. ASSUME NEW p \in Uid, Answer(p) PROVE TypeOK'
  <2>1. plan' \in Seq(Action)
    BY <1>7, AnswersType DEF Answer
  <2> QED
    BY <1>7, <2>1 DEF TypeOK, Answer
<1>8. ASSUME NEW p \in Uid, NoAnswer(p) PROVE TypeOK'
  BY <1>8 DEF TypeOK, NoAnswer
<1>9. CASE Keep
  <2>1. PICK u \in Act.from : note[u] # Absent /\ Put(u, [note[u] EXCEPT !.status = "active"])
    BY <1>9 DEF Keep
  <2>2. plan # <<>> /\ u \in Uid
    BY <1>9, <2>1, HeadType DEF Keep, Applying, Action
  <2>3. note[u] \in Note
    BY <2>1, <2>2 DEF TypeOK, Tree
  <2>4. [note[u] EXCEPT !.status = "active"] \in Note
    BY <2>3 DEF Note
  <2>5. note' \in Tree /\ staged' \subseteq Uid
    BY <2>1, <2>2, <2>4 DEF TypeOK, Put, Tree
  <2> QED
    BY <1>9, <2>2, <2>5, HeadType DEF TypeOK, Keep
<1>10. CASE Skip
  BY <1>10, HeadType DEF TypeOK, Skip, Applying
<1>11. CASE MergeWrite
  <2>1. plan # <<>> /\ Act.new # <<>> /\ Act \in Action /\ Act = plan[1]
    BY <1>11, HeadType DEF MergeWrite, Applying
  <2>2. PICK u \in Act.to : /\ note[u] # Absent
                            /\ Put(u, [note[u] EXCEPT !.facts = Head(Act.new)])
                            /\ touched' = touched \cup {u}
                            /\ hazard' = hazard \cup IF u \in touched THEN {"retouched"} ELSE {}
    BY <1>11 DEF MergeWrite
  <2>3. u \in Uid /\ Head(Act.new) \in SUBSET Uid
    BY <2>1, <2>2, WroteType DEF Action
  <2>4. note[u] \in Note
    BY <2>2, <2>3 DEF TypeOK, Tree
  <2>5. [note[u] EXCEPT !.facts = Head(Act.new)] \in Note
    BY <2>3, <2>4 DEF Note
  <2>6. note' \in Tree /\ staged' \subseteq Uid
    BY <2>2, <2>3, <2>5 DEF TypeOK, Put, Tree
  <2>7. plan' = [plan EXCEPT ![1] = Wrote(plan[1])]
    BY <1>11 DEF MergeWrite, Wrote
  <2>8. plan' \in Seq(Action)
    BY <2>1, <2>7, WroteType, ReplaceHead
  <2> QED
    BY <1>11, <2>2, <2>3, <2>6, <2>8 DEF TypeOK, MergeWrite
<1>12. ASSUME NEW u \in Uid, WriteNew(u) PROVE TypeOK'
  <2>1. plan # <<>> /\ Act.new # <<>> /\ Act \in Action /\ Act = plan[1]
    BY <1>12, HeadType DEF WriteNew, Applying
  <2>2. [status |-> "active", facts |-> Head(Act.new)] \in Note
    BY <2>1, WroteType DEF Note
  <2>3. note' \in Tree /\ staged' \subseteq Uid
    BY <1>12, <2>2 DEF TypeOK, WriteNew, Put, Tree
  <2>4. plan' = [plan EXCEPT ![1] = Wrote(plan[1])]
    BY <1>12 DEF WriteNew, Wrote
  <2>5. plan' \in Seq(Action)
    BY <2>1, <2>4, WroteType, ReplaceHead
  <2> QED
    BY <1>12, <2>3, <2>5 DEF TypeOK, WriteNew
<1>13. ASSUME NEW u \in Uid, DeleteSource(u) PROVE TypeOK'
  <2>1. plan # <<>> /\ Act \in Action /\ Act = plan[1] /\ Tail(plan) \in Seq(Action)
    BY <1>13, HeadType DEF DeleteSource, Applying
  <2>2. plan' = Tail(plan) \/ plan' = [plan EXCEPT ![1] = Removed(plan[1], u)]
    BY <1>13 DEF DeleteSource, Removed
  <2>3. plan' \in Seq(Action)
    BY <2>1, <2>2, RemovedType, ReplaceHead
  <2> QED
    BY <1>13, <2>3 DEF TypeOK, DeleteSource, Removing, Tree
<1>14. CASE ActionFails
  BY <1>14 DEF TypeOK, ActionFails
<1>15. CASE Applied
  BY <1>15 DEF TypeOK, Applied
<1>16. CASE GitAdd
  BY <1>16 DEF TypeOK, GitAdd, Tree
<1>17. CASE GitAddFails
  BY <1>17 DEF TypeOK, GitAddFails
<1>18. CASE GitRm
  BY <1>18 DEF TypeOK, GitRm, Tree
<1>19. CASE GitCommit
  BY <1>19 DEF TypeOK, GitCommit
<1>20. CASE GitCommitFails
  BY <1>20 DEF TypeOK, GitCommitFails
<1>21. CASE Finish
  BY <1>21 DEF TypeOK, Finish, Forget, Nowhere, Tree
<1>22. CASE Crash
  BY <1>22 DEF TypeOK, Crash, Forget, Nowhere, Tree
<1>23. CASE UNCHANGED vars
  BY <1>23 DEF TypeOK, vars, Pending, In
<1> QED
  BY <1>1, <1>2, <1>3, <1>4, <1>5, <1>6, <1>7, <1>8, <1>9, <1>10, <1>11, <1>12,
     <1>13, <1>14, <1>15, <1>16, <1>17, <1>18, <1>19, <1>20, <1>21, <1>22, <1>23
     DEF Next, Cycle

(* Every reachable state of the dream cycle has the declared types *)
THEOREM TypeCorrect == Spec => []TypeOK
<1>1. Init => TypeOK
  BY DEF Init, TypeOK, Tree, Note, In, Nowhere, Pending
<1> QED
  BY <1>1, TypeInductive, PTL DEF Spec
-----------------------------------------------------------------------------
(* The strengthening.  Only used uids name files, and a deleted note does  *)
(* not come back.                                                          *)

UidInv ==
  /\ In(note) \subseteq used /\ In(seen) \subseteq used /\ In(snap) \subseteq used
  /\ deleted \subseteq used /\ deleted \cap In(note) = {}

(* A note the cycle has not rewritten carries no more than its batch knows. *)
SnapInv ==
  Current => \A u \in (In(note) \cap In(snap)) \ touched :
               note[u].facts \subseteq snap[u].facts

(* A note that was active when it was read is active, if it is still there. *)
StatusInv ==
  \A u \in In(note) : u \in Active(seen) \cup Active(snap) => u \in Active(note)

(* What is left of an answer.  The contents of an action that has not      *)
(* begun carry all its sources; one under way has its sources covered by   *)
(* what it has still to write and by active notes it will not delete.      *)
Written(a)   == UNION {a.new[j] : j \in DOMAIN a.new}
Outside(S)   == UNION {note[u].facts : u \in Active(note) \ S}
Whole(a)     == a.kind # "keep" => Shown(a.from) \subseteq Written(a)
WellFormed(a) ==
  /\ a.from \subseteq In(snap) /\ a.to \subseteq In(snap)
  /\ a.kind = "merge" => a.from \cap a.to = {} /\ a.to \subseteq Active(snap)
  /\ a.kind = "merge" /\ a.new # <<>> => a.new = <<Shown(a.from \cup a.to)>>

PlanInv ==
  /\ plan # <<>> => pc = "apply"
  /\ \A i \in DOMAIN plan : WellFormed(plan[i]) /\ (i > 1 => Whole(plan[i]))
  /\ plan # <<>> /\ Act.kind # "keep" =>
       Shown(Act.from) \subseteq Written(Act) \cup Outside(Act.from)

IInv == TypeOK /\ UidInv /\ StatusInv /\ SnapInv /\ PlanInv /\ NothingForgotten

\* What the actions leave alone of the state the plan depends on
LEMMA WrittenSplit ==
  ASSUME NEW a \in Action, a.new # <<>>
  PROVE  Written(a) = Head(a.new) \cup Written(Wrote(a))
<1>1. a.new \in Seq(SUBSET Uid) /\ Wrote(a).new = Tail(a.new)
  BY WroteType DEF Action
<1>2. ASSUME NEW j \in DOMAIN a.new
      PROVE  a.new[j] \subseteq Head(a.new) \cup Written(Wrote(a))
  <2>1. CASE j = 1
    BY <1>1, <2>1
  <2>2. CASE j # 1
    <3>1. j - 1 \in DOMAIN Tail(a.new) /\ Tail(a.new)[j - 1] = a.new[j]
      BY <1>1, <1>2, <2>2
    <3> QED
      BY <1>1, <3>1 DEF Written
  <2> QED
    BY <2>1, <2>2
<1>3. Head(a.new) \subseteq Written(a)
  <2>1. 1 \in DOMAIN a.new /\ Head(a.new) = a.new[1]
    BY <1>1
  <2> QED
    BY <2>1 DEF Written
<1>4. ASSUME NEW j \in DOMAIN Tail(a.new)
      PROVE  Tail(a.new)[j] \subseteq Written(a)
  <2>1. j + 1 \in DOMAIN a.new /\ Tail(a.new)[j] = a.new[j + 1]
    BY <1>1, <1>4
  <2> QED
    BY <2>1 DEF Written
<1> QED
  BY <1>1, <1>2, <1>3, <1>4 DEF Written

LEMMA AnswersWhole ==
  ASSUME TypeOK, NEW p \in todo, NEW a \in Actions(p)
  PROVE  WellFormed(a) /\ Whole(a)
<1> USE KnownIn
<1>1. CASE a \in Keeps(p)
  <2>1. PICK u \in Known(p) :
          a = [kind |-> "keep", from |-> {u}, to |-> {u}, new |-> <<>>]
    BY <1>1 DEF Keeps
  <2> QED
    BY <2>1 DEF WellFormed, Whole
<1>2. CASE a \in Merges(p)
  <2>1. PICK u \in Known(p) : \E t \in Active(snap) \ {u} :
          a = [kind |-> "merge", from |-> {u}, to |-> {t}, new |-> <<Shown({u, t})>>]
    BY <1>2 DEF Merges
  <2>2. PICK t \in Active(snap) \ {u} :
          a = [kind |-> "merge", from |-> {u}, to |-> {t}, new |-> <<Shown({u, t})>>]
    BY <2>1
  <2>3. u \in In(snap) /\ t \in In(snap)
    BY <2>1, <2>2 DEF Active
  <2>4. Shown({u}) \subseteq Shown({u, t}) /\ Shown({u, t}) = Shown({u} \cup {t})
    BY DEF Shown
  <2>8. DOMAIN a.new = {1} /\ a.new[1] = Shown({u, t})
    BY <2>2
  <2>5. Written(a) = Shown({u, t})
    BY <2>8 DEF Written
  <2>6. WellFormed(a)
    BY <2>2, <2>3, <2>4 DEF WellFormed
  <2>7. Whole(a)
    BY <2>2, <2>4, <2>5 DEF Whole
  <2> QED
    BY <2>6, <2>7
<1>3. CASE a \in Splits(p)
  <2>1. PICK u \in Known(p) : \E F \in SUBSET snap[u].facts :
          a = [kind |-> "split", from |-> {u}, to |-> {},
               new |-> <<F, snap[u].facts \ F>>]
    BY <1>3 DEF Splits
  <2>2. PICK F \in SUBSET snap[u].facts :
          a = [kind |-> "split", from |-> {u}, to |-> {},
               new |-> <<F, snap[u].facts \ F>>]
    BY <2>1
  <2>3. Shown(a.from) = snap[u].facts
    BY <2>2 DEF Shown
  <2>4. 1 \in DOMAIN a.new /\ 2 \in DOMAIN a.new /\ a.new[1] = F
          /\ a.new[2] = snap[u].facts \ F
    BY <2>2
  <2>5. Whole(a)
    BY <2>3, <2>4 DEF Whole, Written
  <2> QED
    BY <2>1, <2>2, <2>5 DEF WellFormed
<1>4. CASE a \in Consolidations(p)
  <2>1. PICK S \in SUBSET Known(p) :
          a = [kind |-> "consolidate", from |-> S, to |-> {}, new |-> <<Shown(S)>>]
    BY <1>4 DEF Consolidations
  <2>2. Written(a) = Shown(S)
    BY <2>1 DEF Written
  <2> QED
    BY <2>1, <2>2 DEF WellFormed, Whole
<1> QED
  BY <1>1, <1>2, <1>3, <1>4 DEF Actions

LEMMA SameSnap ==
  ASSUME snap' = snap
  PROVE  /\ \A S : Shown(S)' = Shown(S)
         /\ \A a : WellFormed(a)' = WellFormed(a)
         /\ \A a : Whole(a)' = Whole(a)
  BY DEF Shown, WellFormed, Whole, Written, In

\* The action under way is over: the next one has not begun.
LEMMA PopPlan ==
  ASSUME TypeOK, PlanInv, plan # <<>>, plan' = Tail(plan), pc' = pc, snap' = snap
  PROVE  PlanInv'
<1>1. /\ \A i \in DOMAIN plan' : i + 1 \in DOMAIN plan /\ plan'[i] = plan[i + 1]
      /\ plan' \in Seq(Action) /\ DOMAIN plan' \subseteq Nat \ {0}
  BY HeadType
<1>2. ASSUME NEW i \in DOMAIN plan'
      PROVE  WellFormed(plan[i])' /\ Whole(plan[i])'
  <2>1. i + 1 > 1 /\ i + 1 \in DOMAIN plan /\ plan'[i] = plan[i + 1]
    BY <1>1
  <2>2. WellFormed(plan[i + 1]) /\ Whole(plan[i + 1])
    BY <2>1 DEF PlanInv
  <2> QED
    BY <2>1, <2>2 DEF WellFormed, Whole, Written, Shown, In
<1>3. ASSUME plan' # <<>>
      PROVE  Whole(Act)' /\ pc' = "apply"
  <2>1. 1 \in DOMAIN plan' /\ Act' = plan'[1]
    BY <1>1, <1>3 DEF Act
  <2>2. Whole(plan[1])'
    BY <2>1, <1>2
  <2> QED
    BY <2>1, <2>2 DEF PlanInv, Whole
<1> QED
  BY <1>2, <1>3 DEF PlanInv, Whole

\* The action under way has become b.
LEMMA AdvancePlan ==
  ASSUME TypeOK, PlanInv, plan # <<>>, pc' = pc, snap' = snap,
         NEW b \in Action, plan' = [plan EXCEPT ![1] = b], WellFormed(b),
         b.kind # "keep" => Shown(b.from) \subseteq Written(b) \cup Outside(b.from)'
  PROVE  PlanInv'
<1>1. /\ DOMAIN plan' = DOMAIN plan /\ plan' # <<>> /\ Act' = b /\ plan'[1] = b
      /\ \A i \in DOMAIN plan' : i > 1 => plan'[i] = plan[i]
      /\ DOMAIN plan \subseteq Nat \ {0}
  BY ReplaceHead DEF Act, TypeOK
<1>2. ASSUME NEW i \in DOMAIN plan'
      PROVE  WellFormed(plan[i])' /\ (i > 1 => Whole(plan[i])')
  <2>1. CASE i = 1
    BY <1>1, <2>1 DEF WellFormed, Shown, In
  <2>2. CASE i > 1
    <3>1. WellFormed(plan[i]) /\ Whole(plan[i]) /\ plan'[i] = plan[i]
      BY <1>1, <2>2 DEF PlanInv
    <3> QED
      BY <3>1 DEF WellFormed, Whole, Written, Shown, In
  <2> QED
    BY <1>1, <2>1, <2>2
<1>3. (Act.kind # "keep")' =>
        Shown(Act.from)' \subseteq Written(Act)' \cup Outside(Act.from)'
  BY <1>1 DEF Shown, Written, Outside, In
<1> QED
  BY <1>1, <1>2, <1>3 DEF PlanInv

\* A step that changes no note, no batch and no action
LEMMA QuietStep ==
  ASSUME IInv, TypeOK', StatusInv', UNCHANGED <<note, snap, touched, captured, used>>,
         In(seen)' \subseteq used, deleted' \subseteq deleted,
         hazard \subseteq hazard',
         (plan' = plan /\ pc' = pc) \/ plan' = <<>>
  PROVE  IInv'
<1>1. UidInv' /\ SnapInv' /\ NothingForgotten'
  BY DEF IInv, UidInv, SnapInv, NothingForgotten, Current, In, Facts
<1>2. PlanInv'
  <2>1. CASE plan' = <<>>
    BY <2>1 DEF PlanInv
  <2>2. CASE plan' = plan /\ pc' = pc
    <3>1. /\ \A S : Outside(S)' = Outside(S)
          /\ Act' = Act
      BY <2>2 DEF Outside, In, Act
    <3>2. \A a : Written(a)' = Written(a)
      BY DEF Written
    <3> QED
      BY <2>2, <3>1, <3>2, SameSnap DEF PlanInv, IInv
  <2> QED
    BY <2>1, <2>2
<1> QED
  BY <1>1, <1>2 DEF IInv

\* A file under a new uid takes nothing away.
LEMMA NewFile ==
  ASSUME TypeOK, UidInv, NEW u \in Uid, u \notin used,
         NEW n \in Note, note' = [note EXCEPT ![u] = n]
  PROVE  /\ In(note)' = In(note) \cup {u}
         /\ \A v \in In(note) : v # u /\ note'[v] = note[v]
         /\ note'[u] = n
         /\ \A S : Outside(S) \subseteq Outside(S)'
         /\ \A S : u \notin S /\ n.status = "active" => n.facts \subseteq Outside(S)'
         /\ Facts(note)' = Facts(note) \cup n.facts
<1>1. n # Absent /\ u \notin In(note)
  BY DreamAssumption DEF UidInv
<1>2. /\ In(note)' = In(note) \cup {u}
      /\ \A v \in In(note) : v # u /\ note'[v] = note[v]
      /\ note'[u] = n
  BY <1>1 DEF TypeOK, Tree, In
<1>3. ASSUME NEW S
      PROVE  /\ Outside(S) \subseteq Outside(S)'
             /\ u \notin S /\ n.status = "active" => n.facts \subseteq Outside(S)'
  <2>1. ASSUME NEW f \in Outside(S) PROVE f \in Outside(S)'
    BY <1>2, <2>1 DEF Outside, Active
  <2>2. n.status = "active" => u \in Active(note)'
    BY <1>2 DEF Active
  <2>3. u \notin S /\ n.status = "active" => n.facts \subseteq Outside(S)'
    BY <1>2, <2>2 DEF Outside
  <2> QED
    BY <2>1, <2>3
<1>4. Facts(note)' = Facts(note) \cup n.facts
  <2>1. \A f \in Facts(note) : f \in Facts(note)'
    BY <1>2 DEF Facts
  <2>2. n.facts \subseteq Facts(note)'
    BY <1>2 DEF Facts
  <2>3. \A f \in Facts(note)' : f \in Facts(note) \cup n.facts
    BY <1>2 DEF Facts
  <2> QED
    BY <2>1, <2>2, <2>3
<1> QED
  BY <1>2, <1>3, <1>4

LEMMA AddNoteStep ==
  ASSUME IInv, TypeOK', StatusInv', NEW u \in Uid, AddNote(u)
  PROVE  IInv'
<1>1. /\ u \notin used /\ note' = [note EXCEPT ![u] = Captured(u)]
      /\ used' = used \cup {u} /\ captured' = captured \cup {u}
      /\ UNCHANGED <<seen, snap, pc, plan, deleted, touched, hazard>>
  BY DEF AddNote, lists
<1>2. Captured(u) \in Note /\ Captured(u).facts = {u}
  BY DEF Captured, Note
<1>3. /\ In(note)' = In(note) \cup {u}
      /\ \A v \in In(note) : v # u /\ note'[v] = note[v]
      /\ \A S : Outside(S) \subseteq Outside(S)'
      /\ Facts(note)' = Facts(note) \cup {u}
  BY <1>1, <1>2, NewFile DEF IInv
<1>4. In(seen)' = In(seen) /\ In(snap)' = In(snap)
  BY <1>1 DEF In
<1>5. UidInv'
  BY <1>1, <1>3, <1>4 DEF IInv, UidInv
<1>6. SnapInv'
  BY <1>1, <1>3, <1>4 DEF IInv, UidInv, SnapInv, Current
<1>7. PlanInv'
  <2>1. CASE plan = <<>>
    BY <1>1, <2>1 DEF PlanInv
  <2>2. CASE plan # <<>>
    <3>1. Act' = Act /\ Written(Act)' = Written(Act) /\ Shown(Act.from)' = Shown(Act.from)
      BY <1>1 DEF Act, Written, Shown
    <3>2. \A i \in DOMAIN plan : WellFormed(plan[i])' /\ (i > 1 => Whole(plan[i])')
      BY <1>1 DEF IInv, PlanInv, WellFormed, Whole, Written, Shown, In
    <3>3. Outside(Act.from)' = UNION {note'[v].facts : v \in Active(note)' \ Act.from}
      BY <3>1 DEF Outside
    <3>4. \A v \in Active(note) : v \in Active(note)' /\ note'[v] = note[v]
      BY <1>3 DEF Active
    <3>5. Outside(Act.from) \subseteq Outside(Act.from)'
      BY <3>3, <3>4 DEF Outside
    <3> QED
      BY <1>1, <2>2, <3>1, <3>2, <3>5 DEF IInv, PlanInv
  <2> QED
    BY <2>1, <2>2
<1>8. NothingForgotten'
  BY <1>1, <1>3 DEF IInv, NothingForgotten, Current
<1> QED
  BY <1>5, <1>6, <1>7, <1>8 DEF IInv

LEMMA StartStep ==
  ASSUME IInv, TypeOK', StatusInv', Start
  PROVE  IInv'
<1>1. /\ pc = "idle" /\ snap' = Found
      /\ hazard' = hazard \cup
           IF store = "server" /\ seen # note THEN {"outdated"} ELSE {}
      /\ UNCHANGED <<store, note, seen, used, captured, plan, deleted, touched>>
  BY DEF Start, lists, others
<1>2. plan = <<>>
  BY <1>1 DEF IInv, PlanInv
<1>3. \A u \in In(Found) :
        /\ store = "local" => u \in In(note) /\ Found[u] = note[u]
        /\ store # "local" => u \in In(seen) /\ Found[u] = seen[u]
  BY DEF Found, In, Pending, Active
<1>4. In(snap)' = In(Found) /\ In(note)' = In(note) /\ In(seen)' = In(seen)
  BY <1>1 DEF In
<1>5. UidInv'
  BY <1>1, <1>3, <1>4 DEF IInv, UidInv
<1>6. SnapInv'
  <2> SUFFICES ASSUME Current', NEW u \in In(note) \cap In(Found)
               PROVE  note[u].facts \subseteq Found[u].facts
    BY <1>1, <1>4 DEF SnapInv
  <2>1. store = "local" \/ seen = note
    BY <1>1 DEF Current, IInv, TypeOK
  <2> QED
    BY <2>1, <1>3
<1>7. PlanInv' /\ NothingForgotten'
  BY <1>1, <1>2, <1>4 DEF IInv, PlanInv, NothingForgotten, Current, Facts
<1> QED
  BY <1>5, <1>6, <1>7 DEF IInv

LEMMA AnswerStep ==
  ASSUME IInv, TypeOK', StatusInv', NEW p \in Uid, Answer(p)
  PROVE  IInv'
<1>1. /\ p \in todo /\ plan' \in Answers(p) /\ pc' = "apply"
      /\ UNCHANGED <<note, seen, used, captured, snap, deleted, touched, hazard>>
  BY DEF Answer, lists, others
<1>2. UidInv' /\ SnapInv' /\ NothingForgotten'
  BY <1>1 DEF IInv, UidInv, SnapInv, NothingForgotten, Current, In, Facts
<1>3. plan' \in Seq(Action) /\ \A i \in DOMAIN plan' : plan'[i] \in Actions(p)
  BY <1>1, AnswersType DEF IInv
<1>4. ASSUME NEW i \in DOMAIN plan' PROVE WellFormed(plan[i])' /\ Whole(plan[i])'
  <2>1. WellFormed(plan'[i]) /\ Whole(plan'[i])
    BY <1>1, <1>3, <1>4, AnswersWhole DEF IInv
  <2> QED
    BY <1>1, <2>1 DEF WellFormed, Whole, Written, Shown, In
<1>5. ASSUME plan' # <<>> PROVE Whole(Act)'
  <2>1. 1 \in DOMAIN plan' /\ Act' = plan'[1]
    BY <1>3, <1>5 DEF Act
  <2>2. Whole(plan[1])'
    BY <1>4, <2>1
  <2> QED
    BY <2>1, <2>2 DEF Whole
<1>6. PlanInv'
  BY <1>1, <1>4, <1>5 DEF PlanInv, Whole
<1> QED
  BY <1>2, <1>6 DEF IInv

LEMMA KeepStep ==
  ASSUME IInv, TypeOK', StatusInv', Keep
  PROVE  IInv'
<1>1. PICK u \in Act.from :
        note[u] # Absent /\ Put(u, [note[u] EXCEPT !.status = "active"])
  BY DEF Keep
<1>2. /\ plan # <<>> /\ plan' = Tail(plan) /\ pc' = pc
      /\ UNCHANGED <<seen, used, captured, snap, deleted, touched, hazard>>
      /\ note' = [note EXCEPT ![u] = [note[u] EXCEPT !.status = "active"]]
  BY <1>1 DEF Keep, Applying, others, Put
<1>3. u \in Uid
  BY <1>1, <1>2, HeadType DEF IInv, Action
<1>4. note[u] \in Note /\ [note[u] EXCEPT !.status = "active"] # Absent
        /\ [note[u] EXCEPT !.status = "active"].facts = note[u].facts
  BY <1>1, <1>3, DreamAssumption DEF IInv, TypeOK, Tree, Note
<1>5. In(note)' = In(note) /\ \A v \in In(note) : note'[v].facts = note[v].facts
  BY <1>1, <1>2, <1>3, <1>4 DEF IInv, TypeOK, Tree, In
<1>6. UidInv'
  BY <1>2, <1>5 DEF IInv, UidInv, In
<1>7. SnapInv' /\ NothingForgotten'
  <2>1. In(snap)' = In(snap) /\ Facts(note)' = Facts(note)
    BY <1>2, <1>5 DEF In, Facts
  <2> QED
    BY <1>2, <1>5, <2>1 DEF IInv, SnapInv, NothingForgotten, Current
<1>8. PlanInv'
  BY <1>2, PopPlan DEF IInv
<1> QED
  BY <1>6, <1>7, <1>8 DEF IInv

LEMMA SkipStep ==
  ASSUME IInv, TypeOK', StatusInv', Skip
  PROVE  IInv'
<1>1. /\ plan # <<>> /\ plan' = Tail(plan) /\ pc' = pc
      /\ UNCHANGED <<note, seen, used, captured, snap, deleted, touched, hazard>>
  BY DEF Skip, Applying, others, lists
<1>2. UidInv' /\ SnapInv' /\ NothingForgotten'
  BY <1>1 DEF IInv, UidInv, SnapInv, NothingForgotten, Current, In, Facts
<1>3. PlanInv'
  BY <1>1, PopPlan DEF IInv
<1> QED
  BY <1>2, <1>3 DEF IInv

(* The target is overwritten with what its batch knew: all of it, unless   *)
(* the cycle had written it before.                                        *)
LEMMA MergeStep ==
  ASSUME IInv, TypeOK', StatusInv', MergeWrite
  PROVE  IInv'
<1>1. PICK t \in Act.to :
        /\ note[t] # Absent
        /\ Put(t, [note[t] EXCEPT !.facts = Head(Act.new)])
        /\ touched' = touched \cup {t}
        /\ hazard' = hazard \cup IF t \in touched THEN {"retouched"} ELSE {}
  BY DEF MergeWrite
<1> DEFINE a == Act
           F == Shown(a.from \cup a.to)
<1>2. /\ plan # <<>> /\ Act.new # <<>> /\ Act.kind = "merge" /\ pc' = pc
      /\ plan' = [plan EXCEPT ![1] = Wrote(plan[1])]
      /\ UNCHANGED <<seen, used, captured, snap, deleted>>
      /\ note' = [note EXCEPT ![t] = [note[t] EXCEPT !.facts = Head(Act.new)]]
  <2>1. plan' = [plan EXCEPT ![1] = Wrote(plan[1])]
    BY DEF MergeWrite, Wrote
  <2>2. note' = [note EXCEPT ![t] = [note[t] EXCEPT !.facts = Head(Act.new)]]
    BY <1>1 DEF Put
  <2> QED
    BY <2>1, <2>2 DEF MergeWrite, Applying, others, Act
<1>3. Act \in Action /\ Act = plan[1] /\ WellFormed(Act)
  BY <1>2, HeadType DEF IInv, PlanInv
<1>4. /\ t \in Uid /\ t \in In(snap) /\ t \notin Act.from
      /\ Act.new = <<F>> /\ Head(Act.new) = F /\ Tail(Act.new) = <<>>
  <2>1. /\ t \in In(snap) /\ t \notin Act.from /\ t \in Uid
        /\ Act.new = <<F>>
    BY <1>1, <1>2, <1>3 DEF WellFormed, Action
  <2> QED
    BY <2>1
<1>5. /\ note[t] \in Note /\ [note[t] EXCEPT !.facts = F] # Absent
      /\ [note[t] EXCEPT !.facts = F].facts = F
  <2>3. F \in SUBSET Uid
    BY <1>2, <1>3, <1>4, WroteType
  <2>1. note[t] \in Note /\ F \in SUBSET Uid
    BY <1>1, <1>4, <2>3 DEF IInv, TypeOK, Tree
  <2>2. [note[t] EXCEPT !.facts = F] \in Note
    BY <2>1 DEF Note
  <2> QED
    BY <2>1, <2>2, DreamAssumption DEF Note
<1>6. /\ In(note)' = In(note) /\ t \in In(note) /\ note'[t].facts = F
      /\ \A v \in In(note) \ {t} : note'[v] = note[v]
  BY <1>1, <1>2, <1>4, <1>5 DEF IInv, TypeOK, Tree, In
<1>7. UidInv'
  BY <1>2, <1>6 DEF IInv, UidInv, In
<1>8. SnapInv'
  <2>1. In(snap)' = In(snap)
    BY <1>2 DEF In
  <2> QED
    BY <1>1, <1>2, <1>6, <2>1 DEF IInv, SnapInv, Current
<1>9. PlanInv'
  <2>1. PICK b \in Action : b = Wrote(Act)
    BY <1>2, <1>3, WroteType
  <2>2. PICK S : S = Act.from
    OBVIOUS
  <2>3. b.from = S /\ b.to = Act.to /\ b.new = <<>> /\ b.kind = "merge"
    BY <1>2, <1>3, <1>4, <2>1, <2>2, WroteType
  <2>4. WellFormed(b)
    BY <1>2, <1>3, <2>2, <2>3 DEF WellFormed
  <2>5. Shown(S) \subseteq F
    BY <2>2 DEF Shown
  <2>8. t \in Active(note)'
    <3>1. t \in Active(note)
      BY <1>1, <1>2, <1>3, <1>6 DEF IInv, StatusInv, WellFormed
    <3>2. note'[t].status = note[t].status
      BY <1>1, <1>2, <1>4, <1>5 DEF IInv, TypeOK, Tree, Note
    <3> QED
      BY <1>6, <3>1, <3>2 DEF Active
  <2>6. F \subseteq Outside(S)'
    BY <1>4, <1>6, <2>2, <2>8 DEF Outside
  <2>7. Outside(b.from)' = Outside(S)'
    BY <2>3
  <2> QED
    BY <1>2, <1>3, <2>1, <2>3, <2>4, <2>5, <2>6, <2>7, AdvancePlan DEF IInv
<1>10. NothingForgotten'
  <2> SUFFICES ASSUME Current', NEW f \in captured PROVE f \in Facts(note)'
    BY <1>2 DEF NothingForgotten
  <2>1. Current /\ t \notin touched
    BY <1>1 DEF Current
  <2>2. note[t].facts \subseteq F
    <3>1. note[t].facts \subseteq snap[t].facts
      BY <1>4, <1>6, <2>1 DEF IInv, SnapInv
    <3> QED
      BY <1>1, <3>1 DEF Shown
  <2>3. PICK v \in In(note) : f \in note[v].facts
    BY <2>1 DEF IInv, NothingForgotten, Facts
  <2>4. f \in note'[v].facts
    BY <1>6, <2>2, <2>3
  <2> QED
    BY <1>6, <2>3, <2>4 DEF Facts
<1> QED
  BY <1>7, <1>8, <1>9, <1>10 DEF IInv

LEMMA WriteNewStep ==
  ASSUME IInv, TypeOK', StatusInv', NEW u \in Uid, WriteNew(u)
  PROVE  IInv'
<1> DEFINE n == [status |-> "active", facts |-> Head(Act.new)]
<1>1. /\ plan # <<>> /\ Act.new # <<>> /\ Act.kind \in {"split", "consolidate"}
      /\ pc' = pc /\ u \notin used /\ used' = used \cup {u}
      /\ plan' = [plan EXCEPT ![1] = Wrote(plan[1])]
      /\ UNCHANGED <<seen, captured, snap, deleted, touched, hazard>>
      /\ note' = [note EXCEPT ![u] = n]
  <2>1. plan' = [plan EXCEPT ![1] = Wrote(plan[1])]
    BY DEF WriteNew, Wrote
  <2>2. note' = [note EXCEPT ![u] = n]
    BY DEF WriteNew, Put
  <2> QED
    BY <2>1, <2>2 DEF WriteNew, Applying, Act
<1>2. Act \in Action /\ Act = plan[1] /\ WellFormed(Act)
  BY <1>1, HeadType DEF IInv, PlanInv
<1>3. n \in Note /\ n.facts = Head(Act.new)
  BY <1>1, <1>2, WroteType DEF Note
<1>4. /\ In(note)' = In(note) \cup {u}
      /\ \A v \in In(note) : v # u /\ note'[v] = note[v]
      /\ \A S : Outside(S) \subseteq Outside(S)'
      /\ \A S : u \notin S => Head(Act.new) \subseteq Outside(S)'
      /\ Facts(note) \subseteq Facts(note)'
  BY <1>1, <1>3, NewFile DEF IInv
<1>5. In(seen)' = In(seen) /\ In(snap)' = In(snap)
  BY <1>1 DEF In
<1>6. UidInv'
  BY <1>1, <1>4, <1>5 DEF IInv, UidInv
<1>7. SnapInv' /\ NothingForgotten'
  <2>3. In(note)' \cap In(snap)' = In(note) \cap In(snap)
    BY <1>1, <1>4, <1>5 DEF IInv, UidInv
  <2>4. \A v \in In(note) : note'[v] = note[v]
    BY <1>4
  <2>5. UNCHANGED <<snap, touched, hazard>>
    BY <1>1
  <2>1. SnapInv'
    BY <2>3, <2>4, <2>5 DEF IInv, SnapInv, Current
  <2>2. NothingForgotten'
    BY <1>1, <1>4 DEF IInv, NothingForgotten, Current
  <2> QED
    BY <2>1, <2>2
<1>8. PlanInv'
  <2>1. PICK b \in Action : b = Wrote(Act)
    BY <1>1, <1>2, WroteType
  <2>2. PICK S : S = Act.from
    OBVIOUS
  <2>3. /\ b.from = S /\ b.to = Act.to /\ b.kind = Act.kind
        /\ Written(Act) = Head(Act.new) \cup Written(b)
    BY <1>1, <1>2, <2>1, <2>2, WroteType, WrittenSplit
  <2>4. u \notin S
    BY <1>1, <1>2, <2>2 DEF WellFormed, IInv, UidInv
  <2>5. Shown(S) \subseteq Written(Act) \cup Outside(S)
    BY <1>1, <2>2 DEF IInv, PlanInv
  <2>6. Shown(b.from) \subseteq Written(b) \cup Outside(S)'
    BY <1>4, <2>3, <2>4, <2>5
  <2>7. WellFormed(b)
    BY <1>1, <1>2, <2>2, <2>3 DEF WellFormed
  <2>8. Outside(b.from)' = Outside(S)'
    BY <2>3
  <2> QED
    BY <1>1, <1>2, <2>1, <2>6, <2>7, <2>8, AdvancePlan DEF IInv
<1> QED
  BY <1>6, <1>7, <1>8 DEF IInv

(* A source goes when everything it had is in what was written and in      *)
(* notes that stay.                                                        *)
LEMMA DeleteStep ==
  ASSUME IInv, TypeOK', StatusInv', NEW u \in Uid, DeleteSource(u)
  PROVE  IInv'
<1>1. /\ plan # <<>> /\ Act.kind # "keep" /\ Act.new = <<>> /\ u \in Act.from
      /\ note' = [note EXCEPT ![u] = Absent]
      /\ UNCHANGED <<seen, used, captured, snap, touched, pc>>
      /\ deleted' \subseteq deleted \cup {u}
      /\ hazard \subseteq hazard'
      /\ note[u] # Absent /\ u \in touched => "retouched" \in hazard'
  BY DEF DeleteSource, Applying, Act, Removing, others
<1>2. /\ Act \in Action /\ Act = plan[1] /\ WellFormed(Act)
  BY <1>1, HeadType DEF IInv, PlanInv
<1>3. PICK S : S = Act.from
  OBVIOUS
<1>4. u \in S /\ S \subseteq In(snap) /\ Shown(S) \subseteq Outside(S)
  <2>1. Written(Act) = {}
    BY <1>1 DEF Written
  <2> QED
    BY <1>1, <1>2, <1>3, <2>1 DEF IInv, PlanInv, WellFormed
<1>5. /\ In(note)' = In(note) \ {u}
      /\ \A v \in In(note)' : note'[v] = note[v]
  BY <1>1 DEF IInv, TypeOK, Tree, In
<1>6. In(seen)' = In(seen) /\ In(snap)' = In(snap)
  BY <1>1 DEF In
<1>7. UidInv'
  BY <1>1, <1>4, <1>5, <1>6 DEF IInv, UidInv
<1>8. SnapInv'
  BY <1>1, <1>5, <1>6 DEF IInv, SnapInv, Current
<1>9. PlanInv'
  <2>1. CASE Act.from = {u}
    <3>1. plan' = Tail(plan)
      BY <2>1 DEF DeleteSource
    <3> QED
      BY <1>1, <3>1, PopPlan DEF IInv
  <2>2. CASE Act.from # {u}
    <3>1. plan' = [plan EXCEPT ![1] = Removed(plan[1], u)]
      BY <2>2 DEF DeleteSource, Removed
    <3>2. PICK b \in Action : b = Removed(Act, u)
      BY <1>2, RemovedType
    <3>3. /\ b.from = S \ {u} /\ b.to = Act.to /\ b.new = <<>>
          /\ b.kind = Act.kind
      BY <1>1, <1>2, <1>3, <3>2, RemovedType
    <3>4. WellFormed(b)
      BY <1>2, <1>3, <3>3 DEF WellFormed
    <3>5. Shown(S \ {u}) \subseteq Shown(S)
      BY DEF Shown
    <3>6. Outside(S) \subseteq Outside(S \ {u})'
      BY <1>4, <1>5 DEF Outside, Active
    <3>7. Outside(b.from)' = Outside(S \ {u})'
      BY <3>3
    <3> QED
      BY <1>1, <1>2, <1>4, <3>1, <3>2, <3>3, <3>4, <3>5, <3>6, <3>7, AdvancePlan
         DEF IInv
  <2> QED
    BY <2>1, <2>2
<1>10. NothingForgotten'
  <2> SUFFICES ASSUME Current', NEW f \in captured PROVE f \in Facts(note)'
    BY <1>1 DEF NothingForgotten
  <2>1. Current /\ (u \in In(note) => u \notin touched)
    BY <1>1 DEF Current, In
  <2>2. PICK v \in In(note) : f \in note[v].facts
    BY <2>1 DEF IInv, NothingForgotten, Facts
  <2>3. CASE v # u
    BY <1>5, <2>2, <2>3 DEF Facts
  <2>4. CASE v = u
    <3>1. f \in snap[u].facts
      BY <1>4, <2>1, <2>2, <2>4 DEF IInv, SnapInv
    <3>2. f \in Outside(S)
      BY <1>4, <3>1 DEF Shown
    <3>3. PICK w \in In(note) \ S : f \in note[w].facts
      BY <3>2 DEF Outside, Active
    <3>4. w \in In(note)' /\ f \in note'[w].facts
      BY <1>4, <1>5, <3>3
    <3> QED
      BY <3>4 DEF Facts
  <2> QED
    BY <2>3, <2>4
<1> QED
  BY <1>7, <1>8, <1>9, <1>10 DEF IInv

LEMMA ForgetStep ==
  ASSUME IInv, TypeOK', StatusInv', Forget, UNCHANGED <<note, seen, used, captured>>,
         hazard \subseteq hazard'
  PROVE  IInv'
<1>1. snap' = Nowhere /\ plan' = <<>> /\ deleted' = {}
  BY DEF Forget
<1>2. In(snap)' = {} /\ In(note)' = In(note) /\ In(seen)' = In(seen)
  BY <1>1 DEF In, Nowhere
<1> QED
  BY <1>1, <1>2 DEF IInv, UidInv, SnapInv, PlanInv, NothingForgotten, Current, Facts

LEMMA InitInvariant == Init => IInv
<1> SUFFICES ASSUME Init PROVE IInv
  OBVIOUS
<1>1. TypeOK
  BY DEF Init, TypeOK, Tree, Note, In, Nowhere, Pending
<1>2. \A u \in In(note) : note[u].facts = {u}
  BY DEF Init
<1>3. /\ used = In(note) /\ captured = used /\ plan = <<>> /\ deleted = {}
      /\ snap = Nowhere
      /\ seen = note \/ seen = Nowhere
  BY DEF Init
<1>4. In(snap) = {} /\ In(seen) \subseteq used
  BY <1>3 DEF In, Nowhere
<1>5. StatusInv
  BY <1>3, <1>4 DEF StatusInv, Active, In, Nowhere
<1> QED
  BY <1>1, <1>2, <1>3, <1>4, <1>5 DEF IInv, UidInv, SnapInv, PlanInv, NothingForgotten,
     Facts

LEMMA StatusInductive == TypeOK /\ UidInv /\ StatusInv /\ [Next]_vars => StatusInv'
<1> SUFFICES ASSUME TypeOK, UidInv, StatusInv, [Next]_vars PROVE StatusInv'
  OBVIOUS
<1> USE DreamAssumption DEF git, lists, others
<1>1. ASSUME NEW u \in Uid, AddNote(u) PROVE StatusInv'
  BY <1>1 DEF AddNote, Captured, StatusInv, UidInv, Active, In, TypeOK, Tree, Note
<1>2. ASSUME UNCHANGED <<note, snap>>, seen' \in {seen, note} PROVE StatusInv'
  BY <1>2 DEF StatusInv, Active, In
<1>3. CASE Start
  <2>1. \A u \in Active(Found) : u \in Active(note) \cup Active(seen)
    BY DEF Found, Active, Pending, In
  <2>2. /\ UNCHANGED <<note, seen>> /\ snap' = Found
        /\ Active(note)' = Active(note) /\ Active(seen)' = Active(seen)
        /\ Active(snap)' = Active(Found) /\ In(note)' = In(note)
    BY <1>3 DEF Start, Active, In
  <2> QED
    BY <2>1, <2>2 DEF StatusInv
<1>4. CASE Keep
  <2>1. PICK u \in Act.from :
          note[u] # Absent /\ note' = [note EXCEPT ![u] = [note[u] EXCEPT !.status = "active"]]
    BY <1>4 DEF Keep, Put
  <2>2. u \in Uid
    BY <1>4, <2>1, HeadType DEF Keep, Applying, Action
  <2>3. UNCHANGED <<seen, snap>>
    BY <1>4 DEF Keep
  <2> QED
    BY <2>1, <2>2, <2>3 DEF StatusInv, Active, In, TypeOK, Tree, Note
<1>5. CASE MergeWrite
  <2>1. PICK t \in Act.to :
          note[t] # Absent /\ note' = [note EXCEPT ![t] = [note[t] EXCEPT !.facts = Head(Act.new)]]
    BY <1>5 DEF MergeWrite, Put
  <2>2. t \in Uid
    BY <1>5, <2>1, HeadType DEF MergeWrite, Applying, Action
  <2>3. UNCHANGED <<seen, snap>>
    BY <1>5 DEF MergeWrite
  <2> QED
    BY <2>1, <2>2, <2>3 DEF StatusInv, Active, In, TypeOK, Tree, Note
<1>6. ASSUME NEW u \in Uid, WriteNew(u) PROVE StatusInv'
  BY <1>6 DEF WriteNew, Put, StatusInv, UidInv, Active, In, TypeOK, Tree, Note
<1>7. ASSUME NEW u \in Uid, DeleteSource(u) PROVE StatusInv'
  BY <1>7 DEF DeleteSource, StatusInv, Active, In, TypeOK, Tree
<1>8. CASE GitRm
  <2>1. \A u \in deleted : note[u] = Absent
    BY DEF UidInv, TypeOK, In
  <2>2. note' = note
    BY <1>8, <2>1 DEF GitRm, TypeOK, Tree
  <2> QED
    BY <1>2, <1>8, <2>2 DEF GitRm
<1>9. CASE Finish \/ Crash
  BY <1>9 DEF Finish, Crash, Forget, Nowhere, StatusInv, Active, In
<1>10. ASSUME NEW u \in Uid, AddStage(u) \/ AddCommit(u) \/ AddFails(u)
       PROVE  StatusInv'
  BY <1>2, <1>10 DEF AddStage, AddCommit, AddFails
<1>11. ASSUME NEW p \in Uid, Answer(p) \/ NoAnswer(p) PROVE StatusInv'
  BY <1>2, <1>11 DEF Answer, NoAnswer
<1>12. CASE Reindex \/ UNCHANGED vars
  BY <1>2, <1>12 DEF Reindex, vars
<1>13. CASE Skip \/ ActionFails \/ Applied \/ GitAdd \/ GitAddFails \/ GitCommit
              \/ GitCommitFails
  BY <1>2, <1>13 DEF Skip, ActionFails, Applied, GitAdd, GitAddFails, GitCommit,
     GitCommitFails
<1> QED
  BY <1>1, <1>3, <1>4, <1>5, <1>6, <1>7, <1>8, <1>9, <1>10, <1>11, <1>12, <1>13
     DEF Next, Cycle

LEMMA InvariantInductive == IInv /\ [Next]_vars => IInv'
<1> SUFFICES ASSUME IInv, [Next]_vars PROVE IInv'
  OBVIOUS
<1>0. TypeOK' /\ StatusInv'
  BY TypeInductive, StatusInductive DEF IInv
<1> USE <1>0
<1> USE DEF git, lists, others
<1>1. ASSUME NEW u \in Uid, AddNote(u) PROVE IInv'
  BY <1>1, AddNoteStep
<1>2. ASSUME NEW u \in Uid, AddStage(u) PROVE IInv'
  BY <1>2, QuietStep DEF AddStage, IInv, UidInv, In
<1>3. ASSUME NEW u \in Uid, AddCommit(u) PROVE IInv'
  BY <1>3, QuietStep DEF AddCommit, IInv, UidInv, In
<1>4. ASSUME NEW u \in Uid, AddFails(u) PROVE IInv'
  BY <1>4, QuietStep DEF AddFails, IInv, UidInv, In
<1>5. CASE Reindex
  BY <1>5, QuietStep DEF Reindex, IInv, UidInv, In
<1>6. CASE Start
  BY <1>6, StartStep
<1>7. ASSUME NEW p \in Uid, Answer(p) PROVE IInv'
  BY <1>7, AnswerStep
<1>8. ASSUME NEW p \in Uid, NoAnswer(p) PROVE IInv'
  BY <1>8, QuietStep DEF NoAnswer, IInv, UidInv, In
<1>9. CASE Keep
  BY <1>9, KeepStep
<1>10. CASE Skip
  BY <1>10, SkipStep
<1>11. CASE MergeWrite
  BY <1>11, MergeStep
<1>12. ASSUME NEW u \in Uid, WriteNew(u) PROVE IInv'
  BY <1>12, WriteNewStep
<1>13. ASSUME NEW u \in Uid, DeleteSource(u) PROVE IInv'
  BY <1>13, DeleteStep
<1>14. CASE ActionFails
  BY <1>14, QuietStep DEF ActionFails, IInv, UidInv, In
<1>15. CASE Applied
  BY <1>15, QuietStep DEF Applied, IInv, UidInv, In
<1>16. CASE GitAdd
  <2>1. plan = <<>>
    BY <1>16 DEF GitAdd, IInv, PlanInv
  <2> QED
    BY <1>16, <2>1, QuietStep DEF GitAdd, IInv, UidInv, In
<1>17. CASE GitAddFails
  <2>1. plan = <<>>
    BY <1>17 DEF GitAddFails, IInv, PlanInv
  <2> QED
    BY <1>17, <2>1, QuietStep DEF GitAddFails, IInv, UidInv, In
<1>18. CASE GitRm
  <2>1. plan = <<>>
    BY <1>18 DEF GitRm, IInv, PlanInv
  <2>2. \A u \in deleted : note[u] = Absent
    BY DEF IInv, UidInv, TypeOK, In
  <2>3. note' = note
    BY <1>18, <2>2 DEF GitRm, IInv, TypeOK, Tree
  <2> QED
    BY <1>18, <2>1, <2>3, QuietStep DEF GitRm, IInv, UidInv, In
<1>19. CASE GitCommit
  <2>1. plan = <<>>
    BY <1>19 DEF GitCommit, IInv, PlanInv
  <2> QED
    BY <1>19, <2>1, QuietStep DEF GitCommit, IInv, UidInv, In
<1>20. CASE GitCommitFails
  <2>1. plan = <<>>
    BY <1>20 DEF GitCommitFails, IInv, PlanInv
  <2> QED
    BY <1>20, <2>1, QuietStep DEF GitCommitFails, IInv, UidInv, In
<1>21. CASE Finish
  BY <1>21, ForgetStep DEF Finish
<1>22. CASE Crash
  BY <1>22, ForgetStep DEF Crash
<1>23. CASE UNCHANGED vars
  BY <1>23, QuietStep DEF vars, IInv, UidInv, In
<1> QED
  BY <1>1, <1>2, <1>3, <1>4, <1>5, <1>6, <1>7, <1>8, <1>9, <1>10, <1>11, <1>12,
     <1>13, <1>14, <1>15, <1>16, <1>17, <1>18, <1>19, <1>20, <1>21, <1>22, <1>23
     DEF Next, Cycle

(* Whatever the model answers and wherever git, the files or the process   *)
(* fail: knowledge is lost only when a cycle rewrites or deletes a note it *)
(* had rewritten before, or works from an old search index.                *)
THEOREM NoKnowledgeForgotten == Spec => []NothingForgotten
<1>1. IInv => NothingForgotten
  BY DEF IInv
<1> QED
  BY <1>1, InitInvariant, InvariantInductive, PTL DEF Spec
-----------------------------------------------------------------------------
(* Recall.  A source that was active goes when active notes have all it    *)
(* had, and a merge target is overwritten with all it had.                 *)

LEMMA ActiveFactsStay ==
  ASSUME IInv, [Next]_vars, Current'
  PROVE  ActiveFacts(note) \subseteq ActiveFacts(note')
<1> USE DreamAssumption DEF git, lists, others
<1> SUFFICES ASSUME NEW v \in Active(note), NEW f \in note[v].facts
             PROVE  f \in ActiveFacts(note')
  BY DEF ActiveFacts
<1>0. TypeOK /\ v \in Uid /\ v \in In(note) /\ note[v] # Absent
  BY DEF IInv, TypeOK, Active, In
<1>1. CASE note' = note
  BY <1>1 DEF ActiveFacts
<1>2. ASSUME note'[v] = note[v] PROVE f \in ActiveFacts(note')
  BY <1>0, <1>2 DEF ActiveFacts, Active, In
<1>3. ASSUME NEW u \in Uid, AddNote(u) PROVE f \in ActiveFacts(note')
  <2>1. v # u
    BY <1>0, <1>3 DEF AddNote, IInv, UidInv
  <2> QED
    BY <1>0, <1>2, <1>3, <2>1 DEF AddNote, TypeOK, Tree
<1>4. CASE Keep
  <2>1. PICK u \in Act.from :
          note[u] # Absent /\ note' = [note EXCEPT ![u] = [note[u] EXCEPT !.status = "active"]]
    BY <1>4 DEF Keep, Put
  <2>2. u \in Uid
    BY <1>0, <1>4, <2>1, HeadType DEF Keep, Applying, Action
  <2>3. CASE u = v
    BY <1>0, <2>1, <2>3 DEF ActiveFacts, Active, In, TypeOK, Tree, Note
  <2> QED
    BY <1>0, <1>2, <2>1, <2>2, <2>3 DEF TypeOK, Tree
<1>5. CASE MergeWrite
  <2>1. PICK t \in Act.to :
          /\ note[t] # Absent
          /\ note' = [note EXCEPT ![t] = [note[t] EXCEPT !.facts = Head(Act.new)]]
          /\ hazard' = hazard \cup IF t \in touched THEN {"retouched"} ELSE {}
    BY <1>5 DEF MergeWrite, Put
  <2>2. /\ Act \in Action /\ WellFormed(Act) /\ Act.kind = "merge" /\ Act.new # <<>>
    BY <1>0, <1>5, HeadType DEF MergeWrite, Applying, Act, IInv, PlanInv
  <2>3. t \in Uid /\ t \in In(snap) /\ Head(Act.new) = Shown(Act.from \cup Act.to)
    BY <2>1, <2>2 DEF WellFormed, Action
  <2>4. CASE t = v
    <3>1. Current /\ t \notin touched
      BY <2>1 DEF Current
    <3>2. f \in snap[t].facts
      BY <1>0, <2>3, <2>4, <3>1 DEF IInv, SnapInv
    <3>3. f \in Head(Act.new)
      BY <2>1, <2>3, <3>2 DEF Shown
    <3>4. note'[t].facts = Head(Act.new) /\ note'[t].status = note[t].status
            /\ note'[t] # Absent
      BY <1>0, <2>1, <2>2, <2>3, WroteType DEF TypeOK, Tree, Note
    <3> QED
      BY <1>0, <2>4, <3>3, <3>4 DEF ActiveFacts, Active, In
  <2> QED
    BY <1>0, <1>2, <2>1, <2>3, <2>4 DEF TypeOK, Tree
<1>6. ASSUME NEW u \in Uid, WriteNew(u) PROVE f \in ActiveFacts(note')
  <2>1. v # u
    BY <1>0, <1>6 DEF WriteNew, IInv, UidInv
  <2> QED
    BY <1>0, <1>2, <1>6, <2>1 DEF WriteNew, Put, TypeOK, Tree
<1>7. ASSUME NEW u \in Uid, DeleteSource(u) PROVE f \in ActiveFacts(note')
  <2>1. /\ plan # <<>> /\ Act.kind # "keep" /\ Act.new = <<>> /\ u \in Act.from
        /\ note' = [note EXCEPT ![u] = Absent] /\ hazard \subseteq hazard'
        /\ note[u] # Absent /\ u \in touched => "retouched" \in hazard'
    BY <1>7 DEF DeleteSource, Applying, Act, Removing
  <2>2. CASE u = v
    <3>1. Current /\ u \notin touched
      BY <1>0, <2>1, <2>2 DEF Current
    <3>2. WellFormed(Act)
      BY <1>0, <2>1, HeadType DEF IInv, PlanInv
    <3>3. u \in In(snap) /\ f \in snap[u].facts
      BY <1>0, <2>1, <2>2, <3>1, <3>2 DEF IInv, SnapInv, WellFormed
    <3>4. f \in Shown(Act.from) /\ Written(Act) = {}
      BY <2>1, <3>3 DEF Shown, Written
    <3>5. f \in Outside(Act.from)
      BY <2>1, <3>4 DEF IInv, PlanInv
    <3>6. PICK w \in Active(note) \ Act.from : f \in note[w].facts
      BY <3>5 DEF Outside
    <3>7. w \in Uid /\ note'[w] = note[w]
      BY <1>0, <2>1, <3>6 DEF TypeOK, Tree, Active, In
    <3> QED
      BY <3>6, <3>7 DEF ActiveFacts, Active, In
  <2> QED
    BY <1>0, <1>2, <2>1, <2>2 DEF TypeOK, Tree
<1>8. CASE GitRm
  <2>1. \A u \in deleted : note[u] = Absent
    BY DEF IInv, UidInv, TypeOK, In
  <2> QED
    BY <1>0, <1>1, <1>8, <2>1 DEF GitRm, TypeOK, Tree
<1>9. ASSUME NEW u \in Uid, AddStage(u) \/ AddCommit(u) \/ AddFails(u)
      PROVE  f \in ActiveFacts(note')
  BY <1>1, <1>9 DEF AddStage, AddCommit, AddFails
<1>10. ASSUME NEW p \in Uid, Answer(p) \/ NoAnswer(p) PROVE f \in ActiveFacts(note')
  BY <1>1, <1>10 DEF Answer, NoAnswer
<1>11. CASE Reindex \/ Start \/ Skip \/ ActionFails \/ Applied \/ GitAdd
              \/ GitAddFails \/ GitCommit
  BY <1>1, <1>11 DEF Reindex, Start, Skip, ActionFails, Applied, GitAdd,
     GitAddFails, GitCommit
<1>12. CASE GitCommitFails \/ Finish \/ Crash \/ UNCHANGED vars
  BY <1>1, <1>12 DEF GitCommitFails, Finish, Crash, vars
<1> QED
  BY <1>3, <1>4, <1>5, <1>6, <1>7, <1>8, <1>9, <1>10, <1>11, <1>12
     DEF Next, Cycle

(* Locally, while nothing failed, an active note is tracked, or the batch  *)
(* that is running will add it.                                            *)
TrackInv ==
  store = "local" /\ NothingFailed =>
    \A u \in Active(note) :
      idx[u] # Absent \/ (pc \in {"apply", "add"} /\ u \in staged)

(* The search index is behind the notes, but not on what they hold *)
SeenInv ==
  store = "server" /\ Current => ActiveFacts(seen) \subseteq ActiveFacts(note)

LEMMA Steady ==
  ASSUME TypeOK, [Next]_vars
  PROVE  /\ store' = store /\ hazard \subseteq hazard'
         /\ seen' = seen \/ (seen' = note /\ note' = note)
  BY DEF Next, Cycle, vars, git, lists, others, AddNote, AddStage, AddCommit, AddFails,
     Reindex, Start, Answer, NoAnswer, Keep, Skip, MergeWrite, WriteNew, DeleteSource,
     Removing, ActionFails, Applied, GitAdd, GitAddFails, GitRm, GitCommit,
     GitCommitFails, Finish, Crash

LEMMA TrackInductive == IInv /\ TrackInv /\ [Next]_vars => TrackInv'
<1> SUFFICES ASSUME IInv, TrackInv, [Next]_vars, (store = "local" /\ NothingFailed)'
             PROVE  TrackInv'
  BY DEF TrackInv
<1> USE DreamAssumption DEF git, lists, others, Active, In
<1>0. /\ TypeOK /\ \A u \in deleted : note[u] = Absent
      /\ store = "local" /\ store' = store /\ NothingFailed
  BY Steady DEF IInv, UidInv, TypeOK, In, NothingFailed
<1>1. \A u \in Active(note) :
        idx[u] # Absent \/ (pc \in {"apply", "add"} /\ u \in staged)
  BY <1>0 DEF TrackInv
<1>2. ASSUME UNCHANGED <<note, idx, staged>>,
             pc' = pc \/ pc \in {"idle", "batch"} \/ (pc = "apply" /\ pc' = "add")
      PROVE  TrackInv'
  BY <1>1, <1>2 DEF TrackInv
<1>3. ASSUME NEW u \in Uid, AddNote(u) PROVE TrackInv'
  BY <1>0, <1>1, <1>3 DEF AddNote, Captured, TrackInv, TypeOK, Tree
<1>4. ASSUME NEW u \in Uid, AddStage(u) PROVE TrackInv'
  BY <1>0, <1>1, <1>4 DEF AddStage, TrackInv, TypeOK, Tree
<1>5. ASSUME NEW u \in Uid, AddCommit(u) \/ AddFails(u) PROVE TrackInv'
  BY <1>2, <1>5 DEF AddCommit, AddFails
<1>6. ASSUME NEW p \in Uid, Answer(p) \/ NoAnswer(p) PROVE TrackInv'
  BY <1>2, <1>6 DEF Answer, NoAnswer
<1>7. CASE Reindex \/ Start \/ Skip \/ Applied \/ UNCHANGED vars
  BY <1>2, <1>7 DEF Reindex, Start, Skip, Applied, Applying, vars
<1>8. ASSUME NEW w, NEW n, Put(w, n), pc = "apply", UNCHANGED <<pc, idx>>
      PROVE  TrackInv'
  BY <1>0, <1>1, <1>8 DEF Put, TrackInv, TypeOK, Tree
<1>9. CASE Keep
  BY <1>8, <1>9 DEF Keep, Applying
<1>10. CASE MergeWrite
  BY <1>8, <1>10 DEF MergeWrite, Applying
<1>11. ASSUME NEW u \in Uid, WriteNew(u) PROVE TrackInv'
  BY <1>8, <1>11 DEF WriteNew, Applying
<1>12. ASSUME NEW u \in Uid, DeleteSource(u) PROVE TrackInv'
  BY <1>0, <1>1, <1>12 DEF DeleteSource, Applying, TrackInv, TypeOK, Tree
<1>13. CASE GitAdd
  BY <1>0, <1>1, <1>13 DEF GitAdd, TrackInv, TypeOK, Tree
<1>14. CASE GitRm
  <2>1. PICK R \in SUBSET deleted :
          /\ idx' = [u \in Uid |-> IF u \in R THEN Absent ELSE idx[u]]
          /\ note' = [u \in Uid |-> IF u \in R /\ idx[u] # Absent THEN Absent ELSE note[u]]
    BY <1>14 DEF GitRm
  <2>2. note' = note /\ \A u \in Active(note) : idx'[u] = idx[u]
    BY <1>0, <2>1 DEF TypeOK, Tree
  <2> QED
    BY <1>1, <1>14, <2>2 DEF GitRm, TrackInv
<1>15. CASE GitCommit \/ Finish
  BY <1>1, <1>15 DEF GitCommit, Finish, TrackInv
<1>16. CASE ActionFails \/ GitAddFails \/ GitCommitFails \/ Crash
  BY <1>16 DEF ActionFails, GitAddFails, GitCommitFails, Crash, NothingFailed
<1> QED
  BY <1>3, <1>4, <1>5, <1>6, <1>7, <1>9, <1>10, <1>11, <1>12, <1>13, <1>14, <1>15,
     <1>16 DEF Next, Cycle

LEMMA SeenInductive == IInv /\ SeenInv /\ [Next]_vars => SeenInv'
<1> SUFFICES ASSUME IInv, SeenInv, [Next]_vars, store' = "server", Current'
             PROVE  ActiveFacts(seen') \subseteq ActiveFacts(note')
  BY DEF SeenInv, ActiveFacts, Active, In
<1>1. /\ store = "server" /\ Current
      /\ seen' = seen \/ (seen' = note /\ note' = note)
  BY Steady DEF IInv, Current
<1>2. ActiveFacts(seen) \subseteq ActiveFacts(note)
  BY <1>1 DEF SeenInv
<1> QED
  BY <1>1, <1>2, ActiveFactsStay

(* What recall finds locally, or will find after the running git add, is   *)
(* all that active notes hold.                                             *)
LEMMA FoundOrComing ==
  ASSUME TypeOK, TrackInv, store = "local", NothingFailed
  PROVE  Finds \cup Coming = ActiveFacts(note)
<1>1. ASSUME NEW u \in Active(note), NEW f \in note[u].facts
      PROVE  f \in Finds \cup Coming
  BY <1>1 DEF TrackInv, Finds, Coming
<1> QED
  BY <1>1 DEF Finds, Coming, ActiveFacts

(* For any number of notes and of actions per answer: what the active      *)
(* notes hold stays in active notes wherever the batches break off, and    *)
(* while nothing fails what recall finds stays found or is about to be     *)
(* added by the running batch.                                             *)
THEOREM RecallKeeps == Spec => StaysRecallable
<1> DEFINE RInv == IInv /\ TrackInv /\ SeenInv
<1>1. Init => TrackInv
  BY DEF Init, TrackInv, Active, In
<1>2. Init => SeenInv
  BY DEF Init, SeenInv
<1>3. RInv /\ [Next]_vars => RInv'
  BY TrackInductive, SeenInductive, InvariantInductive
<1>4. RInv /\ RInv' /\ [Next]_vars =>
        [Current' =>
           /\ ActiveFacts(note) \subseteq ActiveFacts(note')
           /\ store = "server" \/ NothingFailed' =>
                Finds \cup Coming \subseteq Finds' \cup Coming']_vars
  <2> SUFFICES ASSUME RInv, RInv', [Next]_vars, Current',
                      store = "server" \/ NothingFailed'
               PROVE  Finds \cup Coming \subseteq Finds' \cup Coming'
    BY ActiveFactsStay
  <2>1. /\ store' = store /\ hazard \subseteq hazard'
        /\ seen' = seen \/ (seen' = note /\ note' = note)
    BY Steady DEF IInv
  <2>2. ActiveFacts(note) \subseteq ActiveFacts(note')
    BY ActiveFactsStay
  <2>3. CASE store = "server"
    <3>1. Coming = {} /\ Finds = ActiveFacts(seen) /\ Finds' = ActiveFacts(seen')
      BY <2>1, <2>3 DEF Coming, Finds, ActiveFacts, Active, In
    <3>2. ActiveFacts(seen) \subseteq ActiveFacts(note)
      BY <2>1, <2>3 DEF SeenInv, Current
    <3> QED
      BY <2>1, <3>1, <3>2
  <2>4. CASE store # "server"
    <3>1. store = "local" /\ NothingFailed' /\ NothingFailed
      BY <2>1, <2>4 DEF IInv, TypeOK, NothingFailed
    <3>2. Finds \cup Coming = ActiveFacts(note)
      BY <3>1, FoundOrComing DEF IInv
    <3>3. ASSUME NEW u \in Active(note)', NEW f \in note'[u].facts
          PROVE  f \in Finds' \cup Coming'
      BY <2>1, <3>1 DEF TrackInv, Finds, Coming
    <3>4. ActiveFacts(note') \subseteq Finds' \cup Coming'
      BY <3>3 DEF ActiveFacts, Active, In
    <3> QED
      BY <2>2, <3>2, <3>4
  <2> QED
    BY <2>3, <2>4
<1> QED
  BY <1>1, <1>2, <1>3, <1>4, InitInvariant, PTL DEF Spec, StaysRecallable
-----------------------------------------------------------------------------
(* What is not committed yet, as long as nothing failed: the index runs    *)
(* ahead of HEAD only between a git add and its commit, and a file ahead   *)
(* of the index is one that was just added, or that the cycle has on its   *)
(* lists (the server's git add -A needs none).                             *)
Clean == hazard \subseteq {"retouched"}

Listed(u) ==
  \/ adding[u] = "written"
  \/ pc \in {"apply", "add"} /\ (store = "local" => u \in staged \cup deleted)
  \/ pc = "rm" /\ u \in deleted

CommitInv ==
  Clean =>
    /\ \A u \in Uid : adding[u] # "no" => u \in used
    /\ head # idx => pc \in {"rm", "commit"} \/ \E u \in Uid : adding[u] = "added"
    /\ pc \in {"idle", "batch"} => staged = {} /\ deleted = {}
    /\ store = "server" =>
         /\ staged = {} /\ deleted = {} /\ pc # "rm"
         /\ pc # "idle" => \A u \in Uid : adding[u] = "no"
    /\ \A u \in Uid : note[u] # idx[u] => Listed(u)

\* A step that leaves the files, the index and the additions alone
LEMMA ListedStep ==
  ASSUME CommitInv, hazard \subseteq hazard',
         UNCHANGED <<store, note, idx, head, adding, staged, deleted>>,
         UNCHANGED used,
         \/ pc' = pc
         \/ pc \in {"idle", "batch"} /\ pc' \in {"batch", "apply"}
         \/ pc = "apply" /\ pc' = "add",
         store = "server" /\ pc = "idle" /\ pc' # "idle"
           => \A u \in Uid : adding[u] = "no"
  PROVE  CommitInv'
  BY DEF CommitInv, Listed, Clean

LEMMA CommitInductive == IInv /\ CommitInv /\ [Next]_vars => CommitInv'
<1> SUFFICES ASSUME IInv, CommitInv, [Next]_vars, Clean' PROVE CommitInv'
  BY DEF CommitInv
<1> USE DEF git, lists, others
<1>0. TypeOK /\ \A u \in deleted : note[u] = Absent
  BY DEF IInv, UidInv, TypeOK, In
<1>1. ASSUME NEW u \in Uid, AddNote(u) PROVE CommitInv'
  BY <1>1, <1>0 DEF AddNote, CommitInv, Clean, Listed, TypeOK, Tree
<1>2. ASSUME NEW u \in Uid, AddStage(u) PROVE CommitInv'
  BY <1>2, <1>0 DEF AddStage, CommitInv, Clean, Listed, TypeOK, Tree
<1>3. ASSUME NEW u \in Uid, AddCommit(u) PROVE CommitInv'
  BY <1>3, <1>0 DEF AddCommit, CommitInv, Clean, Listed, TypeOK, Tree
<1>4. ASSUME NEW u \in Uid, AddFails(u) PROVE FALSE
  BY <1>4 DEF AddFails, Clean
<1>5. CASE Reindex
  BY <1>5, ListedStep DEF Reindex
<1>6. CASE Start
  BY <1>6, ListedStep DEF Start
<1>7. ASSUME NEW p \in Uid, Answer(p) PROVE CommitInv'
  BY <1>7, ListedStep DEF Answer
<1>8. ASSUME NEW p \in Uid, NoAnswer(p) PROVE CommitInv'
  BY <1>8, ListedStep DEF NoAnswer
<1>9. CASE Keep
  BY <1>9, <1>0 DEF Keep, Applying, Put, CommitInv, Clean, Listed, TypeOK, Tree
<1>10. CASE Skip
  BY <1>10, ListedStep DEF Skip
<1>11. CASE MergeWrite
  BY <1>11, <1>0 DEF MergeWrite, Applying, Put, CommitInv, Clean, Listed, TypeOK, Tree
<1>12. ASSUME NEW u \in Uid, WriteNew(u) PROVE CommitInv'
  BY <1>12, <1>0 DEF WriteNew, Applying, Put, CommitInv, Clean, Listed, TypeOK, Tree
<1>13. ASSUME NEW u \in Uid, DeleteSource(u) PROVE CommitInv'
  <2>1. Clean
    BY <1>13 DEF DeleteSource, Removing, Clean
  <2> QED
    BY <1>13, <1>0, <2>1 DEF DeleteSource, Applying, CommitInv, Listed, TypeOK, Tree
<1>14. CASE ActionFails
  BY <1>14 DEF ActionFails, Clean
<1>15. CASE Applied
  BY <1>15, ListedStep DEF Applied
<1>16. CASE GitAdd
  BY <1>16, <1>0 DEF GitAdd, CommitInv, Clean, Listed, TypeOK, Tree
<1>17. CASE GitAddFails
  BY <1>17 DEF GitAddFails, Clean
<1>18. CASE GitRm
  <2>1. PICK R \in SUBSET deleted :
          /\ idx' = [u \in Uid |-> IF u \in R THEN Absent ELSE idx[u]]
          /\ note' = [u \in Uid |-> IF u \in R /\ idx[u] # Absent THEN Absent ELSE note[u]]
          /\ hazard' = hazard \cup
               IF \E u \in deleted \ R : idx[u] # Absent THEN {"failed"} ELSE {}
    BY <1>18 DEF GitRm
  <2>2. Clean /\ \A u \in deleted \ R : idx[u] = Absent
    BY <2>1 DEF Clean
  <2>3. \A u \in deleted : note'[u] = Absent /\ idx'[u] = Absent
    BY <2>1, <2>2, <1>0 DEF TypeOK
  <2>4. \A u \in Uid \ deleted : note'[u] = note[u] /\ idx'[u] = idx[u]
    BY <2>1, <1>0 DEF TypeOK
  <2> QED
    BY <1>18, <2>2, <2>3, <2>4, <1>0 DEF GitRm, CommitInv, Listed
<1>19. CASE GitCommit
  BY <1>19, <1>0 DEF GitCommit, CommitInv, Clean, Listed
<1>20. CASE GitCommitFails
  BY <1>20 DEF GitCommitFails, Clean
<1>21. CASE Finish
  <2>1. Clean /\ pc = "batch" /\ pc' = "idle" /\ staged = {} /\ deleted = {}
    BY <1>21 DEF Finish, CommitInv, Clean
  <2> QED
    BY <1>21, <2>1 DEF Finish, Forget, CommitInv, Listed
<1>22. CASE Crash
  BY <1>22 DEF Crash, Clean
<1>23. CASE UNCHANGED vars
  BY <1>23, ListedStep DEF vars
<1> QED
  BY <1>1, <1>2, <1>3, <1>4, <1>5, <1>6, <1>7, <1>8, <1>9, <1>10, <1>11, <1>12,
     <1>13, <1>14, <1>15, <1>16, <1>17, <1>18, <1>19, <1>20, <1>21, <1>22, <1>23
     DEF Next, Cycle

(* For any answers of the model, on both note stores: a cycle in which     *)
(* nothing failed, and every addition of a note that ended, are committed. *)
THEOREM AllCommitted == Spec => []AtRestCommitted
<1>1. Init => CommitInv
  BY DEF Init, CommitInv
<1>2. TypeOK /\ CommitInv => AtRestCommitted
  <2> SUFFICES ASSUME TypeOK, CommitInv, Clean, pc = "idle",
                      \A u \in Uid : adding[u] = "no"
               PROVE  head = note
    BY DEF AtRestCommitted, Clean
  <2>1. head = idx
    BY DEF CommitInv
  <2>2. \A u \in Uid : note[u] = idx[u]
    BY DEF CommitInv, Listed
  <2> QED
    BY <2>1, <2>2 DEF TypeOK, Tree
<1>3. IInv => TypeOK
  BY DEF IInv
<1> QED
  BY <1>1, <1>2, <1>3, InitInvariant, InvariantInductive, CommitInductive, PTL
     DEF Spec
-----------------------------------------------------------------------------
(* What HEAD holds stays in the index, and what the index holds stays in   *)
(* what the lists of the cycle will make of it (on the server: in the      *)
(* files, all of which are added).                                         *)
Calm == Current /\ "overtaken" \notin hazard

Of(t, u) == IF t[u] = Absent THEN {} ELSE t[u].facts
AllOf(t) == UNION {Of(t, u) : u \in Uid}
Due(u) ==
  IF store = "server" THEN Of(note, u)
  ELSE IF u \in deleted THEN {}
  ELSE IF u \in staged THEN Of(note, u) ELSE Of(idx, u)
DueBut(S) == UNION {Due(u) : u \in Uid \ S}

(* The index is behind the files, and behind what the cycle read of those  *)
(* that are gone.                                                          *)
IndexBehind ==
  /\ In(idx) \subseteq used /\ staged \subseteq used
  /\ \A u \in Uid : adding[u] # "no" => note[u] # Absent
  /\ \A u \in In(note) : Of(idx, u) \subseteq note[u].facts
  /\ store = "local" =>
       \A u \in In(snap) \ In(note) : Of(idx, u) \subseteq snap[u].facts

CommitsKeep ==
  /\ AllOf(head) \subseteq AllOf(idx) /\ AllOf(idx) \subseteq DueBut({})
  /\ pc = "rm" => store = "local" /\ \A u \in staged : Of(idx, u) = Of(note, u)

(* The sources of the action under way are covered by what it has still to *)
(* write and by what will be committed: files in no list do not count.     *)
Covered ==
  plan # <<>> /\ Act.kind # "keep" =>
    Shown(Act.from) \subseteq Written(Act) \cup DueBut(Act.from)

HeadInv == Calm => IndexBehind /\ CommitsKeep /\ Covered

LEMMA AllOfFacts == ASSUME NEW t \in Tree PROVE AllOf(t) = Facts(t)
<1>1. \A u \in In(t) : u \in Uid /\ Of(t, u) = t[u].facts
  BY DEF In, Of
<1>2. \A u \in Uid : u \notin In(t) => Of(t, u) = {}
  BY DEF In, Of
<1> QED
  BY <1>1, <1>2 DEF AllOf, Facts

\* Hazards are remembered.
LEMMA CalmBefore == TypeOK /\ [Next]_vars /\ Calm' => Calm
<1> SUFFICES ASSUME [Next]_vars PROVE hazard \subseteq hazard'
  BY DEF Calm, Current
<1> USE DEF git, lists, others
<1>1. ASSUME NEW u \in Uid, AddNote(u) \/ AddStage(u) \/ AddCommit(u) \/ AddFails(u)
      PROVE  hazard \subseteq hazard'
  BY <1>1 DEF AddNote, AddStage, AddCommit, AddFails
<1>2. ASSUME NEW p \in Uid, Answer(p) \/ NoAnswer(p) \/ WriteNew(p) \/ DeleteSource(p)
      PROVE  hazard \subseteq hazard'
  BY <1>2 DEF Answer, NoAnswer, WriteNew, DeleteSource, Removing
<1>3. CASE Reindex \/ Start \/ Keep \/ Skip \/ MergeWrite \/ ActionFails \/ Applied
  BY <1>3 DEF Reindex, Start, Keep, Skip, MergeWrite, ActionFails, Applied
<1>4. CASE GitAdd \/ GitAddFails \/ GitRm \/ GitCommit \/ GitCommitFails
  BY <1>4 DEF GitAdd, GitAddFails, GitRm, GitCommit, GitCommitFails
<1>5. CASE Finish \/ Crash \/ UNCHANGED vars
  BY <1>5 DEF Finish, Crash, vars
<1> QED
  BY <1>1, <1>2, <1>3, <1>4, <1>5 DEF Next, Cycle

LEMMA DueGrows ==
  ASSUME NEW S \in SUBSET Uid, \A u \in Uid \ S : Due(u) \subseteq Due(u)'
  PROVE  DueBut(S) \subseteq DueBut(S)'
<1>1. DueBut(S)' = UNION {Due(u)' : u \in Uid \ S}
  BY DEF DueBut
<1> QED
  BY <1>1 DEF DueBut

\* The next action begins, with contents that carry all its sources.
LEMMA PoppedCovered ==
  ASSUME TypeOK, PlanInv, plan # <<>>, plan' = Tail(plan), snap' = snap
  PROVE  Covered'
<1> SUFFICES ASSUME plan' # <<>>, (Act.kind # "keep")' PROVE Shown(Act.from)' \subseteq Written(Act)'
  BY DEF Covered
<1>1. 1 \in DOMAIN plan' /\ Act' = plan'[1] /\ 2 \in DOMAIN plan /\ plan'[1] = plan[2]
  <2>1. plan' \in Seq(Action) /\ 1 \in DOMAIN plan' /\ Act' = plan'[1]
    BY HeadType DEF Act
  <2>2. 1 + 1 \in DOMAIN plan /\ plan'[1] = plan[1 + 1]
    BY <2>1, HeadType
  <2> QED
    BY <2>1, <2>2
<1>2. Whole(plan[2])
  BY <1>1 DEF PlanInv
<1> QED
  BY <1>1, <1>2 DEF Whole, Written, Shown

\* Everything that will be committed stays, and so does the action.
LEMMA SameCovered ==
  ASSUME TypeOK, Covered, snap' = snap, plan' = plan,
         \A u \in Uid : Due(u) \subseteq Due(u)'
  PROVE  Covered'
<1> SUFFICES ASSUME plan # <<>>, Act.kind # "keep"
             PROVE  Shown(Act.from) \subseteq Written(Act) \cup DueBut(Act.from)'
  BY DEF Covered, Act, Written, Shown
<1>1. PICK S \in SUBSET Uid : S = Act.from
  BY HeadType DEF Action
<1>2. DueBut(S) \subseteq DueBut(S)'
  BY DueGrows
<1>3. DueBut(S)' = DueBut(Act.from)'
  BY <1>1 DEF Act
<1> QED
  BY <1>1, <1>2, <1>3 DEF Covered

\* A step that changes no file, list, index or commit
LEMMA HeadQuiet ==
  ASSUME HeadInv, Calm' => Calm,
         UNCHANGED <<store, note, idx, head, used, adding, staged, deleted>>,
         snap' = snap, pc' = pc \/ pc' # "rm", Calm => Covered'
  PROVE  HeadInv'
<1> SUFFICES ASSUME Calm' PROVE HeadInv'
  BY DEF HeadInv
<1>1. \A u : Due(u)' = Due(u) /\ Of(idx, u)' = Of(idx, u)
  BY DEF Due, Of
<1>2. DueBut({})' = DueBut({})
  BY DEF DueBut, Due, Of
<1>3. AllOf(head)' = AllOf(head) /\ AllOf(idx)' = AllOf(idx)
  BY DEF AllOf, Of
<1> QED
  BY <1>1, <1>2, <1>3 DEF HeadInv, IndexBehind, CommitsKeep, In, Of

\* What will be committed has everything that is in the index, if it had.
LEMMA CommitsKeepLater ==
  ASSUME CommitsKeep, UNCHANGED <<idx, head>>,
         DueBut({}) \subseteq DueBut({})', pc' # "rm"
  PROVE  CommitsKeep'
<1>1. AllOf(head)' = AllOf(head) /\ AllOf(idx)' = AllOf(idx)
  BY DEF AllOf, Of
<1> QED
  BY <1>1 DEF CommitsKeep

LEMMA AddNoteHead ==
  ASSUME IInv, HeadInv, Calm, Calm', NEW u \in Uid, AddNote(u)
  PROVE  HeadInv'
<1> USE DEF git, lists, others
<1>1. /\ u \notin used /\ used' = used \cup {u} /\ adding' = [adding EXCEPT ![u] = "written"]
      /\ note' = [note EXCEPT ![u] = Captured(u)]
      /\ UNCHANGED <<store, idx, head, pc, snap, plan, staged, deleted>>
  BY DEF AddNote
<1>2. TypeOK /\ IndexBehind /\ CommitsKeep /\ Covered
  BY DEF IInv, HeadInv
<1>3. /\ note[u] = Absent /\ idx[u] = Absent /\ u \notin staged /\ note'[u] # Absent
      /\ u \notin In(snap)
      /\ \A v \in Uid \ {u} : note'[v] = note[v] /\ adding'[v] = adding[v]
  BY <1>1, <1>2, DreamAssumption DEF IInv, UidInv, IndexBehind, TypeOK, Tree, In, Captured, Note
<1>4. \A v \in Uid : Due(v) \subseteq Due(v)'
  BY <1>1, <1>3 DEF Due, Of
<1>5. IndexBehind'
  <2>1. In(idx)' \subseteq used' /\ staged' \subseteq used'
    BY <1>1, <1>2 DEF IndexBehind, In
  <2>2. \A v \in Uid : (adding[v] # "no" => note[v] # Absent)'
    BY <1>1, <1>2, <1>3 DEF IndexBehind
  <2>3. \A v \in In(note)' : Of(idx, v)' \subseteq note'[v].facts
    BY <1>1, <1>2, <1>3 DEF IndexBehind, In, Of
  <2>4. store' = "local" => \A v \in In(snap)' \ In(note)' : Of(idx, v)' \subseteq snap'[v].facts
    BY <1>1, <1>2, <1>3 DEF IndexBehind, In, Of
  <2> QED
    BY <2>1, <2>2, <2>3, <2>4 DEF IndexBehind
<1>6. CommitsKeep'
  <2>1. DueBut({}) \subseteq DueBut({})'
    BY <1>4, DueGrows
  <2>2. AllOf(head)' = AllOf(head) /\ AllOf(idx)' = AllOf(idx)
    BY <1>1 DEF AllOf, Of
  <2>3. \A v \in staged : Of(idx, v)' = Of(idx, v) /\ Of(note, v)' = Of(note, v)
    BY <1>1, <1>2, <1>3 DEF TypeOK, Of
  <2> QED
    BY <1>1, <1>2, <2>1, <2>2, <2>3 DEF CommitsKeep
<1>7. Covered'
  BY <1>1, <1>2, <1>4, SameCovered
<1> QED
  BY <1>5, <1>6, <1>7 DEF HeadInv

LEMMA AddStageHead ==
  ASSUME IInv, HeadInv, Calm, Calm', NEW u \in Uid, AddStage(u)
  PROVE  HeadInv'
<1> USE DEF git, lists, others
<1>1. /\ adding[u] # "no" /\ adding' = [adding EXCEPT ![u] = "added"]
      /\ idx' = [idx EXCEPT ![u] = note[u]]
      /\ UNCHANGED <<store, note, head, used, pc, snap, plan, staged, deleted>>
  BY DEF AddStage
<1>2. TypeOK /\ IndexBehind /\ CommitsKeep /\ Covered
  BY DEF IInv, HeadInv
<1>3. /\ note[u] # Absent /\ u \notin deleted /\ idx'[u] = note[u] /\ u \in used
      /\ \A v \in Uid \ {u} : idx'[v] = idx[v] /\ adding'[v] = adding[v]
  BY <1>1, <1>2 DEF IInv, UidInv, IndexBehind, TypeOK, Tree, In
<1>4. /\ \A v \in Uid : Of(idx, v) \subseteq Of(idx, v)' /\ Of(note, v)' = Of(note, v)
      /\ Of(idx, u)' = Of(note, u)
  BY <1>1, <1>2, <1>3 DEF IndexBehind, Of, In
<1>5. \A v \in Uid : Due(v) \subseteq Due(v)'
  BY <1>1, <1>4 DEF Due
<1>6. IndexBehind'
  <2>1. In(idx)' \subseteq used' /\ staged' \subseteq used'
    BY <1>1, <1>2, <1>3 DEF IndexBehind, In
  <2>2. \A v \in Uid : (adding[v] # "no" => note[v] # Absent)'
    BY <1>1, <1>2, <1>3 DEF IndexBehind
  <2>3. \A v \in In(note)' : Of(idx, v)' \subseteq note'[v].facts
    BY <1>1, <1>2, <1>3 DEF IndexBehind, In, Of
  <2>4. store' = "local" => \A v \in In(snap)' \ In(note)' : Of(idx, v)' \subseteq snap'[v].facts
    BY <1>1, <1>2, <1>3 DEF IndexBehind, In, Of
  <2> QED
    BY <2>1, <2>2, <2>3, <2>4 DEF IndexBehind
<1>7. CommitsKeep'
  <2>1. DueBut({}) \subseteq DueBut({})'
    BY <1>5, DueGrows
  <2>2. AllOf(head)' = AllOf(head) /\ AllOf(idx) \subseteq AllOf(idx)'
    BY <1>1, <1>4 DEF AllOf, Of
  <2>3. AllOf(idx)' \subseteq DueBut({})'
    <3>1. Of(idx, u)' \subseteq Due(u)'
      BY <1>1, <1>3, <1>4 DEF Due
    <3>2. \A v \in Uid \ {u} : Of(idx, v)' \subseteq AllOf(idx)
      BY <1>3 DEF AllOf, Of
    <3>3. DueBut({})' = UNION {Due(v)' : v \in Uid}
      BY DEF DueBut
    <3>4. AllOf(idx)' = UNION {Of(idx, v)' : v \in Uid}
      BY DEF AllOf
    <3>5. \A v \in Uid : Of(idx, v)' \subseteq DueBut({})'
      BY <1>2, <2>1, <3>1, <3>2, <3>3 DEF CommitsKeep
    <3> QED
      BY <3>4, <3>5
  <2>4. \A v \in staged : Of(idx, v) = Of(note, v) => Of(idx, v)' = Of(note, v)'
    BY <1>2, <1>3, <1>4 DEF TypeOK, Of
  <2> QED
    BY <1>1, <1>2, <2>2, <2>3, <2>4 DEF CommitsKeep
<1>8. Covered'
  BY <1>1, <1>2, <1>5, SameCovered
<1> QED
  BY <1>6, <1>7, <1>8 DEF HeadInv

\* A write of the cycle to a file that is there or new, which loses nothing
\* the file had
LEMMA WriteHead ==
  ASSUME IInv, HeadInv, Calm, NEW u \in Uid, u \notin deleted, u \in used',
         NEW n \in Note, Put(u, n), note[u] # Absent => note[u].facts \subseteq n.facts,
         note[u] = Absent => u \notin used,
         used \subseteq used', UNCHANGED <<store, idx, head, adding, snap, deleted, pc>>, pc # "rm"
  PROVE  /\ IndexBehind' /\ CommitsKeep'
         /\ \A v \in Uid : Due(v) \subseteq Due(v)'
         /\ n.facts \subseteq Due(u)'
<1>1. TypeOK /\ IndexBehind /\ CommitsKeep
  BY DEF IInv, HeadInv
<1>2. /\ note'[u] = n /\ n # Absent /\ \A v \in Uid \ {u} : note'[v] = note[v]
      /\ staged' = IF store = "local" THEN staged \cup {u} ELSE staged
  BY <1>1, DreamAssumption DEF Put, TypeOK, Tree
<1>3. Of(idx, u) \subseteq Of(note, u) /\ Of(note, u) \subseteq n.facts /\ Of(note, u)' = n.facts
  BY <1>1, <1>2 DEF IndexBehind, In, Of
<1>4. \A v \in Uid : Of(idx, v)' = Of(idx, v) /\ (v # u => Of(note, v)' = Of(note, v))
  BY <1>2 DEF Of
<1>5. n.facts \subseteq Due(u)' /\ Due(u) \subseteq n.facts
  BY <1>1, <1>2, <1>3 DEF Due, TypeOK
<1>6. \A v \in Uid \ {u} : Due(v)' = Due(v)
  BY <1>2, <1>4 DEF Due
<1>7. \A v \in Uid : Due(v) \subseteq Due(v)'
  BY <1>5, <1>6
<1>8. IndexBehind'
  <2>1. In(idx)' \subseteq used' /\ staged' \subseteq used'
    BY <1>1, <1>2 DEF IndexBehind, In
  <2>2. \A v \in Uid : (adding[v] # "no" => note[v] # Absent)'
    BY <1>1, <1>2 DEF IndexBehind
  <2>3. \A v \in In(note)' : Of(idx, v)' \subseteq note'[v].facts
    BY <1>1, <1>2, <1>3, <1>4 DEF IndexBehind, In
  <2>4. store' = "local" => \A v \in In(snap)' \ In(note)' : Of(idx, v)' \subseteq snap'[v].facts
    BY <1>1, <1>2, <1>4 DEF IndexBehind, In
  <2> QED
    BY <2>1, <2>2, <2>3, <2>4 DEF IndexBehind
<1>9. CommitsKeep'
  BY <1>1, <1>7, DueGrows, CommitsKeepLater
<1> QED
  BY <1>5, <1>7, <1>8, <1>9

\* The action under way has become b.
LEMMA AdvanceCovered ==
  ASSUME TypeOK, plan # <<>>, NEW b \in Action, plan' = [plan EXCEPT ![1] = b], snap' = snap,
         Shown(b.from) \subseteq Written(b) \cup DueBut(b.from)'
  PROVE  Covered'
<1>1. Act' = b
  BY ReplaceHead DEF Act
<1> QED
  BY <1>1 DEF Covered, Written, Shown, DueBut

LEMMA KeepHead ==
  ASSUME IInv, IInv', HeadInv, Calm, Calm', Keep
  PROVE  HeadInv'
<1>1. PICK u \in Act.from :
        note[u] # Absent /\ Put(u, [note[u] EXCEPT !.status = "active"])
  BY DEF Keep
<1>2. /\ plan # <<>> /\ plan' = Tail(plan) /\ pc' = pc /\ pc # "rm"
      /\ UNCHANGED <<store, idx, head, used, adding, snap, deleted>>
  BY DEF Keep, Applying, others, git
<1>3. u \in Uid
  BY <1>1, <1>2, HeadType DEF IInv, Action
<1>4. PICK n \in Note : n = [note[u] EXCEPT !.status = "active"] /\ n.facts = note[u].facts
  BY <1>1, <1>3 DEF IInv, TypeOK, Tree, Note
<1>5. u \in used' /\ u \notin deleted
  BY <1>1, <1>2, <1>3 DEF IInv, UidInv, In
<1>6. IndexBehind' /\ CommitsKeep'
  BY <1>1, <1>2, <1>3, <1>4, <1>5, WriteHead
<1>7. Covered'
  BY <1>2, PoppedCovered DEF IInv
<1> QED
  BY <1>6, <1>7 DEF HeadInv

LEMMA MergeHead ==
  ASSUME IInv, IInv', HeadInv, Calm, Calm', MergeWrite
  PROVE  HeadInv'
<1>1. PICK t \in Act.to :
        /\ note[t] # Absent
        /\ Put(t, [note[t] EXCEPT !.facts = Head(Act.new)])
        /\ hazard' = hazard \cup IF t \in touched THEN {"retouched"} ELSE {}
  BY DEF MergeWrite
<1>2. /\ plan # <<>> /\ Act.new # <<>> /\ Act.kind = "merge" /\ pc' = pc /\ pc # "rm"
      /\ plan' = [plan EXCEPT ![1] = Wrote(plan[1])]
      /\ UNCHANGED <<store, idx, head, used, adding, snap, deleted>>
  BY DEF MergeWrite, Applying, others, git, Act, Wrote
<1>3. TypeOK /\ Act \in Action /\ Act = plan[1] /\ WellFormed(Act)
  BY <1>2, HeadType DEF IInv, PlanInv
<1>4. /\ t \in Uid /\ t \in In(snap) /\ t \notin Act.from
      /\ Act.new = <<Shown(Act.from \cup Act.to)>>
  BY <1>1, <1>2, <1>3 DEF WellFormed, Action
<1>5. Head(Act.new) = Shown(Act.from \cup Act.to) /\ Tail(Act.new) = <<>>
  BY <1>4
<1>6. PICK n \in Note : n = [note[t] EXCEPT !.facts = Head(Act.new)] /\ n.facts = Head(Act.new)
  <2>1. PICK F \in SUBSET Uid : F = Head(Act.new)
    BY <1>2, <1>3, WroteType
  <2>2. note[t] \in Note
    BY <1>1, <1>3, <1>4 DEF TypeOK, Tree
  <2>3. [note[t] EXCEPT !.facts = F] \in Note /\ [note[t] EXCEPT !.facts = F].facts = F
    BY <2>1, <2>2 DEF Note
  <2> QED
    BY <2>1, <2>3
<1>7. note[t].facts \subseteq n.facts
  <2>1. t \notin touched
    BY <1>1 DEF Calm, Current
  <2>2. note[t].facts \subseteq snap[t].facts
    BY <1>1, <1>4, <2>1 DEF IInv, SnapInv, Calm, In
  <2> QED
    BY <1>1, <1>5, <1>6, <2>2 DEF Shown
<1>8. t \in used' /\ t \notin deleted
  BY <1>1, <1>2, <1>4 DEF IInv, UidInv, In
<1>9. IndexBehind' /\ CommitsKeep' /\ n.facts \subseteq Due(t)'
  BY <1>1, <1>2, <1>4, <1>6, <1>7, <1>8, WriteHead
<1>10. Covered'
  <2>1. PICK b \in Action : b = Wrote(Act)
    BY <1>2, <1>3, WroteType
  <2>2. b.from = Act.from
    BY <1>2, <1>3, <2>1, WroteType
  <2>3. PICK S : S = Act.from
    OBVIOUS
  <2>4. Shown(S) \subseteq n.facts
    BY <1>5, <1>6, <2>3 DEF Shown
  <2>5. n.facts \subseteq DueBut(S)'
    BY <1>4, <1>9, <2>3 DEF DueBut
  <2>6. DueBut(b.from)' = DueBut(S)' /\ Shown(b.from) = Shown(S)
    BY <2>2, <2>3
  <2> QED
    BY <1>2, <1>3, <2>1, <2>4, <2>5, <2>6, AdvanceCovered
<1> QED
  BY <1>9, <1>10 DEF HeadInv

LEMMA WriteNewHead ==
  ASSUME IInv, IInv', HeadInv, Calm, Calm', NEW u \in Uid, WriteNew(u)
  PROVE  HeadInv'
<1>1. /\ plan # <<>> /\ Act.new # <<>> /\ pc' = pc /\ pc # "rm" /\ Act.kind # "keep"
      /\ u \notin used /\ used' = used \cup {u}
      /\ plan' = [plan EXCEPT ![1] = Wrote(plan[1])]
      /\ Put(u, [status |-> "active", facts |-> Head(Act.new)])
      /\ UNCHANGED <<store, idx, head, adding, snap, deleted>>
  BY DEF WriteNew, Applying, git, Act, Wrote
<1>2. TypeOK /\ Act \in Action /\ Act = plan[1] /\ WellFormed(Act) /\ Covered
  BY <1>1, HeadType DEF IInv, PlanInv, HeadInv
<1>3. PICK n \in Note :
        n = [status |-> "active", facts |-> Head(Act.new)] /\ n.facts = Head(Act.new)
  BY <1>1, <1>2, WroteType DEF Note
<1>4. note[u] = Absent /\ u \notin deleted /\ u \notin In(snap)
  BY <1>1 DEF IInv, UidInv, In
<1>5. /\ IndexBehind' /\ CommitsKeep' /\ n.facts \subseteq Due(u)'
      /\ \A v \in Uid : Due(v) \subseteq Due(v)'
  BY <1>1, <1>3, <1>4, WriteHead
<1>6. Covered'
  <2>1. PICK b \in Action : b = Wrote(Act)
    BY <1>1, <1>2, WroteType
  <2>2. PICK S \in SUBSET Uid : S = Act.from
    BY <1>2 DEF Action
  <2>3. b.from = S /\ Written(Act) = Head(Act.new) \cup Written(b)
    BY <1>1, <1>2, <2>1, <2>2, WroteType, WrittenSplit
  <2>4. Head(Act.new) \subseteq DueBut(S)'
    <3>1. u \notin S
      BY <1>2, <1>4, <2>2 DEF WellFormed
    <3> QED
      BY <1>3, <1>5, <3>1 DEF DueBut
  <2>5. DueBut(S) \subseteq DueBut(S)'
    BY <1>5, DueGrows
  <2>6. Shown(S) \subseteq Written(Act) \cup DueBut(S)
    BY <1>1, <1>2, <2>2 DEF Covered
  <2>7. DueBut(b.from)' = DueBut(S)' /\ Shown(b.from) = Shown(S)
    BY <2>3
  <2> QED
    BY <1>1, <1>2, <2>1, <2>3, <2>4, <2>5, <2>6, <2>7, AdvanceCovered
<1> QED
  BY <1>5, <1>6 DEF HeadInv

(* A deleted file leaves the index later; what the index has of it is then *)
(* in what the same action wrote.                                          *)
LEMMA DeleteHead ==
  ASSUME IInv, IInv', HeadInv, Calm, Calm', NEW u \in Uid, DeleteSource(u)
  PROVE  HeadInv'
<1>1. /\ plan # <<>> /\ Act.kind # "keep" /\ Act.new = <<>> /\ u \in Act.from
      /\ note' = [note EXCEPT ![u] = Absent] /\ pc' = pc /\ pc # "rm"
      /\ deleted' = IF store = "local" THEN deleted \cup {u} ELSE deleted
      /\ UNCHANGED <<store, idx, head, used, adding, snap, staged>>
      /\ note[u] # Absent /\ u \in touched => "retouched" \in hazard'
      /\ adding[u] = "no" \/ "overtaken" \in hazard'
  BY DEF DeleteSource, Applying, Act, Removing, others, git
<1>2. TypeOK /\ IndexBehind /\ CommitsKeep /\ Covered
  BY DEF IInv, HeadInv
<1>3. Act \in Action /\ Act = plan[1] /\ WellFormed(Act)
  BY <1>1, HeadType DEF IInv, PlanInv
<1>4. PICK S \in SUBSET Uid : S = Act.from
  BY <1>3 DEF Action
<1>5. u \in S /\ u \in In(snap) /\ Shown(S) \subseteq DueBut(S)
  <2>1. Written(Act) = {}
    BY <1>1 DEF Written
  <2> QED
    BY <1>1, <1>2, <1>3, <1>4, <2>1 DEF Covered, WellFormed
<1>6. /\ note'[u] = Absent /\ \A v \in Uid \ {u} : note'[v] = note[v]
      /\ adding[u] = "no" /\ (u \in In(note) => u \notin touched)
  BY <1>1, <1>2 DEF TypeOK, Tree, In, Calm, Current
<1>7. /\ Of(note, u) \subseteq snap[u].facts
      /\ store = "local" => Of(idx, u) \subseteq snap[u].facts
  <2>1. CASE u \in In(note)
    <3>1. note[u].facts \subseteq snap[u].facts
      BY <1>5, <1>6, <2>1 DEF IInv, SnapInv, Calm
    <3> QED
      BY <1>2, <2>1, <3>1 DEF IndexBehind, Of
  <2>2. CASE u \notin In(note)
    BY <1>2, <1>5, <2>2 DEF IndexBehind, Of, In
  <2> QED
    BY <2>1, <2>2
<1>8. \A v \in Uid \ {u} : Due(v)' = Due(v)
  BY <1>1, <1>6 DEF Due, Of
<1>9. Due(u) \subseteq snap[u].facts
  BY <1>2, <1>7 DEF Due, TypeOK
<1>10. DueBut(S)' = DueBut(S)
  <2>1. DueBut(S)' = UNION {Due(v)' : v \in Uid \ S}
    BY DEF DueBut
  <2> QED
    BY <1>5, <1>8, <2>1 DEF DueBut
<1>11. Due(u) \subseteq DueBut(S)
  BY <1>5, <1>9 DEF Shown
<1>12. IndexBehind'
  <2>1. In(idx)' \subseteq used' /\ staged' \subseteq used'
    BY <1>1, <1>2 DEF IndexBehind, In
  <2>2. \A v \in Uid : (adding[v] # "no" => note[v] # Absent)'
    BY <1>1, <1>2, <1>6 DEF IndexBehind
  <2>3. \A v \in In(note)' : Of(idx, v)' \subseteq note'[v].facts
    BY <1>1, <1>2, <1>6 DEF IndexBehind, In, Of
  <2>4. store' = "local" => \A v \in In(snap)' \ In(note)' : Of(idx, v)' \subseteq snap'[v].facts
    BY <1>1, <1>2, <1>6, <1>7 DEF IndexBehind, In, Of
  <2> QED
    BY <2>1, <2>2, <2>3, <2>4 DEF IndexBehind
<1>13. CommitsKeep'
  <2>1. DueBut(S)' \subseteq DueBut({})'
    BY DEF DueBut
  <2>2. \A v \in Uid : Due(v) \subseteq DueBut({})'
    <3>1. DueBut({})' = UNION {Due(v)' : v \in Uid}
      BY DEF DueBut
    <3> QED
      BY <1>8, <1>10, <1>11, <2>1, <3>1
  <2>3. DueBut({}) \subseteq DueBut({})'
    BY <2>2 DEF DueBut
  <2> QED
    BY <1>1, <1>2, <2>3, CommitsKeepLater
<1>14. Covered'
  <2>1. CASE Act.from = {u}
    <3>1. plan' = Tail(plan)
      BY <2>1 DEF DeleteSource
    <3> QED
      BY <1>1, <3>1, PoppedCovered DEF IInv
  <2>2. CASE Act.from # {u}
    <3>1. plan' = [plan EXCEPT ![1] = Removed(plan[1], u)]
      BY <2>2 DEF DeleteSource, Removed
    <3>2. PICK b \in Action : b = Removed(Act, u)
      BY <1>3, RemovedType
    <3>3. b.from = S \ {u}
      BY <1>3, <1>4, <3>2, RemovedType
    <3>4. Shown(S \ {u}) \subseteq Shown(S)
      BY DEF Shown
    <3>5. DueBut(S)' \subseteq DueBut(S \ {u})'
      BY DEF DueBut
    <3>6. DueBut(b.from)' = DueBut(S \ {u})' /\ Shown(b.from) = Shown(S \ {u})
      BY <3>3
    <3> QED
      BY <1>1, <1>2, <1>3, <1>5, <1>10, <3>1, <3>2, <3>4, <3>5, <3>6, AdvanceCovered
  <2> QED
    BY <2>1, <2>2
<1> QED
  BY <1>12, <1>13, <1>14 DEF HeadInv

\* A commit, one that fails, or the end of the cycle: the lists are emptied.
LEMMA EmptyLists ==
  ASSUME IInv, HeadInv, Calm, UNCHANGED <<store, note, idx, used, adding>>,
         head' \in {head, idx}, snap' \in {snap, Nowhere}, plan' = <<>>, pc' # "rm",
         staged' = {}, deleted' = {}
  PROVE  HeadInv'
<1>1. TypeOK /\ IndexBehind /\ CommitsKeep
  BY DEF IInv, HeadInv
<1>2. AllOf(idx)' = AllOf(idx) /\ AllOf(head)' \in {AllOf(head), AllOf(idx)}
  BY DEF AllOf, Of
<1>3. AllOf(idx)' \subseteq DueBut({})'
  <2>1. CASE store = "server"
    <3>1. \A u \in Uid : Due(u)' = Due(u)
      BY <2>1 DEF Due, Of
    <3>2. DueBut({}) \subseteq DueBut({})'
      BY <3>1, DueGrows
    <3> QED
      BY <1>1, <1>2, <3>2 DEF CommitsKeep
  <2>2. CASE store # "server"
    <3>1. \A u \in Uid : Due(u)' = Of(idx, u)'
      BY <2>2 DEF Due
    <3> QED
      BY <3>1 DEF DueBut, AllOf
  <2> QED
    BY <2>1, <2>2
<1>4. IndexBehind'
  BY <1>1 DEF IndexBehind, In, Of, Nowhere
<1>5. CommitsKeep' /\ Covered'
  BY <1>1, <1>2, <1>3 DEF CommitsKeep, Covered
<1> QED
  BY <1>4, <1>5 DEF HeadInv

\* git add takes over what the lists and the files say.
LEMMA GitAddHead ==
  ASSUME IInv, HeadInv, Calm, GitAdd
  PROVE  HeadInv'
<1>1. /\ idx' = [u \in Uid |-> IF u \in staged \/ store = "server" THEN note[u] ELSE idx[u]]
      /\ pc = "add" /\ pc' = IF store = "local" THEN "rm" ELSE "commit"
      /\ UNCHANGED <<store, note, head, used, adding, snap, plan, staged, deleted>>
  BY DEF GitAdd, others, lists
<1>2. TypeOK /\ IndexBehind /\ CommitsKeep /\ plan = <<>> /\ In(note) \subseteq used
  BY <1>1 DEF IInv, HeadInv, PlanInv, UidInv
<1>3. \A u \in Uid : idx'[u] = IF u \in staged \/ store = "server" THEN note[u] ELSE idx[u]
  BY <1>1
<1>4. \A u \in Uid : Of(note, u)' = Of(note, u)
                   /\ Of(idx, u)' = IF u \in staged \/ store = "server" THEN Of(note, u)
                                    ELSE Of(idx, u)
  BY <1>1, <1>3 DEF Of
<1>5. \A u \in Uid : Due(u)' = Due(u)
  BY <1>1, <1>4 DEF Due
<1>6. DueBut({})' = DueBut({})
  <2>1. DueBut({})' = UNION {Due(u)' : u \in Uid}
    BY DEF DueBut
  <2> QED
    BY <1>5, <2>1 DEF DueBut
<1>7. AllOf(head)' = AllOf(head) /\ AllOf(idx)' = UNION {Of(idx, u)' : u \in Uid}
  BY <1>1 DEF AllOf, Of
<1>8. \A u \in Uid : Due(u) \subseteq Of(idx, u)'
  BY <1>4 DEF Due
<1>9. DueBut({}) \subseteq AllOf(idx)'
  BY <1>7, <1>8 DEF DueBut
<1>10. \A u \in Uid : Of(idx, u)' \subseteq DueBut({})
  <2> SUFFICES ASSUME NEW u \in Uid PROVE Of(idx, u)' \subseteq DueBut({})
    OBVIOUS
  <2>1. Of(idx, u) \subseteq DueBut({})
    BY <1>2 DEF CommitsKeep, AllOf
  <2>2. Due(u) \subseteq DueBut({})
    BY DEF DueBut
  <2>3. u \in deleted => Of(note, u) = {}
    BY <1>2 DEF IInv, UidInv, Of, In
  <2> QED
    BY <1>4, <2>1, <2>2, <2>3 DEF Due
<1>11. IndexBehind'
  <2>1. In(idx)' \subseteq used' /\ staged' \subseteq used'
    BY <1>1, <1>2, <1>3 DEF IndexBehind, In
  <2>2. \A v \in Uid : (adding[v] # "no" => note[v] # Absent)'
    BY <1>1, <1>2 DEF IndexBehind
  <2>3. \A v \in In(note)' : Of(idx, v)' \subseteq note'[v].facts
    BY <1>1, <1>2, <1>4 DEF IndexBehind, In, Of
  <2>4. store' = "local" => \A v \in In(snap)' \ In(note)' : Of(idx, v)' \subseteq snap'[v].facts
    BY <1>1, <1>2, <1>4 DEF IndexBehind, In, Of
  <2> QED
    BY <2>1, <2>2, <2>3, <2>4 DEF IndexBehind
<1>12. CommitsKeep'
  <2>1. AllOf(head)' \subseteq AllOf(idx)'
    BY <1>2, <1>7, <1>9 DEF CommitsKeep
  <2>2. AllOf(idx)' \subseteq DueBut({})'
    BY <1>6, <1>7, <1>10
  <2>3. pc' = "rm" => store' = "local" /\ \A u \in staged' : Of(idx, u)' = Of(note, u)'
    BY <1>1, <1>2, <1>4 DEF TypeOK
  <2> QED
    BY <2>1, <2>2, <2>3 DEF CommitsKeep
<1> QED
  BY <1>1, <1>2, <1>11, <1>12 DEF HeadInv, Covered

\* git rm takes files out of the index whose facts the rest of it has.
LEMMA GitRmHead ==
  ASSUME IInv, HeadInv, Calm, GitRm
  PROVE  HeadInv'
<1>1. /\ pc = "rm" /\ pc' = "commit"
      /\ UNCHANGED <<store, head, used, adding, snap, plan, staged, deleted>>
  BY DEF GitRm, others, lists
<1>2. /\ TypeOK /\ IndexBehind /\ CommitsKeep /\ plan = <<>> /\ store = "local"
      /\ \A u \in deleted : note[u] = Absent
  BY <1>1 DEF IInv, HeadInv, PlanInv, UidInv, CommitsKeep, In, TypeOK
<1>3. PICK R \in SUBSET deleted :
        /\ idx' = [u \in Uid |-> IF u \in R THEN Absent ELSE idx[u]]
        /\ note' = [u \in Uid |-> IF u \in R /\ idx[u] # Absent THEN Absent ELSE note[u]]
  BY DEF GitRm
<1>4. note' = note /\ \A u \in Uid : idx'[u] = IF u \in R THEN Absent ELSE idx[u]
  BY <1>2, <1>3 DEF TypeOK, Tree
<1>5. \A u \in Uid : Of(idx, u)' = IF u \in R THEN {} ELSE Of(idx, u)
  BY <1>4 DEF Of
<1>6. \A u \in Uid : Due(u)' = Due(u) /\ Due(u) \subseteq Of(idx, u)'
  <2> SUFFICES ASSUME NEW u \in Uid PROVE Due(u)' = Due(u) /\ Due(u) \subseteq Of(idx, u)'
    OBVIOUS
  <2>1. Of(note, u)' = Of(note, u) /\ (u \notin deleted => Of(idx, u)' = Of(idx, u))
    BY <1>4, <1>5 DEF Of
  <2> QED
    BY <1>1, <1>2, <2>1 DEF Due, CommitsKeep
<1>7. DueBut({})' = DueBut({}) /\ DueBut({}) \subseteq AllOf(idx)'
  <2>1. DueBut({})' = UNION {Due(u)' : u \in Uid} /\ AllOf(idx)' = UNION {Of(idx, u)' : u \in Uid}
    BY DEF DueBut, AllOf
  <2> QED
    BY <1>6, <2>1 DEF DueBut
<1>8. AllOf(idx)' \subseteq AllOf(idx) /\ AllOf(head)' = AllOf(head)
  <2>1. AllOf(idx)' = UNION {Of(idx, u)' : u \in Uid}
    BY DEF AllOf
  <2> QED
    BY <1>1, <1>5, <2>1 DEF AllOf, Of
<1>9. IndexBehind'
  <2>1. In(idx)' \subseteq In(idx)
    BY <1>4 DEF In
  <2>2. \A u \in Uid : Of(idx, u)' \subseteq Of(idx, u)
    BY <1>5
  <2> QED
    BY <1>1, <1>2, <1>4, <2>1, <2>2 DEF IndexBehind, In
<1>10. CommitsKeep'
  BY <1>1, <1>2, <1>7, <1>8 DEF CommitsKeep
<1> QED
  BY <1>1, <1>2, <1>9, <1>10 DEF HeadInv, Covered

LEMMA StartHead ==
  ASSUME IInv, HeadInv, Calm, Calm', Start
  PROVE  HeadInv'
<1>1. /\ pc = "idle" /\ snap' = Found /\ pc' = "batch"
      /\ UNCHANGED <<store, note, idx, head, used, adding, plan, staged, deleted>>
  BY DEF Start, git, others, lists
<1>2. TypeOK /\ IndexBehind /\ CommitsKeep /\ plan = <<>>
  BY <1>1 DEF IInv, HeadInv, PlanInv
<1>3. store = "local" => In(Found) \subseteq In(note)
  BY DEF Found, In, Pending, Active
<1>4. IndexBehind'
  <2>1. In(snap)' = In(Found) /\ In(note)' = In(note) /\ In(idx)' = In(idx)
    BY <1>1 DEF In
  <2> QED
    BY <1>1, <1>2, <1>3, <2>1 DEF IndexBehind, Of
<1>5. CommitsKeep'
  <2>1. DueBut({})' = DueBut({}) /\ AllOf(head)' = AllOf(head) /\ AllOf(idx)' = AllOf(idx)
    BY <1>1 DEF DueBut, Due, AllOf, Of
  <2> QED
    BY <1>1, <1>2, <2>1 DEF CommitsKeep
<1> QED
  BY <1>1, <1>2, <1>4, <1>5 DEF HeadInv, Covered

LEMMA AnswerHead ==
  ASSUME IInv, IInv', HeadInv, Calm, NEW p \in Uid, Answer(p)
  PROVE  Covered'
<1>1. p \in todo /\ plan' \in Answers(p) /\ snap' = snap
  BY DEF Answer
<1>2. plan' # <<>> => 1 \in DOMAIN plan' /\ Act' = plan'[1]
  BY DEF IInv, TypeOK, Act
<1>3. plan' # <<>> => Act' \in Actions(p)
  BY <1>1, <1>2, AnswersType DEF IInv
<1>4. plan' # <<>> => Whole(Act')
  BY <1>1, <1>3, AnswersWhole DEF IInv
<1> QED
  BY <1>1, <1>4 DEF Covered, Whole, Written, Shown

LEMMA AddCommitHead ==
  ASSUME IInv, HeadInv, Calm, NEW u \in Uid, AddCommit(u)
  PROVE  HeadInv'
<1>1. /\ head' = idx /\ adding' = [adding EXCEPT ![u] = "no"]
      /\ UNCHANGED <<store, note, idx, used, pc, snap, plan, staged, deleted>>
  BY DEF AddCommit, lists
<1>2. TypeOK /\ IndexBehind /\ CommitsKeep /\ Covered
  BY DEF IInv, HeadInv
<1>3. IndexBehind'
  BY <1>1, <1>2 DEF IndexBehind, In, Of, TypeOK
<1>4. AllOf(head)' = AllOf(idx) /\ AllOf(idx)' = AllOf(idx)
  BY <1>1 DEF AllOf, Of
<1>5. \A v \in Uid : Due(v)' = Due(v) /\ Of(idx, v)' = Of(idx, v) /\ Of(note, v)' = Of(note, v)
  BY <1>1 DEF Due, Of
<1>6. DueBut({}) \subseteq DueBut({})' /\ Covered'
  BY <1>1, <1>2, <1>5, DueGrows, SameCovered
<1>7. CommitsKeep'
  BY <1>1, <1>2, <1>4, <1>5, <1>6 DEF CommitsKeep, TypeOK
<1> QED
  BY <1>3, <1>6, <1>7 DEF HeadInv

LEMMA HeadInductive == IInv /\ HeadInv /\ [Next]_vars => HeadInv'
<1> SUFFICES ASSUME IInv, HeadInv, [Next]_vars, Calm' PROVE HeadInv'
  BY DEF HeadInv
<1>0. TypeOK /\ IInv' /\ Calm
  BY InvariantInductive, CalmBefore DEF IInv
<1> USE <1>0 DEF git, lists, others
<1>1. ASSUME NEW u \in Uid, AddNote(u) PROVE HeadInv'
  BY <1>1, AddNoteHead
<1>2. ASSUME NEW u \in Uid, AddStage(u) PROVE HeadInv'
  BY <1>2, AddStageHead
<1>3. ASSUME NEW u \in Uid, AddCommit(u) PROVE HeadInv'
  BY <1>3, AddCommitHead
<1>4. ASSUME UNCHANGED <<snap, plan, store, idx, note, staged, deleted>>, Covered PROVE Covered'
  <2>1. \A u \in Uid : Due(u)' = Due(u)
    BY <1>4 DEF Due, Of
  <2> QED
    BY <1>4, <2>1, SameCovered
<1>5. plan' = <<>> => Covered'
  BY DEF Covered
<1>6. ASSUME NEW u \in Uid, AddFails(u) PROVE HeadInv'
  <2>1. /\ adding' = [adding EXCEPT ![u] = "no"]
        /\ UNCHANGED <<store, note, idx, head, used, pc, snap, plan, staged, deleted>>
    BY <1>6 DEF AddFails
  <2>2. /\ \A v \in Uid : Due(v)' = Due(v)
        /\ DueBut({})' = DueBut({}) /\ AllOf(head)' = AllOf(head) /\ AllOf(idx)' = AllOf(idx)
    BY <2>1 DEF Due, DueBut, AllOf, Of
  <2>3. IndexBehind' /\ CommitsKeep'
    BY <2>1, <2>2 DEF HeadInv, IndexBehind, CommitsKeep, In, Of, TypeOK
  <2> QED
    BY <1>4, <2>1, <2>3 DEF HeadInv
<1>7. CASE Reindex
  BY <1>4, <1>7, HeadQuiet DEF Reindex, HeadInv
<1>8. CASE Start
  BY <1>8, StartHead
<1>9. ASSUME NEW p \in Uid, Answer(p) PROVE HeadInv'
  BY <1>9, AnswerHead, HeadQuiet DEF Answer
<1>10. ASSUME NEW p \in Uid, NoAnswer(p) PROVE HeadInv'
  BY <1>4, <1>10, HeadQuiet DEF NoAnswer, HeadInv
<1>11. CASE Keep
  BY <1>11, KeepHead
<1>12. CASE Skip
  <2>1. Covered'
    BY <1>12, PoppedCovered DEF Skip, Applying, IInv
  <2> QED
    BY <1>12, <2>1, HeadQuiet DEF Skip
<1>13. CASE MergeWrite
  BY <1>13, MergeHead
<1>14. ASSUME NEW u \in Uid, WriteNew(u) PROVE HeadInv'
  BY <1>14, WriteNewHead
<1>15. ASSUME NEW u \in Uid, DeleteSource(u) PROVE HeadInv'
  BY <1>15, DeleteHead
<1>16. CASE ActionFails
  BY <1>5, <1>16, HeadQuiet DEF ActionFails
<1>17. CASE Applied
  BY <1>4, <1>17, HeadQuiet DEF Applied, HeadInv
<1>18. CASE GitAdd
  BY <1>18, GitAddHead
<1>19. CASE GitAddFails
  BY <1>4, <1>19, HeadQuiet DEF GitAddFails, HeadInv
<1>20. CASE GitRm
  BY <1>20, GitRmHead
<1>21. CASE GitCommit \/ GitCommitFails
  <2>1. plan = <<>>
    BY <1>21 DEF GitCommit, GitCommitFails, IInv, PlanInv
  <2> QED
    BY <1>21, <2>1, EmptyLists DEF GitCommit, GitCommitFails
<1>22. CASE Finish \/ Crash
  BY <1>22, EmptyLists DEF Finish, Crash, Forget
<1>23. CASE UNCHANGED vars
  BY <1>4, <1>23, HeadQuiet DEF vars, HeadInv
<1> QED
  BY <1>1, <1>2, <1>3, <1>6, <1>7, <1>8, <1>9, <1>10, <1>11, <1>12, <1>13, <1>14,
     <1>15, <1>16, <1>17, <1>18, <1>19, <1>20, <1>21, <1>22, <1>23 DEF Next, Cycle

(* Whatever fails and wherever a process dies: a commit drops nothing that *)
(* the one before it held, not even one that takes over what an earlier    *)
(* batch left in the index.                                                *)
THEOREM CommittedStays == Spec => HeadKeeps
<1>1. Init => HeadInv
  <2> SUFFICES ASSUME Init PROVE HeadInv
    OBVIOUS
  <2>1. /\ idx = note /\ head = note /\ used = In(note) /\ plan = <<>> /\ pc = "idle"
        /\ staged = {} /\ deleted = {} /\ snap = Nowhere /\ adding = [u \in Uid |-> "no"]
    BY DEF Init
  <2>2. \A u \in Uid : Due(u) = Of(idx, u)
    BY <2>1 DEF Due
  <2>3. CommitsKeep
    BY <2>1, <2>2 DEF CommitsKeep, AllOf, DueBut
  <2> QED
    BY <2>1, <2>3 DEF HeadInv, IndexBehind, Covered, In, Of, Nowhere
<1>2. ASSUME IInv, HeadInv, [Next]_vars
      PROVE  [Current' /\ "overtaken" \notin hazard' => Facts(head) \subseteq Facts(head')]_vars
  <2> SUFFICES ASSUME Calm' PROVE Facts(head) \subseteq Facts(head')
    BY DEF Calm
  <2>1. Calm /\ TypeOK
    BY <1>2, CalmBefore DEF IInv
  <2>2. Facts(head) \subseteq Facts(idx)
    BY <1>2, <2>1, AllOfFacts DEF HeadInv, CommitsKeep, TypeOK
  <2>3. head' = head \/ head' = idx
    BY <1>2 DEF Next, Cycle, AddNote, AddStage, AddCommit, AddFails, Reindex, Start, Answer,
       NoAnswer, Keep, Skip, MergeWrite, WriteNew, DeleteSource, ActionFails, Applied, GitAdd,
       GitAddFails, GitRm, GitCommit, GitCommitFails, Finish, Crash, vars, git
  <2> QED
    BY <2>2, <2>3
<1> QED
  BY <1>1, <1>2, InitInvariant, InvariantInductive, HeadInductive, PTL DEF Spec, HeadKeeps
=============================================================================
