----------------------------- MODULE ServerProofs -----------------------------
(* For any notes, redrive count and number of failures: what is acknowledged
   stays in the repository, the repository is pushed, and S3 follows it. *)
EXTENDS Server, TLAPS

-----------------------------------------------------------------------------
(* Which job is where, and what is left of it *)
Flow ==
  /\ pc = "idle" => job = "none"
  /\ pc \in {"write", "delete", "logs"} => job = "ingest"
  /\ pc \in {"add", "commit"} => job \in {"ingest", "dream", "recall"}
  /\ pc = "push" => job \in {"ingest", "recall", "phase4"}
  /\ pc \in {"sync", "object"} => job \in {"ingest", "recall", "phase0", "phase4"}
  /\ pc = "reindex" => job \in {"phase0", "phase4"}
  /\ pc \in {"retrieve", "batch"} => job = "dream"
  /\ pc \in {"write", "delete"} => todo \subseteq batch

(* A message on the queue may be received once more *)
Redrive ==
  \A u \in Uid : /\ msg[u] = "none" => receives[u] = 0
                 /\ msg[u] = "queued" => receives[u] < MaxReceives

(* The batches of a dream cycle are of notes that the index returned *)
Planned == job = "dream" /\ pc # "retrieve" => todo \subseteq Pending

TInv == TypeOK /\ Flow /\ Redrive /\ Planned

(* A commit that is not pushed is on its way there, unless a push failed or
   the process died before it *)
Underway ==
  \/ pc \in {"push", "batch"}
  \/ pc \in {"add", "commit"} /\ job = "dream"

PushInv == pushed /\ ~Underway => repo = remote

(* S3 is behind from a commit to the end of the sync *)
Mirrored(u) == s3[u] = repo.tree[u]

Labelled(u) == side[u] = IF s3[u] = Absent THEN "none" ELSE s3[u].status

Settled ==
  \/ pc \in {"idle", "write", "logs", "delete", "reindex", "retrieve"}
  \/ pc \in {"add", "commit"} /\ job # "dream"

MirrorInv ==
  Clean({"failed", "missed", "dirty", "crash"}) =>
    /\ pushed
    /\ pc # "commit" => idx = repo.tree
    /\ \A u \in Uid : Labelled(u) /\ (Settled => Mirrored(u))
    /\ pc = "object" =>
         /\ \A u \in Uid \ todo : Mirrored(u)
         /\ \A u \in todo : /\ tree[u] = repo.tree[u]
                            /\ tree[u] = Absent => repo.n = 2

(* A note is somewhere in a tree *)
Held(u, t) == \E v \in In(t) : u \in t[v].facts

Gone == {u \in Uid : msg[u] = "gone"}

(* The notes of an ingestion, on their way from the queue to the commit *)
Written(u) ==
  /\ tree[u] # Absent /\ u \in tree[u].facts
  /\ idx[u] # Absent => idx[u].facts \subseteq {u}

Ingesting ==
  job = "ingest" =>
    /\ pc = "write" => \A u \in batch \ todo : Written(u)
    /\ pc = "add" => \A u \in batch : Written(u)
    /\ pc \in {"commit", "push", "sync", "object", "delete"} =>
         \A u \in batch : Held(u, tree) /\ Held(u, idx)
    /\ pc \in {"push", "sync", "object", "delete"} => \A u \in batch : Held(u, repo.tree)

Safe == Clean({"overwritten", "stale", "unpushed"})

KeepInv ==
  Safe =>
    /\ \A u \in Gone : Held(u, tree) /\ Held(u, idx) /\ Held(u, repo.tree)
    /\ Ingesting

-----------------------------------------------------------------------------
(* Types *)

LEMMA DocFacts ==
  /\ Absent \notin Doc
  /\ \A st \in {"pending", "active"}, fs \in SUBSET Uid, r \in BOOLEAN :
       [status |-> st, facts |-> fs, recalled |-> r] \in Doc
  /\ \A d \in Doc : d.status \in {"pending", "active"} /\ d.facts \in SUBSET Uid
  BY ServerAssumption DEF Doc

LEMMA DocRelabelled ==
  ASSUME NEW d \in Doc
  PROVE  /\ [d EXCEPT !.recalled = TRUE] \in Doc
         /\ \A st \in {"pending", "active"} :
              [d EXCEPT !.status = st, !.recalled = FALSE] \in Doc
  BY DEF Doc

LEMMA EmptyType == Empty \in Tree
  BY DEF Empty, Tree

LEMMA InitT == Init => TInv
<1> SUFFICES ASSUME Init PROVE TInv
    OBVIOUS
<1>1. TypeOK
    BY EmptyType, ServerAssumption DEF Init, TypeOK, Commit, Hazards
<1>2. Flow /\ Planned
    BY DEF Init, Flow, Planned
<1>3. Redrive
    BY ServerAssumption DEF Init, Redrive
<1> QED BY <1>1, <1>2, <1>3 DEF TInv

LEMMA BlameType ==
  ASSUME TypeOK, NEW h \in Hazards, Blame(h)
  PROVE  faults' \in 0..MaxFaults /\ hazard' \subseteq Hazards
  BY ServerAssumption DEF TypeOK, Blame

LEMMA PendingStays == kb' = kb => Pending' = Pending
  BY DEF Pending, In

LEMMA MergeType ==
  ASSUME TInv, NEW u \in Uid, NEW t \in Uid, Merge(u, t), tree[t] # Absent
  PROVE  Rewritten(tree[t].status, kb[u].facts \cup kb[t].facts) \in Doc
<1>1. kb[u] \in Doc /\ kb[t] \in Doc /\ tree[t] \in Doc
    BY DEF TInv, TypeOK, Tree, Flow, Planned, Merge, Batch, Unanswered, Pending, Active, In
<1> QED BY <1>1, DocFacts DEF Rewritten

LEMMA NextT == TInv /\ [Next]_vars => TInv'
<1> SUFFICES ASSUME TInv, [Next]_vars PROVE TInv'
    OBVIOUS
<1> USE PendingStays
    DEF TInv, TypeOK, Flow, Redrive, Planned, Tree, Commit, Go, Return, vars, queue, git, bucket, ctl
<1>1. CASE NoMessages
    BY <1>1 DEF NoMessages
<1>2. CASE Add
    BY <1>2 DEF Add
<1>3. CASE GitCommit
    BY <1>3 DEF GitCommit, Committed
<1>4. CASE NothingStaged
    BY <1>4 DEF NothingStaged
<1>5. CASE Push
    BY <1>5 DEF Push
<1>6. CASE StartSync
    BY <1>6 DEF StartSync, Changed, In, Hazards
<1>7. CASE EndSync
    BY <1>7 DEF EndSync, AfterSync
<1>8. CASE CommitFails
  <2>1. faults' \in 0..MaxFaults /\ hazard' \subseteq Hazards
      BY <1>8, BlameType DEF CommitFails, Hazards
  <2> QED BY <1>8, <2>1 DEF CommitFails
<1>9. CASE PushFails
  <2>1. faults' \in 0..MaxFaults /\ hazard' \subseteq Hazards
      BY <1>9, BlameType DEF PushFails, Hazards
  <2> QED BY <1>9, <2>1 DEF PushFails
<1>10. CASE SyncFails
  <2>1. faults' \in 0..MaxFaults /\ hazard' \subseteq Hazards
      BY <1>10, BlameType DEF SyncFails, Hazards
  <2> QED BY <1>10, <2>1 DEF SyncFails, AfterSync
<1>11. CASE RetrieveFails
  <2>1. faults' \in 0..MaxFaults /\ hazard' \subseteq Hazards
      BY <1>11, BlameType DEF RetrieveFails, Hazards
  <2> QED BY <1>11, <2>1 DEF RetrieveFails
<1>12. CASE NoLogs
    BY <1>12 DEF NoLogs
<1>13. CASE Dream
    BY <1>13 DEF Dream
<1>14. CASE Reindex
  <2> DEFINE f(u) == [s3[u] EXCEPT !.status = side[u], !.recalled = FALSE]
  <2>1. ASSUME NEW u \in Uid, s3[u] # Absent, side[u] # "none" PROVE f(u) \in Doc
    <3>1. s3[u] \in Doc /\ side[u] \in {"pending", "active"}
        BY <2>1
    <3> QED BY <3>1, DocRelabelled
  <2>2. kb' \in {kb, [u \in Uid |-> IF s3[u] = Absent \/ side[u] = "none" THEN Absent ELSE f(u)]}
      BY <1>14 DEF Reindex
  <2> HIDE DEF f
  <2>3. kb' \in Tree
      BY <2>1, <2>2
  <2> QED BY <1>14, <2>3 DEF Reindex
<1>15. CASE Retrieve
    BY <1>15 DEF Retrieve, Pending, In
<1>16. CASE EndBatches
    BY <1>16 DEF EndBatches
<1>17. CASE Crash
  <2>1. faults' \in 0..MaxFaults /\ hazard' \subseteq Hazards
      BY <1>17, BlameType DEF Crash, Hazards
  <2> QED BY <1>17, <2>1 DEF Crash
<1>18. CASE Replace
    BY <1>18 DEF Replace, Hazards
<1>19. CASE Elapse
    BY <1>19 DEF Elapse
<1>20. ASSUME NEW us \in SUBSET Uid, Receive(us) PROVE TInv'
  <2>1. /\ msg' \in [Uid -> {"none", "queued", "taken", "gone", "dead"}]
        /\ receives' \in [Uid -> 0..MaxReceives]
        /\ Redrive'
      BY <1>20, ServerAssumption DEF Receive
  <2>2. batch' \subseteq Uid /\ todo' = batch' /\ job' = "ingest" /\ pc' \in {"logs", "write"}
      BY <1>20 DEF Receive
  <2> QED BY <1>20, <2>1, <2>2 DEF Receive
<1>21. ASSUME NEW us \in SUBSET Uid, Recalled(us) PROVE TInv'
  <2>1. tree' \in Tree
      BY <1>21, DocRelabelled DEF Recalled, In
  <2> QED BY <1>21, <2>1 DEF Recalled
<1>22. ASSUME NEW u \in Uid, Submit(u) PROVE TInv'
    BY <1>22, ServerAssumption DEF Submit
<1>23. ASSUME NEW u \in Uid, Reappear(u) PROVE TInv'
    BY <1>23, DocFacts DEF Reappear
<1>24. ASSUME NEW u \in Uid, Write(u) PROVE TInv'
    BY <1>24, DocFacts DEF Write, Fresh, Hazards
<1>25. ASSUME NEW u \in Uid, PutOrDelete(u) PROVE TInv'
    BY <1>25, DocFacts DEF PutOrDelete, Deleted, Sidecar
<1>26. ASSUME NEW u \in Uid, ObjectFails(u) PROVE TInv'
  <2>1. faults' \in 0..MaxFaults /\ hazard' \subseteq Hazards
      BY <1>26, BlameType DEF ObjectFails, Hazards
  <2> QED BY <1>26, <2>1 DEF ObjectFails, Deleted
<1>27. ASSUME NEW u \in Uid, Delete(u) PROVE TInv'
    BY <1>27, DocFacts DEF Delete, Ingested
<1>28. ASSUME NEW u \in Uid, DeleteFails(u) PROVE TInv'
  <2>1. faults' \in 0..MaxFaults /\ hazard' \subseteq Hazards
      BY <1>28, BlameType DEF DeleteFails, Hazards
  <2> QED BY <1>28, <2>1 DEF DeleteFails, Ingested
<1>29. ASSUME NEW u \in Uid, Keep(u) PROVE TInv'
    BY <1>29, DocFacts DEF Keep, Batch, Rewritten
<1>30. ASSUME NEW u \in Uid, NoAnswer(u) PROVE TInv'
    BY <1>30, DocFacts DEF NoAnswer, Unanswered
<1>31. ASSUME NEW u \in Uid, NEW t \in Uid \ {u}, Merge(u, t) PROVE TInv'
  <2>1. tree' \in Tree
    <3>1. CASE tree[t] = Absent
        BY <1>31, <3>1 DEF Merge
    <3>2. CASE tree[t] # Absent
      <4> DEFINE doc == Rewritten(tree[t].status, kb[u].facts \cup kb[t].facts)
      <4>1. doc \in Doc
          BY <1>31, <3>2, MergeType
      <4>2. tree' = [tree EXCEPT ![t] = doc, ![u] = Absent]
          BY <1>31, <3>2 DEF Merge
      <4> QED BY <4>1, <4>2
    <3> QED BY <3>1, <3>2
  <2>2. hazard' \subseteq Hazards
      BY <1>31 DEF Merge, Hazards
  <2> QED BY <1>31, <2>1, <2>2 DEF Merge, Batch, Unanswered
<1>32. CASE UNCHANGED vars
    BY <1>32 DEF Pending, In
<1> HIDE DEF TInv
<1> QED BY <1>1, <1>2, <1>3, <1>4, <1>5, <1>6, <1>7, <1>8, <1>9, <1>10, <1>11, <1>12, <1>13, <1>14, <1>15, <1>16, <1>17, <1>18, <1>19, <1>20, <1>21, <1>22, <1>23, <1>24, <1>25, <1>26, <1>27, <1>28, <1>29, <1>30, <1>31, <1>32
    DEF Next, Ingest, Logs, Cycle, Fail

(* No value has another type than its variable (Server.tla, TypeOK). *)
THEOREM TypeCorrect == Spec => []TypeOK
<1>1. TInv => TypeOK
    BY DEF TInv
<1> QED BY <1>1, InitT, NextT, PTL DEF Spec

-----------------------------------------------------------------------------
(* The push *)

LEMMA InitPush == Init => PushInv
  BY DEF Init, PushInv

LEMMA NextPush == TInv /\ PushInv /\ [Next]_vars => PushInv'
<1> SUFFICES ASSUME TInv, PushInv, [Next]_vars PROVE PushInv'
    OBVIOUS
<1>0. Flow
    BY DEF TInv
<1> USE <1>0 DEF Flow, PushInv, Underway, Go, Return, Blame, vars, queue, git, bucket, ctl
<1>1. CASE NoMessages
    BY <1>1 DEF NoMessages
<1>2. CASE Add
    BY <1>2 DEF Add
<1>3. CASE GitCommit
    BY <1>3 DEF GitCommit, Committed
<1>4. CASE NothingStaged
    BY <1>4 DEF NothingStaged
<1>5. CASE Push
    BY <1>5 DEF Push
<1>6. CASE StartSync
    BY <1>6 DEF StartSync
<1>7. CASE EndSync
    BY <1>7 DEF EndSync, AfterSync
<1>8. CASE CommitFails
    BY <1>8 DEF CommitFails
<1>9. CASE PushFails
    BY <1>9 DEF PushFails
<1>10. CASE SyncFails
    BY <1>10 DEF SyncFails, AfterSync
<1>11. CASE RetrieveFails
    BY <1>11 DEF RetrieveFails
<1>12. CASE NoLogs
    BY <1>12 DEF NoLogs
<1>13. CASE Dream
    BY <1>13 DEF Dream
<1>14. CASE Reindex
    BY <1>14 DEF Reindex
<1>15. CASE Retrieve
    BY <1>15 DEF Retrieve
<1>16. CASE EndBatches
    BY <1>16 DEF EndBatches
<1>17. CASE Crash
    BY <1>17 DEF Crash
<1>18. CASE Replace
    BY <1>18 DEF Replace
<1>19. CASE Elapse
    BY <1>19 DEF Elapse
<1>20. ASSUME NEW us \in SUBSET Uid, Receive(us) PROVE PushInv'
    BY <1>20 DEF Receive
<1>21. ASSUME NEW us \in SUBSET Uid, Recalled(us) PROVE PushInv'
    BY <1>21 DEF Recalled
<1>22. ASSUME NEW u \in Uid, Submit(u) PROVE PushInv'
    BY <1>22 DEF Submit
<1>23. ASSUME NEW u \in Uid, Reappear(u) PROVE PushInv'
    BY <1>23 DEF Reappear
<1>24. ASSUME NEW u \in Uid, Write(u) PROVE PushInv'
    BY <1>24 DEF Write
<1>25. ASSUME NEW u \in Uid, PutOrDelete(u) PROVE PushInv'
    BY <1>25 DEF PutOrDelete
<1>26. ASSUME NEW u \in Uid, ObjectFails(u) PROVE PushInv'
    BY <1>26 DEF ObjectFails
<1>27. ASSUME NEW u \in Uid, Delete(u) PROVE PushInv'
    BY <1>27 DEF Delete, Ingested
<1>28. ASSUME NEW u \in Uid, DeleteFails(u) PROVE PushInv'
    BY <1>28 DEF DeleteFails, Ingested
<1>29. ASSUME NEW u \in Uid, Keep(u) PROVE PushInv'
    BY <1>29 DEF Keep, Batch
<1>30. ASSUME NEW u \in Uid, NoAnswer(u) PROVE PushInv'
    BY <1>30 DEF NoAnswer, Unanswered
<1>31. ASSUME NEW u \in Uid, NEW t \in Uid \ {u}, Merge(u, t) PROVE PushInv'
    BY <1>31 DEF Merge, Batch, Unanswered
<1>32. CASE UNCHANGED vars
    BY <1>32
<1> HIDE DEF PushInv
<1> QED BY <1>1, <1>2, <1>3, <1>4, <1>5, <1>6, <1>7, <1>8, <1>9, <1>10, <1>11, <1>12, <1>13, <1>14, <1>15, <1>16, <1>17, <1>18, <1>19, <1>20, <1>21, <1>22, <1>23, <1>24, <1>25, <1>26, <1>27, <1>28, <1>29, <1>30, <1>31, <1>32
    DEF Next, Ingest, Logs, Cycle, Fail

(* Between ticks the remote repository is behind only as long as the last push
   failed or was cut (codecommit.go). *)
THEOREM PushedHolds == Spec => []PushedUnlessFailed
<1>1. PushInv => PushedUnlessFailed
    BY DEF PushInv, Underway, PushedUnlessFailed
<1> QED BY <1>1, InitT, InitPush, NextT, NextPush, PTL DEF Spec

-----------------------------------------------------------------------------
(* The copy in S3 *)

LEMMA NextMirror == TInv /\ PushInv /\ MirrorInv /\ [Next]_vars => MirrorInv'
<1> SUFFICES ASSUME TInv, PushInv, MirrorInv, [Next]_vars PROVE MirrorInv'
    OBVIOUS
<1>0. TypeOK /\ Flow
    BY DEF TInv
<1> USE <1>0 DEF Flow, PushInv, MirrorInv, Underway, Settled, Mirrored, Labelled, Clean, Go, Return, Blame,
        vars, queue, git, bucket, ctl
<1>1. CASE NoMessages
    BY <1>1 DEF NoMessages
<1>2. CASE Add
    BY <1>2 DEF Add
<1>3. CASE GitCommit
    BY <1>3 DEF GitCommit, Committed
<1>4. CASE NothingStaged
    BY <1>4 DEF NothingStaged
<1>5. CASE Push
    BY <1>5 DEF Push
<1>6. CASE StartSync
  <2> SUFFICES ASSUME Clean({"failed", "missed", "dirty", "crash"})' PROVE MirrorInv'
      OBVIOUS
  <2>1. /\ Clean({"failed", "missed", "dirty", "crash"})
        /\ Behind \subseteq Changed
        /\ \A u \in Changed : tree[u] = repo.tree[u]
      BY <1>6 DEF StartSync
  <2>2. \A u \in Changed : tree[u] = Absent => repo.n = 2
      BY <1>6, <2>1 DEF StartSync, Changed, In, TypeOK, Commit
  <2>3. \A u \in Uid \ Changed : Mirrored(u)
      BY <2>1 DEF Behind
  <2> QED BY <1>6, <2>1, <2>2, <2>3 DEF StartSync
<1>7. CASE EndSync
    BY <1>7 DEF EndSync, AfterSync
<1>8. CASE CommitFails
    BY <1>8 DEF CommitFails
<1>9. CASE PushFails
    BY <1>9 DEF PushFails
<1>10. CASE SyncFails
    BY <1>10 DEF SyncFails, AfterSync
<1>11. CASE RetrieveFails
    BY <1>11 DEF RetrieveFails
<1>12. CASE NoLogs
    BY <1>12 DEF NoLogs
<1>13. CASE Dream
    BY <1>13 DEF Dream
<1>14. CASE Reindex
    BY <1>14 DEF Reindex
<1>15. CASE Retrieve
    BY <1>15 DEF Retrieve
<1>16. CASE EndBatches
    BY <1>16 DEF EndBatches
<1>17. CASE Crash
    BY <1>17 DEF Crash
<1>18. CASE Replace
    BY <1>18 DEF Replace
<1>19. CASE Elapse
    BY <1>19 DEF Elapse
<1>20. ASSUME NEW us \in SUBSET Uid, Receive(us) PROVE MirrorInv'
    BY <1>20 DEF Receive
<1>21. ASSUME NEW us \in SUBSET Uid, Recalled(us) PROVE MirrorInv'
    BY <1>21 DEF Recalled
<1>22. ASSUME NEW u \in Uid, Submit(u) PROVE MirrorInv'
    BY <1>22 DEF Submit
<1>23. ASSUME NEW u \in Uid, Reappear(u) PROVE MirrorInv'
    BY <1>23 DEF Reappear
<1>24. ASSUME NEW u \in Uid, Write(u) PROVE MirrorInv'
    BY <1>24 DEF Write
<1>25. ASSUME NEW u \in Uid, PutOrDelete(u) PROVE MirrorInv'
  <2> SUFFICES ASSUME Clean({"failed", "missed", "dirty", "crash"})' PROVE MirrorInv'
      OBVIOUS
  <2>1. Clean({"failed", "missed", "dirty", "crash"}) /\ pc = "object" /\ u \in todo
      BY <1>25 DEF PutOrDelete
  <2>2. s3' = [s3 EXCEPT ![u] = repo.tree[u]] /\ Labelled(u)'
    <3>1. CASE Deleted(u)
        BY <1>25, <3>1 DEF PutOrDelete, Deleted, TypeOK, Tree
    <3>2. CASE ~Deleted(u)
        BY <1>25, <2>1, <3>2, ServerAssumption DEF PutOrDelete, Deleted, Sidecar, TypeOK, Tree
    <3> QED BY <3>1, <3>2
  <2>3. \A v \in Uid \ {u} : Labelled(v)'
      BY <1>25, <2>1 DEF PutOrDelete, TypeOK, Tree
  <2> QED BY <1>25, <2>1, <2>2, <2>3 DEF PutOrDelete, TypeOK, Tree
<1>26. ASSUME NEW u \in Uid, ObjectFails(u) PROVE MirrorInv'
    BY <1>26 DEF ObjectFails
<1>27. ASSUME NEW u \in Uid, Delete(u) PROVE MirrorInv'
    BY <1>27 DEF Delete, Ingested
<1>28. ASSUME NEW u \in Uid, DeleteFails(u) PROVE MirrorInv'
    BY <1>28 DEF DeleteFails, Ingested
<1>29. ASSUME NEW u \in Uid, Keep(u) PROVE MirrorInv'
    BY <1>29 DEF Keep, Batch
<1>30. ASSUME NEW u \in Uid, NoAnswer(u) PROVE MirrorInv'
    BY <1>30 DEF NoAnswer, Unanswered
<1>31. ASSUME NEW u \in Uid, NEW t \in Uid \ {u}, Merge(u, t) PROVE MirrorInv'
    BY <1>31 DEF Merge, Batch, Unanswered
<1>32. CASE UNCHANGED vars
    BY <1>32
<1> HIDE DEF MirrorInv
<1> QED BY <1>1, <1>2, <1>3, <1>4, <1>5, <1>6, <1>7, <1>8, <1>9, <1>10, <1>11, <1>12, <1>13, <1>14, <1>15, <1>16, <1>17, <1>18, <1>19, <1>20, <1>21, <1>22, <1>23, <1>24, <1>25, <1>26, <1>27, <1>28, <1>29, <1>30, <1>31, <1>32
    DEF Next, Ingest, Logs, Cycle, Fail

(* Between ticks S3 is the last commit, with the status of each note, as long
   as nothing failed and no sync passed over a change (s3sync.go). *)
THEOREM MirrorHolds == Spec => []MirrorUnlessMissed
<1>1. Init => MirrorInv
    BY DEF Init, MirrorInv, Empty, Labelled, Mirrored
<1>2. MirrorInv => MirrorUnlessMissed
    BY DEF MirrorInv, MirrorUnlessMissed, Settled, Mirrored, Labelled
<1> QED BY <1>1, <1>2, InitT, NextT, NextPush, NextMirror, InitPush, PTL DEF Spec

-----------------------------------------------------------------------------
(* The notes whose messages were deleted *)

LEMMA NextKeep == TInv /\ PushInv /\ KeepInv /\ [Next]_vars => KeepInv'
<1> SUFFICES ASSUME TInv, PushInv, KeepInv, [Next]_vars PROVE KeepInv'
    OBVIOUS
<1>0. TypeOK /\ Flow
    BY DEF TInv
<1> USE <1>0 DEF Flow, KeepInv, Ingesting, Gone, Safe, Clean, Go, Return, Blame,
        vars, queue, git, bucket, ctl
<1>1. CASE NoMessages
    BY <1>1 DEF NoMessages
<1>2. CASE Add
  <2> SUFFICES ASSUME Safe' PROVE KeepInv'
      OBVIOUS
  <2>1. Safe /\ pc' = "commit" /\ job' = job /\ batch' = batch /\ tree' = tree /\ repo' = repo /\ Gone' = Gone
      BY <1>2 DEF Add, Gone
  <2>2. CASE job = "ingest"
    <3>1. idx' = [u \in Uid |-> IF u \in batch THEN tree[u] ELSE idx[u]]
        BY <1>2, <2>2 DEF Add
    <3>2. \A u \in batch : Written(u)
        BY <1>2, <2>1, <2>2 DEF Add
    <3>3. \A u \in batch : Held(u, tree) /\ Held(u, idx')
        BY <3>1, <3>2, <1>0 DEF Written, Held, In, TypeOK
    <3>4. ASSUME NEW w \in Uid, Held(w, idx) PROVE Held(w, idx')
      <4>1. PICK v \in In(idx) : w \in idx[v].facts
          BY <3>4 DEF Held
      <4>2. CASE v \in batch
        <5>1. w = v
            BY <4>1, <4>2, <3>2 DEF Written, In
        <5> QED BY <5>1, <4>2, <3>3
      <4>3. CASE v \notin batch
          BY <4>1, <4>3, <3>1 DEF Held, In
      <4> QED BY <4>2, <4>3
    <3> QED BY <2>1, <2>2, <3>3, <3>4 DEF Gone
  <2>3. CASE job # "ingest"
      BY <1>2, <2>1, <2>3 DEF Add
  <2> QED BY <2>2, <2>3
<1>3. CASE GitCommit
    BY <1>3 DEF GitCommit, Committed
<1>4. CASE NothingStaged
    BY <1>4 DEF NothingStaged
<1>5. CASE Push
    BY <1>5 DEF Push
<1>6. CASE StartSync
    BY <1>6 DEF StartSync
<1>7. CASE EndSync
    BY <1>7 DEF EndSync, AfterSync
<1>8. CASE CommitFails
    BY <1>8 DEF CommitFails
<1>9. CASE PushFails
    BY <1>9 DEF PushFails
<1>10. CASE SyncFails
    BY <1>10 DEF SyncFails, AfterSync
<1>11. CASE RetrieveFails
    BY <1>11 DEF RetrieveFails
<1>12. CASE NoLogs
    BY <1>12 DEF NoLogs
<1>13. CASE Dream
    BY <1>13 DEF Dream
<1>14. CASE Reindex
    BY <1>14 DEF Reindex
<1>15. CASE Retrieve
    BY <1>15 DEF Retrieve
<1>16. CASE EndBatches
    BY <1>16 DEF EndBatches
<1>17. CASE Crash
    BY <1>17 DEF Crash
<1>18. CASE Replace
    BY <1>18 DEF Replace
<1>19. CASE Elapse
  <2>1. Gone' = Gone
      BY <1>19 DEF Elapse, Gone, TypeOK
  <2> QED BY <1>19, <2>1 DEF Elapse, Written
<1>20. ASSUME NEW us \in SUBSET Uid, Receive(us) PROVE KeepInv'
    BY <1>20 DEF Receive
<1>21. ASSUME NEW us \in SUBSET Uid, Recalled(us) PROVE KeepInv'
  <2>1. ASSUME NEW w \in Uid, Held(w, tree) PROVE Held(w, tree')
    <3>1. PICK v \in In(tree) : w \in tree[v].facts
        BY <2>1 DEF Held
    <3>2. tree[v] \in Doc
        BY <3>1 DEF In, TypeOK, Tree
    <3>3. [tree[v] EXCEPT !.recalled = TRUE] \in Doc
        BY <3>2, DocRelabelled
    <3>4. [tree[v] EXCEPT !.recalled = TRUE].facts = tree[v].facts
        BY <3>2 DEF Doc
    <3>5. v \in Uid /\ tree'[v] \in {tree[v], [tree[v] EXCEPT !.recalled = TRUE]}
        BY <1>21, <3>1 DEF Recalled, In
    <3>6. tree'[v].facts = tree[v].facts /\ tree'[v] # Absent
        BY <3>2, <3>3, <3>4, <3>5, DocFacts
    <3> QED BY <3>1, <3>6 DEF Held, In
  <2> QED BY <1>21, <2>1 DEF Recalled, Gone
<1>22. ASSUME NEW u \in Uid, Submit(u) PROVE KeepInv'
  <2>1. Gone' = Gone
      BY <1>22 DEF Submit, Gone, TypeOK
  <2> QED BY <1>22, <2>1 DEF Submit, Written
<1>23. ASSUME NEW u \in Uid, Reappear(u) PROVE KeepInv'
  <2>1. Gone' = Gone
      BY <1>23 DEF Reappear, Gone, TypeOK
  <2> QED BY <1>23, <2>1 DEF Reappear, Written
<1>24. ASSUME NEW u \in Uid, Write(u) PROVE KeepInv'
  <2> SUFFICES ASSUME Safe' PROVE KeepInv'
      OBVIOUS
  <2>1. /\ Safe
        /\ tree[u] # Absent => tree[u].facts \subseteq {u}
        /\ idx[u] # Absent => idx[u].facts \subseteq {u}
      BY <1>24 DEF Write
  <2>2. tree' = [tree EXCEPT ![u] = Fresh(u)] /\ tree'[u] # Absent /\ tree'[u].facts = {u}
    <3>1. Fresh(u) \in Doc /\ Fresh(u).facts = {u}
        BY DocFacts DEF Fresh
    <3>2. tree' = [tree EXCEPT ![u] = Fresh(u)]
        BY <1>24 DEF Write
    <3> QED BY <3>1, <3>2, DocFacts DEF TypeOK, Tree
  <2>3. Written(u)'
      BY <1>24, <2>1, <2>2 DEF Written, Write
  <2>4. \A v \in Uid \ {u} : Written(v) => Written(v)'
      BY <1>24, <2>2 DEF Written, Write, TypeOK, Tree
  <2>5. ASSUME NEW w \in Uid, Held(w, tree) PROVE Held(w, tree')
    <3>1. PICK v \in In(tree) : w \in tree[v].facts
        BY <2>5 DEF Held
    <3>2. w \in tree'[v].facts /\ tree'[v] # Absent
        BY <3>1, <2>1, <2>2 DEF In, TypeOK, Tree
    <3> QED BY <3>1, <3>2 DEF Held, In
  <2>6. pc = "write" /\ job = "ingest" /\ batch' = batch /\ todo' = todo \ {u}
      BY <1>24 DEF Write
  <2>7. \A v \in batch \ todo' : Written(v)'
      BY <2>1, <2>3, <2>4, <2>6, <1>0 DEF TypeOK
  <2> QED BY <1>24, <2>1, <2>5, <2>6, <2>7 DEF Write, Gone
<1>25. ASSUME NEW u \in Uid, PutOrDelete(u) PROVE KeepInv'
    BY <1>25 DEF PutOrDelete
<1>26. ASSUME NEW u \in Uid, ObjectFails(u) PROVE KeepInv'
    BY <1>26 DEF ObjectFails
<1>27. ASSUME NEW u \in Uid, Delete(u) PROVE KeepInv'
    BY <1>27 DEF Delete, Ingested
<1>28. ASSUME NEW u \in Uid, DeleteFails(u) PROVE KeepInv'
    BY <1>28 DEF DeleteFails, Ingested
<1>29. ASSUME NEW u \in Uid, Keep(u) PROVE KeepInv'
  <2>1. ASSUME NEW w \in Uid, Held(w, tree) PROVE Held(w, tree')
    <3>1. PICK v \in In(tree) : w \in tree[v].facts
        BY <2>1 DEF Held
    <3>2. tree[v] \in Doc
        BY <3>1 DEF In, TypeOK, Tree
    <3>3. Rewritten("active", tree[v].facts) \in Doc
        BY <3>2, DocFacts DEF Rewritten
    <3>4. tree'[v] \in {tree[v], Rewritten("active", tree[v].facts)}
        BY <1>29, <3>1 DEF Keep, In, TypeOK, Tree
    <3>5. Rewritten("active", tree[v].facts).facts = tree[v].facts
        BY DEF Rewritten
    <3>6. tree'[v].facts = tree[v].facts /\ tree'[v] # Absent
        BY <3>2, <3>3, <3>4, <3>5, DocFacts
    <3> QED BY <3>1, <3>6 DEF Held, In
  <2> QED BY <1>29, <2>1 DEF Keep, Batch, Gone
<1>30. ASSUME NEW u \in Uid, NoAnswer(u) PROVE KeepInv'
    BY <1>30 DEF NoAnswer, Unanswered
<1>31. ASSUME NEW u \in Uid, NEW t \in Uid \ {u}, Merge(u, t) PROVE KeepInv'
  <2> SUFFICES ASSUME Safe' PROVE KeepInv'
      OBVIOUS
  <2> DEFINE facts == kb[u].facts \cup kb[t].facts
  <2>1. Safe /\ pc = "batch" /\ job = "dream" /\ job' = job
      BY <1>31 DEF Merge, Batch, Unanswered
  <2>2. ASSUME NEW w \in Uid, Held(w, tree) PROVE Held(w, tree')
    <3>1. CASE tree[t] = Absent
        BY <1>31, <3>1, <2>2 DEF Merge
    <3>2. CASE tree[t] # Absent
      <4>1. PICK v \in In(tree) : w \in tree[v].facts
          BY <2>2 DEF Held
      <4>2. v \in {u, t} => w \in facts
          BY <1>31, <3>2, <4>1 DEF Merge, In
      <4>3. tree' = [tree EXCEPT ![t] = Rewritten(tree[t].status, facts), ![u] = Absent]
          BY <1>31, <3>2 DEF Merge
      <4>4. tree'[t] = Rewritten(tree[t].status, facts) /\ tree'[t] # Absent /\ t \in Uid
        <5>1. tree'[t] = Rewritten(tree[t].status, facts) /\ t \in Uid
            BY <4>3 DEF TypeOK, Tree
        <5> QED BY <1>31, <3>2, <5>1, MergeType, DocFacts
      <4>5. CASE v \in {u, t}
          BY <4>2, <4>4, <4>5 DEF Held, In, Rewritten
      <4>6. CASE v \notin {u, t}
        <5>1. tree'[v] = tree[v]
            BY <4>1, <4>3, <4>6 DEF In, TypeOK, Tree
        <5> QED BY <5>1, <4>1 DEF Held, In
      <4> QED BY <4>5, <4>6
    <3> QED BY <3>1, <3>2
  <2> QED BY <1>31, <2>1, <2>2 DEF Merge, Batch, Unanswered, Gone
<1>32. CASE UNCHANGED vars
    BY <1>32 DEF Written, Gone
<1> HIDE DEF KeepInv
<1> QED BY <1>1, <1>2, <1>3, <1>4, <1>5, <1>6, <1>7, <1>8, <1>9, <1>10, <1>11, <1>12, <1>13, <1>14, <1>15, <1>16, <1>17, <1>18, <1>19, <1>20, <1>21, <1>22, <1>23, <1>24, <1>25, <1>26, <1>27, <1>28, <1>29, <1>30, <1>31, <1>32
    DEF Next, Ingest, Logs, Cycle, Fail

(* What was acknowledged is in the last commit, in a file of its own or merged
   into another, whatever fails, as long as no redelivery covers a merged note,
   no merge is of outdated text and no commit is lost unpushed (ingest.go). *)
THEOREM DeletedHolds == Spec => []DeletedIsKept
<1>1. Init => KeepInv
    BY DEF Init, KeepInv, Ingesting, Gone
<1>2. KeepInv => DeletedIsKept
    BY DEF KeepInv, Gone, Safe, DeletedIsKept, Held
<1> QED BY <1>1, <1>2, InitT, InitPush, NextT, NextPush, NextKeep, PTL DEF Spec
=============================================================================
