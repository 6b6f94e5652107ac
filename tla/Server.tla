-------------------------------- MODULE Server --------------------------------
(***************************************************************************)
(* The server's data path (cli/internal/server): notes come from an SQS    *)
(* queue, are written and committed in a clone of the repository, pushed,  *)
(* copied to S3 by the difference of the last two commits, and rewritten   *)
(* there by dream cycles and by the daily recall-log run.  One goroutine   *)
(* does all of it, a tick at a time; the queue, the search index and the   *)
(* machine below it are on their own.                                      *)
(*                                                                         *)
(* A note file is [status, facts, recalled]: the facts are the uids of the *)
(* notes whose content it carries, recalled says whether last-recalled has *)
(* a date.  Module DreamCycle has the consolidation in detail; here a      *)
(* batch keeps or merges its note, or fails half-way.                      *)
(***************************************************************************)
EXTENDS Naturals, FiniteSets

CONSTANTS
  Uid,          \* uids of submitted notes
  Malformed,    \* those whose message cannot be parsed
  Absent,       \* no such file or object
  MaxReceives,  \* redrive count of the queue
  MaxFaults     \* bound on the failures, crashes and losses of the machine

ASSUME ServerAssumption ==
  /\ Malformed \subseteq Uid
  /\ MaxReceives \in Nat \ {0}
  /\ MaxFaults \in Nat
  /\ Absent \notin [status : {"pending", "active"}, facts : SUBSET Uid, recalled : BOOLEAN]

VARIABLES
  msg,       \* [uid -> where its message is]
  receives,  \* [uid -> how often it was received]
  tree,      \* the work tree
  idx,       \* git's index
  repo,      \* the last commit: its tree, what it changed, how many there are
  remote,    \* the same of the repository it is pushed to
  s3,        \* [uid -> the object]
  side,      \* [uid -> the status in its metadata object]
  kb,        \* [uid -> what the search index returns for it]
  due,       \* a dream cycle is due
  job,       \* what the tick is doing
  pc,        \* and where in it
  batch,     \* uids received, or recalled
  todo,      \* uids still to be handled by the current loop
  pushed,    \* the last push went through (history)
  hazard,    \* what went wrong so far (history)
  faults     \* how often something failed, up to MaxFaults

queue  == <<msg, receives>>
git    == <<tree, idx, repo, remote>>
bucket == <<s3, side>>
ctl    == <<job, pc, batch, todo>>
vars   == <<queue, git, bucket, kb, due, ctl, pushed, hazard, faults>>

Doc    == [status : {"pending", "active"}, facts : SUBSET Uid, recalled : BOOLEAN]
Tree   == [Uid -> Doc \cup {Absent}]
Commit == [tree : Tree, changed : SUBSET Uid, n : 0..2]
Empty  == [u \in Uid |-> Absent]
In(t)  == {u \in Uid : t[u] # Absent}

Hazards == {"overwritten", "stale", "failed", "missed", "dirty", "crash", "unpushed"}

TypeOK ==
  /\ msg \in [Uid -> {"none", "queued", "taken", "gone", "dead"}]
  /\ receives \in [Uid -> 0..MaxReceives]
  /\ tree \in Tree /\ idx \in Tree
  /\ repo \in Commit /\ remote \in Commit
  /\ s3 \in Tree
  /\ side \in [Uid -> {"none", "pending", "active"}]
  /\ kb \in Tree
  /\ due \in BOOLEAN
  /\ job \in {"none", "ingest", "phase0", "dream", "phase4", "recall"}
  /\ pc \in {"idle", "write", "add", "commit", "push", "sync", "object", "delete",
             "logs", "reindex", "retrieve", "batch"}
  /\ batch \subseteq Uid /\ todo \subseteq Uid
  /\ pushed \in BOOLEAN
  /\ hazard \subseteq Hazards
  /\ faults \in 0..MaxFaults

Init ==
  /\ msg = [u \in Uid |-> "none"]
  /\ receives = [u \in Uid |-> 0]
  /\ tree = Empty /\ idx = Empty
  /\ repo = [tree |-> Empty, changed |-> {}, n |-> 0] /\ remote = repo
  /\ s3 = Empty /\ side = [u \in Uid |-> "none"] /\ kb = Empty
  /\ due = TRUE
  /\ job = "none" /\ pc = "idle" /\ batch = {} /\ todo = {}
  /\ pushed = TRUE /\ hazard = {} /\ faults = 0

Go(p)     == pc' = p /\ UNCHANGED <<job, batch>>
Blame(h)  == /\ faults < MaxFaults /\ faults' = faults + 1
             /\ hazard' = hazard \cup {h}

(* The tick is over.  An ingestion, whatever came of it, is followed by the
   question whether the recall logs are due. *)
Return ==
  /\ batch' = {} /\ todo' = {}
  /\ IF job = "ingest" THEN pc' = "logs" /\ UNCHANGED job
                       ELSE pc' = "idle" /\ job' = "none"

-----------------------------------------------------------------------------
(* The queue and the clock *)

Submit(u) ==
  /\ msg[u] = "none"
  /\ msg' = [msg EXCEPT ![u] = "queued"]
  /\ UNCHANGED <<receives, git, bucket, kb, due, ctl, pushed, hazard, faults>>

(* Fault: no redrive policy *)
Reappear_Uncapped(u) ==
  /\ msg[u] = "taken"
  /\ msg' = [msg EXCEPT ![u] = "queued"]
  /\ UNCHANGED <<receives, git, bucket, kb, due, ctl, pushed, hazard, faults>>

(* The visibility timeout of a message that was received and not deleted *)
Reappear(u) ==
  /\ msg[u] = "taken"
  /\ msg' = [msg EXCEPT ![u] = IF receives[u] < MaxReceives THEN "queued" ELSE "dead"]
  /\ UNCHANGED <<receives, git, bucket, kb, due, ctl, pushed, hazard, faults>>

Elapse ==
  /\ ~due
  /\ due' = TRUE
  /\ UNCHANGED <<queue, git, bucket, kb, ctl, pushed, hazard, faults>>

-----------------------------------------------------------------------------
(* RunIngestion *)

Receive(us) ==
  /\ pc = "idle" /\ ~due
  /\ us # {} /\ \A u \in us : msg[u] = "queued"
  /\ msg' = [u \in Uid |-> IF u \in us THEN "taken" ELSE msg[u]]
  /\ receives' = [u \in Uid |-> IF u \in us THEN receives[u] + 1 ELSE receives[u]]
  /\ job' = "ingest"
  /\ batch' = us \ Malformed /\ todo' = batch'
  /\ pc' = IF batch' = {} THEN "logs" ELSE "write"
  /\ UNCHANGED <<git, bucket, kb, due, pushed, hazard, faults>>

(* No messages, or no answer from the queue *)
NoMessages ==
  /\ pc = "idle" /\ ~due
  /\ job' = "ingest" /\ pc' = "logs"
  /\ UNCHANGED <<queue, git, bucket, kb, due, batch, todo, pushed, hazard, faults>>

Fresh(u) == [status |-> "pending", facts |-> {u}, recalled |-> FALSE]

(* Hazard: the file is there, or was when something was last staged, and says
   more than the message *)
Write(u) ==
  /\ pc = "write" /\ u \in todo
  /\ tree' = [tree EXCEPT ![u] = Fresh(u)]
  /\ todo' = todo \ {u}
  /\ pc' = IF todo' = {} THEN "add" ELSE pc
  /\ hazard' = hazard \cup (IF \E t \in {tree, idx} : t[u] # Absent /\ ~(t[u].facts \subseteq {u})
                            THEN {"overwritten"} ELSE {})
  /\ UNCHANGED <<queue, idx, repo, remote, bucket, kb, due, job, batch, pushed, faults>>

-----------------------------------------------------------------------------
(* git.  Ingestion adds its own files; the dream cycle and the recall-log
   run add everything. *)

Add ==
  /\ pc = "add"
  /\ idx' = IF job = "ingest" THEN [u \in Uid |-> IF u \in batch THEN tree[u] ELSE idx[u]]
                              ELSE tree
  /\ Go("commit")
  /\ UNCHANGED <<queue, tree, repo, remote, bucket, kb, due, todo, pushed, hazard, faults>>

(* After a commit: ingestion and recall logs push, a dream cycle goes on to
   its next batch *)
Committed == Go(IF job = "dream" THEN "batch" ELSE "push")

GitCommit ==
  /\ pc = "commit" /\ idx # repo.tree
  /\ repo' = [tree    |-> idx,
              changed |-> {u \in Uid : idx[u] # repo.tree[u]},
              n       |-> IF repo.n < 2 THEN repo.n + 1 ELSE 2]
  /\ Committed
  /\ UNCHANGED <<queue, tree, idx, remote, bucket, kb, due, todo, pushed, hazard, faults>>

(* Ingestion asks git first whether anything is staged, and if not returns
   without a push; for the others git commit fails *)
NothingStaged ==
  /\ pc = "commit" /\ idx = repo.tree
  /\ \/ job = "ingest" /\ Go("sync") /\ UNCHANGED todo
     \/ job = "dream"  /\ Go("batch") /\ UNCHANGED todo
     \/ job = "recall" /\ Return
  /\ UNCHANGED <<queue, git, bucket, kb, due, pushed, hazard, faults>>

(* Fault: the error of CommitBatch is logged like that of the sync *)
CommitFails_Logged ==
  /\ pc \in {"write", "add", "commit"}
  /\ IF job = "dream" THEN Go("batch") /\ UNCHANGED todo
     ELSE IF job = "recall" THEN Return
     ELSE Go("sync") /\ todo' = {}
  /\ Blame("failed")
  /\ UNCHANGED <<queue, git, bucket, kb, due, pushed>>

(* A file cannot be written, or git add or git commit fails: the batch is
   given up, its messages stay on the queue *)
CommitFails ==
  /\ pc \in {"write", "add", "commit"}
  /\ IF job = "dream" THEN Go("batch") /\ UNCHANGED todo ELSE Return
  /\ Blame("failed")
  /\ UNCHANGED <<queue, git, bucket, kb, due, pushed>>

Push ==
  /\ pc = "push"
  /\ remote' = repo
  /\ pushed' = TRUE
  /\ Go("sync")
  /\ UNCHANGED <<queue, tree, idx, repo, bucket, kb, due, todo, hazard, faults>>

(* Only the dream cycle goes on to the S3 sync *)
PushFails ==
  /\ pc = "push"
  /\ pushed' = FALSE
  /\ IF job = "phase4" THEN Go("sync") /\ UNCHANGED todo ELSE Return
  /\ Blame("failed")
  /\ UNCHANGED <<queue, git, bucket, kb, due>>

-----------------------------------------------------------------------------
(* SyncToS3: what the last commit changed, or everything that is tracked if
   it is the first *)

Changed == IF repo.n < 2 THEN In(idx) ELSE repo.changed

Behind == {u \in Uid : s3[u] # repo.tree[u]}

(* Hazards: an object is behind that the sync will not look at, or a file
   it will upload is not as it was committed *)
StartSync ==
  /\ pc = "sync"
  /\ todo' = Changed
  /\ Go("object")
  /\ hazard' = hazard \cup (IF Behind \subseteq Changed THEN {} ELSE {"missed"})
                      \cup (IF \E u \in Changed : tree[u] # repo.tree[u] THEN {"dirty"} ELSE {})
  /\ UNCHANGED <<queue, git, bucket, kb, due, pushed, faults>>

(* generateSidecar *)
Sidecar(u) == tree[u].status

Deleted(u) == repo.n = 2 /\ repo.tree[u] = Absent

(* Fault: the metadata object of a deleted note stays *)
PutOrDelete_Orphan(u) ==
  /\ pc = "object" /\ u \in todo
  /\ todo' = todo \ {u}
  /\ IF Deleted(u)
     THEN /\ s3' = [s3 EXCEPT ![u] = Absent]
          /\ UNCHANGED side
     ELSE IF tree[u] = Absent THEN UNCHANGED bucket
     ELSE /\ s3' = [s3 EXCEPT ![u] = tree[u]]
          /\ side' = [side EXCEPT ![u] = Sidecar(u)]
  /\ UNCHANGED <<queue, git, kb, due, job, pc, batch, pushed, hazard, faults>>

(* What is uploaded is the file in the work tree; one that is not there is
   passed over *)
PutOrDelete(u) ==
  /\ pc = "object" /\ u \in todo
  /\ todo' = todo \ {u}
  /\ IF Deleted(u)
     THEN /\ s3' = [s3 EXCEPT ![u] = Absent]
          /\ side' = [side EXCEPT ![u] = "none"]
     ELSE IF tree[u] = Absent THEN UNCHANGED bucket
     ELSE /\ s3' = [s3 EXCEPT ![u] = tree[u]]
          /\ side' = [side EXCEPT ![u] = Sidecar(u)]
  /\ UNCHANGED <<queue, git, kb, due, job, pc, batch, pushed, hazard, faults>>

(* Body and metadata are separate objects, each tried three times: both
   fail, or the metadata *)
ObjectFails(u) ==
  /\ pc = "object" /\ u \in todo
  /\ todo' = todo \ {u}
  /\ \/ UNCHANGED s3
     \/ Deleted(u) /\ s3' = [s3 EXCEPT ![u] = Absent]
     \/ ~Deleted(u) /\ tree[u] # Absent /\ s3' = [s3 EXCEPT ![u] = tree[u]]
  /\ UNCHANGED side
  /\ Blame("failed")
  /\ UNCHANGED <<queue, git, kb, due, job, pc, batch, pushed>>

(* A failed sync is logged, and the caller goes on *)
AfterSync ==
  IF job = "ingest" THEN Go("delete") /\ todo' = batch
  ELSE IF job = "recall" THEN Return
  ELSE Go("reindex") /\ todo' = {}

EndSync ==
  /\ pc = "object" /\ todo = {}
  /\ AfterSync
  /\ UNCHANGED <<queue, git, bucket, kb, due, pushed, hazard, faults>>

SyncFails ==
  /\ pc = "sync"
  /\ AfterSync
  /\ Blame("failed")
  /\ UNCHANGED <<queue, git, bucket, kb, due, pushed>>

-----------------------------------------------------------------------------
(* The end of an ingestion: the messages are deleted, even one that is
   visible again, unless the call fails *)

Ingested(u) == pc' = IF todo' = {} THEN "logs" ELSE pc

Delete(u) ==
  /\ pc = "delete" /\ u \in todo
  /\ todo' = todo \ {u} /\ Ingested(u)
  /\ msg' = [msg EXCEPT ![u] = IF @ = "dead" THEN @ ELSE "gone"]
  /\ UNCHANGED <<receives, git, bucket, kb, due, job, batch, pushed, hazard, faults>>

DeleteFails(u) ==
  /\ pc = "delete" /\ u \in todo
  /\ todo' = todo \ {u} /\ Ingested(u)
  /\ Blame("failed")
  /\ UNCHANGED <<queue, git, bucket, kb, due, job, batch, pushed>>

-----------------------------------------------------------------------------
(* RunRecallLogProcessing, in the same tick *)

NoLogs ==
  /\ pc = "logs"
  /\ pc' = "idle" /\ job' = "none" /\ batch' = {}
  /\ UNCHANGED <<queue, git, bucket, kb, due, todo, pushed, hazard, faults>>

(* What was recalled yesterday: the recall API returns active notes.  Bound:
   a note gets its date once until it is rewritten, and one that a redelivery
   has made pending meanwhile does not. *)
Recalled(us) ==
  /\ pc = "logs"
  /\ us # {} /\ us \subseteq In(tree)
  /\ \A u \in us : tree[u].status = "active" /\ ~tree[u].recalled
  /\ tree' = [u \in Uid |-> IF u \in us THEN [tree[u] EXCEPT !.recalled = TRUE] ELSE tree[u]]
  /\ job' = "recall" /\ pc' = "add" /\ batch' = us
  /\ UNCHANGED <<queue, idx, repo, remote, bucket, kb, due, todo, pushed, hazard, faults>>

-----------------------------------------------------------------------------
(* RunDreamCycle *)

Dream ==
  /\ pc = "idle" /\ due
  /\ job' = "phase0" /\ pc' = "sync"
  /\ UNCHANGED <<queue, git, bucket, kb, due, batch, todo, pushed, hazard, faults>>

(* The ingestion job reads what is in S3, or fails or takes too long *)
Reindex ==
  /\ pc = "reindex"
  /\ kb' \in {kb, [u \in Uid |-> IF s3[u] = Absent \/ side[u] = "none" THEN Absent
                                 ELSE [s3[u] EXCEPT !.status = side[u], !.recalled = FALSE]]}
  /\ IF job = "phase0" THEN job' = "dream" /\ pc' = "retrieve" /\ UNCHANGED due
                       ELSE job' = "none" /\ pc' = "idle" /\ due' = FALSE
  /\ UNCHANGED <<queue, git, bucket, batch, todo, pushed, hazard, faults>>

Pending == {u \in In(kb) : kb[u].status = "pending"}
Active  == {u \in In(kb) : kb[u].status = "active"}

(* Fault: a cycle without pending notes does not count as run *)
Retrieve_StillDue ==
  /\ pc = "retrieve"
  /\ todo' = Pending
  /\ IF Pending = {} THEN pc' = "idle" /\ job' = "none"
                     ELSE pc' = "batch" /\ UNCHANGED job
  /\ UNCHANGED <<queue, git, bucket, kb, due, batch, pushed, hazard, faults>>

(* Phase 1: a batch for each pending note *)
Retrieve ==
  /\ pc = "retrieve"
  /\ todo' = Pending
  /\ IF Pending = {} THEN pc' = "idle" /\ job' = "none" /\ due' = FALSE
                     ELSE pc' = "batch" /\ UNCHANGED <<job, due>>
  /\ UNCHANGED <<queue, git, bucket, kb, batch, pushed, hazard, faults>>

(* Then the dream cycle is due again at the next tick *)
RetrieveFails ==
  /\ pc = "retrieve"
  /\ Return
  /\ Blame("failed")
  /\ UNCHANGED <<queue, git, bucket, kb, due, pushed>>

Batch(u) ==
  /\ pc = "batch" /\ u \in todo
  /\ todo' = todo \ {u}
  /\ Go("add")

Unanswered(u) ==
  /\ pc = "batch" /\ u \in todo
  /\ todo' = todo \ {u}
  /\ UNCHANGED <<job, pc, batch>>

Rewritten(status, facts) == [status |-> status, facts |-> facts, recalled |-> FALSE]

(* A note that is gone is skipped *)
Keep(u) ==
  /\ Batch(u)
  /\ tree' = IF tree[u] = Absent THEN tree
             ELSE [tree EXCEPT ![u] = Rewritten("active", tree[u].facts)]
  /\ UNCHANGED <<queue, idx, repo, remote, bucket, kb, due, pushed, hazard, faults>>

(* The target is written with what the index had of both notes, then the
   source is deleted; if it is gone, that is an error and nothing is
   committed.  Hazard: the files said more. *)
Merge(u, t) ==
  LET facts == kb[u].facts \cup kb[t].facts
  IN /\ t \in Active
     /\ IF tree[t] = Absent THEN Batch(u) /\ UNCHANGED <<tree, hazard>>
        ELSE /\ IF tree[u] # Absent THEN Batch(u) ELSE Unanswered(u)
             /\ tree' = [tree EXCEPT ![t] = Rewritten(tree[t].status, facts), ![u] = Absent]
             /\ hazard' = hazard \cup (IF \A v \in {u, t} \cap In(tree) : tree[v].facts \subseteq facts
                                       THEN {} ELSE {"stale"})
     /\ UNCHANGED <<queue, idx, repo, remote, bucket, kb, due, pushed, faults>>

(* The model does not answer, or not as it should *)
NoAnswer(u) ==
  /\ Unanswered(u)
  /\ UNCHANGED <<queue, git, bucket, kb, due, pushed, hazard, faults>>

(* Fault: phase 4 syncs without a push *)
EndBatches_NoPush ==
  /\ pc = "batch" /\ todo = {}
  /\ job' = "phase4" /\ pc' = "sync"
  /\ UNCHANGED <<queue, git, bucket, kb, due, batch, todo, pushed, hazard, faults>>

EndBatches ==
  /\ pc = "batch" /\ todo = {}
  /\ job' = "phase4" /\ pc' = "push"
  /\ UNCHANGED <<queue, git, bucket, kb, due, batch, todo, pushed, hazard, faults>>

-----------------------------------------------------------------------------
(* The process dies, and is started again: a dream cycle is due *)
Crash ==
  /\ pc # "idle"
  /\ pc' = "idle" /\ job' = "none" /\ batch' = {} /\ todo' = {}
  /\ due' = TRUE
  /\ pushed' = (pushed /\ repo = remote)
  /\ Blame("crash")
  /\ UNCHANGED <<queue, git, bucket, kb>>

(* The machine is replaced; the new one clones the repository.  Hazard: the
   old one had a commit it did not push. *)
Replace ==
  /\ pc = "idle"
  /\ repo' = remote /\ tree' = remote.tree /\ idx' = remote.tree
  /\ due' = TRUE
  /\ pushed' = TRUE
  /\ hazard' = hazard \cup (IF repo = remote THEN {} ELSE {"unpushed"})
  /\ UNCHANGED <<queue, remote, bucket, kb, ctl, faults>>

-----------------------------------------------------------------------------
Ingest ==
  \/ NoMessages \/ Add \/ GitCommit \/ NothingStaged \/ Push \/ StartSync \/ EndSync
  \/ \E us \in SUBSET Uid : Receive(us)
  \/ \E u \in Uid : Write(u) \/ PutOrDelete(u) \/ Delete(u)
Logs == NoLogs \/ \E us \in SUBSET Uid : Recalled(us)
Cycle ==
  \/ Dream \/ Reindex \/ Retrieve \/ EndBatches
  \/ \E u \in Uid : Keep(u) \/ NoAnswer(u) \/ \E t \in Uid \ {u} : Merge(u, t)
Fail ==
  \/ CommitFails \/ PushFails \/ SyncFails \/ RetrieveFails
  \/ \E u \in Uid : ObjectFails(u) \/ DeleteFails(u)

Next ==
  \/ \E u \in Uid : Submit(u) \/ Reappear(u)
  \/ Elapse \/ Ingest \/ Logs \/ Cycle \/ Fail \/ Crash \/ Replace

Spec == Init /\ [][Next]_vars

(* The goroutine goes on with what it does; a due dream cycle is run at the
   next tick; a message that is not deleted becomes visible again.  A dream
   cycle is shorter than dream_cycle.interval, or no tick would ever be left
   for ingestion; with that, a queued message is received in one of the ticks
   in between. *)
Working == pc # "idle" /\ (Ingest \/ Logs \/ Cycle)

Fairness ==
  /\ WF_vars(Working) /\ WF_vars(Dream)
  /\ \A u \in Uid : /\ WF_vars(Reappear(u))
                     /\ SF_vars(\E us \in SUBSET Uid : u \in us /\ Receive(us))

FairSpec == Spec /\ Fairness

-----------------------------------------------------------------------------
Clean(hs) == hazard \cap hs = {}

(* A message leaves the queue for its note's being in the last commit, in a
   file of its own or merged into another, and nothing but a redelivery over
   a merged note, a merge of outdated text or the loss of an unpushed commit
   takes it out again. *)
DeletedIsKept ==
  Clean({"overwritten", "stale", "unpushed"}) =>
    \A u \in Uid : msg[u] = "gone" => \E v \in In(repo.tree) : u \in repo.tree[v].facts

(* Between ticks the remote repository is behind only as long as the last
   push failed or was cut (each push takes along what failed before). *)
PushedUnlessFailed == pc = "idle" /\ pushed => repo = remote

(* Between ticks S3 is the last commit, and each object's metadata has its
   status, as long as nothing failed, the process was not cut, and no sync
   began with a file behind that the last commit did not change, or uncommitted.
   Both happen without a failure: a dream cycle makes a commit for each batch
   and syncs once, and a batch that ends in an error leaves what it wrote. *)
MirrorUnlessMissed ==
  pc = "idle" /\ Clean({"failed", "missed", "dirty", "crash"}) =>
    \A u \in Uid :
      /\ s3[u] = repo.tree[u]
      /\ side[u] = IF s3[u] = Absent THEN "none" ELSE s3[u].status

(* A replacement of the machine loses no note whose message was deleted: it
   is in the repository that the new machine clones. *)
AckedIsPushed ==
  Clean({"overwritten", "stale"}) =>
    \A u \in Uid : msg[u] = "gone" => \E v \in In(remote.tree) : u \in remote.tree[v].facts

(* Every submitted message is in the end ingested and deleted, or, if it
   cannot be parsed or its ingestion fails each time, in the dead-letter
   queue: no failure, crash or dream cycle blocks the queue for good. *)
QueueDrains == \A u \in Uid : msg[u] = "queued" ~> msg[u] \in {"gone", "dead"}
=============================================================================
