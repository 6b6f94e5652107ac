----------------------------- MODULE DreamCycle -----------------------------
(***************************************************************************)
(* The dream cycle over one knowledge base (cli/internal/dreamcycle, and   *)
(* cli/internal/server/dreamcycle.go for the server): pending notes are    *)
(* put into batches, a model answers each batch with actions, the actions  *)
(* rewrite the note files, and every batch ends in a commit.               *)
(*                                                                         *)
(* A note is its status and its facts.  A fact is named by the uid of the  *)
(* note it was captured in.  The model is assumed to do what its prompt    *)
(* asks (contents carry all facts of the notes it was SHOWN, merges go to  *)
(* another, active note); it may act on active notes too, and mention a    *)
(* note more than once.  What is checked is the code around it.            *)
(*                                                                         *)
(* captured, touched and hazard are history variables.                     *)
(***************************************************************************)
EXTENDS Naturals, Sequences, FiniteSets, Functions

CONSTANTS
  Uid,         \* note uids, drawn at random
  Absent,      \* there is no such file
  MaxActions   \* bound: actions in one answer of the model

Note == [status : {"pending", "active"}, facts : SUBSET Uid]
Tree == [Uid -> Note \cup {Absent}]

ASSUME DreamAssumption == Absent \notin Note /\ MaxActions \in Nat \ {0}

VARIABLES
  store,     \* "local" (localNoteStore) or "server" (serverNoteStore)
  note,      \* the work tree
  idx, head, \* git's index and the commit HEAD points to
  seen,      \* server: what the search index returns
  used,      \* uids handed out so far
  adding,    \* [Uid -> where a WriteNote of the approval server is]
  pc,        \* "idle", "batch", "apply", "add", "rm", "commit"
  snap,      \* the notes as phases 1 and 2 read them
  todo,      \* pending notes whose batch is still to come
  plan,      \* the actions still to be applied
  staged, deleted, \* localNoteStore's lists
  captured, touched, hazard

git     == <<idx, head>>
lists   == <<staged, deleted>>
others  == <<used, adding, captured>>
vars    == <<store, note, idx, head, seen, used, adding, pc, snap, todo, plan,
             staged, deleted, captured, touched, hazard>>

Nowhere == [u \in Uid |-> Absent]
In(t)      == {u \in Uid : t[u] # Absent}
Pending(t) == {u \in In(t) : t[u].status = "pending"}
Active(t)  == {u \in In(t) : t[u].status = "active"}
Facts(t)   == UNION {t[u].facts : u \in In(t)}
ActiveFacts(t) == UNION {t[u].facts : u \in Active(t)}

\* An action: the notes it takes (from) and will delete, the note it merges
\* into, and the contents it has still to write.
Action == [kind : {"keep", "merge", "split", "consolidate"},
           from : SUBSET Uid, to : SUBSET Uid, new : Seq(SUBSET Uid)]

TypeOK ==
  /\ store \in {"local", "server"}
  /\ note \in Tree /\ idx \in Tree /\ head \in Tree /\ seen \in Tree
  /\ used \subseteq Uid
  /\ adding \in [Uid -> {"no", "written", "added"}]
  /\ pc \in {"idle", "batch", "apply", "add", "rm", "commit"}
  /\ snap \in Tree /\ todo \subseteq Pending(snap)
  /\ plan \in Seq(Action)
  /\ staged \subseteq Uid /\ deleted \subseteq Uid
  /\ captured \subseteq used /\ touched \subseteq Uid
  /\ hazard \subseteq {"retouched", "outdated", "overtaken", "failed",
                        "crash"}

\* A repository at rest: some notes captured, some of them active already.
Init ==
  /\ store \in {"local", "server"}
  /\ note \in {t \in [Uid -> {Absent} \cup [status : {"pending", "active"},
                                            facts : {{u} : u \in Uid}]] :
                 \A u \in In(t) : t[u].facts = {u}}
  /\ idx = note /\ head = note
  /\ seen = IF store = "server" THEN note ELSE Nowhere
  /\ used = In(note) /\ captured = used
  /\ adding = [u \in Uid |-> "no"]
  /\ pc = "idle" /\ snap = Nowhere /\ todo = {} /\ plan = <<>>
  /\ staged = {} /\ deleted = {} /\ touched = {} /\ hazard = {}

-----------------------------------------------------------------------------
(* New notes.  Locally the approval server adds them at any time; on the   *)
(* server one goroutine ingests and dreams.                                *)

Captured(u) == [status |-> "pending", facts |-> {u}]

AddNote(u) ==
  /\ u \notin used /\ (store = "server" => pc = "idle")
  /\ note' = [note EXCEPT ![u] = Captured(u)]
  /\ used' = used \cup {u} /\ captured' = captured \cup {u}
  /\ adding' = [adding EXCEPT ![u] = "written"]
  /\ UNCHANGED <<store, git, seen, pc, snap, todo, plan, lists, touched, hazard>>

\* git add of a path that is in neither the tree nor the index is an error.
AddStage(u) ==
  /\ adding[u] = "written" /\ (store = "server" => pc = "idle")
  /\ note[u] # Absent \/ idx[u] # Absent
  /\ idx' = [idx EXCEPT ![u] = note[u]]
  /\ adding' = [adding EXCEPT ![u] = "added"]
  /\ UNCHANGED <<store, note, head, seen, used, pc, snap, todo, plan, lists,
                 captured, touched, hazard>>

AddCommit(u) ==
  /\ adding[u] = "added" /\ (store = "server" => pc = "idle")
  /\ head' = idx
  /\ adding' = [adding EXCEPT ![u] = "no"]
  /\ UNCHANGED <<store, note, idx, seen, used, pc, snap, todo, plan, lists,
                 captured, touched, hazard>>

\* git fails (another git holds index.lock, say) or the process dies.
AddFails(u) ==
  /\ adding[u] # "no" /\ (store = "server" => pc = "idle")
  /\ adding' = [adding EXCEPT ![u] = "no"]
  /\ hazard' = hazard \cup {"failed"}
  /\ UNCHANGED <<store, note, git, seen, used, pc, snap, todo, plan, lists,
                 captured, touched>>

\* An ingestion job brings the search index up to date.
Reindex ==
  /\ store = "server" /\ seen # note
  /\ seen' = note
  /\ UNCHANGED <<store, note, git, others, pc, snap, todo, plan, lists, touched,
                 hazard>>

-----------------------------------------------------------------------------
(* Phases 1 and 2, for all batches at once: the pending notes, and the     *)
(* active ones a search can find (git grep looks at tracked files only).   *)

Found ==
  [u \in Uid |->
     LET t == IF store = "local" THEN note ELSE seen
     IN IF u \in Pending(t) \/ (u \in Active(t) /\ (store = "local" => idx[u] # Absent))
          THEN t[u] ELSE Absent]

Start ==
  /\ pc = "idle" /\ Pending(Found) # {}
  /\ store = "server" => \A u \in Uid : adding[u] = "no"
  /\ snap' = Found /\ todo' = Pending(Found) /\ pc' = "batch"
  /\ hazard' = hazard \cup
       IF store = "server" /\ seen # note THEN {"outdated"} ELSE {}
  /\ UNCHANGED <<store, note, git, seen, others, plan, lists, touched>>

-----------------------------------------------------------------------------
(* Phase 3: the model's answer                                             *)

Known(p) == {p} \cup Active(snap)
Shown(S) == UNION {snap[u].facts : u \in S}

Keeps(p)  == {[kind |-> "keep", from |-> {u}, to |-> {u}, new |-> <<>>] : u \in Known(p)}
Merges(p) == UNION {{[kind |-> "merge", from |-> {u}, to |-> {t},
                      new |-> <<Shown({u, t})>>] : t \in Active(snap) \ {u}} :
                    u \in Known(p)}
Splits(p) == UNION {{[kind |-> "split", from |-> {u}, to |-> {},
                      new |-> <<F, snap[u].facts \ F>>] : F \in SUBSET snap[u].facts} :
                    u \in Known(p)}
Consolidations(p) ==
  {[kind |-> "consolidate", from |-> S, to |-> {}, new |-> <<Shown(S)>>] :
     S \in {T \in SUBSET Known(p) : Cardinality(T) >= 2}}
Actions(p) == Keeps(p) \cup Merges(p) \cup Splits(p) \cup Consolidations(p)

Answers(p) ==
  {a \in UNION {[1..n -> Actions(p)] : n \in 1..MaxActions} :
     \E i \in DOMAIN a : p \in a[i].from}

\* Bound: an answer whose new notes would run out of uids is not given.
NewNotes(a) == IF a.kind \in {"split", "consolidate"} THEN Len(a.new) ELSE 0
Fits(acts)  == FoldFunction(LAMBDA a, n : NewNotes(a) + n, 0, acts)
                 <= Cardinality(Uid \ used)

\* ConsolidateBatch accepts an answer that addresses the pending note.
Answer(p) ==
  /\ pc = "batch" /\ p \in todo
  /\ plan' \in {a \in Answers(p) : Fits(a)}
  /\ todo' = todo \ {p} /\ pc' = "apply"
  /\ UNCHANGED <<store, note, git, seen, others, snap, lists, touched, hazard>>

\* The call failed, the answer did not parse or did not address the note.
NoAnswer(p) ==
  /\ pc = "batch" /\ p \in todo
  /\ todo' = todo \ {p}
  /\ UNCHANGED <<store, note, git, seen, others, pc, snap, plan, lists, touched,
                 hazard>>

-----------------------------------------------------------------------------
(* Phase 3: applying the actions in order                                  *)

Applying(kinds) == pc = "apply" /\ plan # <<>> /\ Head(plan).kind \in kinds
Act == Head(plan)

\* writeNote of either store: only the local one keeps a list.
Put(u, n) ==
  /\ note' = [note EXCEPT ![u] = n]
  /\ staged' = IF store = "local" THEN staged \cup {u} ELSE staged

Keep ==
  /\ Applying({"keep"})
  /\ \E u \in Act.from :
       /\ note[u] # Absent
       /\ Put(u, [note[u] EXCEPT !.status = "active"])
  /\ plan' = Tail(plan)
  /\ UNCHANGED <<store, git, seen, others, pc, snap, todo, deleted, touched, hazard>>

\* The note to keep, or to merge into, was removed by an earlier action.
Skip ==
  /\ Applying({"keep", "merge"})
  /\ Act.kind = "merge" => Act.new # <<>>
  /\ \A u \in Act.to : note[u] = Absent
  /\ plan' = Tail(plan)
  /\ UNCHANGED <<store, note, git, seen, others, pc, snap, todo, lists, touched,
                 hazard>>

MergeWrite ==
  /\ Applying({"merge"}) /\ Act.new # <<>>
  /\ \E u \in Act.to :
       /\ note[u] # Absent
       /\ Put(u, [note[u] EXCEPT !.facts = Head(Act.new)])
       /\ touched' = touched \cup {u}
       /\ hazard' = hazard \cup IF u \in touched THEN {"retouched"} ELSE {}
  /\ plan' = [plan EXCEPT ![1].new = Tail(@)]
  /\ UNCHANGED <<store, git, seen, others, pc, snap, todo, deleted>>

WriteNew_Unlisted(u) ==
  /\ Applying({"split", "consolidate"}) /\ Act.new # <<>>
  /\ u \notin used
  /\ note' = [note EXCEPT ![u] = [status |-> "active", facts |-> Head(Act.new)]]
  /\ used' = used \cup {u}
  /\ plan' = [plan EXCEPT ![1].new = Tail(@)]
  /\ UNCHANGED <<store, git, seen, adding, captured, pc, snap, todo, lists,
                 touched, hazard>>

WriteNew(u) ==
  /\ Applying({"split", "consolidate"}) /\ Act.new # <<>>
  /\ u \notin used
  /\ Put(u, [status |-> "active", facts |-> Head(Act.new)])
  /\ used' = used \cup {u}
  /\ plan' = [plan EXCEPT ![1].new = Tail(@)]
  /\ UNCHANGED <<store, git, seen, adding, captured, pc, snap, todo, deleted,
                 touched, hazard>>

Removing(u) ==
  hazard' = hazard \cup
    (IF note[u] # Absent /\ u \in touched THEN {"retouched"} ELSE {}) \cup
    (IF adding[u] = "no" THEN {} ELSE {"overtaken"})

DeleteSource_First(u) ==
  /\ Applying({"merge", "split", "consolidate"})
  /\ u \in Act.from /\ note[u] # Absent
  /\ note' = [note EXCEPT ![u] = Absent]
  /\ deleted' = IF store = "local" THEN deleted \cup {u} ELSE deleted
  /\ plan' = IF Act.from = {u} /\ Act.new = <<>> THEN Tail(plan)
                               ELSE [plan EXCEPT ![1].from = @ \ {u}]
  /\ Removing(u)
  /\ UNCHANGED <<store, git, seen, others, pc, snap, todo, staged, touched>>

DeleteSource_Unlisted(u) ==
  /\ Applying({"merge", "split", "consolidate"}) /\ Act.new = <<>>
  /\ u \in Act.from /\ note[u] # Absent
  /\ note' = [note EXCEPT ![u] = Absent]
  /\ plan' = IF Act.from = {u} THEN Tail(plan)
                               ELSE [plan EXCEPT ![1].from = @ \ {u}]
  /\ Removing(u)
  /\ UNCHANGED <<store, git, seen, others, pc, snap, todo, lists, touched>>

\* DeleteNote: a missing file is no error locally, and none that counts when
\* consolidating.
DeleteSource(u) ==
  /\ Applying({"merge", "split", "consolidate"}) /\ Act.new = <<>>
  /\ u \in Act.from
  /\ note[u] # Absent \/ store = "local" \/ Act.kind = "consolidate"
  /\ note' = [note EXCEPT ![u] = Absent]
  /\ deleted' = IF store = "local" THEN deleted \cup {u} ELSE deleted
  /\ plan' = IF Act.from = {u} THEN Tail(plan)
                               ELSE [plan EXCEPT ![1].from = @ \ {u}]
  /\ Removing(u)
  /\ UNCHANGED <<store, git, seen, others, pc, snap, todo, staged, touched>>

\* A read, a write or a removal fails (on the server also the removal of a
\* missing note): the batch ends here, without a commit.
ActionFails ==
  /\ pc = "apply" /\ plan # <<>>
  /\ plan' = <<>> /\ pc' = "batch"
  /\ hazard' = hazard \cup {"failed"}
  /\ UNCHANGED <<store, note, git, seen, others, snap, todo, lists, touched>>

Applied ==
  /\ pc = "apply" /\ plan = <<>>
  /\ pc' = "add"
  /\ UNCHANGED <<store, note, git, seen, others, snap, todo, plan, lists, touched,
                 hazard>>

-----------------------------------------------------------------------------
(* CommitBatch                                                             *)

GitAdd ==
  /\ pc = "add"
  /\ \A u \in staged : note[u] # Absent \/ idx[u] # Absent
  /\ idx' = [u \in Uid |-> IF u \in staged \/ store = "server" THEN note[u] ELSE idx[u]]
  /\ pc' = IF store = "local" THEN "rm" ELSE "commit"
  /\ UNCHANGED <<store, note, head, seen, others, snap, todo, plan, lists, touched,
                 hazard>>

GitAddFails_GoesOn ==
  /\ pc = "add" /\ pc' = "rm"
  /\ hazard' = hazard \cup {"failed"}
  /\ UNCHANGED <<store, note, git, seen, others, snap, todo, plan, lists, touched>>

\* The lists stay: the next batch of the run takes them along.
GitAddFails ==
  /\ pc = "add" /\ pc' = "batch"
  /\ hazard' = hazard \cup {"failed"}
  /\ UNCHANGED <<store, note, git, seen, others, snap, todo, plan, lists, touched>>

\* One git rm per file, whose errors are ignored.
GitRm ==
  /\ pc = "rm" /\ pc' = "commit"
  /\ \E R \in SUBSET deleted :
       /\ idx' = [u \in Uid |-> IF u \in R THEN Absent ELSE idx[u]]
       /\ note' = [u \in Uid |-> IF u \in R /\ idx[u] # Absent THEN Absent ELSE note[u]]
       /\ hazard' = hazard \cup
            IF \E u \in deleted \ R : idx[u] # Absent THEN {"failed"} ELSE {}
  /\ UNCHANGED <<store, head, seen, others, snap, todo, plan, lists, touched>>

GitCommit ==
  /\ pc = "commit" /\ pc' = "batch"
  /\ head' = idx
  /\ staged' = {} /\ deleted' = {}
  /\ UNCHANGED <<store, note, idx, seen, others, snap, todo, plan, touched, hazard>>

GitCommitFails ==
  /\ pc = "commit" /\ pc' = "batch"
  /\ staged' = {} /\ deleted' = {}
  /\ hazard' = hazard \cup {"failed"}
  /\ UNCHANGED <<store, note, git, seen, others, snap, todo, plan, touched>>

\* The store and the batches of the run are gone.
Forget ==
  /\ snap' = Nowhere /\ todo' = {} /\ plan' = <<>>
  /\ staged' = {} /\ deleted' = {} /\ touched' = {}

Finish ==
  /\ pc = "batch" /\ todo = {}
  /\ pc' = "idle" /\ Forget
  /\ UNCHANGED <<store, note, git, seen, others, hazard>>

\* The process dies; files and git stay as they are.
Crash ==
  /\ pc # "idle" /\ pc' = "idle" /\ Forget
  /\ hazard' = hazard \cup {"crash"}
  /\ UNCHANGED <<store, note, git, seen, others>>

Cycle ==
  \/ Start \/ \E p \in Uid : Answer(p) \/ NoAnswer(p)
  \/ Keep \/ Skip \/ MergeWrite \/ \E u \in Uid : WriteNew(u) \/ DeleteSource(u)
  \/ ActionFails \/ Applied
  \/ GitAdd \/ GitAddFails \/ GitRm \/ GitCommit \/ GitCommitFails
  \/ Finish \/ Crash

Next ==
  \/ \E u \in Uid : AddNote(u) \/ AddStage(u) \/ AddCommit(u) \/ AddFails(u)
  \/ Reindex \/ Cycle

Spec == Init /\ [][Next]_vars

-----------------------------------------------------------------------------
(* Properties *)

\* No note was rewritten or deleted that the same cycle had rewritten since
\* its batches read it, and no batch came from an old search index.
Current == hazard \cap {"retouched", "outdated"} = {}

(* What was captured is in some note of the work tree at every moment,     *)
(* whatever the order of the actions and wherever a batch breaks off.      *)
NothingForgotten == Current => captured \subseteq Facts(note)

(* When nothing failed, a cycle that ended has committed all its changes:  *)
(* the lists of localNoteStore cover what the actions did to the files.    *)
AtRestCommitted ==
  hazard \subseteq {"retouched"} /\ pc = "idle" /\ (\A u \in Uid : adding[u] = "no")
    => head = note

(* What HEAD holds once is never dropped by a later commit, not even by    *)
(* one that takes over what a failed batch or a crash left behind.         *)
HeadKeeps ==
  [][Current' /\ "overtaken" \notin hazard' => Facts(head) \subseteq Facts(head')]_vars

(* What recall finds: locally git grep, which looks at tracked files and   *)
(* keeps the hits whose file is active; on the server the search index.    *)
Finds ==
  IF store = "local" THEN UNION {note[u].facts : u \in {v \in Active(note) : idx[v] # Absent}}
                     ELSE ActiveFacts(seen)

(* What it will find once the running batch has done its git add *)
Coming ==
  IF store = "local" /\ pc \in {"apply", "add"}
    THEN UNION {note[u].facts : u \in Active(note) \cap staged} ELSE {}

NothingFailed == hazard \cap {"failed", "crash"} = {}

(* What active notes hold stays in active notes, whatever fails: the new   *)
(* note is there before the old one goes.  It is not found all the time.   *)
(* Locally a new note is untracked from the deletion of its sources to the *)
(* git add of its batch; but what recall finds before a step it finds      *)
(* after it, or the batch has it on its list for that git add.  A failure  *)
(* or a crash before the git add ends this; on the server, where recall    *)
(* reads the index, nothing does.                                          *)
StaysRecallable ==
  [][Current' =>
       /\ ActiveFacts(note) \subseteq ActiveFacts(note')
       /\ store = "server" \/ NothingFailed' =>
            Finds \cup Coming \subseteq Finds' \cup Coming']_vars
=============================================================================
