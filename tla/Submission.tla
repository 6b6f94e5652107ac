------------------------------ MODULE Submission ------------------------------
(***************************************************************************)
(* How a capture run gets routed notes to their knowledge bases            *)
(* (cli/internal/cmd/process.go, submitNote and its loop), one note and    *)
(* target, a job, after the other: staged for manual approval, written to  *)
(* a local repository, or sent to a remote endpoint                        *)
(* (cli/internal/submit/remote.go), whose handler                          *)
(* (cdk/lambda/submit/index.ts) validates it and puts it on a queue.       *)
(*                                                                         *)
(* A request is tried three times; the answer of one that was accepted may *)
(* be lost.  A note the server finds invalid is given to the model for     *)
(* correction twice and then staged.                                       *)
(*                                                                         *)
(* copies, lost and fate are history: a job's fate is what submitNote      *)
(* returned, or that it never was called for it.                           *)
(***************************************************************************)
EXTENDS Routing, Naturals, FiniteSets

CONSTANTS
  Note,      \* extracted notes, named by title and content
  NoKB,
  MaxJobs    \* bound on the jobs of a run

ASSUME SubmissionAssumption ==
  /\ MaxJobs \in Nat
  /\ RemoteKB \cap LocalKB = {}
  /\ NoKB \notin RemoteKB \cup LocalKB

VARIABLES
  pc,        \* where the loop is
  jobs,      \* the routed notes with their targets, in order
  at,        \* the job being submitted
  skipped,   \* knowledge bases that answered 401 or 403
  draft,     \* what is known of the text of the current note
  try,       \* requests made for the current draft
  fixes,     \* corrections of the current note
  staged,    \* [job -> the corrections of the entry its pending file holds]
  recent,    \* jobs staged in the current second
  fate, copies, lost

vars == <<pc, jobs, at, skipped, draft, try, fixes, staged, recent, fate, copies, lost>>

MaxAttempts == 3   \* SubmitToRemoteKB
MaxFixes    == 2   \* maxCorrectionRetries

KB    == RemoteKB \cup LocalKB
Job   == [note : Note, kb : KB, manual : BOOLEAN]
Item  == 1..MaxJobs
PCs   == {"idle", "next", "check", "request", "invalid", "stage", "done"}
Fates == {"none", "owed", "sent", "staged", "failed", "refused", "dropped"}

(* fits: passes the client's checks of the lengths; valid: the server's *)
Draft     == [fits : BOOLEAN, valid : BOOLEAN]
NotStaged == MaxFixes + 1

(* Every job is for a base the configuration has: the error of
   process.go:325 cannot happen after config.Load. *)
TypeOK ==
  /\ pc \in PCs
  /\ jobs \in Seq(Job) /\ Len(jobs) <= MaxJobs
  /\ at \in 0..Len(jobs)
  /\ skipped \subseteq RemoteKB
  /\ draft \in Draft
  /\ try \in 0..MaxAttempts
  /\ fixes \in 0..MaxFixes
  /\ staged \in [Item -> 0..NotStaged]
  /\ recent \subseteq Item
  /\ fate \in [Item -> Fates]
  /\ copies \in [Item -> Nat]
  /\ lost \in [Item -> Nat]

Init ==
  /\ pc = "idle"
  /\ jobs = <<>>
  /\ at = 0
  /\ skipped = {}
  /\ draft = [fits |-> TRUE, valid |-> TRUE]
  /\ try = 0
  /\ fixes = 0
  /\ staged = [i \in Item |-> NotStaged]
  /\ recent = {}
  /\ fate = [i \in Item |-> "none"]
  /\ copies = [i \in Item |-> 0]
  /\ lost = [i \in Item |-> 0]

job == jobs[at]

(* submitNote returns; the loop counts what it returned *)
Return(f) ==
  /\ pc' = "next"
  /\ fate' = [fate EXCEPT ![at] = f]

Copied == copies' = [copies EXCEPT ![at] = @ + 1]

-----------------------------------------------------------------------------
(* The loop over the routed notes and their targets *)

Begin(js) ==
  /\ pc = "idle"
  /\ jobs' = js
  /\ pc' = "next"
  /\ fate' = [i \in Item |-> IF i <= Len(js) THEN "owed" ELSE "none"]
  /\ UNCHANGED <<at, skipped, draft, try, fixes, staged, recent, copies, lost>>

(* Fault: nobody looks at skippedKBs for a note that is to be staged *)
Take_Manual ==
  /\ pc = "next"
  /\ at < Len(jobs)
  /\ at' = at + 1
  /\ jobs[at'].manual \/ jobs[at'].kb \notin skipped
  /\ pc' = IF jobs[at'].manual THEN "stage" ELSE "check"
  /\ draft' \in [fits : {TRUE}, valid : BOOLEAN]
  /\ fixes' = 0
  /\ try' = 0
  /\ UNCHANGED <<jobs, skipped, staged, recent, fate, copies, lost>>

(* The next job, for a knowledge base that is not skipped.  An extracted
   note has passed the client's checks; the server's may differ. *)
Take ==
  /\ pc = "next"
  /\ at < Len(jobs)
  /\ at' = at + 1
  /\ jobs[at'].kb \notin skipped
  /\ pc' = IF jobs[at'].manual THEN "stage" ELSE "check"
  /\ draft' \in [fits : {TRUE}, valid : BOOLEAN]
  /\ fixes' = 0
  /\ try' = 0
  /\ UNCHANGED <<jobs, skipped, staged, recent, fate, copies, lost>>

(* submitNote returns nil at once, before it looks at the approval mode *)
Skip ==
  /\ pc = "next"
  /\ at < Len(jobs)
  /\ at' = at + 1
  /\ jobs[at'].kb \in skipped
  /\ fate' = [fate EXCEPT ![at'] = "dropped"]
  /\ UNCHANGED <<pc, jobs, skipped, draft, try, fixes, staged, recent, copies, lost>>

End ==
  /\ pc = "next"
  /\ at = Len(jobs)
  /\ pc' = "done"
  /\ UNCHANGED <<jobs, at, skipped, draft, try, fixes, staged, recent, fate, copies, lost>>

-----------------------------------------------------------------------------
(* The pending queue *)

(* A pending file is named by the second and a hash of title and content:
   jobs of one note with equally many corrections share a name *)
SameFile(i) ==
  /\ i \in recent
  /\ jobs[i].note = job.note
  /\ staged[i] = fixes

Stage ==
  /\ pc = "stage"
  /\ staged' = [i \in Item |-> IF i = at THEN fixes
                               ELSE IF SameFile(i) THEN NotStaged ELSE staged[i]]
  /\ recent' = {i \in recent : ~SameFile(i)} \cup {at}
  /\ Copied
  /\ Return("staged")
  /\ UNCHANGED <<jobs, at, skipped, draft, try, fixes, lost>>

(* Fault: the error of CreatePending is swallowed *)
StageFails_Silent ==
  /\ pc = "stage"
  /\ Return("staged")
  /\ UNCHANGED <<jobs, at, skipped, draft, try, fixes, staged, recent, copies, lost>>

StageFails ==
  /\ pc = "stage"
  /\ Return("failed")
  /\ UNCHANGED <<jobs, at, skipped, draft, try, fixes, staged, recent, copies, lost>>

(* The second is over *)
Tick ==
  /\ recent # {}
  /\ recent' = {}
  /\ UNCHANGED <<pc, jobs, at, skipped, draft, try, fixes, staged, fate, copies, lost>>

-----------------------------------------------------------------------------
(* A local knowledge base: the file is written, then committed *)

Local == pc = "check" /\ job.kb \in LocalKB

WriteLocal ==
  /\ Local
  /\ Copied
  /\ Return("sent")
  /\ UNCHANGED <<jobs, at, skipped, draft, try, fixes, staged, recent, lost>>

(* git init or the file fails, or only the commit: then the note is there *)
WriteLocalFails ==
  /\ Local
  /\ UNCHANGED copies \/ Copied
  /\ Return("failed")
  /\ UNCHANGED <<jobs, at, skipped, draft, try, fixes, staged, recent, lost>>

-----------------------------------------------------------------------------
(* A remote knowledge base *)

Remote == pc = "check" /\ job.kb \in RemoteKB

(* The client's own check: an error like any other, nothing is staged *)
TooLong ==
  /\ Remote
  /\ ~draft.fits
  /\ Return("failed")
  /\ UNCHANGED <<jobs, at, skipped, draft, try, fixes, staged, recent, copies, lost>>

Prepare ==
  /\ Remote
  /\ draft.fits
  /\ pc' = "request"
  /\ try' = 0
  /\ UNCHANGED <<jobs, at, skipped, draft, fixes, staged, recent, fate, copies, lost>>

(* Fault: an accepted note is taken for an answer to retry *)
Accepted_Again ==
  /\ pc = "request"
  /\ draft.valid
  /\ Copied
  /\ try' = try + 1
  /\ IF try' < MaxAttempts THEN UNCHANGED <<pc, fate>> ELSE Return("failed")
  /\ UNCHANGED <<jobs, at, skipped, draft, fixes, staged, recent, lost>>

Accepted ==
  /\ pc = "request"
  /\ draft.valid
  /\ Copied
  /\ Return("sent")
  /\ UNCHANGED <<jobs, at, skipped, draft, try, fixes, staged, recent, lost>>

(* No answer, or one that is none of 202, 400, 401 and 403: another
   attempt, or the error of the last *)
Again ==
  /\ try' = try + 1
  /\ IF try' < MaxAttempts THEN UNCHANGED <<pc, fate>> ELSE Return("failed")

NotReached ==
  /\ pc = "request"
  /\ Again
  /\ UNCHANGED <<jobs, at, skipped, draft, fixes, staged, recent, copies, lost>>

(* The note is on the queue, with a uid of its own for every request *)
AnswerLost ==
  /\ pc = "request"
  /\ draft.valid
  /\ Copied
  /\ lost' = [lost EXCEPT ![at] = @ + 1]
  /\ Again
  /\ UNCHANGED <<jobs, at, skipped, draft, fixes, staged, recent>>

(* Fault: a 401 is an error of this note only *)
Unauthorized_Open ==
  /\ pc = "request"
  /\ Return("refused")
  /\ UNCHANGED <<jobs, at, skipped, draft, try, fixes, staged, recent, copies, lost>>

Unauthorized ==
  /\ pc = "request"
  /\ skipped' = skipped \cup {job.kb}
  /\ Return("refused")
  /\ UNCHANGED <<jobs, at, draft, try, fixes, staged, recent, copies, lost>>

Rejected ==
  /\ pc = "request"
  /\ ~draft.valid
  /\ pc' = IF fixes < MaxFixes THEN "invalid" ELSE "stage"
  /\ UNCHANGED <<jobs, at, skipped, draft, try, fixes, staged, recent, fate, copies, lost>>

(* Fault: the corrections are not counted *)
Correct_NoCount ==
  /\ pc = "invalid"
  /\ draft' \in Draft
  /\ pc' = "check"
  /\ UNCHANGED <<jobs, at, skipped, try, fixes, staged, recent, fate, copies, lost>>

(* The model's correction is only checked for being empty *)
Correct ==
  /\ pc = "invalid"
  /\ draft' \in Draft
  /\ fixes' = fixes + 1
  /\ pc' = "check"
  /\ UNCHANGED <<jobs, at, skipped, try, staged, recent, fate, copies, lost>>

CorrectionFails ==
  /\ pc = "invalid"
  /\ pc' = "stage"
  /\ UNCHANGED <<jobs, at, skipped, draft, try, fixes, staged, recent, fate, copies, lost>>

-----------------------------------------------------------------------------
JobStep ==
  \/ Take \/ Skip \/ End \/ Stage \/ StageFails \/ WriteLocal \/ WriteLocalFails
  \/ TooLong \/ Prepare \/ Accepted \/ NotReached \/ AnswerLost \/ Unauthorized
  \/ Rejected \/ Correct \/ CorrectionFails

Next == (\E js \in Seq(Job) : Len(js) <= MaxJobs /\ Begin(js)) \/ JobStep \/ Tick

Spec == Init /\ [][Next]_vars

-----------------------------------------------------------------------------
CopiesOf(i) ==
  /\ copies[i] <= lost[i] + 1
  /\ i <= Len(jobs) /\ jobs[i].kb \in RemoteKB /\ fate[i] \in {"owed", "failed", "refused"}
       => copies[i] = lost[i]

(* A note sent to a remote base is in the queue at most once more than
   answers about it were lost, and a job that failed has at most the lost
   ones (process.go, remote.go: a retry never follows an answer). *)
CopiesExplained == \A i \in Item : CopiesOf(i)

Kept(i) ==
  /\ fate[i] = "sent" => copies[i] > lost[i]
  /\ fate[i] = "staged" =>
       \/ staged[i] # NotStaged
       \/ \E k \in (i + 1)..Len(jobs) : jobs[k].note = jobs[i].note /\ fate[k] = "staged"
  /\ fate[i] = "dropped" =>
       \E k \in 1..(i - 1) : jobs[k].kb = jobs[i].kb /\ fate[k] = "refused"

(* What notesRouted counts (submitNote returned nil) is on the queue or in
   the repository, or its pending file holds it, except that the base
   refused an earlier note, or that a later job of the same note took over
   the file. *)
RoutedIsKept == \A i \in 1..Len(jobs) : Kept(i)

(* Once a base has answered 401 or 403 this run asks it for nothing more
   (remote.go:69: "callers should skip this KB for the run"). *)
NothingAfterRefusal ==
  [][pc' \in {"request", "stage"} => jobs'[at'].kb \notin skipped]_vars

Outcome == [i \in Item |-> IF fate[i] \in {"sent", "staged"} THEN "kept" ELSE fate[i]]
Target  == [i \in Item |-> IF i <= Len(jobs) THEN jobs[i].kb ELSE NoKB]

D == INSTANCE Delivery WITH fate <- Outcome, to <- Target, closed <- skipped

(* submitNote and its loop implement the promise of module Delivery, for
   every job of the run *)
Delivers == D!Spec
=============================================================================
