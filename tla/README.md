# Formal model of multi-kb

TLA+ specifications of the parts of multi-kb whose correctness depends on the
order of steps: the lock file, the pending queue with its approval server, the
capture run with its state file and what it does with a conversation, the dream
cycle over a knowledge base, the server that ingests, mirrors and consolidates
notes, and the hook that recalls them. TLC checks them on small instances;
TLAPS proves the main safety properties for every value of the constants.
Paths below are relative to the repository; `cli/` stands for `cli/internal/`.

## The system

multi-kb extracts notes from the conversations a developer has with coding
assistants, routes them to knowledge bases (KBs), and injects recalled
knowledge into new conversations. A CLI runs on the developer's machine, by
cron or by hand; a server process (the same binary) and two lambdas run in AWS.

| Component | State it keeps | Operations | What makes it hard |
|---|---|---|---|
| lock file (`cli/lock`) | `~/.multi-kb/lock`: pid, heartbeat | Acquire, Release, heartbeat goroutine | check-then-write, in-place rewriting, suspended holders, crashes |
| state file (`cli/config/state.go`) | `last_processed` per directory, `last_dream_cycle` | load, save (temporary file and rename) | loaded before the lock is held, whole seconds |
| capture run (`cli/cmd/process.go`) | in memory: sessions, `latestModTime`, `skippedKBs` | discover, translate, extract, route, submit, save | session files being written meanwhile, failing steps, crashes |
| submission (`cli/submit`) | throttle time, local git repository | remote submit with retries, local write and commit | lost answers, retries, partial failure |
| pending queue (`cli/route/pending.go`) | one JSON file per note, with its `target_kbs` | create, read, update, delete | filename collisions, read-modify-write without a lock |
| approval server (`cli/approve`) | idle timer, `allResolvedCh` | list, approve, reject, shut down | a goroutine per request, a five-second shutdown |
| local dream cycle (`cli/dreamcycle`) | pending and active notes of a KB, git index | batch, find related, consolidate, apply actions, commit | stale snapshots between batches, partial failure |
| server (`cli/server`) | SQS queue, CodeCommit clone, S3 bucket | ingest, push, sync, dream cycle, recall-log notes | redelivery, failed pushes, diff-only sync, ticks |
| recall and hook (`cli/recall`, `cli/hook`) | transcript file, settings file | inject context, register hooks | timeouts, partial results |
| extraction, translation (`cli/extract`, `cli/translate`) | none | chunk, call the model, parse | failed chunks, flags by timestamp |
| routing (`cli/route/route.go`) | none | resolve targets | fallback to the default KB |
| Bedrock client, logs, cron, config, wizard | files | retry, append, edit | retries, malformed lines |
| lambdas and infrastructure (`cdk`) | SQS, OpenSearch, bucket | submit, recall, create index | redrive, creation retries |

How they interact. `multi-kb run` is a capture run followed by a dream cycle,
each under its own acquisition of the lock file. Both read and write the state
file. The capture run hands notes to submission, which writes into local KBs,
calls remote ones, or stages the note in the pending queue; the approval server
takes it from there, in another process that does not use the lock. Remote KBs
put notes on an SQS queue that the server ingests into a git repository and S3.

What each part has to guarantee:

- lock file: two commands do not hold it together; a dead holder does not keep
  it for ever; nobody removes or revives a record that is not theirs;
- capture run and state file: no session is passed over, none is extracted
  twice, timestamps do not go back;
- pending queue and approval: an undecided KB stays on the list; a KB receives
  the note once or never, as decided; the server stops when the queue is empty;
- extraction and routing: every line of a conversation is read, and every note
  goes to the targets that its source's configuration gives its harness;
- submission: a note for a KB arrives, is staged, or is counted as an error or a
  refusal, and more than once only if an answer was lost;
- dream cycle: no knowledge of a note disappears unless an action drops it;
- server: a message that was deleted from the queue is in git and in S3; every
  message is handled in the end; every day's recall logs are processed;
- hook: the prompt goes on in time, with notes ranked fairly, once a conversation.

## The modules

| Module | Models | Run by | Proved in |
|---|---|---|---|
| `LockFile` | `cli/lock/lock.go` | `MCLockFile` | `LockFileProofs` |
| `Approval` | `cli/route/pending.go`, `cli/approve`, `cli/cmd/approve.go` | `MCApproval` | `ApprovalProofs` |
| `Capture` | `cli/cmd/process.go`, `cli/config/state.go`, the end of `cli/dreamcycle/cycle.go` | `MCCapture` | `CaptureProofs` |
| `DreamCycle` | `cli/dreamcycle`, `cli/server/dreamcycle.go`, `cli/submit/local.go` | `MCDreamCycle` | `DreamCycleProofs` |
| `Extraction` | `cli/extract`, `cli/token` | `MCPipeline` | `PipelineProofs` |
| `Routing` | `cli/route/route.go`, targets in `cli/config/validate.go` | `MCPipeline` | `PipelineProofs` |
| `Delivery` | what submission promises (abstract) | `MCPipeline` | `PipelineProofs` |
| `Submission` | `submitNote` in `cli/cmd/process.go`, `cli/submit`, `cdk/lambda/submit` | `MCPipeline` | `PipelineProofs` |
| `Pipeline` | composes the three in `cli/cmd/process.go` | `MCPipeline` | `PipelineProofs` |
| `Throttle` | the throttler of `cli/submit/remote.go` | `MCThrottle` | `PipelineProofs` |
| `Server` | `cli/server` except its clock, the queue, the replacement of the machine (`cdk/lib`) | `MCServer` | `ServerProofs` |
| `Schedule` | `cli/server/server.go` | `MCSchedule` | `ScheduleProofs` |
| `Recall` | `cli/git/grep.go`, `cli/recall/merge.go`, `cdk/lambda/recall` | `MCHook` | `HookProofs` |
| `Hook` | `cli/cmd/hook.go`, `cli/hook/inject.go`, `cli/recall` | `MCHook` | `HookProofs` |

`PROJECT.json` maps every definition to the lines it stands for. Operators with
a suffix (`Release_NoMutex`, `NewLast_Rounded`, ...) are faulty variants of the
operator before them: put in its place, each makes one property fail. They show
that the property depends on the code and are used by no specification.

### History variables and hazards

The code has races, and most of its guarantees are lost in some of them. A
property of the form "P, except after ..." is only worth stating when the
exceptions are named exactly. Each module therefore has a variable `hazard`
that collects the kinds of race that happened, as conditions on the state at the step where
they bite, and the properties say: as long as none of *these* happened, P
holds. Actions never read `hazard` or the other history variables. An exception
in a property is thus a place where the code does not keep what a reader might
expect; the section on disagreements lists those that contradict the
documentation.

### LockFile

An invocation (`pc`) is idle, inside Acquire after its check (`clear`), between
truncation and write (`writing`), holding, or crashed. `hb` is the heartbeat
goroutine; `read` and `trunc` are inside the mutex, so `Release`, which takes
the mutex, needs `hb = "idle"`. `file` is what is on disk: nothing, an empty
file, bytes that do not parse, or a record with the age of its heartbeat in
heartbeat intervals, capped at the TTL. `os.WriteFile` is two steps, an open
with truncation and a write through the descriptor: a writer whose file was
removed in between (`detached`) writes nowhere, and two writers can leave
garbage. `due` is the ticker's channel of capacity one. `Suspend` and `Resume`
are a sleeping machine or a stopped process. `Crash` can happen at any step.

A suspension *inside* one file operation is not modelled, and a process that is
not suspended finishes its file operation before a heartbeat interval (60 s)
has passed; this is the guard of `Tick`.

Properties: `ExclusionUnlessHazard`, `FileTracksHolder` (invariants),
`NeverWedged` (liveness).

### Approval

One step per file operation of `CreatePending` and `UpdatePending`; one handler
per concurrent request. A handler reads the entry and checks the target
(`Request`, or `RequestRefused`), submits (`SubmitOK`, `SubmitFails`,
`SubmitUnknown`: an error for a note that did arrive, a local write whose commit failed for
instance), reads the file again (`UpdateRead`), and removes it (`Delete`) or
rewrites it (`Open`, `Write`). Each of these can fail, which is answered 500:
`UpdateFails`, `DeleteFails`, `OpenFails` before the truncation and `WriteFails`
after it, with nothing or part of the list written. After its answer the check of the queue runs
(`CheckResolved`). `Stop` is the end of the process, by the end of the graceful
shutdown, by its five-second timeout or by a kill; handlers are cut where they
are. Titles, contents and edits are left out: no property tells them apart.

The hazards: `collision` (two `CreatePending` share a file name), `interleaved`
(two rewrites of a file), `torn` (a rewrite breaks off after its truncation,
because the process dies or the write fails), `twin` (two requests for one KB
overlap), `unrecorded` (a note is delivered and the file not updated),
`relisted` (a rewrite puts a resolved KB back).

Inside the repository `CreatePending` is called with a single KB
(`cli/cmd/process.go:296,354,372`); entries with several KBs are what the
specification, the tests and the server's code are about. `TargetLists`, a
constant, says which lists are created; the runs take every non-empty one.

Properties: `NothingDropped`, `OneOutcome` (invariants),
`ShutsDownWhenResolved` (liveness).

### Capture

One source directory. Time is counted in fractions of a second (`Sec` to the
second): file systems keep fractions, the state file does not (`WholeSeconds`).
A version of a session is named by its modification time; `Touch` writes a
session at any moment. A run loads the state, *then* acquires the lock, lists
the sessions modified after the timestamp, and for each one reads it
(`Translate`), asks for its modification time (`StatFile`) and hands it to the
extractor (`Extract`); then it saves the state it loaded with the new
timestamp. Its early returns and failures are `AcquireRefused`, `ClientFails`,
`DiscoverFails`, `TranslateFails`, `SaveFails` and `Crash`. `DreamAcquire` to
`DreamSaveFails` are the part of a dream cycle that touches the same file.

The lock is taken to exclude here (`LockFile` says when it does), and a crashed
holder's lock is free at once: the wait for the TTL changes no order of steps.
A failed extraction counts as an attempt, as spec.md:46 and spec.md:178 of
`specs/01-mvp/cli` want it: the session is not retried until it is modified.

Properties: `NothingMissed`, `ScannedOnce`, `LastDreamRecorded` (invariants),
`TimestampsAdvance` (action property), `EventuallyScanned` (liveness).

### DreamCycle

One knowledge base, on the developer's machine or on the server (`store`). A
note is its status and its *facts*; a fact is named by the uid of the note it
was captured in, so that content is told apart only as far as losing some of it
goes. `note` is the work tree, `idx` and `head` are git's index and last
commit, `seen` is what the server's search index returns.

| Action | Code |
|---|---|
| `AddNote`, `AddStage`, `AddCommit`, `AddFails` | `submit.WriteNote`: write, `git add`, `git commit` |
| `Reindex` | an ingestion job of the server's knowledge base |
| `Start` | phases 1 and 2: pending notes, and the active ones a search finds |
| `Answer`, `NoAnswer` | the model's answer to a batch, accepted or not |
| `Keep`, `Skip`, `MergeWrite`, `WriteNew`, `DeleteSource`, `ActionFails` | `ApplyActions`, one file operation each |
| `GitAdd`, `GitAddFails`, `GitRm`, `GitCommit`, `GitCommitFails` | `CommitBatch`, one git command each (`git rm` of all files in one step) |
| `Finish`, `Crash` | the run ends; the process dies at any step |

The model (the LLM) is part of the environment, and it is assumed to follow its
prompt in what it *writes*: new content carries every fact of the notes it was
shown, and a merge goes to another, active note. In what it *addresses* it is
free: it may act on active notes, mention a note twice and order its actions as
it likes, because the code accepts this (it checks only that the pending note is
addressed; `specs/01-mvp/e2e-bugs.md`, E2E-005). So what the properties say is
about the code around the model.

`localNoteStore` keeps lists of what it wrote and removed, `serverNoteStore`
adds everything; locally a missing file is no error, on the server it is one in
a merge and a split. Locally only the approval server writes concurrently (it
does not take the lock); on the server one goroutine ingests and dreams. The
hazards: `retouched` (a note is rewritten or deleted that the same cycle had
rewritten since its batches read it), `outdated` (a cycle starts from an old
search index), `overtaken` (a note is deleted whose `WriteNote` has not
committed yet), `failed` (a git command or a file operation fails), `crash`.

`StaysRecallable` tells three things apart. `ActiveFacts` is what active notes
hold, and never shrinks. `Finds` is what recall finds: locally `git grep`, which
looks at tracked files only, and the filter on the status in the file; on the
server the search index, which only `Reindex` changes. Between the deletion of its sources
and the `git add` of its batch a new note is there and not found, so `Finds`
alone does shrink; `Coming` is what the batch under way has on its list for
that `git add`. What is in one of the two stays in one of the two, as long as
nothing failed; a failure or a crash in the gap is listed below as a
disagreement.

Properties: `NothingForgotten`, `AtRestCommitted` (invariants), `HeadKeeps`,
`StaysRecallable` (action properties).

### Extraction, Routing, Submission, Pipeline

One conversation, from its translated text to the knowledge bases.

`Extraction` is `ExtractChunked`: a conversation is a sequence of lines with
their estimated tokens and the notes the model finds in them (an estimate of a
text is the sum over its lines, as in `EstimateTokens` up to rounding). Each
chunk is tried three times (`Answer`, `Retry`, `GiveUp`); a chunk that fails is
passed over, and only a conversation in one piece returns an error. After each
chunk but the last a summary is asked for, and empty if that call fails
(`Summarize`). `Parsed` lets the parser drop any entries: an answer that is no
JSON array is taken as one with no notes, although the comment on `Extract`
promises a retry on malformed output.

`Routing` is a pure algorithm: `BaseTargets` (the loop over the overrides),
`Resolve` (always, consider, the default), `RouteNotes`. `ValidTarget` and
`ValidSource` are the part of the validation that routing relies on. The
algorithm has a parameter for the persona; the sessions have none (`RouteInit`),
because `discoverSessions` never fills it in (`cli/cmd/process.go:207`), and
`HarnessDecides` says which targets that leaves: those of the last override for
the harness that names no persona.

`Submission` is `submitNote` with everything it calls, one job (note and
target) after the other: `Skip` for a KB that refused, `Stage` and `StageFails`
for manual approval, `WriteLocal` and `WriteLocalFails`, and for a remote KB
the client's own check (`TooLong`), up to three requests (`Accepted`,
`NotReached`, `AnswerLost`, `Unauthorized`, `Rejected`) and up to two
corrections by the model (`Correct`, `CorrectionFails`), after which the note
is staged. `SameFile` is the collision of pending file names within a second.
`Delivery` is the abstract specification: every note owed to a KB is settled
once, as kept, failed, refused or dropped, copies only ever grow, and a note is
dropped only if its KB was closed by a refusal. `Submission` implements it
(`Delivers`, with "sent" and "staged" as kept and `skippedKBs` as closed).

`Pipeline` is their sequence in `runProcess` with the validation before and the
early returns between. One conversation is enough: conversations of a run share
only `skippedKBs`, of which the jobs of one conversation already make use.

Properties: `ChunksCover`, `SummaryIsLatest`, `HarnessDecides`,
`CopiesExplained`, `RoutedIsKept`, `LossIsExplained` (invariants),
`NothingAfterRefusal` (action property), `Delivers` (refinement), `RunEnds`
(liveness).

### Throttle

The rate limit of one remote KB. A submission reads the time of the last
request under the mutex, sleeps outside it and notes its own time (`Wait`,
`Pass`), so that two callers can pass together. A caller is a goroutine: there
is one in a capture run, and one for each request in the approval server; every
process has its own limit. Property: `RateKept` (action
property).

### Server

The data path of the server: messages (`msg`, `receives`), the clone (`tree`,
`idx`, `repo`), the repository it pushes to (`remote`), S3 (`s3` and the
metadata objects in `side`), and what the search index returns (`kb`). One
goroutine does everything; the queue (`Submit`, `Reappear`), the clock
(`Elapse`), the process (`Crash`) and the machine (`Replace`) go their own way.

| Action | Code |
|---|---|
| `Receive`, `NoMessages`, `Delete`, `DeleteFails` | `RunIngestion`, one message for each deletion |
| `Write`, `Add`, `GitCommit`, `NothingStaged`, `CommitFails`, `Push`, `PushFails` | `CommitBatch`, and the same git commands of the dream cycle and the recall logs |
| `StartSync`, `PutOrDelete`, `ObjectFails`, `EndSync`, `SyncFails` | `SyncToS3`, one object for each step |
| `NoLogs`, `Recalled` | `RunRecallLogProcessing` |
| `Dream`, `Reindex`, `Retrieve`, `Keep`, `Merge`, `NoAnswer`, `EndBatches` | phases 0 to 4 of `RunDreamCycle` |

A consolidation keeps a note or merges it into an active one; splits and
consolidations lose or add nothing more than these as far as git and S3 are
concerned, and `DreamCycle` has them in detail. The last two commits are all
the sync looks at, so `repo` keeps the tree, what the last commit changed, and
whether there is one before it.

The hazards: `overwritten` (a redelivered message rewrites a note that was
merged into, in the work tree or in what was staged last: after a failed commit
these differ), `stale` (a merge writes older content), `missed` (an object is
behind that this sync will not look at), `dirty` (the work tree is not what was
committed), `failed`, `crash`, `unpushed` (the machine is replaced with commits
it did not push).

Properties: `DeletedIsKept`, `PushedUnlessFailed`, `MirrorUnlessMissed`
(invariants), `QueueDrains` (liveness), `AckedIsPushed` (violated).

### Schedule

The server's clock, hour by hour: what a tick is spent on, the interval of dream
cycles, the 20-hour rule for recall logs and the day they are processed for.
`RunServer` calls `dispatchTick` in its own goroutine: the ticker drops what
falls due meanwhile, and `busy` is never found set. A tick is much shorter than
an hour, so `Hour` waits for one; a job takes up to `Busy` hours. `target` is
computed from the clock when the logs are processed (`IngestDone`), the decision
from the time at which the tick began: the hazard `crossed` is a midnight in
between. `runs` counts the runs that began on the day of the last one.
Properties: `EveryDay`, `OnceADay`, `NotStarved` (invariants).

### Recall and Hook

`Recall` has the three rankings as operators: `GrepNotes` (by match count, ties
in any order, because they come out of a Go map), `Served` (the remote function
with its follow-up query) and `InterleaveResults`, whose two loops are the order
of the turns (`Before`), without those of a note seen before (`Fresh`). `Hook` is the hook process:
at a first prompt (`NotFirst`) it asks all targets at once, the answers arrive
in any order (`LocalAnswers`, `RemoteAnswers`), fail, are refused (status 400)
or time out, which counts as an empty answer, and `Merge` and `PutOut` end it.
The hook of claude-code is modelled; notor's starts conversations only and has
no transcript to look at. Properties: `NothingTwice`, `RankedFairly`,
`InjectedOnce`, `FollowUpCompetes` (invariants; the last one says something of
`Combined` for every pair of retrievals and is evaluated once), `HookEnds`
(liveness).

## The runs

| Run | Instance | Shows |
|---|---|---|
| `lock` | 2 invocations, TTL 3, fair | `ExclusionUnlessHazard`, `FileTracksHolder`, `NeverWedged` |
| `approval` | 1 note, 2 KBs, 2 concurrent requests, fair | `NothingDropped`, `OneOutcome`, `ShutsDownWhenResolved` |
| `capture` | 2 sessions, 2 invocations, half seconds, clock up to 5 | `NothingMissed`, `ScannedOnce`, `LastDreamRecorded`, `TimestampsAdvance` |
| `capture_live` | 2 sessions, 1 invocation repeated, clock up to 5, fair | `EventuallyScanned` |
| `dream` | 3 uids, 2 actions per answer, one kind of hazard per behaviour | `NothingForgotten`, `AtRestCommitted`, `HeadKeeps`, `StaysRecallable` |
| `pipeline` | conversations of up to 3 lines, 2 notes, one remote and one local KB, 4 sources, up to 4 jobs, fair | all properties of `Extraction` to `Pipeline` |
| `server` | 3 messages, one malformed, 2 receives, one failure or crash | `DeletedIsKept`, `PushedUnlessFailed`, `MirrorUnlessMissed` |
| `server_live` | 2 messages, one malformed, 2 receives, 2 failures, fair | `QueueDrains` |
| `server_unpushed` | as `server` | violation: an acknowledged note that only the clone has |
| `hook` | a local and two remote KBs, 5 notes, lists of up to 2, 3 results, transcripts of up to 2 lines, fair | all properties of `Recall` and `Hook` |
| `schedule` | 80 hours, 3 scheduled hours, interval 3, jobs of up to an hour, one failure or restart | `EveryDay`, `OnceADay`, `NotStarved` |
| `throttle` | 3 callers, delay 2, clock up to 7 | `RateKept` |

Every module with variables of its own has a `TypeOK`, and all are proved; the
runs `server`, `schedule` and `hook` check it as well.

Why the bounds are enough for the cases that matter. *lock*: two invocations
are a holder and one that takes over, or a holder and the one it comes back to;
TTL 3 has fresh records of three ages and a stale one; the theorems hold for any
number. *approval*: races on a file need two
handlers and two KBs, one to be decided and one to be lost; files do not
interact except through the check for an empty queue, and a file that was
removed and staged again stands for the second one there. Deliveries are
counted up to two. Every (file, KB) pair is staged at
most once, so the system may come to rest with an empty queue: deadlock is not
checked in the approval runs. *capture*: two sessions give every order between
a session and the one that moves the timestamp; two invocations give a stale
copy of the state; five ticks of half a second give two whole seconds and a
fraction. The clock bound stops `Touch` and `Tick`, not the runs, which go on
processing what is there. *dream*: three uids are two pending notes and
an active one they both merge into, or one note that is split in two, while
another is being added; two actions per answer are enough for one to undo what
the other did. `Fits` keeps an answer from needing more uids than are left.
`Bounded` stops a behaviour at its second kind of hazard (the properties are
about what one kind may do) and lets one note be added at a time; the theorems
have none of these bounds. A run of the dream cycle may stop for want of uids:
deadlock is not checked there. *pipeline*: three lines with a threshold of two
tokens give conversations in one, two and three chunks and a line that is
longer than a chunk; two notes with two targets each are the two jobs of one
note and the two notes of one KB that refusals and file names are about. The
sources have a target of each kind, overrides for a persona and for a harness
before and after each other, two for one harness, and one source that is
invalid. A run ends: deadlock is not checked. *server*: a merge needs two
notes, and the third message is the malformed one, which must leave the queue by
itself; one failure is enough for each of the hazards, two receives are one
redelivery. A behaviour ends when both properties with exceptions have
met one of them (`Bounded`); what remains, `PushedUnlessFailed`, is proved for
every behaviour. `server_live` trades a
message for a second failure. *schedule*: 80
hours have three midnights and three scheduled hours, one of them early enough
for a second run, with the drift between them; the clock is bounded, so the
behaviour stops. *hook*: three lists that
share notes, with more results than fit; two lines are a conversation whose
first prompt is known or hidden behind a long line. Transcripts are bounded, so
the behaviour stops. *throttle*: three callers are one that sleeps over two
others; the clock stops and leaves the callers, which can still cancel or end.

Symmetry (of sessions and invocations, uids, messages, callers) is used in no
run with a liveness property.

## Fairness

- *lock*: an Acquire that has started, a heartbeat and a resumed machine go
  on (weak fairness of goroutines and of the OS). `Release` has strong
  fairness: a heartbeat takes the mutex again and again, and Go's mutex does
  not starve a waiter. Nobody has to start, crash or fall asleep.
- *approval*: handlers and the goroutine after them run to their end while
  the process lives, and the shutdown goroutine takes its signal. Users owe
  nothing: no fairness on requests.
- *capture_live*: cron starts a run again and again, and not every start finds
  the lock taken, so an invocation that can be started with the lock free, can
  acquire or can list the directory infinitely often does so in the end (strong
  fairness of `LoadState` with a free lock, `Acquire`, `Discover`); an
  invocation with the lock runs on (weak fairness). Crashes come to an end.
  Failing saves are not excluded: the property is about extraction.
- *pipeline*: the run is one thread that goes on while it can (weak fairness of
  its steps). No answer of the model or of a server is assumed.
- *server_live*: the goroutine finishes what it does and runs a due dream cycle
  at the next tick; a message that was not deleted becomes visible again (weak
  fairness); and a message that is on the queue again and again is received in
  the end (strong fairness of `Receive`, with any others), which needs ticks
  that are left to ingestion: a dream cycle is shorter than its interval, see
  `NotStarved`. Failures come to an end.
- *hook*: the clock runs, the hook's own steps and a local search end (weak
  fairness). A remote KB owes nothing: it may never answer.

## What is proved

All theorems hold for every value of the constants under the assumptions named
in the modules (`LockAssumption`, `ApprovalAssumption`, `CaptureAssumption`,
`DreamAssumption`, `ExtractionAssumption`, `SubmissionAssumption`,
`RoutingAssumption`, `PipelineAssumption`, `ThrottleAssumption`,
`ScheduleAssumption`, `ServerAssumption`, `RecallAssumption`,
`HookAssumption`), which only say that the markers are different from the data,
that the numbers make sense, that lists are lists, and that the knowledge bases
of a configuration and the notes of a local one are finitely many. One says something of the code: a translated line has a token at least
(`PipelineAssumption`). It is a JSON object, and `EstimateTokens` rounds half a
token up. The proof of `ChunksCover` showed that it is needed: the loop that
splits takes a chunk of no tokens for an empty one (`extract.go:131`), and would
add a line over the threshold to it.

- `LockFileProofs`: `TypeCorrect`; `Exclusion` and `FileFollows`. Exclusion is
  not inductive. The invariant `IInv` says what is on disk while nobody raced:
  at most one process is in the window or holding, an awake holder's record is
  younger than the TTL (the tick of the clock waits for due heartbeats), a
  heartbeat between read and write has its own pid in hand.
- `ApprovalProofs`: `TypeCorrect`; `NoTargetLost` (`NothingDropped`). The
  strengthening ties every handler to its request: what it has already decided,
  that the list in its hand contains every undecided KB of its file while it is
  rewriting it (`WriterInv`), that a creation under way has staged nothing yet.
  The actions that disturb it, one lemma each, are `CreateOpen`, `CreateWrite`,
  `Delete`, `Open` and `Write` (with `WriteFails`). `EveryOutcome` (`OneOutcome`) needs another one
  (`OutcomeParts`), as its exceptions are others: a KB that has its outcome is
  listed only while the handler that delivered the note has not rewritten the
  file, so no second request for it begins.
- `CaptureProofs`: `TypeCorrect`; `NoSessionMissed` (`NothingMissed`): a
  session not on the list of a run, and not changed since it was listed, was
  done or is behind its timestamp at every stage of the run (`ScanInv`,
  `CoveredTo`), and rounding down only lowers the timestamp; `NoRegress`
  (`TimestampsAdvance`): as long as no run acquired the lock with an old copy,
  whoever holds the lock has the state that is on disk (`StampInv`), and
  `WholeSeconds` is monotone and idempotent; `DreamRecorded`
  (`LastDreamRecorded`) follows from the same `StampInv`; `NoDoubleScan`
  (`ScannedOnce`): an extracted version is behind the timestamp on disk or
  behind the one its run is going to leave (`OnceInv`).
- `DreamCycleProofs`: `TypeCorrect`; `NoKnowledgeForgotten`
  (`NothingForgotten`), on both stores. Every step that removes content must be
  covered by content that is there. `PlanInv` says so for the action being
  applied: the facts of the notes it will delete are in what it has still to
  write or in active notes that stay (`StatusInv`: what was active when it was
  read still is); `SnapInv` that a note no one rewrote in this
  cycle carries no more than its batch was shown, which is exactly what
  `retouched` and `outdated` break; `UidInv` that a new uid names no note.
  Failures and crashes need no strengthening: they only leave actions out
  from the end, and a deletion is always last. The same invariant gives the
  first half of `RecallKeeps` (`StaysRecallable`), that active facts stay
  (`ActiveFactsStay`). The other half needs that an active note is tracked or on
  the list of the running batch (`TrackInv`), and on the server that the index
  is changed by nothing but `Reindex`, to a work tree that has all it had
  (`SeenInv`). `AllCommitted` (`AtRestCommitted`): a file
  ahead of the index is on the cycle's lists or was just added, and the index is
  ahead of HEAD only between a `git add` and its commit (`CommitInv`). `CommittedStays` (`HeadKeeps`) is about
  what a crash or another machine finds: HEAD is covered by the index, and the
  index by what the commit at the end of the batch will make of it. The files
  are not enough for that: the sources of an action must be covered by what is
  on its lists to be *added*, not just by what is on disk, and what is only on
  disk must be on these lists too (`HeadInv`: `Covered`, `IndexBehind`,
  `CommitsKeep`).
- `ServerProofs`: `TypeCorrect`; `PushedHolds` (`PushedUnlessFailed`: a commit
  that is not on the remote is on its way there, or a push failed); `MirrorHolds`
  (`MirrorUnlessMissed`: what differs from S3 is in the last commit's changes,
  and these are what the sync looks at); `DeletedHolds` (`DeletedIsKept`). For
  the last a note must be held in the work tree, in the index *and* in the last
  commit (`KeepInv`): a failed commit leaves the three apart, and the next one
  commits the index. The first attempt at this proof failed and showed a
  behaviour outside the run's bounds, of three notes and three receives: a note
  that was merged in the work tree, in a batch whose commit failed, holds
  another's content in the last commit only, and its redelivery commits it
  without. The hazard `overwritten` names this case.
- `PipelineProofs`, of a whole conversation (`PSpec`): `ChunksHold`
  (`ChunksCover`), `SummaryHolds` (`SummaryIsLatest`), `OverrideHolds`
  (`HarnessDecides`), `LossHolds` (`LossIsExplained`). The code's loops are
  folds, and the library says of a fold only that it is some function with a
  certain recursion. `FoldExists` proves, by induction over the length, that
  there is one; `Folded`, that the fold then is what the loop has after its last
  step; one lemma for each loop gives its step (`TokensRun`, `NotesRun`,
  `SplitRun`, `BaseRun`, `RouteRun`, ...). The rest is induction over a loop's
  steps (`Steps`): a split leaves out no line and no chunk is too long
  (`SplitSound`), a note's chunk is one of the chunks (`NotesInChunks`), the last
  override for the harness decides (`LastWins`), every note has a target and every target a
  base (`ResolveType`, `RoutedNotes`). The invariant `PInv` follows a note: it is
  found, passed over or in a chunk ahead of us (`Accounted`); once routed it has
  a job; and the jobs behind the loop are settled (`Concluded`).
  `LossIsExplained` is what is left of these at the end. `SummaryIsLatest` needs
  the stages between the prompts too (`Remembered`).
- `PipelineProofs`, of submission (`Spec`): `TypeCorrect`, `CopiesHold`
  (`CopiesExplained`), `RoutedHolds` (`RoutedIsKept`), `RefusalHolds`
  (`NothingAfterRefusal`), and `Implements`: submission implements `Delivery`.
  The invariant says where the loop is: the job at hand is open and has as many
  copies as answers were lost, and nothing was done about the ones behind it
  (`Position`); a base is skipped for a refusal of an earlier job and is not the
  one at hand (`Closed`). The properties are conjuncts of it, because they say of
  a settled job what no later step undoes. Every route ends in one of two lemmas:
  a step within a job (`Aside`) or one that settles it (`Settled`).
  `PipelineSubmits` shows that a conversation's run is a run of `Spec`, whatever
  was extracted and however it was routed, so these hold of `PSpec` as well
  (`PipelineCopies`, `PipelineKeeps`, `PipelineStops`, `PipelineDelivers`).
- `PipelineProofs`, of the throttle (`ThSpec`): `ThrottleTypeCorrect`,
  `RateKeptHolds`. The invariant: what a caller saw is not later than `last`,
  which is not later than the clock; a sleeping caller wakes no earlier than a
  delay after what it saw, and it has not passed since.
- `ScheduleProofs`: `TypeCorrect`; `OnceADayHolds`: a run of recall logs begins
  a rest after the last one and not before the scheduled hour (`Spaced`), so the
  second one of a day begins a rest after that hour, and there is no third if two
  rests are a day at least; the theorem has `Day <= 2 * Rest` as its hypothesis
  (24 hours against twice 20). `EveryDayHolds`: the premise leaves room
  for an ingestion between the scheduled hour, or the end of the rest if that
  is later, and midnight (`Window`), and until one is seen the logs wait
  (`Waiting`). `NotStarvedHolds`: without failures dream cycles and
  ingestions alternate (`Alternate`): a dream cycle begins at most a job's
  length after an ingestion, and after one that ended in less than the interval
  none is due.

- `HookProofs`: `HookTypes` (`TypeOK`), `NoteOnce` (`NothingTwice`),
  `FairRanking` (`RankedFairly`), `FollowUps` (`FollowUpCompetes`), `NotesOnce`
  (`InjectedOnce`). Two of the rankings are an order on a finite set, cut off
  at a limit, and the model takes the k-th result for the one that k - 1 others
  come before. That there is one, and only one, is a lemma of any strict linear
  order (`Ranks`, `RankOrders`): the number of elements below an element is
  injective, hence takes every value. For the merge the order is that of the
  turns (`TurnsLinear`: rank first, then list), and the first turn of a note is
  always fresh (`FreshFirst`), so a note that is missing has a turn behind the
  last one put out (`OutFair`). For the follow-up it is the stable sort of the
  scores (`HigherLinear`, `Sorted`). Of the hook's own invariant, `Flow` ties the
  answers to the knowledge bases still asked, and `Prompted` says that a
  conversation whose notes were put out has the line of a prompt, so that it
  takes a line the scanner cannot read for `NotFirst` to miss it.

Only model-checked: the liveness properties (`NeverWedged`,
`ShutsDownWhenResolved`, `EventuallyScanned`, `RunEnds`, `QueueDrains`,
`HookEnds`), which are beyond the prover.

## Where code and documentation disagree

`server_unpushed` is a run of its own: `CommitBatch` takes "nothing staged" for
"done", so the redelivery after a failed push deletes the message of a note that
no other machine has (`cli/server/codecommit.go:44`, against
`specs/01-mvp/cdk/spec.md:224`). The others are the exceptions of properties
that hold otherwise:

- An Acquire that reads the lock file between a heartbeat's truncation and its
  write takes a lock that is held (`lock.go:137`; hazard `torn` of `LockFile`; spec.md:43).
- A holder that wakes up after its lock was taken over removes the new holder's
  file, and a third invocation joins it (`lock.go:97`; `slept`; spec.md:353).
- Of two requests for different KBs of a note the later rewrite puts the
  first, acknowledged KB back on the list (`pending.go:99`; `relisted`;
  contracts/approval-api.md:67).
- A rewrite of a pending file that fails after its truncation, for want of
  space say, leaves a file that does not parse, and the KBs still to be decided
  are lost with the note: the handler answers 500 and nothing lists it again
  (`pending.go:121`; `torn`; contracts/approval-api.md:67).
- An override for a persona never applies, and neither does the approval it
  demands: sessions are found without their persona (`process.go:207`;
  `HarnessDecides`; spec.md:280, spec.md:89).
- A session modified after the run listed the directory lends the run its later
  time, and one modified in between is skipped for good (`process.go:109`;
  `overtaken`; the comment at `process.go:177`).
- The state file keeps whole seconds, so the newest session is extracted again
  by the next run (`process.go:145`; `fraction`; spec.md:108).
- Two batches of a cycle merge into one note, each with its content of phase 2:
  the second overwrites what the first added (`actions.go:99`; `retouched`; the
  consolidation prompt).
- A note that replaces active ones is untracked, so that no search finds it,
  while they are deleted already, until the `git add` of its batch
  (`actions.go:186`, `local_store.go:49`; `Coming`). After a crash or a failed
  `git add` it stays so: the next run of the cycle knows nothing of it
  (`crash`, `failed`; spec.md:339).
- A failed S3 sync is said to be retried at the next tick (`ingest.go:89`) and
  caught by the next phase 0 (`cdk/spec.md:225`), but every sync looks at the
  last commit only (`s3sync.go:65`; `missed`).
- A dream cycle commits each batch and syncs once: the objects of all batches
  but the last stay behind without any failure (`missed`).
- A tick that begins before midnight and processes the recall logs after it asks
  for the wrong day (`recalllog.go:39`; `crossed`), and a day whose scheduled
  hour is later than its drift allows is skipped (the premise of `EveryDay`).
- The recall logs are processed twice on a day if the schedule is before 04:00:
  at 03:00 and, 20 hours being over, at 23:00 (`server.go:102`; `OnceADay`; the
  comment at `server.go:90`, cdk/spec.md:196, spec.md:310: once per day).
- `Extract` retries on errors but takes malformed output for no notes
  (the comment at `extract.go:30`).
- With every chunk failing a long conversation is processed without an error
  (`extract.go:98`).
- A note that a correction made too long is counted as an error and not staged
  (`remote.go:76`; spec.md:134: such a note is staged).

## What is not modelled

- A suspension inside a single file operation (lock), file-system errors of
  the directory itself, and clocks that jump.
- In the capture run: several source directories (they share the state file
  but no timestamps), the deletion of session files, the time between the
  listing and the `stat` of each file.
- In the pipeline: rounding of token estimates, a 400 of the API gateway itself,
  the wording of corrections, the uid a note gets (`uid.go`).
- In the dream cycle: a model that drops information although its prompt
  forbids it (nothing in the code notices, apart from a warning), a write cut
  in the middle of `os.WriteFile`, several KBs in one run (they share
  nothing), titles, authors and `consolidated-from-notes`.
- On the server: several machines (the group has one), more than ten messages
  at a time, retries inside the calls of AWS, a search index that splits a note
  in chunks or lags behind its own ingestion job.
- In the hook: notor, the count of pending notes, the wording of the output.
- In the approval server: the wording of answers, listing, edits of title and
  content, assets. Edits go to the one submission and are not written back to
  the file, although contracts/approval-api.md:69 says so.
- Code with no order of steps to check or no state of its own: the setup wizard
  and `status`, hook registration, the translators of two transcript formats,
  prompts, crontab editing, the run log, the client of the model service, and
  the declarative AWS resources.
- `multi-kb run` as one composition of `LockFile`, `Capture` and `DreamCycle`:
  each phase acquires the lock by itself, and between them any command may run;
  `Capture` has that already, with the lock taken to exclude.

What could be proved next: that `LockFile` implements, as long as none of its
races happened, the lock that `Capture` takes to exclude; that the
consolidation of `Server` is one that `DreamCycle` allows.

Hazards that no property covers: between the two locks of `multi-kb run` another
command can run (`cmd/run.go:29`); hook registration changes the harness's
settings file without a lock (`hook/claudecode.go:107`); running the setup again
replaces the state file under a run (`cmd/setup.go:306`); one keyword with a
forbidden character makes every local search fail (`git/grep.go:43`); a note
found by both queries of the recall function keeps the score of the first
(`cdk/lambda/recall/index.ts:200`); a malformed line makes `ReadRunLog` loop
(`logging/runs.go:68`).
