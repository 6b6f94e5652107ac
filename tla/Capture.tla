------------------------------- MODULE Capture -------------------------------
(***************************************************************************)
(* The capture run (cli/internal/cmd/process.go) and the state file        *)
(* ~/.multi-kb/state.yaml (cli/internal/config/state.go) it shares with    *)
(* the dream cycle, for one source directory.                              *)
(*                                                                         *)
(* A run decides what to scan by comparing the modification times of the   *)
(* session files with the timestamp in the state file, while harnesses go  *)
(* on writing those files.  It loads the state before it has the lock and  *)
(* saves it, with its new timestamp, at the end.                           *)
(*                                                                         *)
(* Time is counted in fractions of a second: file systems keep fractions,  *)
(* the state file (RFC 3339) whole seconds.  A version of a session is     *)
(* named by its modification time.  The lock is taken to exclude: module   *)
(* LockFile says when it does.                                             *)
(*                                                                         *)
(* done, scans, dreamt and hazard are history variables.                   *)
(***************************************************************************)
EXTENDS Naturals, FiniteSets

CONSTANTS
  Session,   \* session files of the directory
  Run,       \* invocations of the CLI
  None,      \* no session, no lock holder
  Sec,       \* fractions in a second
  MaxClock   \* bound on the clock

ASSUME CaptureAssumption ==
  /\ Sec \in Nat \ {0} /\ MaxClock \in Nat /\ MaxClock >= Sec
  /\ None \notin Session /\ None \notin Run

VARIABLES
  clock,    \* now
  mtime,    \* [Session -> modification time], 0 before the file exists
  disk,     \* the state file: last_processed and last_dream_cycle, 0 if unset
  holder,   \* who has the lock
  pc,       \* [Run -> where the invocation is]
  snap,     \* [Run -> the state it loaded]
  listed,   \* [Run -> when it listed the sessions]
  todo,     \* [Run -> the sessions it has still to process]
  cur,      \* [Run -> the session it is processing]
  version,  \* [Run -> the version of that session it read]
  latest,   \* [Run -> latestModTime]
  done,     \* [Session -> the latest version handed to the extractor]
  scans,    \* [Session -> how often its current version was]
  dreamt,   \* the time of the last completed dream cycle
  hazard

locals  == <<snap, listed, todo, cur, version, latest>>
history == <<done, scans, dreamt, hazard>>
vars    == <<clock, mtime, disk, holder, pc, snap, listed, todo, cur, version,
             latest, done, scans, dreamt, hazard>>

Time    == 0..MaxClock
State   == [last : Time, dream : Time]
PCs     == {"idle", "loaded", "list", "scan", "read", "extract", "dream",
            "dreamt"}
Hazards == {"overtaken", "untranslated", "fraction", "stale", "unsaved",
            "crash"}

(* time.RFC3339 keeps whole seconds *)
WholeSeconds(t) == t - (t % Sec)

TypeOK ==
  /\ clock \in Time
  /\ mtime \in [Session -> Time]
  /\ disk \in State
  /\ holder \in Run \cup {None}
  /\ pc \in [Run -> PCs]
  /\ snap \in [Run -> State]
  /\ listed \in [Run -> Time]
  /\ todo \in [Run -> SUBSET Session]
  /\ cur \in [Run -> Session \cup {None}]
  /\ version \in [Run -> Time]
  /\ latest \in [Run -> Time]
  /\ done \in [Session -> Time]
  /\ scans \in [Session -> 0..2]
  /\ dreamt \in Time
  /\ hazard \subseteq Hazards

NoState == [last |-> 0, dream |-> 0]

Init ==
  /\ clock = Sec
  /\ mtime = [s \in Session |-> 0]
  /\ disk = NoState
  /\ holder = None
  /\ pc = [r \in Run |-> "idle"]
  /\ snap = [r \in Run |-> NoState]
  /\ listed = [r \in Run |-> 0]
  /\ todo = [r \in Run |-> {}]
  /\ cur = [r \in Run |-> None]
  /\ version = [r \in Run |-> 0]
  /\ latest = [r \in Run |-> 0]
  /\ done = [s \in Session |-> 0]
  /\ scans = [s \in Session |-> 0]
  /\ dreamt = 0
  /\ hazard = {}

Goto(r, to) == pc' = [pc EXCEPT ![r] = to]

(* The invocation is over and what it held in memory is gone *)
Finish(r) ==
  /\ Goto(r, "idle")
  /\ snap' = [snap EXCEPT ![r] = NoState]
  /\ listed' = [listed EXCEPT ![r] = 0]
  /\ todo' = [todo EXCEPT ![r] = {}]
  /\ cur' = [cur EXCEPT ![r] = None]
  /\ version' = [version EXCEPT ![r] = 0]
  /\ latest' = [latest EXCEPT ![r] = 0]

-----------------------------------------------------------------------------
(* The environment *)

(* A harness appends to a session file, at any time *)
Touch(s) ==
  /\ clock < MaxClock
  /\ clock' = clock + 1
  /\ mtime' = [mtime EXCEPT ![s] = clock + 1]
  /\ scans' = [scans EXCEPT ![s] = 0]
  /\ UNCHANGED <<disk, holder, pc, locals, done, dreamt, hazard>>

Tick ==
  /\ clock < MaxClock
  /\ clock' = clock + 1
  /\ UNCHANGED <<mtime, disk, holder, pc, locals, history>>

(* The invocation dies; the lock it leaves goes stale and can be taken *)
Crash(r) ==
  /\ pc[r] \notin {"idle", "loaded"}
  /\ Finish(r)
  /\ holder' = None
  /\ hazard' = hazard \cup {"crash"}
  /\ UNCHANGED <<clock, mtime, disk, done, scans, dreamt>>

-----------------------------------------------------------------------------
(* The capture run *)

(* runProcess loads the state first ... *)
LoadState(r) ==
  /\ pc[r] = "idle"
  /\ Goto(r, "loaded")
  /\ snap' = [snap EXCEPT ![r] = disk]
  /\ UNCHANGED <<clock, mtime, disk, holder, listed, todo, cur, version,
                 latest, history>>

(* ... and then acquires the lock *)
Acquire(r) ==
  /\ pc[r] = "loaded" /\ holder = None
  /\ Goto(r, "list")
  /\ holder' = r
  /\ hazard' = IF snap[r] # disk THEN hazard \cup {"stale"} ELSE hazard
  /\ UNCHANGED <<clock, mtime, disk, locals, done, scans, dreamt>>

AcquireRefused(r) ==
  /\ pc[r] = "loaded" /\ holder # None
  /\ Finish(r)
  /\ UNCHANGED <<clock, mtime, disk, holder, history>>

(* The Bedrock client cannot be created: the run ends and saves nothing *)
ClientFails(r) ==
  /\ pc[r] = "list"
  /\ Finish(r)
  /\ holder' = None
  /\ UNCHANGED <<clock, mtime, disk, history>>

Discover_AtOrAfter(r) ==
  /\ pc[r] = "list"
  /\ Goto(r, "scan")
  /\ listed' = [listed EXCEPT ![r] = clock]
  /\ todo' = [todo EXCEPT ![r] = {s \in Session : mtime[s] # 0
                                                 /\ mtime[s] >= snap[r].last}]
  /\ UNCHANGED <<clock, mtime, disk, holder, snap, cur, version, latest,
                 history>>

(* discoverSessions: every file if no timestamp is set, else the files     *)
(* modified after it.                                                      *)
Discover(r) ==
  /\ pc[r] = "list"
  /\ Goto(r, "scan")
  /\ listed' = [listed EXCEPT ![r] = clock]
  /\ todo' = [todo EXCEPT ![r] = {s \in Session : mtime[s] > snap[r].last}]
  /\ UNCHANGED <<clock, mtime, disk, holder, snap, cur, version, latest,
                 history>>

(* The directory cannot be read: nothing is scanned, the state is saved *)
DiscoverFails(r) ==
  /\ pc[r] = "list"
  /\ Goto(r, "scan")
  /\ listed' = [listed EXCEPT ![r] = clock]
  /\ UNCHANGED <<clock, mtime, disk, holder, snap, todo, cur, version, latest,
                 history>>

(* translateSession reads the file ...  (sessions come in the order of the *)
(* directory listing, which the model leaves open)                         *)
Translate(r, s) ==
  /\ pc[r] = "scan" /\ s \in todo[r]
  /\ Goto(r, "read")
  /\ todo' = [todo EXCEPT ![r] = @ \ {s}]
  /\ cur' = [cur EXCEPT ![r] = s]
  /\ version' = [version EXCEPT ![r] = mtime[s]]
  /\ UNCHANGED <<clock, mtime, disk, holder, snap, listed, latest, history>>

TranslateFails(r, s) ==
  /\ pc[r] = "scan" /\ s \in todo[r]
  /\ todo' = [todo EXCEPT ![r] = @ \ {s}]
  /\ hazard' = hazard \cup {"untranslated"}
  /\ UNCHANGED <<clock, mtime, disk, holder, pc, snap, listed, cur, version,
                 latest, done, scans, dreamt>>

StatFile_WallClock(r) ==
  /\ pc[r] = "read"
  /\ Goto(r, "extract")
  /\ latest' = [latest EXCEPT ![r] = clock]
  /\ hazard' = IF mtime[cur[r]] > listed[r] THEN hazard \cup {"overtaken"}
               ELSE hazard
  /\ UNCHANGED <<clock, mtime, disk, holder, snap, listed, todo, cur, version,
                 done, scans, dreamt>>

(* ... and then asks for its modification time, which may be another       *)
(* version's                                                               *)
StatFile(r) ==
  /\ pc[r] = "read"
  /\ Goto(r, "extract")
  /\ LET m == mtime[cur[r]]
     IN  /\ latest' = [latest EXCEPT ![r] = IF m > @ THEN m ELSE @]
         /\ hazard' = IF m > listed[r] THEN hazard \cup {"overtaken"}
                      ELSE hazard
  /\ UNCHANGED <<clock, mtime, disk, holder, snap, listed, todo, cur, version,
                 done, scans, dreamt>>

(* The extractor gets what was read; whether it succeeds, and what becomes *)
(* of the notes it returns, changes nothing here: latestModTime was        *)
(* advanced before.                                                        *)
Extract(r) ==
  /\ pc[r] = "extract"
  /\ Goto(r, "scan")
  /\ LET s == cur[r]
         v == version[r]
     IN  /\ done' = [done EXCEPT ![s] = IF v > @ THEN v ELSE @]
         /\ scans' = [scans EXCEPT ![s] = IF v = mtime[s] /\ @ < 2 THEN @ + 1
                                          ELSE @]
  /\ cur' = [cur EXCEPT ![r] = None]
  /\ version' = [version EXCEPT ![r] = 0]
  /\ UNCHANGED <<clock, mtime, disk, holder, snap, listed, todo, latest,
                 dreamt, hazard>>

NewLast_Unguarded(r) == WholeSeconds(latest[r])

(* The timestamp the run leaves: unchanged if it read no session *)
NewLast(r) ==
  IF latest[r] = 0 THEN snap[r].last ELSE WholeSeconds(latest[r])

SaveState_KeepsLock(r) ==
  /\ pc[r] = "scan" /\ todo[r] = {}
  /\ disk' = [snap[r] EXCEPT !.last = NewLast(r)]
  /\ Finish(r)
  /\ UNCHANGED <<clock, mtime, holder, history>>

SaveState_NewState(r) ==
  /\ pc[r] = "scan" /\ todo[r] = {}
  /\ disk' = [last |-> NewLast(r), dream |-> 0]
  /\ hazard' = IF WholeSeconds(latest[r]) # latest[r]
               THEN hazard \cup {"fraction"} ELSE hazard
  /\ Finish(r)
  /\ holder' = None
  /\ UNCHANGED <<clock, mtime, done, scans, dreamt>>

(* The state it loaded, with the new timestamp, replaces the file          *)
(* (temporary file and rename), and the lock is released.                  *)
SaveState(r) ==
  /\ pc[r] = "scan" /\ todo[r] = {}
  /\ disk' = [snap[r] EXCEPT !.last = NewLast(r)]
  /\ hazard' = IF WholeSeconds(latest[r]) # latest[r]
               THEN hazard \cup {"fraction"} ELSE hazard
  /\ Finish(r)
  /\ holder' = None
  /\ UNCHANGED <<clock, mtime, done, scans, dreamt>>

(* The error is printed *)
SaveFails(r) ==
  /\ pc[r] = "scan" /\ todo[r] = {}
  /\ hazard' = hazard \cup {"unsaved"}
  /\ Finish(r)
  /\ holder' = None
  /\ UNCHANGED <<clock, mtime, disk, done, scans, dreamt>>

-----------------------------------------------------------------------------
(* The end of a dream cycle, under the same lock *)

DreamAcquire(r) ==
  /\ pc[r] = "idle" /\ holder = None
  /\ Goto(r, "dream")
  /\ holder' = r
  /\ UNCHANGED <<clock, mtime, disk, locals, history>>

DreamLoad(r) ==
  /\ pc[r] = "dream"
  /\ Goto(r, "dreamt")
  /\ snap' = [snap EXCEPT ![r] = disk]
  /\ UNCHANGED <<clock, mtime, disk, holder, listed, todo, cur, version,
                 latest, history>>

DreamSave(r) ==
  /\ pc[r] = "dreamt"
  /\ disk' = [snap[r] EXCEPT !.dream = WholeSeconds(clock)]
  /\ dreamt' = WholeSeconds(clock)
  /\ Finish(r)
  /\ holder' = None
  /\ UNCHANGED <<clock, mtime, done, scans, hazard>>

(* The state cannot be loaded or saved: the error is dropped *)
DreamSaveFails(r) ==
  /\ pc[r] \in {"dream", "dreamt"}
  /\ Finish(r)
  /\ holder' = None
  /\ UNCHANGED <<clock, mtime, disk, history>>

-----------------------------------------------------------------------------

Process(r) ==
  \/ LoadState(r) \/ Acquire(r) \/ AcquireRefused(r)
  \/ ClientFails(r) \/ Discover(r) \/ DiscoverFails(r)
  \/ \E s \in Session : Translate(r, s) \/ TranslateFails(r, s)
  \/ StatFile(r) \/ Extract(r) \/ SaveState(r) \/ SaveFails(r)

DreamCycle(r) ==
  DreamAcquire(r) \/ DreamLoad(r) \/ DreamSave(r) \/ DreamSaveFails(r)

Next ==
  \/ Tick \/ \E s \in Session : Touch(s)
  \/ \E r \in Run : Process(r) \/ DreamCycle(r) \/ Crash(r)

Spec == Init /\ [][Next]_vars

(* Cron starts a run again and again, and not every start of it finds the  *)
(* lock taken; an invocation that has the lock runs to its end.  Crashes,  *)
(* failing clients and unreadable directories come to an end.              *)
Fairness ==
  /\ \A r \in Run :
       /\ SF_vars(LoadState(r) /\ holder = None)
       /\ SF_vars(Acquire(r))
       /\ SF_vars(Discover(r))
       /\ WF_vars(\E s \in Session : Translate(r, s) \/ TranslateFails(r, s))
       /\ WF_vars(StatFile(r)) /\ WF_vars(Extract(r))
       /\ WF_vars(SaveState(r) \/ SaveFails(r))
       /\ WF_vars(DreamLoad(r) \/ DreamSave(r) \/ DreamSaveFails(r))
  /\ <>[][\A r \in Run : ~Crash(r)]_vars

FairSpec == Spec /\ Fairness

-----------------------------------------------------------------------------
(* Properties *)

(* A session the timestamp says is done was handed to the extractor in its *)
(* current version, whatever crashes, failed saves and stale copies of the *)
(* state do: missed only if its translation failed, or if a file changed   *)
(* after the run listed the directory and lent the run its later time.     *)
NothingMissed ==
  hazard \cap {"overtaken", "untranslated"} = {} =>
    \A s \in Session : mtime[s] <= disk.last => done[s] = mtime[s]

(* A version of a session is extracted once, unless a crash, a failed      *)
(* save, a stale copy of the state or a fraction of a second lost in the   *)
(* state file makes a later run find it again.                             *)
ScannedOnce ==
  hazard \cap {"crash", "unsaved", "stale", "fraction"} = {} =>
    \A s \in Session : scans[s] <= 1

(* The two timestamps of the state file never go back, except when a run   *)
(* writes back a state it loaded before another invocation changed it.     *)
TimestampsAdvance ==
  [][ "stale" \notin hazard' =>
        disk'.last >= disk.last /\ disk'.dream >= disk.dream ]_vars

(* The state file holds the time of the last dream cycle that recorded     *)
(* its end (data-model.md:154), however captures and dream cycles follow   *)
(* each other, unless a capture run writes back a state it had loaded      *)
(* before that cycle ended.                                                *)
LastDreamRecorded == "stale" \notin hazard => disk.dream = dreamt

(* A session that was modified is extracted in the end, or modified again; *)
(* the exceptions are those of NothingMissed.                              *)
EventuallyScanned ==
  \A s \in Session :
    mtime[s] > done[s]
      ~> \/ mtime[s] = done[s]
         \/ hazard \cap {"overtaken", "untranslated"} # {}
=============================================================================
