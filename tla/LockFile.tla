------------------------------ MODULE LockFile ------------------------------
(***************************************************************************)
(* The lock file ~/.multi-kb/lock (cli/internal/lock/lock.go) shared by    *)
(* `multi-kb process`, `dream-cycle`, `run` and the server.                *)
(*                                                                         *)
(* Every file operation of the code is a step of its own: Acquire reads    *)
(* the file, then opens it with truncation, then writes it; a heartbeat    *)
(* reads it, truncates it and writes it back under the Lock's mutex;       *)
(* Release removes it under the same mutex.  A process can crash between   *)
(* any two steps and a holder can be suspended (a sleeping laptop).        *)
(*                                                                         *)
(* Time is counted in heartbeat intervals.  Only the age of the heartbeat  *)
(* on disk matters to the code, so the record keeps its age, capped at     *)
(* TTL (where it is stale), and no clock grows without bound.              *)
(*                                                                         *)
(* hazard is a history variable: no action reads it.                       *)
(***************************************************************************)
EXTENDS Naturals, FiniteSets

CONSTANTS
  Proc,      \* the invocations of the CLI that use the lock
  TTL,       \* staleTTL, in heartbeat intervals (30 in the code)
  Absent,    \* the file does not exist
  Empty,     \* it was truncated and not written yet
  Garbage    \* two writers left bytes that do not parse

Record == [pid : Proc, age : 0..TTL]

ASSUME LockAssumption ==
  /\ TTL \in Nat /\ TTL >= 2
  /\ Absent \notin Record /\ Empty \notin Record /\ Garbage \notin Record
  /\ Absent # Empty /\ Absent # Garbage /\ Empty # Garbage

VARIABLES
  file,      \* what is at the lock path
  pc,        \* where the command is: Acquire's steps, holding, or gone
  hb,        \* heartbeatLoop; "read" and "trunc" are inside the mutex
  buf,       \* the pid in the record a heartbeat has read
  due,       \* the ticker has fired and the loop has not taken the tick
  wake,      \* "asleep": suspended; "woken": resumed, no heartbeat since
  detached,  \* processes whose open descriptor is of an unlinked file
  hazard     \* history: the races that let an Acquire through

vars == <<file, pc, hb, buf, due, wake, detached, hazard>>

PCs     == {"idle", "refused", "clear", "writing", "held", "crashed"}
HBs     == {"off", "idle", "read", "trunc"}
Hazards == {"overlap", "torn", "slept"}

TypeOK ==
  /\ file \in Record \cup {Absent, Empty, Garbage}
  /\ pc \in [Proc -> PCs]
  /\ hb \in [Proc -> HBs]
  /\ buf \in [Proc -> Proc]
  /\ due \in [Proc -> BOOLEAN]
  /\ wake \in [Proc -> {"awake", "asleep", "woken"}]
  /\ detached \subseteq Proc
  /\ hazard \subseteq Hazards

Init ==
  /\ file = Absent
  /\ pc = [p \in Proc |-> "idle"]
  /\ hb = [p \in Proc |-> "off"]
  /\ buf = [p \in Proc |-> p]
  /\ due = [p \in Proc |-> FALSE]
  /\ wake = [p \in Proc |-> "awake"]
  /\ detached = {} /\ hazard = {}

-----------------------------------------------------------------------------
(* The state of the file, as Acquire and IsHeld judge it *)

Parses == file \in Record
Fresh_NoTTL == Parses
Fresh == Parses /\ file.age < TTL

Holders  == {p \in Proc : pc[p] = "held"}
InWindow == {p \in Proc : pc[p] \in {"clear", "writing"}}
Writing  == {p \in Proc : pc[p] = "writing" \/ hb[p] = "trunc"}

(* What is on disk after p writes a record over the bytes it truncated.    *)
(* The write goes to p's descriptor: nowhere if that file was unlinked;    *)
(* over another process's bytes of another length it can leave garbage.    *)
Written(p, owner) ==
  LET rec == [pid |-> owner, age |-> 0]
      overwrites == file = Empty \/ (Parses /\ file.pid = owner)
  IN  IF p \in detached THEN {file}
      ELSE IF overwrites THEN {rec}
      ELSE {rec, Garbage}

-----------------------------------------------------------------------------
(* Acquire *)

(* The races an Acquire of p that passes its check is part of *)
Endangers(kind, p) ==
  \/ kind = "overlap" /\ InWindow \ {p} # {}
  \/ kind = "torn"    /\ file \in {Empty, Garbage} /\ Holders # {}
  \/ kind = "slept"   /\ Parses /\ \E q \in Holders : wake[q] # "awake"

AcquireRefused(p) ==
  /\ pc[p] = "idle" /\ Fresh
  /\ pc' = [pc EXCEPT ![p] = "refused"]
  /\ UNCHANGED <<file, hb, buf, due, wake, detached, hazard>>

AcquireCheck(p) ==
  /\ pc[p] = "idle" /\ ~Fresh
  /\ pc' = [pc EXCEPT ![p] = "clear"]
  /\ hazard' = hazard \cup {k \in Hazards : Endangers(k, p)}
  /\ UNCHANGED <<file, hb, buf, due, wake, detached>>

AcquireOpen(p) ==
  /\ pc[p] = "clear"
  /\ pc' = [pc EXCEPT ![p] = "writing"]
  /\ file' = Empty
  /\ UNCHANGED <<hb, buf, due, wake, detached, hazard>>

AcquireWrite(p) ==
  /\ pc[p] = "writing"
  /\ file' \in Written(p, p)
  /\ pc' = [pc EXCEPT ![p] = "held"]
  /\ hb' = [hb EXCEPT ![p] = "idle"]
  /\ detached' = detached \ {p}
  /\ UNCHANGED <<buf, due, wake, hazard>>

(* The write fails (a full disk): an error is returned, no lock is held,   *)
(* and the truncated file stays.                                           *)
AcquireFails(p) ==
  /\ pc[p] = "writing"
  /\ pc' = [pc EXCEPT ![p] = "refused"]
  /\ detached' = detached \ {p}
  /\ UNCHANGED <<file, hb, buf, due, wake, hazard>>

(* The command that did not get the lock prints its message and exits; the *)
(* slot is free for a later invocation.                                    *)
Exit(p) ==
  /\ pc[p] = "refused"
  /\ pc' = [pc EXCEPT ![p] = "idle"]
  /\ UNCHANGED <<file, hb, buf, due, wake, detached, hazard>>

-----------------------------------------------------------------------------
(* Release and the heartbeat goroutine *)

Running(p) == pc[p] = "held" /\ wake[p] # "asleep"

LeaveHeld(p) ==
  /\ hb' = [hb EXCEPT ![p] = "off"]
  /\ buf' = [buf EXCEPT ![p] = p]
  /\ due' = [due EXCEPT ![p] = FALSE]
  /\ wake' = [wake EXCEPT ![p] = "awake"]

Release_NoMutex(p) ==
  /\ Running(p)
  /\ file' = Absent
  /\ detached' = detached \cup Writing
  /\ pc' = [pc EXCEPT ![p] = "idle"]
  /\ UNCHANGED <<hb, buf, due, wake, hazard>>

(* Removes whatever is at the path, its own record or not *)
Release(p) ==
  /\ Running(p) /\ hb[p] = "idle"
  /\ file' = Absent
  /\ detached' = detached \cup Writing
  /\ pc' = [pc EXCEPT ![p] = "idle"]
  /\ LeaveHeld(p)
  /\ UNCHANGED hazard

HeartbeatRead_Lost(p) ==
  /\ hb[p] = "idle" /\ wake[p] # "asleep" /\ due[p]
  /\ due' = [due EXCEPT ![p] = FALSE]
  /\ UNCHANGED <<file, pc, hb, buf, wake, detached, hazard>>

(* Takes the mutex and reads the file; a file that is gone or does not     *)
(* parse is left alone until the next tick.  A suspended process is always *)
(* between heartbeats (Suspend), so the two steps after this one need not  *)
(* ask whether it is awake.                                                *)
HeartbeatRead(p) ==
  /\ hb[p] = "idle" /\ wake[p] # "asleep" /\ due[p]
  /\ due' = [due EXCEPT ![p] = FALSE]
  /\ \/ /\ Parses
        /\ hb' = [hb EXCEPT ![p] = "read"]
        /\ buf' = [buf EXCEPT ![p] = file.pid]
     \/ /\ ~Parses
        /\ UNCHANGED <<hb, buf>>
  /\ UNCHANGED <<file, pc, wake, detached, hazard>>

HeartbeatOpen(p) ==
  /\ hb[p] = "read"
  /\ hb' = [hb EXCEPT ![p] = "trunc"]
  /\ file' = Empty
  /\ UNCHANGED <<pc, buf, due, wake, detached, hazard>>

(* The refreshed record keeps the pid that was read, whoever that is *)
HeartbeatWrite(p) ==
  /\ hb[p] = "trunc"
  /\ file' \in Written(p, buf[p])
  /\ hb' = [hb EXCEPT ![p] = "idle"]
  /\ buf' = [buf EXCEPT ![p] = p]
  /\ wake' = [wake EXCEPT ![p] = "awake"]
  /\ detached' = detached \ {p}
  /\ UNCHANGED <<pc, due, hazard>>

(* The write fails and its error is dropped *)
HeartbeatFails(p) ==
  /\ hb[p] = "trunc"
  /\ hb' = [hb EXCEPT ![p] = "idle"]
  /\ buf' = [buf EXCEPT ![p] = p]
  /\ detached' = detached \ {p}
  /\ UNCHANGED <<file, pc, due, wake, hazard>>

-----------------------------------------------------------------------------
(* The environment *)

Crash(p) ==
  /\ pc[p] \in {"clear", "writing", "held"}
  /\ pc' = [pc EXCEPT ![p] = "crashed"]
  /\ detached' = detached \ {p}
  /\ LeaveHeld(p)
  /\ UNCHANGED <<file, hazard>>

(* A suspension inside a single file operation is not modelled *)
Suspend(p) ==
  /\ Running(p) /\ hb[p] = "idle"
  /\ wake' = [wake EXCEPT ![p] = "asleep"]
  /\ UNCHANGED <<file, pc, hb, buf, due, detached, hazard>>

Resume(p) ==
  /\ pc[p] = "held" /\ wake[p] = "asleep"
  /\ wake' = [wake EXCEPT ![p] = "woken"]
  /\ UNCHANGED <<file, pc, hb, buf, due, detached, hazard>>

OlderFile ==
  IF Parses /\ file.age < TTL THEN [file EXCEPT !.age = @ + 1] ELSE file

(* One heartbeat interval passes.  A process that is not suspended takes   *)
(* far less than an interval for a file operation, and has served its      *)
(* previous tick.                                                          *)
Tick ==
  /\ InWindow = {}
  /\ \A p \in Proc : Running(p) => ~due[p] /\ hb[p] = "idle"
  /\ file' = OlderFile
  /\ due' = [p \in Proc |-> pc[p] = "held"]
  /\ UNCHANGED <<pc, hb, buf, wake, detached, hazard>>

-----------------------------------------------------------------------------

Step(p) ==
  \/ AcquireRefused(p) \/ AcquireCheck(p) \/ AcquireOpen(p)
  \/ AcquireWrite(p) \/ AcquireFails(p) \/ Exit(p)
  \/ Release(p)
  \/ HeartbeatRead(p) \/ HeartbeatOpen(p)
  \/ HeartbeatWrite(p) \/ HeartbeatFails(p)
  \/ Crash(p) \/ Suspend(p) \/ Resume(p)

Next == Tick \/ \E p \in Proc : Step(p)

Spec == Init /\ [][Next]_vars

(* Scheduling: an invocation that started its Acquire finishes it, a       *)
(* goroutine that holds the mutex finishes, a suspended machine resumes,   *)
(* a command eventually returns and time passes.  Nobody has to start a    *)
(* new invocation, to crash or to fall asleep.                             *)
Fairness ==
  /\ WF_vars(Tick)
  /\ \A p \in Proc :
       /\ WF_vars(AcquireOpen(p))
       /\ WF_vars(AcquireWrite(p) \/ AcquireFails(p))
       /\ WF_vars(HeartbeatRead(p))
       /\ WF_vars(HeartbeatOpen(p))
       /\ WF_vars(HeartbeatWrite(p) \/ HeartbeatFails(p))
       /\ WF_vars(Resume(p))
       /\ SF_vars(Release(p))

FairSpec == Spec /\ Fairness

-----------------------------------------------------------------------------
(* Properties *)

Mutex == \A p, q \in Holders : p = q

(* Two commands hold the lock together only after one of three races: an   *)
(* Acquire that ran inside another's check-then-write window, a read of a  *)
(* file that a heartbeat was rewriting, or the takeover of a lock whose    *)
(* holder was suspended.  In particular the heartbeat alone keeps a live   *)
(* holder from being taken for stale, and no Release or heartbeat takes    *)
(* the file away from a holder.                                            *)
ExclusionUnlessHazard == hazard = {} => Mutex

(* The file follows the holder: a holder's record is on disk (or is being  *)
(* rewritten), and a record on disk belongs to a holder or to a process    *)
(* that crashed.  So a heartbeat never brings back the record of a lock    *)
(* that was released.                                                      *)
FileTracksHolder ==
  hazard = {} =>
    /\ \A p \in Holders : file = Empty \/ (Parses /\ file.pid = p)
    /\ Parses => pc[file.pid] \in {"held", "crashed"}

(* A lock can always be acquired again later: whatever crashes, sleeps or  *)
(* races happen, no record stays fresh for ever.                           *)
NeverWedged == []<>~Fresh
=============================================================================
