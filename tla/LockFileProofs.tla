--------------------------- MODULE LockFileProofs ---------------------------
(***************************************************************************)
(* For any set of processes and any TTL of at least two heartbeats: the    *)
(* lock excludes as long as none of the three races of LockFile happened.  *)
(***************************************************************************)
EXTENDS LockFile, TLAPS

Busy == InWindow \cup Holders

(* The heartbeat goroutine lives exactly while the lock is held *)
LoopInv == \A p \in Proc : hb[p] # "off" <=> pc[p] = "held"

(* At most one process is past Acquire's check *)
SoleInv == \A p, q \in Busy : p = q

(* What is on disk, given who is doing what *)
FileInv ==
  /\ detached = {}
  /\ \A p \in Proc :
       /\ pc[p] = "writing" => file = Empty
       /\ pc[p] = "held" => file = Empty \/ (Parses /\ file.pid = p)
       /\ hb[p] = "trunc" => file = Empty
       /\ hb[p] \in {"read", "trunc"} => buf[p] = p
  /\ Parses => pc[file.pid] \in {"held", "crashed"}

(* A holder that is awake is never more than one interval behind *)
AgeInv ==
  \A p \in Holders :
    wake[p] = "awake" /\ Parses =>
      /\ file.age <= 1
      /\ ~due[p] /\ hb[p] # "read" => file.age = 0

IInv == LoopInv /\ (hazard = {} => SoleInv /\ FileInv /\ AgeInv)

-----------------------------------------------------------------------------
(* Type correctness *)

LEMMA WrittenType ==
  ASSUME TypeOK, NEW p \in Proc, NEW o \in Proc
  PROVE  Written(p, o) \subseteq Record \cup {Absent, Empty, Garbage}
  BY LockAssumption DEF TypeOK, Written, Record

LEMMA OlderFileType ==
  ASSUME TypeOK
  PROVE  /\ OlderFile \in Record \cup {Absent, Empty, Garbage}
         /\ Parses => /\ OlderFile \in Record
                      /\ OlderFile.pid = file.pid
                      /\ OlderFile.age \in {file.age, file.age + 1}
         /\ ~Parses => OlderFile = file
  BY LockAssumption DEF TypeOK, OlderFile, Parses, Record

(* Every reachable state of the lock protocol has the declared types *)
THEOREM TypeCorrect == Spec => []TypeOK
<1>1. Init => TypeOK
  BY DEF Init, TypeOK, PCs, HBs, Hazards
<1>2. TypeOK /\ [Next]_vars => TypeOK'
  <2> SUFFICES ASSUME TypeOK, [Next]_vars PROVE TypeOK'
    OBVIOUS
  <2> USE DEF TypeOK, PCs, HBs, Hazards
  <2>1. CASE Tick
    BY <2>1, OlderFileType DEF Tick
  <2>2. ASSUME NEW p \in Proc, AcquireRefused(p) PROVE TypeOK'
    BY <2>2 DEF AcquireRefused
  <2>3. ASSUME NEW p \in Proc, AcquireCheck(p) PROVE TypeOK'
    BY <2>3 DEF AcquireCheck, Holders
  <2>4. ASSUME NEW p \in Proc, AcquireOpen(p) PROVE TypeOK'
    BY <2>4 DEF AcquireOpen
  <2>5. ASSUME NEW p \in Proc, AcquireWrite(p) PROVE TypeOK'
    BY <2>5, WrittenType DEF AcquireWrite
  <2>6. ASSUME NEW p \in Proc, AcquireFails(p) PROVE TypeOK'
    BY <2>6 DEF AcquireFails
  <2>7. ASSUME NEW p \in Proc, Exit(p) PROVE TypeOK'
    BY <2>7 DEF Exit
  <2>8. ASSUME NEW p \in Proc, Release(p) PROVE TypeOK'
    BY <2>8 DEF Release, LeaveHeld, Writing
  <2>9. ASSUME NEW p \in Proc, HeartbeatRead(p) PROVE TypeOK'
    BY <2>9 DEF HeartbeatRead, Parses, Record
  <2>10. ASSUME NEW p \in Proc, HeartbeatOpen(p) PROVE TypeOK'
    BY <2>10 DEF HeartbeatOpen
  <2>11. ASSUME NEW p \in Proc, HeartbeatWrite(p) PROVE TypeOK'
    BY <2>11, WrittenType DEF HeartbeatWrite
  <2>12. ASSUME NEW p \in Proc, HeartbeatFails(p) PROVE TypeOK'
    BY <2>12 DEF HeartbeatFails
  <2>13. ASSUME NEW p \in Proc, Crash(p) PROVE TypeOK'
    BY <2>13 DEF Crash, LeaveHeld, Writing
  <2>14. ASSUME NEW p \in Proc, Suspend(p) PROVE TypeOK'
    BY <2>14 DEF Suspend
  <2>15. ASSUME NEW p \in Proc, Resume(p) PROVE TypeOK'
    BY <2>15 DEF Resume
  <2>16. CASE UNCHANGED vars
    BY <2>16 DEF vars
  <2> QED
    BY <2>1, <2>2, <2>3, <2>4, <2>5, <2>6, <2>7, <2>8, <2>9, <2>10, <2>11, <2>12, <2>13, <2>14, <2>15, <2>16 DEF Next, Step
<1> QED
  BY <1>1, <1>2, PTL DEF Spec

-----------------------------------------------------------------------------
(* The inductive invariant *)

LEMMA InitIInv == Init => IInv
  BY LockAssumption DEF Init, IInv, LoopInv, SoleInv, FileInv, AgeInv, Busy,
     InWindow, Holders, Parses

LEMMA NextIInv == TypeOK /\ IInv /\ [Next]_vars => IInv'
<1> SUFFICES ASSUME TypeOK, IInv, [Next]_vars PROVE IInv'
  OBVIOUS
<1> USE LockAssumption DEF TypeOK, PCs, HBs, IInv, LoopInv, SoleInv, FileInv, AgeInv,
    Busy, InWindow, Holders, Parses, Record
<1>1. ASSUME NEW p \in Proc, AcquireRefused(p) PROVE IInv'
  BY <1>1, SMTT(30) DEF AcquireRefused, Fresh
<1>2. ASSUME NEW p \in Proc, AcquireCheck(p) PROVE IInv'
  BY <1>2, SMTT(30) DEF AcquireCheck, Endangers, Fresh, Hazards
<1>3. ASSUME NEW p \in Proc, AcquireOpen(p) PROVE IInv'
  BY <1>3, SMTT(30) DEF AcquireOpen
<1>4. ASSUME NEW p \in Proc, AcquireWrite(p) PROVE IInv'
  BY <1>4, SMTT(30) DEF AcquireWrite, Written
<1>5. ASSUME NEW p \in Proc, AcquireFails(p) PROVE IInv'
  BY <1>5, SMTT(30) DEF AcquireFails
<1>6. ASSUME NEW p \in Proc, Exit(p) PROVE IInv'
  BY <1>6, SMTT(30) DEF Exit
<1>7. ASSUME NEW p \in Proc, Release(p) PROVE IInv'
  BY <1>7, SMTT(30) DEF Release, LeaveHeld, Writing, Running
<1>8. ASSUME NEW p \in Proc, HeartbeatRead(p) PROVE IInv'
  BY <1>8, SMTT(30) DEF HeartbeatRead
<1>9. ASSUME NEW p \in Proc, HeartbeatOpen(p) PROVE IInv'
  BY <1>9, SMTT(30) DEF HeartbeatOpen
<1>10. ASSUME NEW p \in Proc, HeartbeatWrite(p) PROVE IInv'
  BY <1>10, SMTT(30) DEF HeartbeatWrite, Written
<1>11. ASSUME NEW p \in Proc, HeartbeatFails(p) PROVE IInv'
  BY <1>11, SMTT(30) DEF HeartbeatFails
<1>12. ASSUME NEW p \in Proc, Crash(p) PROVE IInv'
  BY <1>12, SMTT(30) DEF Crash, LeaveHeld
<1>13. ASSUME NEW p \in Proc, Suspend(p) PROVE IInv'
  BY <1>13, SMTT(30) DEF Suspend, Running
<1>14. ASSUME NEW p \in Proc, Resume(p) PROVE IInv'
  BY <1>14, SMTT(30) DEF Resume
<1>15. CASE Tick
  <2>1. LoopInv'
    BY <1>15 DEF Tick
  <2>2. ASSUME hazard' = {} PROVE SoleInv' /\ FileInv'
    <3>1. SoleInv' /\ FileInv
      BY <1>15, <2>2 DEF Tick
    <3>2. CASE Parses
      <4>1. file' \in Record /\ file'.pid = file.pid
        BY <1>15, <3>2, OlderFileType DEF Tick
      <4>2. file' # Empty /\ file # Empty
        BY <3>2, <4>1
      <4>3. FileInv'
        BY <1>15, <3>1, <3>2, <4>1, <4>2, SMTT(30) DEF Tick
      <4> QED
        BY <3>1, <4>3
    <3>3. CASE ~Parses
      <4>1. file' = file
        BY <1>15, <3>3, OlderFileType DEF Tick
      <4> QED
        BY <1>15, <3>1, <4>1 DEF Tick
    <3> QED
      BY <3>2, <3>3
  (* A holder that is awake had served its previous tick: age was 0 *)
  <2>3. ASSUME hazard' = {}, NEW p \in Holders', wake'[p] = "awake", Parses'
        PROVE  file'.age <= 1 /\ due'[p]
    <3>1. p \in Holders /\ wake[p] = "awake" /\ hazard = {} /\ due'[p]
      BY <1>15, <2>3 DEF Tick
    <3>2. ~due[p] /\ hb[p] = "idle"
      BY <1>15, <3>1 DEF Tick, Running
    <3>3. Parses
      BY <1>15, <2>3, OlderFileType DEF Tick
    <3>4. file.age = 0
      BY <3>1, <3>2, <3>3
    <3> QED
      BY <1>15, <3>1, <3>3, <3>4, OlderFileType DEF Tick
  <2> QED
    BY <2>1, <2>2, <2>3
<1>16. CASE UNCHANGED vars
  BY <1>16 DEF vars
<1> QED
  BY <1>1, <1>2, <1>3, <1>4, <1>5, <1>6, <1>7, <1>8, <1>9, <1>10, <1>11, <1>12, <1>13, <1>14, <1>15, <1>16 DEF Next, Step

THEOREM Inductive == Spec => []IInv
<1> QED
  BY InitIInv, NextIInv, TypeCorrect, PTL DEF Spec

-----------------------------------------------------------------------------
(* Without one of the three named races, two invocations never hold the    *)
(* lock together: Acquire's check, the heartbeat and the age it keeps      *)
(* below the TTL are enough.                                               *)
THEOREM Exclusion == Spec => []ExclusionUnlessHazard
<1>1. IInv => ExclusionUnlessHazard
  BY DEF IInv, SoleInv, Busy, ExclusionUnlessHazard, Mutex
<1> QED
  BY <1>1, Inductive, PTL

(* Without one of the three named races, the file on disk follows the      *)
(* holder: Release leaves nothing behind and a late heartbeat does not     *)
(* bring a released record back.                                           *)
THEOREM FileFollows == Spec => []FileTracksHolder
<1>1. IInv => FileTracksHolder
  BY DEF IInv, FileInv, Holders, FileTracksHolder
<1> QED
  BY <1>1, Inductive, PTL
=============================================================================
