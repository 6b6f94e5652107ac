---------------------------- MODULE CaptureProofs ----------------------------
(***************************************************************************)
(* For any sessions, invocations and bound on the clock: no session is     *)
(* skipped by a timestamp it was not extracted under, or extracted twice,  *)
(* and the timestamps of the state file advance.                           *)
(***************************************************************************)
EXTENDS Capture, TLAPS

LEMMA WholeSecondsType ==
  ASSUME NEW t \in Nat
  PROVE  WholeSeconds(t) \in Nat /\ WholeSeconds(t) <= t
  BY CaptureAssumption DEF WholeSeconds

LEMMA WholeSecondsMonotone ==
  ASSUME NEW t \in Nat, NEW u \in Nat, t <= u
  PROVE  WholeSeconds(t) <= WholeSeconds(u)
<1> DEFINE a == t \div Sec
           b == u \div Sec
<1>1. /\ a \in Nat /\ t = Sec * a + (t % Sec) /\ t % Sec \in 0..(Sec - 1)
      /\ b \in Nat /\ u = Sec * b + (u % Sec) /\ u % Sec \in 0..(Sec - 1)
  BY CaptureAssumption
<1>2. WholeSeconds(t) = Sec * a /\ WholeSeconds(u) = Sec * b
  BY <1>1, CaptureAssumption DEF WholeSeconds
<1>3. a <= b
  BY <1>1, CaptureAssumption
<1> QED
  BY <1>1, <1>2, <1>3, CaptureAssumption

-----------------------------------------------------------------------------
(* Type correctness *)

Busy(r) == pc[r] \notin {"idle", "loaded"}

(* Only the holder of the lock is past Acquire, and it is processing a     *)
(* session exactly between the read and the extraction.                    *)
ControlInv ==
  \A r \in Run :
    /\ Busy(r) => holder = r
    /\ pc[r] \in {"read", "extract"} => cur[r] \in Session

TypeInv == TypeOK /\ ControlInv

LEMMA NewLastType ==
  ASSUME TypeInv, NEW r \in Run
  PROVE  NewLast(r) \in Time
  BY WholeSecondsType, CaptureAssumption DEF TypeInv, TypeOK, NewLast, Time, State

LEMMA TypeInductive == TypeInv /\ [Next]_vars => TypeInv'
<1> SUFFICES ASSUME TypeInv, [Next]_vars PROVE TypeInv'
  OBVIOUS
<1> USE CaptureAssumption
        DEF TypeInv, TypeOK, ControlInv, Busy, PCs, Hazards, Time, State,
            NoState, Goto, Finish, locals, history
<1>1. CASE Tick
  BY <1>1 DEF Tick
<1>2. ASSUME NEW s \in Session, Touch(s) PROVE TypeInv'
  BY <1>2 DEF Touch
<1>3. ASSUME NEW r \in Run, Crash(r) PROVE TypeInv'
  BY <1>3 DEF Crash
<1>4. ASSUME NEW r \in Run, LoadState(r) PROVE TypeInv'
  BY <1>4 DEF LoadState
<1>5. ASSUME NEW r \in Run, Acquire(r) PROVE TypeInv'
  BY <1>5 DEF Acquire
<1>6. ASSUME NEW r \in Run, AcquireRefused(r) PROVE TypeInv'
  BY <1>6 DEF AcquireRefused
<1>7. ASSUME NEW r \in Run, Discover(r) PROVE TypeInv'
  BY <1>7 DEF Discover
<1>8. ASSUME NEW r \in Run, DiscoverFails(r) PROVE TypeInv'
  BY <1>8 DEF DiscoverFails
<1>9. ASSUME NEW r \in Run, NEW s \in Session, Translate(r, s) PROVE TypeInv'
  BY <1>9 DEF Translate
<1>10. ASSUME NEW r \in Run, NEW s \in Session, TranslateFails(r, s)
       PROVE TypeInv'
  BY <1>10 DEF TranslateFails
<1>11. ASSUME NEW r \in Run, StatFile(r) PROVE TypeInv'
  BY <1>11 DEF StatFile
<1>12. ASSUME NEW r \in Run, Extract(r) PROVE TypeInv'
  BY <1>12 DEF Extract
<1>13. ASSUME NEW r \in Run, SaveState(r) PROVE TypeInv'
  <2>1. disk' \in State
    BY <1>13, NewLastType DEF SaveState
  <2>2. ControlInv' /\ pc' \in [Run -> PCs] /\ holder' \in Run \cup {None}
    BY <1>13 DEF SaveState
  <2> QED
    BY <1>13, <2>1, <2>2 DEF SaveState
<1>14. ASSUME NEW r \in Run, SaveFails(r) PROVE TypeInv'
  BY <1>14 DEF SaveFails
<1>20. ASSUME NEW r \in Run, ClientFails(r) PROVE TypeInv'
  BY <1>20 DEF ClientFails
<1>15. ASSUME NEW r \in Run, DreamAcquire(r) PROVE TypeInv'
  BY <1>15 DEF DreamAcquire
<1>16. ASSUME NEW r \in Run, DreamLoad(r) PROVE TypeInv'
  BY <1>16 DEF DreamLoad
<1>17. ASSUME NEW r \in Run, DreamSave(r) PROVE TypeInv'
  <2>1. WholeSeconds(clock) \in Time /\ snap[r] \in State
    BY WholeSecondsType
  <2>2. disk' \in State /\ dreamt' \in Time
    BY <1>17, <2>1 DEF DreamSave
  <2>3. ControlInv' /\ pc' \in [Run -> PCs] /\ holder' \in Run \cup {None}
    BY <1>17 DEF DreamSave
  <2> QED
    BY <1>17, <2>2, <2>3 DEF DreamSave
<1>18. ASSUME NEW r \in Run, DreamSaveFails(r) PROVE TypeInv'
  BY <1>18 DEF DreamSaveFails
<1>19. CASE UNCHANGED vars
  BY <1>19 DEF vars
<1> QED
  BY <1>1, <1>2, <1>3, <1>4, <1>5, <1>6, <1>7, <1>8, <1>9, <1>10, <1>11, <1>12,
     <1>13, <1>14, <1>15, <1>16, <1>17, <1>18, <1>19, <1>20
     DEF Next, Process, DreamCycle

LEMMA TypeAlways == Spec => []TypeInv
<1>1. Init => TypeInv
  BY CaptureAssumption DEF Init, TypeInv, TypeOK, ControlInv, Busy, PCs, Time,
     State, NoState
<1> QED
  BY <1>1, TypeInductive, PTL DEF Spec

(* Every reachable state of the capture run has the declared types *)
THEOREM TypeCorrect == Spec => []TypeOK
<1>1. TypeInv => TypeOK
  BY DEF TypeInv
<1> QED
  BY <1>1, TypeAlways, PTL

-----------------------------------------------------------------------------
(* The inductive invariant *)

Current(s) == done[s] = mtime[s]

(* Every version up to t was extracted *)
CoveredTo(t) == \A s \in Session : mtime[s] <= t => Current(s)

(* Nothing in memory or on disk is later than the clock *)
ClockInv ==
  /\ disk.last <= clock
  /\ \A s \in Session : done[s] <= mtime[s] /\ mtime[s] <= clock
  /\ \A r \in Run :
       /\ snap[r].last <= clock /\ listed[r] <= clock
       /\ pc[r] \in {"read", "extract"} => version[r] <= mtime[cur[r]]
       /\ latest[r] <= clock
       /\ pc[r] \notin {"scan", "read", "extract"} =>
            latest[r] = 0 /\ todo[r] = {}

(* A version older than the listing is extracted, waiting, or in hand;     *)
(* unless the listing failed, and then the run has no timestamp to leave.  *)
ScanInv(r) ==
  \/ /\ pc[r] = "scan" /\ latest[r] = 0 /\ todo[r] = {}
  \/ /\ latest[r] <= listed[r]
     /\ \A s \in Session : mtime[s] <= listed[r] =>
          \/ Current(s)
          \/ s \in todo[r]
          \/ pc[r] \in {"read", "extract"} /\ cur[r] = s /\ version[r] = mtime[s]

Misses == {"overtaken", "untranslated"}

IInv ==
  hazard \cap Misses = {} =>
    /\ CoveredTo(disk.last)
    /\ \A r \in Run :
         /\ CoveredTo(snap[r].last)
         /\ pc[r] \in {"scan", "read", "extract"} => ScanInv(r)

LEMMA ClockInductive == TypeInv /\ ClockInv /\ [Next]_vars => ClockInv'
<1> SUFFICES ASSUME TypeInv, ClockInv, [Next]_vars PROVE ClockInv'
  OBVIOUS
<1> USE CaptureAssumption
        DEF TypeInv, TypeOK, ControlInv, ClockInv, PCs, Time, State, NoState,
            Goto, Finish, locals, history
<1>1. CASE Tick
  BY <1>1 DEF Tick
<1>2. ASSUME NEW s \in Session, Touch(s) PROVE ClockInv'
  BY <1>2 DEF Touch
<1>3. ASSUME NEW r \in Run, Crash(r) PROVE ClockInv'
  BY <1>3 DEF Crash
<1>4. ASSUME NEW r \in Run, LoadState(r) PROVE ClockInv'
  BY <1>4 DEF LoadState
<1>5. ASSUME NEW r \in Run, Acquire(r) PROVE ClockInv'
  BY <1>5 DEF Acquire
<1>6. ASSUME NEW r \in Run, AcquireRefused(r) PROVE ClockInv'
  BY <1>6 DEF AcquireRefused
<1>7. ASSUME NEW r \in Run, Discover(r) PROVE ClockInv'
  BY <1>7 DEF Discover
<1>8. ASSUME NEW r \in Run, DiscoverFails(r) PROVE ClockInv'
  BY <1>8 DEF DiscoverFails
<1>9. ASSUME NEW r \in Run, NEW s \in Session, Translate(r, s) PROVE ClockInv'
  BY <1>9 DEF Translate
<1>10. ASSUME NEW r \in Run, NEW s \in Session, TranslateFails(r, s)
       PROVE ClockInv'
  BY <1>10 DEF TranslateFails
<1>11. ASSUME NEW r \in Run, StatFile(r) PROVE ClockInv'
  BY <1>11 DEF StatFile
<1>12. ASSUME NEW r \in Run, Extract(r) PROVE ClockInv'
  BY <1>12 DEF Extract
<1>13. ASSUME NEW r \in Run, SaveState(r) PROVE ClockInv'
  <2>1. NewLast(r) \in Nat /\ NewLast(r) <= clock
    BY WholeSecondsType DEF NewLast
  <2>2. disk'.last = NewLast(r)
    BY <1>13 DEF SaveState
  <2> QED
    BY <1>13, <2>1, <2>2 DEF SaveState
<1>14. ASSUME NEW r \in Run, SaveFails(r) PROVE ClockInv'
  BY <1>14 DEF SaveFails
<1>20. ASSUME NEW r \in Run, ClientFails(r) PROVE ClockInv'
  BY <1>20 DEF ClientFails
<1>15. ASSUME NEW r \in Run, DreamAcquire(r) PROVE ClockInv'
  BY <1>15 DEF DreamAcquire
<1>16. ASSUME NEW r \in Run, DreamLoad(r) PROVE ClockInv'
  BY <1>16 DEF DreamLoad
<1>17. ASSUME NEW r \in Run, DreamSave(r) PROVE ClockInv'
  BY <1>17 DEF DreamSave
<1>18. ASSUME NEW r \in Run, DreamSaveFails(r) PROVE ClockInv'
  BY <1>18 DEF DreamSaveFails
<1>19. CASE UNCHANGED vars
  BY <1>19 DEF vars
<1> QED
  BY <1>1, <1>2, <1>3, <1>4, <1>5, <1>6, <1>7, <1>8, <1>9, <1>10, <1>11, <1>12,
     <1>13, <1>14, <1>15, <1>16, <1>17, <1>18, <1>19, <1>20
     DEF Next, Process, DreamCycle

LEMMA HazardsStay == [Next]_vars => hazard \subseteq hazard'
  BY DEF Next, vars, history, Process, DreamCycle, Touch, Tick, Crash,
     LoadState, Acquire, AcquireRefused, Discover, DiscoverFails, Translate,
     TranslateFails, StatFile, Extract, SaveState, SaveFails, ClientFails,
     DreamAcquire, DreamLoad, DreamSave, DreamSaveFails

LEMMA NextIInv == TypeInv /\ ClockInv /\ IInv /\ [Next]_vars => IInv'
<1> SUFFICES ASSUME TypeInv, ClockInv, IInv, [Next]_vars,
                    hazard' \cap Misses = {}
             PROVE  IInv'
  BY DEF IInv
<1>0. /\ hazard \cap Misses = {} /\ CoveredTo(disk.last)
      /\ \A r \in Run :
           /\ CoveredTo(snap[r].last)
           /\ pc[r] \in {"scan", "read", "extract"} => ScanInv(r)
  BY HazardsStay DEF IInv
<1> USE CaptureAssumption, <1>0
        DEF TypeInv, TypeOK, ControlInv, Busy, ClockInv, PCs, Time, State,
            NoState, Goto, Finish, locals, history, CoveredTo, ScanInv,
            Current, IInv, Misses
<1>1. CASE Tick
  BY <1>1 DEF Tick
<1>2. ASSUME NEW s \in Session, Touch(s) PROVE IInv'
  BY <1>2 DEF Touch
<1>3. ASSUME NEW r \in Run, Crash(r) PROVE IInv'
  BY <1>3 DEF Crash
<1>4. ASSUME NEW r \in Run, LoadState(r) PROVE IInv'
  BY <1>4 DEF LoadState
<1>5. ASSUME NEW r \in Run, Acquire(r) PROVE IInv'
  BY <1>5 DEF Acquire
<1>6. ASSUME NEW r \in Run, AcquireRefused(r) PROVE IInv'
  BY <1>6 DEF AcquireRefused
<1>7. ASSUME NEW r \in Run, Discover(r) PROVE IInv'
  BY <1>7 DEF Discover
<1>8. ASSUME NEW r \in Run, DiscoverFails(r) PROVE IInv'
  BY <1>8 DEF DiscoverFails
<1>9. ASSUME NEW r \in Run, NEW s \in Session, Translate(r, s) PROVE IInv'
  BY <1>9 DEF Translate
<1>10. ASSUME NEW r \in Run, NEW s \in Session, TranslateFails(r, s)
       PROVE IInv'
  BY <1>10 DEF TranslateFails
<1>11. ASSUME NEW r \in Run, StatFile(r) PROVE IInv'
  <2>1. ScanInv(r)'
    <3>1. latest'[r] <= listed'[r] /\ listed'[r] = listed[r] /\ pc'[r] = "extract"
      <4>1. PICK m \in Nat : m = mtime[cur[r]]
        BY <1>11 DEF StatFile
      <4>2. m <= listed[r]
        <5>1. m > listed[r] => "overtaken" \in hazard'
          BY <1>11, <4>1 DEF StatFile
        <5>2. listed[r] \in Nat
          OBVIOUS
        <5> QED
          BY <4>1, <5>1, <5>2
      <4>3. latest[r] <= listed[r] /\ latest'[r] \in {latest[r], m}
        BY <1>11, <4>1 DEF StatFile
      <4> QED
        BY <1>11, <4>2, <4>3 DEF StatFile
    <3>2. ASSUME NEW s \in Session, mtime[s] <= listed[r]
          PROVE  Current(s) \/ s \in todo[r] \/ (cur[r] = s /\ version[r] = mtime[s])
      BY <1>11, <3>2 DEF StatFile
    <3> QED
      BY <1>11, <3>1, <3>2 DEF StatFile
  <2>2. \A q \in Run : q # r => pc'[q] \notin {"scan", "read", "extract"}
    BY <1>11 DEF StatFile
  <2> QED
    BY <1>11, <2>1, <2>2 DEF StatFile
<1>12. ASSUME NEW r \in Run, Extract(r) PROVE IInv'
  <2>1. PICK s \in Session :
          s = cur[r] /\ version[r] <= mtime[s] /\ done[s] <= mtime[s]
    BY <1>12 DEF Extract
  <2>2. /\ done'[s] \in {done[s], version[r]} /\ done'[s] >= version[r]
        /\ \A x \in Session : x # s => done'[x] = done[x]
    BY <1>12, <2>1 DEF Extract
  <2>3. \A x \in Session : Current(x) => Current(x)'
    BY <1>12, <2>1, <2>2 DEF Extract
  <2>4. version[r] = mtime[s] => Current(s)'
    <3>1. version[r] \in Nat /\ done[s] \in Nat /\ mtime[s] \in Nat
      OBVIOUS
    <3>2. version[r] = mtime[s] => done'[s] = mtime[s]
      <4> HIDE <1>0 DEF TypeInv, TypeOK, ControlInv, ClockInv, IInv, ScanInv,
                       CoveredTo, Current
      <4> QED
        BY <2>1, <2>2, <3>1
    <3>3. mtime' = mtime
      BY <1>12 DEF Extract
    <3> QED
      BY <3>2, <3>3
  <2>5. ScanInv(r)'
    <3> HIDE DEF Current
    <3> QED
      BY <1>12, <2>1, <2>3, <2>4 DEF Extract
  <2>6. \A q \in Run : q # r => pc'[q] \notin {"scan", "read", "extract"}
    BY <1>12 DEF Extract
  <2>7. CoveredTo(disk.last)' /\ \A q \in Run : CoveredTo(snap[q].last)'
    <3> HIDE DEF Current
    <3> QED
      BY <1>12, <2>3 DEF Extract
  <2> QED
    BY <2>5, <2>6, <2>7
<1>13. ASSUME NEW r \in Run, SaveState(r) PROVE IInv'
  <2>1. CoveredTo(NewLast(r))
    <3>1. CASE latest[r] = 0
      BY <3>1 DEF NewLast
    <3>2. CASE latest[r] # 0
      <4>1. NewLast(r) <= latest[r] /\ NewLast(r) \in Nat
        BY <3>2, WholeSecondsType DEF NewLast
      <4>2. latest[r] <= listed[r] /\ CoveredTo(listed[r])
        BY <1>13, <3>2 DEF SaveState
      <4> QED
        BY <4>1, <4>2
    <3> QED
      BY <3>1, <3>2
  <2>2. disk'.last = NewLast(r) /\ mtime' = mtime /\ done' = done
    BY <1>13 DEF SaveState
  <2>3. CoveredTo(disk.last)'
    BY <2>1, <2>2
  <2>4. \A q \in Run : snap'[q].last \in {0, snap[q].last}
    BY <1>13 DEF SaveState
  <2>5. \A q \in Run : CoveredTo(snap[q].last)'
    BY <2>2, <2>4
  <2>6. \A q \in Run : pc'[q] \notin {"scan", "read", "extract"}
    BY <1>13 DEF SaveState
  <2> QED
    BY <2>3, <2>5, <2>6
<1>14. ASSUME NEW r \in Run, SaveFails(r) PROVE IInv'
  BY <1>14 DEF SaveFails
<1>20. ASSUME NEW r \in Run, ClientFails(r) PROVE IInv'
  BY <1>20 DEF ClientFails
<1>15. ASSUME NEW r \in Run, DreamAcquire(r) PROVE IInv'
  BY <1>15 DEF DreamAcquire
<1>16. ASSUME NEW r \in Run, DreamLoad(r) PROVE IInv'
  BY <1>16 DEF DreamLoad
<1>17. ASSUME NEW r \in Run, DreamSave(r) PROVE IInv'
  BY <1>17 DEF DreamSave
<1>18. ASSUME NEW r \in Run, DreamSaveFails(r) PROVE IInv'
  BY <1>18 DEF DreamSaveFails
<1>19. CASE UNCHANGED vars
  BY <1>19 DEF vars
<1> HIDE <1>0
<1> HIDE DEF TypeInv, TypeOK, ControlInv, ClockInv, IInv, ScanInv, CoveredTo,
             Current
<1> QED
  BY <1>1, <1>2, <1>3, <1>4, <1>5, <1>6, <1>7, <1>8, <1>9, <1>10, <1>11, <1>12,
     <1>13, <1>14, <1>15, <1>16, <1>17, <1>18, <1>19, <1>20
     DEF Next, Process, DreamCycle

(* Whatever crashes, failed saves and stale copies of the state do, a      *)
(* session the timestamp says is done was extracted in its current         *)
(* version, unless its translation failed or a file changed during the run *)
(* and lent it a later time.                                               *)
THEOREM NoSessionMissed == Spec => []NothingMissed
<1>1. Init => ClockInv /\ IInv
  BY CaptureAssumption DEF Init, ClockInv, IInv, CoveredTo, Current, NoState
<1>2. TypeInv /\ ClockInv /\ IInv => NothingMissed
  BY DEF IInv, NothingMissed, CoveredTo, Current, Misses
<1> QED
  BY <1>1, <1>2, ClockInductive, NextIInv, TypeAlways, PTL DEF Spec

-----------------------------------------------------------------------------
(* The timestamps advance *)

LEMMA WholeSecondsTwice ==
  ASSUME NEW t \in Nat
  PROVE  WholeSeconds(WholeSeconds(t)) = WholeSeconds(t)
<1> DEFINE a == t \div Sec
<1>1. a \in Nat /\ t = Sec * a + (t % Sec) /\ WholeSeconds(t) = Sec * a
  BY CaptureAssumption DEF WholeSeconds
<1>2. (Sec * a) % Sec = 0
  BY <1>1, CaptureAssumption
<1> QED
  BY <1>1, <1>2, CaptureAssumption DEF WholeSeconds

Whole(t) == WholeSeconds(t) = t

(* Timestamps are whole seconds in the past, what is scanned is later than *)
(* they are, and a fresh copy of the state is the state.                   *)
StampInv ==
  /\ Whole(disk.last) /\ Whole(disk.dream) /\ disk.dream <= clock
  /\ \A r \in Run :
       /\ Whole(snap[r].last) /\ Whole(snap[r].dream) /\ snap[r].dream <= clock
       /\ \A s \in todo[r] : mtime[s] > snap[r].last
       /\ pc[r] \in {"read", "extract"} => mtime[cur[r]] > snap[r].last
       /\ latest[r] = 0 \/ latest[r] >= snap[r].last
  /\ "stale" \notin hazard =>
       \A r \in Run : Busy(r) /\ pc[r] # "dream" => snap[r] = disk

LEMMA StampInductive ==
  TypeInv /\ ClockInv /\ StampInv /\ [Next]_vars => StampInv'
<1> SUFFICES ASSUME TypeInv, ClockInv, StampInv, [Next]_vars PROVE StampInv'
  OBVIOUS
<1> USE CaptureAssumption
        DEF TypeInv, TypeOK, ControlInv, Busy, ClockInv, StampInv, PCs, Time,
            State, NoState, Goto, Finish, locals, history
<1>0. Whole(0) /\ \A t \in Nat : Whole(WholeSeconds(t)) /\ WholeSeconds(t) <= t
  BY WholeSecondsType, WholeSecondsTwice DEF Whole
<1>1. CASE Tick
  BY <1>1 DEF Tick
<1>2. ASSUME NEW s \in Session, Touch(s) PROVE StampInv'
  BY <1>2 DEF Touch
<1>3. ASSUME NEW r \in Run, Crash(r) PROVE StampInv'
  BY <1>0, <1>3 DEF Crash
<1>4. ASSUME NEW r \in Run, LoadState(r) PROVE StampInv'
  BY <1>0, <1>4 DEF LoadState
<1>5. ASSUME NEW r \in Run, Acquire(r) PROVE StampInv'
  BY <1>0, <1>5 DEF Acquire
<1>6. ASSUME NEW r \in Run, AcquireRefused(r) PROVE StampInv'
  BY <1>0, <1>6 DEF AcquireRefused
<1>7. ASSUME NEW r \in Run, Discover(r) PROVE StampInv'
  BY <1>0, <1>7 DEF Discover
<1>8. ASSUME NEW r \in Run, DiscoverFails(r) PROVE StampInv'
  BY <1>0, <1>8 DEF DiscoverFails
<1>9. ASSUME NEW r \in Run, NEW s \in Session, Translate(r, s)
       PROVE StampInv'
  BY <1>9 DEF Translate
<1>10. ASSUME NEW r \in Run, NEW s \in Session, TranslateFails(r, s)
       PROVE StampInv'
  BY <1>10 DEF TranslateFails
<1>11. ASSUME NEW r \in Run, StatFile(r) PROVE StampInv'
  BY <1>0, <1>11 DEF StatFile
<1>12. ASSUME NEW r \in Run, Extract(r) PROVE StampInv'
  BY <1>0, <1>12 DEF Extract
<1>13. ASSUME NEW r \in Run, SaveState(r) PROVE StampInv'
  <2>1. Whole(NewLast(r))
    BY <1>0 DEF NewLast
  <2>2. disk'.last = NewLast(r) /\ disk'.dream = snap[r].dream
    BY <1>13 DEF SaveState
  <2>3. Whole(disk.last)' /\ Whole(disk.dream)' /\ (disk.dream <= clock)'
    BY <1>13, <2>1, <2>2 DEF SaveState, Whole
  <2>4. \A q \in Run : ~Busy(q)'
    BY <1>13 DEF SaveState
  <2>5. \A q \in Run :
          \/ q = r /\ snap'[q] = NoState /\ todo'[q] = {} /\ latest'[q] = 0
          \/ /\ snap'[q] = snap[q] /\ todo'[q] = todo[q]
             /\ latest'[q] = latest[q]
    BY <1>13 DEF SaveState
  <2>6. mtime' = mtime /\ clock' = clock
    BY <1>13 DEF SaveState
  <2>7. \A q \in Run : pc'[q] \notin {"read", "extract"}
    BY <1>13 DEF SaveState
  <2> QED
    BY <1>0, <2>3, <2>4, <2>5, <2>6, <2>7
<1>14. ASSUME NEW r \in Run, SaveFails(r) PROVE StampInv'
  BY <1>0, <1>14 DEF SaveFails
<1>20. ASSUME NEW r \in Run, ClientFails(r) PROVE StampInv'
  BY <1>0, <1>20 DEF ClientFails
<1>15. ASSUME NEW r \in Run, DreamAcquire(r) PROVE StampInv'
  BY <1>0, <1>15 DEF DreamAcquire
<1>16. ASSUME NEW r \in Run, DreamLoad(r) PROVE StampInv'
  BY <1>0, <1>16 DEF DreamLoad
<1>17. ASSUME NEW r \in Run, DreamSave(r) PROVE StampInv'
  BY <1>0, <1>17 DEF DreamSave
<1>18. ASSUME NEW r \in Run, DreamSaveFails(r) PROVE StampInv'
  BY <1>0, <1>18 DEF DreamSaveFails
<1>19. CASE UNCHANGED vars
  BY <1>19 DEF vars
<1> HIDE DEF TypeInv, TypeOK, ControlInv, ClockInv, StampInv
<1> QED
  BY <1>1, <1>2, <1>3, <1>4, <1>5, <1>6, <1>7, <1>8, <1>9, <1>10, <1>11, <1>12,
     <1>13, <1>14, <1>15, <1>16, <1>17, <1>18, <1>19, <1>20
     DEF Next, Process, DreamCycle

Advances == disk'.last >= disk.last /\ disk'.dream >= disk.dream

LEMMA StepAdvances ==
  ASSUME TypeInv, ClockInv, StampInv, [Next]_vars, "stale" \notin hazard'
  PROVE  Advances
<1>1. "stale" \notin hazard
  BY HazardsStay
<1>2. disk.last \in Nat /\ disk.dream \in Nat /\ clock \in Nat
  BY CaptureAssumption DEF TypeInv, TypeOK, State, Time
<1>3. ASSUME NEW r \in Run, SaveState(r) PROVE Advances
  <2>1. snap[r] = disk
    BY <1>1, <1>3 DEF SaveState, StampInv, Busy
  <2>2. disk'.last = NewLast(r) /\ disk'.dream = disk.dream
    BY <1>3, <2>1 DEF SaveState, TypeInv, TypeOK, State
  <2>3. NewLast(r) >= disk.last
    <3>1. CASE latest[r] = 0
      BY <1>2, <2>1, <3>1 DEF NewLast
    <3>2. CASE latest[r] # 0
      <4>1. latest[r] \in Nat /\ latest[r] >= disk.last
        BY <2>1, <3>2, CaptureAssumption DEF StampInv, TypeInv, TypeOK, Time
      <4>2. WholeSeconds(latest[r]) >= WholeSeconds(disk.last)
        BY <1>2, <4>1, WholeSecondsMonotone, WholeSecondsType
      <4> QED
        BY <3>2, <4>2 DEF NewLast, StampInv, Whole
    <3> QED
      BY <3>1, <3>2
  <2> QED
    BY <1>2, <2>2, <2>3 DEF Advances
<1>4. ASSUME NEW r \in Run, DreamSave(r) PROVE Advances
  <2>1. snap[r] = disk
    BY <1>1, <1>4 DEF DreamSave, StampInv, Busy
  <2>2. disk'.dream = WholeSeconds(clock) /\ disk'.last = disk.last
    BY <1>4, <2>1 DEF DreamSave, TypeInv, TypeOK, State
  <2>3. WholeSeconds(clock) >= WholeSeconds(disk.dream)
    BY <1>2, WholeSecondsMonotone, WholeSecondsType DEF StampInv
  <2> QED
    BY <1>2, <2>2, <2>3 DEF Advances, StampInv, Whole
<1>5. CASE disk' = disk
  BY <1>2, <1>5 DEF Advances
<1>6. \/ disk' = disk
      \/ \E r \in Run : SaveState(r) \/ DreamSave(r)
  BY DEF Next, vars, history, locals, Process, DreamCycle, Touch, Tick, Crash,
     LoadState, Acquire, AcquireRefused, Discover, DiscoverFails, Translate,
     TranslateFails, StatFile, Extract, SaveFails, ClientFails, DreamAcquire,
     DreamLoad, DreamSaveFails
<1> QED
  BY <1>3, <1>4, <1>5, <1>6

(* The two timestamps of the state file never go back unless a run writes  *)
(* back a state that another invocation changed since it was loaded.       *)
THEOREM NoRegress == Spec => TimestampsAdvance
<1>1. Init => ClockInv /\ StampInv
  <2>1. Whole(0)
    BY WholeSecondsType DEF Whole
  <2> QED
    BY <2>1, CaptureAssumption DEF Init, ClockInv, StampInv, NoState, Busy
<1>2. TypeInv /\ ClockInv /\ StampInv /\ [Next]_vars
      => [ "stale" \notin hazard' =>
             disk'.last >= disk.last /\ disk'.dream >= disk.dream ]_vars
  BY StepAdvances DEF Advances
<1> QED
  BY <1>1, <1>2, ClockInductive, StampInductive, TypeAlways, PTL
     DEF Spec, TimestampsAdvance

(* The state file has the time of the last dream cycle that recorded its end *)
(* unless a run writes back an old copy (process.go:47).                    *)
THEOREM DreamRecorded == Spec => []LastDreamRecorded
<1>1. Init => ClockInv /\ StampInv /\ LastDreamRecorded
  <2>1. Whole(0)
    BY WholeSecondsType DEF Whole
  <2> QED
    BY <2>1, CaptureAssumption DEF Init, ClockInv, StampInv, NoState, Busy,
       LastDreamRecorded
<1>2. TypeInv /\ StampInv /\ LastDreamRecorded /\ [Next]_vars
      => LastDreamRecorded'
  <2> SUFFICES ASSUME TypeInv, StampInv, LastDreamRecorded, [Next]_vars,
                      "stale" \notin hazard'
               PROVE  disk'.dream = dreamt'
    BY DEF LastDreamRecorded
  <2>1. "stale" \notin hazard /\ disk.dream = dreamt
    BY HazardsStay DEF LastDreamRecorded
  <2>2. ASSUME NEW r \in Run, SaveState(r) PROVE disk'.dream = dreamt'
    BY <2>1, <2>2 DEF SaveState, StampInv, Busy, TypeInv, TypeOK, State
  <2>3. ASSUME NEW r \in Run, DreamSave(r) PROVE disk'.dream = dreamt'
    BY <2>3 DEF DreamSave, TypeInv, TypeOK, State
  <2>4. \/ disk' = disk /\ dreamt' = dreamt
        \/ \E r \in Run : SaveState(r) \/ DreamSave(r)
    BY DEF Next, vars, history, locals, Process, DreamCycle, Touch, Tick,
       Crash, LoadState, Acquire, AcquireRefused, Discover, DiscoverFails,
       Translate, TranslateFails, StatFile, Extract, SaveFails, ClientFails,
       DreamAcquire, DreamLoad, DreamSaveFails
  <2> QED
    BY <2>1, <2>2, <2>3, <2>4
<1> QED
  BY <1>1, <1>2, ClockInductive, StampInductive, TypeAlways, PTL DEF Spec

-----------------------------------------------------------------------------
(* No version is extracted twice *)

Doubles == {"crash", "unsaved", "stale", "fraction"}

(* A version that was extracted is behind the timestamp, or behind the one *)
(* the run that extracted it will leave.                                   *)
Covered(s) ==
  \/ mtime[s] <= disk.last
  \/ \E r \in Run :
       /\ pc[r] \in {"scan", "read", "extract"}
       /\ mtime[s] <= latest[r] /\ s \notin todo[r]
       /\ pc[r] \in {"read", "extract"} => cur[r] # s

(* The session in hand is not waiting too, and the time of its version was  *)
(* taken after it was read                                                 *)
InHand(r) ==
  /\ pc[r] \in {"read", "extract"} => cur[r] \notin todo[r]
  /\ pc[r] = "extract" /\ version[r] = mtime[cur[r]]
       => mtime[cur[r]] <= latest[r]

OnceInv ==
  hazard \cap Doubles = {} =>
    /\ \A s \in Session : scans[s] <= 1 /\ (scans[s] = 1 => Covered(s))
    /\ \A r \in Run : InHand(r)

LEMMA OnceInductive ==
  TypeInv /\ ClockInv /\ StampInv /\ OnceInv /\ [Next]_vars => OnceInv'
<1> SUFFICES ASSUME TypeInv, ClockInv, StampInv, OnceInv, [Next]_vars,
                    hazard' \cap Doubles = {}
             PROVE  OnceInv'
  BY DEF OnceInv
<1>0. /\ hazard \cap Doubles = {} /\ "stale" \notin hazard
      /\ \A s \in Session : scans[s] <= 1 /\ (scans[s] = 1 => Covered(s))
      /\ \A r \in Run : InHand(r)
  BY HazardsStay DEF OnceInv, Doubles
<1>a. /\ disk.last \in Nat /\ disk'.last >= disk.last
      /\ \A r \in Run : Busy(r) /\ pc[r] # "dream" => snap[r] = disk
  BY <1>0, StepAdvances, CaptureAssumption
     DEF Advances, Doubles, StampInv, TypeInv, TypeOK, State, Time
<1> USE CaptureAssumption, <1>0, <1>a
        DEF TypeInv, TypeOK, ControlInv, Busy, PCs, Time, State, NoState, Goto,
            Finish, locals, history, Covered, InHand, OnceInv, Doubles
<1>1. CASE Tick
  BY <1>1 DEF Tick
<1>2. ASSUME NEW s \in Session, Touch(s) PROVE OnceInv'
  BY <1>2 DEF Touch, ClockInv
<1>3. ASSUME NEW r \in Run, Crash(r) PROVE OnceInv'
  BY <1>3 DEF Crash
<1>4. ASSUME NEW r \in Run, LoadState(r) PROVE OnceInv'
  BY <1>4 DEF LoadState
<1>5. ASSUME NEW r \in Run, Acquire(r) PROVE OnceInv'
  BY <1>5 DEF Acquire
<1>6. ASSUME NEW r \in Run, AcquireRefused(r) PROVE OnceInv'
  BY <1>6 DEF AcquireRefused
<1>7. ASSUME NEW r \in Run, Discover(r) PROVE OnceInv'
  BY <1>7 DEF Discover
<1>8. ASSUME NEW r \in Run, DiscoverFails(r) PROVE OnceInv'
  BY <1>8 DEF DiscoverFails
<1>9. ASSUME NEW r \in Run, NEW s \in Session, Translate(r, s) PROVE OnceInv'
  BY <1>9 DEF Translate
<1>10. ASSUME NEW r \in Run, NEW s \in Session, TranslateFails(r, s)
       PROVE OnceInv'
  BY <1>10 DEF TranslateFails
<1>11. ASSUME NEW r \in Run, StatFile(r) PROVE OnceInv'
  BY <1>11 DEF StatFile
<1>12. ASSUME NEW r \in Run, Extract(r) PROVE OnceInv'
  <2>1. cur[r] \in Session /\ mtime[cur[r]] > disk.last
    BY <1>12 DEF Extract, StampInv
  <2>2. scans[cur[r]] # 1
    <3>1. ~Covered(cur[r])
      <4>1. ASSUME NEW q \in Run, pc[q] \in {"scan", "read", "extract"}
            PROVE  q = r
        BY <4>1, <1>12 DEF Extract
      <4> QED
        BY <2>1, <4>1, <1>12 DEF Extract
    <3> QED
      BY <2>1, <3>1
  <2>3. scans[cur[r]] = 0
    BY <2>1, <2>2
  <2>4. ASSUME NEW s \in Session
        PROVE  scans'[s] <= 1 /\ (scans'[s] = 1 => Covered(s)')
    <3>1. CASE s = cur[r]
      <4>1. scans'[s] <= 1 /\ (scans'[s] = 1 => mtime[s] <= latest[r])
        BY <3>1, <2>1, <2>3, <1>12 DEF Extract
      <4>2. s \notin todo[r]
        BY <3>1, <1>12 DEF Extract, InHand
      <4> QED
        BY <4>1, <4>2, <1>12 DEF Extract
    <3>2. CASE s # cur[r]
      <4>1. scans'[s] = scans[s] /\ (Covered(s) => Covered(s)')
        BY <3>2, <1>12 DEF Extract
      <4> QED
        BY <4>1
    <3> QED
      BY <3>1, <3>2
  <2> QED
    BY <1>12, <2>4 DEF Extract
<1>13. ASSUME NEW r \in Run, SaveState(r) PROVE OnceInv'
  <2>1. latest[r] = 0 \/ disk'.last = latest[r]
    BY <1>13 DEF SaveState, NewLast
  <2>2. disk'.last \in Nat /\ latest[r] \in Nat /\ \A s \in Session : mtime[s] \in Nat
    BY <1>13, TypeInductive DEF TypeInv, TypeOK
  <2>3. ASSUME NEW s \in Session, Covered(s) PROVE mtime[s] <= disk'.last
    <3>1. CASE mtime[s] <= disk.last
      BY <3>1, <2>2
    <3>2. CASE \E q \in Run : pc[q] \in {"scan", "read", "extract"} /\ mtime[s] <= latest[q]
      <4>1. mtime[s] <= latest[r]
        BY <3>2, <1>13 DEF SaveState
      <4> QED
        BY <4>1, <2>1, <2>2
    <3> QED
      BY <2>3, <3>1, <3>2
  <2> QED
    BY <1>13, <2>3 DEF SaveState
<1>14. ASSUME NEW r \in Run, SaveFails(r) PROVE OnceInv'
  BY <1>14 DEF SaveFails
<1>20. ASSUME NEW r \in Run, ClientFails(r) PROVE OnceInv'
  BY <1>20 DEF ClientFails
<1>15. ASSUME NEW r \in Run, DreamAcquire(r) PROVE OnceInv'
  BY <1>15 DEF DreamAcquire
<1>16. ASSUME NEW r \in Run, DreamLoad(r) PROVE OnceInv'
  BY <1>16 DEF DreamLoad
<1>17. ASSUME NEW r \in Run, DreamSave(r) PROVE OnceInv'
  BY <1>17 DEF DreamSave
<1>18. ASSUME NEW r \in Run, DreamSaveFails(r) PROVE OnceInv'
  BY <1>18 DEF DreamSaveFails
<1>19. CASE UNCHANGED vars
  BY <1>19 DEF vars
<1> HIDE DEF TypeInv, TypeOK, ControlInv, Covered, InHand, OnceInv
<1> QED
  BY <1>1, <1>2, <1>3, <1>4, <1>5, <1>6, <1>7, <1>8, <1>9, <1>10, <1>11, <1>12,
     <1>13, <1>14, <1>15, <1>16, <1>17, <1>18, <1>19, <1>20
     DEF Next, Process, DreamCycle

(* Without a crash, a failed save, a stale copy or a lost fraction, every   *)
(* version of a session is extracted at most once (process.go:177).         *)
THEOREM NoDoubleScan == Spec => []ScannedOnce
<1>1. Init => ClockInv /\ StampInv /\ OnceInv
  <2>1. Whole(0)
    BY WholeSecondsType DEF Whole
  <2> QED
    BY <2>1, CaptureAssumption DEF Init, ClockInv, StampInv, NoState, Busy,
       OnceInv, InHand
<1>2. OnceInv => ScannedOnce
  BY DEF OnceInv, ScannedOnce, Doubles
<1> QED
  BY <1>1, <1>2, ClockInductive, StampInductive, OnceInductive, TypeAlways, PTL
     DEF Spec
=============================================================================
