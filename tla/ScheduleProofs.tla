---------------------------- MODULE ScheduleProofs ----------------------------
(* For any lengths of days, intervals and jobs, as long as a dream cycle is
   shorter than its interval: dream cycles do not starve ingestion, and the
   logs of every day are processed, once, or twice with an early schedule. *)
EXTENDS Schedule, TLAPS

-----------------------------------------------------------------------------
(* The days of the clock *)

DayStart(t) == Today(t) * Day

LEMMA Multiples ==
  ASSUME NEW a \in Int, NEW b \in Int, a < b
  PROVE  a * Day + Day <= b * Day
<1>1. (b - a - 1) * Day >= 0
    BY ScheduleAssumption
<1>2. (b - a - 1) * Day = b * Day - a * Day - Day
    BY ScheduleAssumption
<1> QED BY <1>1, <1>2, ScheduleAssumption

LEMMA DayBounds ==
  ASSUME NEW t \in Nat
  PROVE  /\ Today(t) \in Nat /\ DayStart(t) \in Nat
         /\ DayStart(t) <= t /\ t < DayStart(t) + Day
         /\ t % Day = t - DayStart(t)
<1>1. Today(t) \in Nat /\ t % Day \in 0..(Day - 1)
    BY ScheduleAssumption DEF Today
<1>2. t = Today(t) * Day + (t % Day)
    BY ScheduleAssumption DEF Today
<1>3. Today(t) * Day \in Nat
    BY <1>1, ScheduleAssumption
<1> QED BY <1>1, <1>2, <1>3, ScheduleAssumption DEF DayStart

LEMMA OnDay ==
  ASSUME NEW t \in Nat, NEW d \in Int, d * Day <= t, t < d * Day + Day
  PROVE  Today(t) = d
<1>1. /\ Today(t) \in Int /\ d * Day \in Int /\ Today(t) * Day \in Int
      /\ Today(t) * Day <= t /\ t < Today(t) * Day + Day
    BY ScheduleAssumption, DayBounds DEF DayStart
<1>2. CASE d < Today(t)
  <2>1. d * Day + Day <= Today(t) * Day
      BY <1>1, <1>2, Multiples
  <2> QED BY <2>1, <1>1, ScheduleAssumption
<1>3. CASE Today(t) < d
  <2>1. Today(t) * Day + Day <= d * Day
      BY <1>1, <1>3, Multiples
  <2> QED BY <2>1, <1>1, ScheduleAssumption
<1> QED BY <1>1, <1>2, <1>3

LEMMA DaysInOrder ==
  ASSUME NEW t \in Nat, NEW u \in Nat, t <= u
  PROVE  Today(t) <= Today(u)
<1>1. Today(t) \in Int /\ Today(u) \in Int /\ DayStart(t) \in Int /\ DayStart(u) \in Int
    BY DayBounds
<1> SUFFICES ASSUME Today(u) < Today(t) PROVE FALSE
    BY <1>1
<1>2. DayStart(u) + Day <= DayStart(t)
    BY <1>1, Multiples DEF DayStart
<1> QED BY <1>1, <1>2, DayBounds, ScheduleAssumption

(* The next hour is on the same day, or begins the next one *)
LEMMA NextHour ==
  ASSUME NEW t \in Nat
  PROVE  \/ Today(t + 1) = Today(t) /\ DayStart(t + 1) = DayStart(t)
         \/ /\ Today(t + 1) = Today(t) + 1 /\ DayStart(t + 1) = DayStart(t) + Day
            /\ t + 1 = DayStart(t) + Day
<1>1. Today(t) \in Nat /\ DayStart(t) \in Nat /\ DayStart(t) <= t /\ t < DayStart(t) + Day
    BY DayBounds
<1>2. CASE t + 1 < DayStart(t) + Day
  <2>1. Today(t + 1) = Today(t)
      BY <1>1, <1>2, OnDay DEF DayStart
  <2> QED BY <2>1 DEF DayStart
<1>3. CASE t + 1 = DayStart(t) + Day
  <2>1. (Today(t) + 1) * Day = DayStart(t) + Day
      BY <1>1, ScheduleAssumption DEF DayStart
  <2>2. Today(t + 1) = Today(t) + 1
      BY <1>1, <1>3, <2>1, OnDay, ScheduleAssumption
  <2> QED BY <2>1, <2>2, <1>3 DEF DayStart
<1> QED BY <1>1, <1>2, <1>3, ScheduleAssumption

-----------------------------------------------------------------------------
(* Types *)

LEMMA NeverType == Never \in Int /\ Never < 0
  BY ScheduleAssumption DEF Never

LEMMA InitType == Init => TypeOK
<1> SUFFICES ASSUME Init PROVE TypeOK
    OBVIOUS
<1>1. now \in Time
    BY ScheduleAssumption DEF Init, Time
<1>2. -1 \in -1..Today(Horizon)
    BY DayBounds, ScheduleAssumption
<1>3. 0 \in 0..MaxFaults /\ 0 \in Nat
    BY ScheduleAssumption
<1> QED BY <1>1, <1>2, <1>3 DEF Init, TypeOK

LEMMA NextType == TypeOK /\ [Next]_vars => TypeOK'
<1> SUFFICES ASSUME TypeOK, [Next]_vars PROVE TypeOK'
    OBVIOUS
<1> USE ScheduleAssumption DEF TypeOK
<1>1. CASE Hour
  <2>1. now' \in Time
      BY <1>1 DEF Hour, Time
  <2> QED BY <1>1, <2>1 DEF Hour
<1>2. CASE TickDream
    BY <1>2 DEF TickDream, Dispatch
<1>3. CASE TickIngest
    BY <1>3 DEF TickIngest, Dispatch
<1>4. CASE DreamDone
    BY <1>4 DEF DreamDone, history
<1>5. CASE IngestDone
  <2>1. now \in Nat /\ now <= Horizon
      BY DEF Time
  <2>2. Today(now) \in Nat /\ Today(Horizon) \in Nat /\ Today(now) <= Today(Horizon)
      BY <2>1, DayBounds, DaysInOrder
  <2>3. Today(now) - 1 \in -1..Today(Horizon)
      BY <2>2
  <2> QED BY <1>5, <2>3 DEF IngestDone
<1>6. CASE RecallDone
    BY <1>6 DEF RecallDone
<1>7. CASE Fails
    BY <1>7 DEF Fails
<1>8. CASE Restart
  <2>1. /\ faults' \in 0..MaxFaults /\ hazard' \subseteq {"failed", "restarted", "crossed"}
        /\ lastDream' = Never /\ lastRecall' = Never
      BY <1>8 DEF Restart
  <2> QED BY <1>8, <2>1 DEF Restart
<1>9. CASE UNCHANGED vars
    BY <1>9 DEF vars, history
<1> QED BY <1>1, <1>2, <1>3, <1>4, <1>5, <1>6, <1>7, <1>8, <1>9 DEF Next

(* No variable leaves its type, the processed days included (Schedule.tla,
   TypeOK). *)
THEOREM TypeCorrect == Spec => []TypeOK
  BY InitType, NextType, PTL DEF Spec

-----------------------------------------------------------------------------
(* Dream cycles and ingestions *)

(* The parts of the type invariant that the argument needs *)
Clocks ==
  /\ now \in Nat /\ start \in Nat /\ ingested \in Nat /\ lastDream \in Int
  /\ doing \in {"nothing", "dream", "ingest", "recall"}
  /\ ticked \in BOOLEAN
  /\ ticked => now = start

(* The last tick was an ingestion, or a dream cycle that a tick after an
   ingestion began, and the one that is due next is the other one. *)
Alternate ==
  /\ now - start <= Busy
  /\ doing \in {"ingest", "recall"} => ingested = start
  /\ doing = "dream" => start - ingested <= Busy
  /\ doing = "nothing" => \/ ingested = start
                          \/ lastDream = start /\ start - ingested <= Busy

NoFault == hazard \cap {"failed", "restarted"} = {}

Inv == Clocks /\ (NoFault => Alternate)

LEMMA InitInv == Init => Inv
<1> SUFFICES ASSUME Init PROVE Inv
    OBVIOUS
<1>1. now \in Nat
    BY ScheduleAssumption DEF Init
<1>2. Clocks
    BY <1>1, NeverType DEF Init, Clocks
<1>3. Alternate
    BY <1>1, ScheduleAssumption DEF Init, Alternate
<1> QED BY <1>2, <1>3 DEF Inv

LEMMA NextInv == Inv /\ [Next]_vars => Inv'
<1> SUFFICES ASSUME Inv, [Next]_vars PROVE Inv'
    OBVIOUS
<1> USE ScheduleAssumption DEF Inv, Clocks, Alternate, NoFault
<1>1. CASE Hour
  <2> USE <1>1 DEF Hour
  <2>1. now' = now + 1 /\ now' \in Nat /\ ticked' = FALSE
      OBVIOUS
  <2>2. NoFault' => NoFault
      OBVIOUS
  <2>3. Clocks'
      BY <2>1
  <2>4. ASSUME NoFault PROVE now' - start <= Busy
    <3>1. CASE doing = "nothing"
        BY <3>1, <2>1
    <3>2. CASE doing # "nothing"
        BY <3>2, <2>1
    <3> QED BY <3>1, <3>2
  <2>5. ASSUME NoFault PROVE Alternate'
      BY <2>4, <2>5
  <2> QED BY <2>2, <2>3, <2>5
<1>2. CASE TickDream
    BY <1>2 DEF TickDream, DreamDue, Dispatch
<1>3. CASE TickIngest
    BY <1>3 DEF TickIngest, Dispatch
<1>4. CASE DreamDone
    BY <1>4 DEF DreamDone, history
<1>5. CASE IngestDone
  <2>1. NoFault' => NoFault
      BY <1>5 DEF IngestDone
  <2> QED BY <1>5, <2>1 DEF IngestDone
<1>6. CASE RecallDone
    BY <1>6 DEF RecallDone
<1>7. CASE Fails
    BY <1>7 DEF Fails
<1>8. CASE Restart
  <2>1. ~NoFault'
      BY <1>8 DEF Restart
  <2>2. Clocks'
      BY <1>8, NeverType DEF Restart
  <2> QED BY <2>1, <2>2
<1>9. CASE UNCHANGED vars
    BY <1>9 DEF vars, history
<1> QED BY <1>1, <1>2, <1>3, <1>4, <1>5, <1>6, <1>7, <1>8, <1>9 DEF Next

(* Ingestion is not starved by dream cycles that are shorter than their
   interval and do not fail (server.go:76). *)
THEOREM NotStarvedHolds == Spec => []NotStarved
<1>1. Inv => NotStarved
    BY ScheduleAssumption DEF Inv, Clocks, Alternate, NoFault, NotStarved
<1> QED BY <1>1, InitInv, NextInv, PTL DEF Spec

-----------------------------------------------------------------------------
(* The recall logs, how often *)

(* A job is as long as it may be *)
Job ==
  /\ start <= now /\ lastRecall <= start /\ ingested <= start
  /\ doing # "nothing" => now - start <= Busy

(* Without a restart a run begins a rest after the last one and not before the
   scheduled hour, so the second one of a day is late in it *)
Spaced ==
  /\ doing = "recall" => start - lastRecall >= Rest /\ start - DayStart(start) >= schedule
  /\ runs >= 1 => lastRecall >= 0 /\ lastRecall - DayStart(lastRecall) >= schedule
  /\ runs >= 2 => lastRecall - DayStart(lastRecall) >= schedule + Rest
  /\ runs <= 2

SpacedInv == "restarted" \notin hazard => Spaced

(* The logs of each day *)

Fits == schedule + 3 * Busy < Day /\ Rest + 3 * Busy < Day

(* An ingestion that begins in this hour or later today is followed by the
   recall logs *)
Window == DayStart(now) + (IF schedule < Rest THEN Rest ELSE schedule)

(* Those of yesterday are not processed, so the window has just been reached
   if at all *)
Waiting ==
  /\ ingested < Window + 2 * Busy
  /\ ingested >= Window => doing \in {"ingest", "recall"} /\ start = ingested

Daily ==
  /\ doing = "recall" => target = Today(start) - 1
  /\ lastRecall >= 0 => Today(lastRecall) - 1 \in processed
  /\ Fits => /\ \A d \in Today(up)..(Today(now) - 2) : d \in processed
             /\ Today(up) < Today(now) /\ Today(now) - 1 \notin processed => Waiting

DayInv == up <= now /\ (hazard = {} => Daily)

LEMMA Numbers ==
  ASSUME TypeOK
  PROVE  /\ now \in Nat /\ start \in Nat /\ ingested \in Nat /\ up \in Nat /\ runs \in Nat
         /\ lastRecall \in Int /\ schedule \in Nat /\ DayStart(now) \in Nat
         /\ Today(now) \in Nat /\ Today(up) \in Nat /\ Today(start) \in Nat
<1>1. now \in Nat /\ start \in Nat /\ ingested \in Nat /\ up \in Nat /\ lastRecall \in Int
    BY NeverType, ScheduleAssumption DEF TypeOK, Time
<1> QED BY <1>1, DayBounds, ScheduleAssumption DEF TypeOK

LEMMA InitJob == Init => Job
  BY ScheduleAssumption, NeverType DEF Init, Job

LEMMA NextJob == TypeOK /\ Job /\ [Next]_vars => Job'
<1> SUFFICES ASSUME TypeOK, Job, [Next]_vars PROVE Job'
    OBVIOUS
<1> USE ScheduleAssumption, Numbers DEF Job
<1>1. CASE Hour
    BY <1>1 DEF Hour
<1>2. CASE TickDream
    BY <1>2 DEF TickDream, Dispatch
<1>3. CASE TickIngest
    BY <1>3 DEF TickIngest, Dispatch
<1>4. CASE DreamDone
    BY <1>4 DEF DreamDone, history
<1>5. CASE IngestDone
    BY <1>5 DEF IngestDone
<1>6. CASE RecallDone
    BY <1>6 DEF RecallDone
<1>7. CASE Fails
    BY <1>7 DEF Fails
<1>8. CASE Restart
    BY <1>8, NeverType DEF Restart
<1>9. CASE UNCHANGED vars
    BY <1>9 DEF vars, history
<1> QED BY <1>1, <1>2, <1>3, <1>4, <1>5, <1>6, <1>7, <1>8, <1>9 DEF Next

LEMMA NextSpaced ==
  ASSUME Day <= 2 * Rest, TypeOK, Job, SpacedInv, [Next]_vars
  PROVE  SpacedInv'
<1> USE ScheduleAssumption, Numbers DEF SpacedInv, Spaced
<1>1. CASE Hour
    BY <1>1 DEF Hour, DayStart
<1>2. CASE TickDream
    BY <1>2 DEF TickDream, Dispatch, DayStart
<1>3. CASE TickIngest
    BY <1>3 DEF TickIngest, Dispatch, DayStart
<1>4. CASE DreamDone
    BY <1>4 DEF DreamDone, history, DayStart
<1>5. CASE IngestDone
  <2>1. start % Day = start - DayStart(start)
      BY DayBounds
  <2> QED BY <1>5, <2>1 DEF IngestDone, ShouldProcess, DayStart
<1>6. CASE RecallDone
  <2>1. /\ doing = "recall" /\ doing' = "nothing" /\ lastRecall' = start /\ start' = start
        /\ schedule' = schedule /\ hazard' = hazard
        /\ DayStart(lastRecall') = DayStart(start) /\ DayStart(start') = DayStart(start)
      BY <1>6 DEF RecallDone, DayStart
  <2> SUFFICES ASSUME "restarted" \notin hazard PROVE Spaced'
      BY <2>1
  <2>2. start - lastRecall >= Rest /\ start - DayStart(start) >= schedule
      BY <2>1
  <2>3. CASE Today(start) # Today(lastRecall)
    <3>1. runs' = 1
        BY <1>6, <2>3 DEF RecallDone
    <3> QED BY <2>1, <2>2, <3>1
  <2>4. CASE Today(start) = Today(lastRecall)
    <3>1. runs' = runs + 1 /\ DayStart(lastRecall) = DayStart(start)
        BY <1>6, <2>4 DEF RecallDone, DayStart
    <3>2. /\ DayStart(start) \in Nat
          /\ DayStart(start) <= start /\ start < DayStart(start) + Day
        BY DayBounds
    <3>3. CASE runs = 0
        BY <2>1, <2>2, <3>1, <3>3
    <3>4. CASE runs = 1
        BY <2>1, <2>2, <3>1, <3>2, <3>4
    <3>5. runs # 2
        BY <2>2, <3>1, <3>2
    <3> QED BY <3>3, <3>4, <3>5
  <2> QED BY <2>3, <2>4
<1>7. CASE Fails
    BY <1>7 DEF Fails, DayStart
<1>8. CASE Restart
    BY <1>8 DEF Restart
<1>9. CASE UNCHANGED vars
    BY <1>9 DEF vars, history, DayStart
<1> QED BY <1>1, <1>2, <1>3, <1>4, <1>5, <1>6, <1>7, <1>8, <1>9 DEF Next

(* One run a day, or two with a schedule that leaves a rest of the day, and
   never a third, if two rests are a day at least: 20 hours are (server.go:102). *)
THEOREM OnceADayHolds ==
  ASSUME Day <= 2 * Rest
  PROVE  Spec => []OnceADay
<1>1. Init => SpacedInv
    BY DEF Init, SpacedInv, Spaced
<1>2. TypeOK /\ Job /\ SpacedInv /\ [Next]_vars => SpacedInv'
    BY NextSpaced
<1>3. TypeOK /\ SpacedInv => OnceADay
  <2> SUFFICES ASSUME TypeOK, SpacedInv, "restarted" \notin hazard
               PROVE  runs <= 1 \/ (runs = 2 /\ schedule + Rest < Day)
      BY DEF OnceADay
  <2>1. Spaced /\ runs \in Nat /\ lastRecall \in Int /\ schedule \in Nat
      BY Numbers DEF SpacedInv
  <2>2. CASE runs = 2
    <3>1. lastRecall \in Nat /\ lastRecall - DayStart(lastRecall) >= schedule + Rest
        BY <2>1, <2>2 DEF Spaced
    <3>2. DayStart(lastRecall) \in Nat /\ lastRecall < DayStart(lastRecall) + Day
        BY <3>1, DayBounds
    <3> QED BY <2>1, <2>2, <3>1, <3>2, ScheduleAssumption
  <2> QED BY <2>1, <2>2 DEF Spaced
<1> QED BY <1>1, <1>2, <1>3, InitJob, NextJob, InitType, NextType, PTL DEF Spec

LEMMA NextDay ==
  ASSUME TypeOK, Inv, Job, DayInv, [Next]_vars
  PROVE  DayInv'
<1> USE ScheduleAssumption, Numbers DEF DayInv, Daily
<1>0. /\ start <= now /\ lastRecall <= start /\ ingested <= start
      /\ doing # "nothing" => now - start <= Busy
      /\ DayStart(now) <= now /\ now < DayStart(now) + Day
    BY DayBounds DEF Job
<1>a. ASSUME hazard = {}
      PROVE  now - ingested <= 2 * Busy /\ (doing \in {"ingest", "recall"} => start = ingested)
  <2>1. Alternate /\ Clocks
      BY <1>a DEF Inv, NoFault
  <2> QED BY <2>1 DEF Clocks, Alternate
<1>1. CASE Hour
  <2>1. /\ now' = now + 1 /\ start' = start /\ lastRecall' = lastRecall /\ doing' = doing /\ hazard' = hazard
        /\ processed' = processed /\ up' = up /\ schedule' = schedule /\ ingested' = ingested
        /\ target' = target /\ (doing # "nothing" => now - start < Busy)
      BY <1>1 DEF Hour
  <2> SUFFICES ASSUME hazard = {} PROVE Daily'
      BY <2>1
  <2>2. Fits' = Fits
      BY <2>1 DEF Fits
  <2>3. CASE Today(now + 1) = Today(now) /\ DayStart(now + 1) = DayStart(now)
    <3>1. Waiting' = Waiting
        BY <2>1, <2>3 DEF Waiting, Window
    <3> QED BY <2>1, <2>2, <2>3, <3>1
  <2>4. CASE /\ Today(now + 1) = Today(now) + 1 /\ DayStart(now + 1) = DayStart(now) + Day
             /\ now + 1 = DayStart(now) + Day
    <3> SUFFICES ASSUME Fits
                 PROVE  /\ \A d \in Today(up)..(Today(now) - 1) : d \in processed
                        /\ Waiting'
        BY <2>1, <2>2, <2>4
    <3>1. Today(up) < Today(now) => Today(now) - 1 \in processed
      <4> SUFFICES ASSUME Waiting PROVE FALSE
          OBVIOUS
      <4>1. Window + 3 * Busy < DayStart(now) + Day
          BY DEF Fits, Window
      <4> QED BY <1>0, <1>a, <2>1, <2>4, <4>1 DEF Waiting, Window
    <3>2. Waiting'
        BY <1>0, <2>1, <2>4 DEF Waiting, Window
    <3>3. ASSUME NEW d \in Today(up)..(Today(now) - 1) PROVE d \in processed
      <4>1. CASE d = Today(now) - 1
          BY <4>1, <3>1
      <4>2. CASE d # Today(now) - 1
          BY <4>2
      <4> QED BY <4>1, <4>2
    <3> QED BY <3>2, <3>3
  <2> QED BY <2>3, <2>4, NextHour
<1>2. CASE TickDream
    BY <1>0, <1>2 DEF TickDream, Dispatch, Fits, Waiting, Window
<1>3. CASE TickIngest
    BY <1>0, <1>a, <1>3 DEF TickIngest, Dispatch, Fits, Waiting, Window
<1>4. CASE DreamDone
    BY <1>4 DEF DreamDone, history, Fits, Waiting, Window
<1>5. CASE IngestDone
  <2>1. /\ now' = now /\ start' = start /\ lastRecall' = lastRecall /\ processed' = processed
        /\ up' = up /\ schedule' = schedule /\ ingested' = ingested /\ doing = "ingest"
      BY <1>5 DEF IngestDone
  <2> SUFFICES ASSUME hazard' = {} PROVE Daily'
      BY <2>1
  <2>2. hazard = {}
      BY <1>5 DEF IngestDone
  <2>3. Fits' = Fits /\ Window' = Window
      BY <2>1 DEF Fits, Window
  <2>4. doing' = "recall" => target' = Today(start) - 1
      BY <1>5 DEF IngestDone
  <2>5. ASSUME Fits, Today(up) < Today(now), Today(now) - 1 \notin processed PROVE Waiting'
    <3>1. Waiting
        BY <2>2, <2>5
    <3>2. CASE ingested < Window
      <4>1. Window \in Nat
          BY DEF Window
      <4> QED BY <3>1, <3>2, <4>1, <2>1, <2>3 DEF Waiting
    <3>3. CASE ingested >= Window
      <4>1. start = ingested /\ start \in Nat /\ start >= Window /\ Window \in Nat
          BY <3>1, <3>3 DEF Waiting, Window
      <4>2. Today(start) = Today(now) /\ start % Day = start - DayStart(now)
        <5>1. DayStart(now) <= start /\ start < DayStart(now) + Day
            BY <4>1, <1>0 DEF Window
        <5>2. Today(start) = Today(now)
            BY <5>1, OnDay DEF DayStart
        <5> QED BY <5>2, DayBounds DEF DayStart
      <4>3. lastRecall < DayStart(now)
        <5> SUFFICES ASSUME lastRecall >= DayStart(now) PROVE FALSE
            OBVIOUS
        <5>1. Today(lastRecall) = Today(now)
            BY <1>0, OnDay DEF DayStart
        <5> QED BY <5>1, <2>2, <2>5
      <4>4. ShouldProcess
          BY <4>1, <4>2, <4>3 DEF ShouldProcess, Window
      <4>5. doing' = "recall"
          BY <1>5, <4>4 DEF IngestDone
      <4> QED BY <3>1, <4>1, <4>5, <2>1, <2>3 DEF Waiting
    <3> QED BY <3>2, <3>3, <2>3 DEF Window
  <2> QED BY <2>1, <2>2, <2>3, <2>4, <2>5
<1>6. CASE RecallDone
  <2>1. /\ now' = now /\ start' = start /\ lastRecall' = start /\ processed' = processed \cup {target}
        /\ up' = up /\ schedule' = schedule /\ ingested' = ingested /\ doing = "recall"
        /\ doing' = "nothing" /\ hazard' = hazard
      BY <1>6 DEF RecallDone
  <2> SUFFICES ASSUME hazard = {} PROVE Daily'
      BY <2>1
  <2>2. Fits' = Fits /\ Window' = Window
      BY <2>1 DEF Fits, Window
  <2>3. Today(start) - 1 \in processed'
      BY <2>1
  <2>4. ASSUME Fits, Today(up) < Today(now), Today(now) - 1 \notin processed' PROVE Waiting'
    <3>1. Waiting /\ start = ingested
        BY <1>a, <2>1, <2>4
    <3>2. start < DayStart(now)
      <4> SUFFICES ASSUME start >= DayStart(now) PROVE FALSE
          OBVIOUS
      <4>1. Today(start) = Today(now)
          BY <1>0, OnDay DEF DayStart
      <4> QED BY <4>1, <2>3, <2>4
    <3> QED BY <3>1, <3>2, <2>1, <2>2 DEF Waiting, Window
  <2>5. Today(lastRecall') - 1 \in processed'
      BY <2>1, <2>3
  <2> QED BY <2>1, <2>2, <2>4, <2>5
<1>7. CASE Fails
    BY <1>7 DEF Fails
<1>8. CASE Restart
    BY <1>8 DEF Restart
<1>9. CASE UNCHANGED vars
    BY <1>9 DEF vars, history, Fits, Waiting, Window
<1> QED BY <1>1, <1>2, <1>3, <1>4, <1>5, <1>6, <1>7, <1>8, <1>9 DEF Next

(* The logs of every day are processed on the next, for every schedule, rest
   and length of jobs that leave room for an ingestion, a dream cycle and
   another ingestion (server.go:70-110). *)
THEOREM EveryDayHolds == Spec => []EveryDay
<1>1. Init => DayInv
  <2> SUFFICES ASSUME Init PROVE DayInv
      OBVIOUS
  <2>0. up = now /\ now \in Nat
      BY ScheduleAssumption DEF Init
  <2>1. up = now /\ now \in Nat /\ Today(now) \in Nat
      BY <2>0, DayBounds
  <2>2. doing = "nothing" /\ lastRecall < 0
      BY NeverType DEF Init
  <2> QED BY <2>1, <2>2, NeverType DEF Init, DayInv, Daily
<1>2. TypeOK /\ Inv /\ Job /\ DayInv /\ [Next]_vars => DayInv'
    BY NextDay
<1>3. DayInv => EveryDay
    BY DEF DayInv, Daily, Fits, EveryDay
<1> QED BY <1>1, <1>2, <1>3, InitType, NextType, InitInv, NextInv, InitJob, NextJob, PTL DEF Spec
=============================================================================
