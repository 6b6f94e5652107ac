------------------------------- MODULE Schedule -------------------------------
(***************************************************************************)
(* What the server does when (server/server.go).  One goroutine takes a    *)
(* tick at a time and drops those that fall due meanwhile: a tick is spent *)
(* on a dream cycle if one is due, else on ingestion and, once the         *)
(* scheduled hour has come, on the recall logs of the day before.          *)
(*                                                                         *)
(* The clock counts hours from a midnight (UTC).  A tick interval is much  *)
(* shorter, so no idle hour passes without a tick.                         *)
(***************************************************************************)
EXTENDS Integers

CONSTANTS
  Day,        \* hours of a day
  Rest,       \* hours between two runs of the recall logs
  Interval,   \* dream_cycle.interval
  Schedules,  \* hours for recall_log.schedule
  Busy,       \* bound on the hours of a dream cycle, and of an ingestion with recall logs
  MaxFaults,  \* bound on failures and restarts
  Horizon     \* bound on the clock

ASSUME ScheduleAssumption ==
  /\ Day \in Nat \ {0} /\ Rest \in 1..Day
  /\ Interval \in Nat \ {0} /\ Busy \in Nat \ {0} /\ Busy < Interval
  /\ Schedules \subseteq 0..(Day - 1)
  /\ MaxFaults \in Nat /\ Horizon \in Nat /\ Day <= Horizon

VARIABLES
  now,
  schedule,    \* the configured hour
  doing,       \* what the tick is spent on
  start,       \* when it began
  ticked,      \* there was a tick in this hour
  lastDream,   \* lastDreamCycle, in memory only
  lastRecall,  \* lastRecallLog, likewise
  target,      \* the day whose logs are being processed
  up,          \* when the server was first started (history)
  processed,   \* days whose logs were processed (history)
  runs,        \* how many began on the day of the last of them (history)
  ingested,    \* when the last ingestion began (history)
  faults,      \* how many failures and restarts, up to MaxFaults
  hazard       \* and of what kind (history)

history == <<up, processed, runs, ingested, hazard>>
vars == <<now, schedule, doing, start, ticked, lastDream, lastRecall, target, faults, history>>

Time == 0..Horizon

(* The zero time is long ago *)
Never == -(Day + Interval)

Today(t) == t \div Day

TypeOK ==
  /\ now \in Time /\ start \in Time /\ up \in Time /\ ingested \in Time
  /\ schedule \in Schedules
  /\ doing \in {"nothing", "dream", "ingest", "recall"}
  /\ ticked \in BOOLEAN
  /\ lastDream \in Time \cup {Never} /\ lastRecall \in Time \cup {Never}
  /\ target \in -1..Today(Horizon) /\ processed \subseteq -1..Today(Horizon)
  /\ runs \in Nat
  /\ faults \in 0..MaxFaults /\ hazard \subseteq {"failed", "restarted", "crossed"}

Init ==
  /\ now \in 0..(Day - 1)
  /\ schedule \in Schedules
  /\ doing = "nothing" /\ start = now /\ ticked = FALSE
  /\ lastDream = Never /\ lastRecall = Never /\ target = -1
  /\ up = now /\ processed = {} /\ runs = 0 /\ ingested = now
  /\ faults = 0 /\ hazard = {}

(* Time passes, in a job or between ticks *)
Hour ==
  /\ now < Horizon
  /\ IF doing = "nothing" THEN ticked ELSE now - start < Busy
  /\ now' = now + 1
  /\ ticked' = FALSE
  /\ UNCHANGED <<schedule, doing, start, lastDream, lastRecall, target, up, processed, runs,
                 ingested, faults, hazard>>

DreamDue == now - lastDream >= Interval

Dispatch(job) ==
  /\ doing = "nothing"
  /\ doing' = job /\ start' = now /\ ticked' = TRUE
  /\ UNCHANGED <<now, schedule, lastDream, lastRecall, target, up, processed, runs, faults, hazard>>

TickDream  == DreamDue  /\ Dispatch("dream")  /\ UNCHANGED ingested
TickIngest == ~DreamDue /\ Dispatch("ingest") /\ ingested' = now

(* Fault: lastDreamCycle is never set *)
DreamDone_Unset ==
  /\ doing = "dream"
  /\ doing' = "nothing"
  /\ UNCHANGED <<now, schedule, start, ticked, lastDream, lastRecall, target, faults, history>>

(* A dream cycle counts from its start *)
DreamDone ==
  /\ doing = "dream"
  /\ doing' = "nothing"
  /\ lastDream' = start
  /\ UNCHANGED <<now, schedule, start, ticked, lastRecall, target, faults, history>>

(* Fault: no distance to the last run *)
ShouldProcess_NoRest == start % Day >= schedule

(* Fault: in the scheduled hour only *)
ShouldProcess_Exact ==
  /\ start - lastRecall >= Rest
  /\ start % Day = schedule

(* shouldProcessRecallLogs, with the time at which the tick began *)
ShouldProcess ==
  /\ start - lastRecall >= Rest
  /\ start % Day >= schedule

(* Fault: twice the day before *)
IngestDone_TwoBack ==
  /\ doing = "ingest"
  /\ IF ShouldProcess
     THEN /\ doing' = "recall"
          /\ target' = Today(now - Day) - 1
          /\ hazard' = hazard \cup (IF Today(now) = Today(start) THEN {} ELSE {"crossed"})
     ELSE doing' = "nothing" /\ UNCHANGED <<target, hazard>>
  /\ UNCHANGED <<now, schedule, start, ticked, lastDream, lastRecall, up, processed, runs,
                 ingested, faults>>

(* RunIngestion returns, with or without an error.  The day before is that
   of the clock: hazard, not of the time at which the tick began. *)
IngestDone ==
  /\ doing = "ingest"
  /\ IF ShouldProcess
     THEN /\ doing' = "recall"
          /\ target' = Today(now) - 1
          /\ hazard' = hazard \cup (IF Today(now) = Today(start) THEN {} ELSE {"crossed"})
     ELSE doing' = "nothing" /\ UNCHANGED <<target, hazard>>
  /\ UNCHANGED <<now, schedule, start, ticked, lastDream, lastRecall, up, processed, runs,
                 ingested, faults>>

RecallDone ==
  /\ doing = "recall"
  /\ doing' = "nothing"
  /\ lastRecall' = start
  /\ processed' = processed \cup {target}
  /\ runs' = IF Today(start) = Today(lastRecall) THEN runs + 1 ELSE 1
  /\ UNCHANGED <<now, schedule, start, ticked, lastDream, target, up, ingested, faults, hazard>>

(* A dream cycle or a recall-log run that fails is due again at the next tick *)
Fails ==
  /\ doing \in {"dream", "recall"} /\ faults < MaxFaults
  /\ doing' = "nothing"
  /\ faults' = faults + 1 /\ hazard' = hazard \cup {"failed"}
  /\ UNCHANGED <<now, schedule, start, ticked, lastDream, lastRecall, target, up, processed, runs,
                 ingested>>

(* Both times are lost *)
Restart ==
  /\ faults < MaxFaults
  /\ doing' = "nothing" /\ ticked' = FALSE
  /\ lastDream' = Never /\ lastRecall' = Never
  /\ faults' = faults + 1 /\ hazard' = hazard \cup {"restarted"}
  /\ UNCHANGED <<now, schedule, start, target, up, processed, runs, ingested>>

Next ==
  \/ Hour \/ TickDream \/ TickIngest \/ DreamDone \/ IngestDone \/ RecallDone \/ Fails \/ Restart

Spec == Init /\ [][Next]_vars

-----------------------------------------------------------------------------
(* The logs of every day are processed on the next, whatever the drift of
   the runs, as long as nothing failed, was restarted or ran over midnight, and
   an ingestion, a dream cycle and another ingestion fit into what is left of
   the day after the schedule and after the 20 hours. *)
EveryDay ==
  hazard = {} /\ schedule + 3 * Busy < Day /\ Rest + 3 * Busy < Day =>
    \A d \in Today(up)..(Today(now) - 2) : d \in processed

(* The recall logs are processed once a day, as server.go:90 and cdk/spec.md:196
   say, unless the server was restarted or the scheduled hour is early: 20 hours
   are not a day (server.go:102), so with a schedule of 03:00 a day may see a
   run at 03:00 and another at 23:00, but never a third. *)
OnceADay ==
  "restarted" \notin hazard => runs <= 1 \/ (runs = 2 /\ schedule + Rest < Day)

(* Ingestion is not starved by dream cycles that take less than their interval,
   unless they fail or the server is restarted: then dream cycles come first
   (server.go:76). *)
NotStarved == hazard \cap {"failed", "restarted"} = {} => now - ingested <= 2 * Busy
=============================================================================
