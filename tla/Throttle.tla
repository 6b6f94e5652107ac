------------------------------- MODULE Throttle -------------------------------
(***************************************************************************)
(* The spacing of requests to one remote knowledge base                    *)
(* (submit/remote.go): each submission looks when the last one passed,     *)
(* gives the lock back, sleeps, and takes it again to note its own time.   *)
(* A capture run submits one note after the other; the approval server     *)
(* does so from a goroutine per request.  Every process has a throttle of  *)
(* its own.                                                                *)
(***************************************************************************)
EXTENDS Integers

CONSTANTS
  Caller,    \* goroutines
  MinDelay,  \* 100 ms
  MaxClock   \* bound on the time

ASSUME ThrottleAssumption ==
  /\ MinDelay \in Nat \ {0}
  /\ MaxClock \in Nat /\ MaxClock >= MinDelay

VARIABLES
  clock,
  last,    \* when a request last passed; 0 is the zero time
  phase,   \* [caller -> "idle", "wait" or "send"]
  seen,    \* [caller -> what it saw as last] (history: the code keeps the delay)
  wake,    \* [caller -> when its sleep ends]
  sentAt   \* [caller -> when it last passed] (history)

thvars == <<clock, last, phase, seen, wake, sentAt>>

ThTypeOK ==
  /\ clock \in MinDelay..MaxClock
  /\ last \in 0..MaxClock
  /\ phase \in [Caller -> {"idle", "wait", "send"}]
  /\ seen \in [Caller -> 0..MaxClock]
  /\ wake \in [Caller -> 0..(MaxClock + MinDelay)]
  /\ sentAt \in [Caller -> 0..MaxClock]

(* The zero time is long ago *)
ThInit ==
  /\ clock = MinDelay
  /\ last = 0
  /\ phase = [c \in Caller |-> "idle"]
  /\ seen = [c \in Caller |-> 0]
  /\ wake = [c \in Caller |-> 0]
  /\ sentAt = [c \in Caller |-> 0]

Advance ==
  /\ clock < MaxClock
  /\ clock' = clock + 1
  /\ UNCHANGED <<last, phase, seen, wake, sentAt>>

Wait(c) ==
  /\ phase[c] = "idle"
  /\ phase' = [phase EXCEPT ![c] = "wait"]
  /\ seen' = [seen EXCEPT ![c] = last]
  /\ wake' = [wake EXCEPT ![c] = IF last + MinDelay > clock THEN last + MinDelay ELSE clock]
  /\ UNCHANGED <<clock, last, sentAt>>

(* Fault: the time for which the request was planned is noted *)
Pass_Planned(c) ==
  /\ phase[c] = "wait" /\ clock >= wake[c]
  /\ last' = wake[c]
  /\ sentAt' = [sentAt EXCEPT ![c] = clock]
  /\ phase' = [phase EXCEPT ![c] = "send"]
  /\ UNCHANGED <<clock, seen, wake>>

(* However long the goroutine slept, the time it notes is now *)
Pass(c) ==
  /\ phase[c] = "wait" /\ clock >= wake[c]
  /\ last' = clock
  /\ sentAt' = [sentAt EXCEPT ![c] = clock]
  /\ phase' = [phase EXCEPT ![c] = "send"]
  /\ UNCHANGED <<clock, seen, wake>>

(* The context is cancelled during the sleep *)
Cancelled(c) ==
  /\ phase[c] = "wait" /\ clock < wake[c]
  /\ phase' = [phase EXCEPT ![c] = "idle"]
  /\ UNCHANGED <<clock, last, seen, wake, sentAt>>

(* The request and its retries, which are a second apart and do not wait *)
Sent(c) ==
  /\ phase[c] = "send"
  /\ phase' = [phase EXCEPT ![c] = "idle"]
  /\ UNCHANGED <<clock, last, seen, wake, sentAt>>

ThNext == Advance \/ \E c \in Caller : Wait(c) \/ Pass(c) \/ Cancelled(c) \/ Sent(c)

ThSpec == ThInit /\ [][ThNext]_thvars

-----------------------------------------------------------------------------
(* Two submissions of one goroutine are MinDelay apart, whatever the others
   do in between, and two of any goroutines are closer together only if the
   later one had looked before the earlier one passed.  So the capture run
   keeps to its rate (remote.go:32), and only overlapping sleeps let the
   approval server exceed it. *)
RateKept ==
  [][\A c \in Caller :
       phase[c] = "wait" /\ phase'[c] = "send" =>
         /\ clock - sentAt[c] >= MinDelay
         /\ clock - last < MinDelay => seen[c] < last]_thvars
=============================================================================
