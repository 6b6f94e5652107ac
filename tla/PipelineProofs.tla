---------------------------- MODULE PipelineProofs ----------------------------
(* For every conversation, source and answer of the model and of the bases:
   what happens to the notes of a conversation on their way from the model to
   the knowledge bases (Extraction, Routing, Submission, and Pipeline, which
   composes them), and the rate of the requests (Throttle). *)
EXTENDS Pipeline, Throttle, FiniteSetsExt, SequenceTheorems, FiniteSetTheorems,
        WellFoundedInduction, TLAPS

(***************************************************************************)
(* Folds                                                                   *)
(***************************************************************************)
LEMMA Steps ==
  ASSUME NEW n \in Nat, NEW P, 0 \in P, \A i \in 1..n : i - 1 \in P => i \in P
  PROVE  0..n \subseteq P
<1> SUFFICES ASSUME NEW k \in 0..n, k \notin P PROVE FALSE
  OBVIOUS
<1> DEFINE T == {0..j : j \in (0..n) \ P}
<1>1. T \subseteq FiniteSubsetsOf(Nat) /\ T # {}
  <2>1. \A j \in Nat : IsFiniteSet(0..j) /\ 0..j \in SUBSET Nat
    BY FS_Interval
  <2> QED BY <2>1 DEF FiniteSubsetsOf
<1>2. PICK t \in T : \A s \in T : ~(<<s, t>> \in StrictSubsetOrdering(Nat))
  <2> HIDE DEF T
  <2> QED BY <1>1, WFMin, FS_StrictSubsetOrderingWellFounded
<1>3. PICK j \in (0..n) \ P : t = 0..j
  BY <1>2
<1>4. j \in 1..n /\ j - 1 \in (0..n) \ P
  BY <1>3
<1>5. 0..(j - 1) \in T
  BY <1>4
<1>6. <<0..(j - 1), t>> \in StrictSubsetOrdering(Nat)
  <2>1. 0..(j - 1) \subseteq 0..j /\ 0..j \subseteq Nat /\ j \in 0..j /\ j \notin 0..(j - 1)
    BY <1>4
  <2> HIDE DEF T
  <2> QED BY <2>1, <1>3 DEF StrictSubsetOrdering
<1> QED BY <1>2, <1>5, <1>6

LEMMA MaxIn ==
  ASSUME NEW n \in Nat, NEW s \in SUBSET (1..n), s # {}
  PROVE  Max(s) \in s /\ \A x \in s : Max(s) >= x
<1> DEFINE P == {k \in 0..n : \A t \in SUBSET (1..k) : t # {} => \E x \in t : \A y \in t : x >= y}
<1>1. 0 \in P
  <2>1. 1..0 = {}
    OBVIOUS
  <2>2. \A t \in SUBSET (1..0) : t = {}
    BY <2>1
  <2>3. 0 \in 0..n
    OBVIOUS
  <2> QED BY <2>2, <2>3
<1>2. \A k \in 1..n : k - 1 \in P => k \in P
  <2> SUFFICES ASSUME NEW k \in 1..n, k - 1 \in P, NEW t \in SUBSET (1..k), t # {}
               PROVE  \E x \in t : \A y \in t : x >= y
    OBVIOUS
  <2>1. CASE k \in t
    BY <2>1
  <2>2. CASE k \notin t
    <3>1. t \in SUBSET (1..(k - 1))
      BY <2>2
    <3> QED BY <3>1
  <2> QED BY <2>1, <2>2
<1>3. n \in P
  <2> HIDE DEF P
  <2> QED BY <1>1, <1>2, Steps
<1>4. \E x \in s : \A y \in s : x >= y
  BY <1>3
<1> QED BY <1>4 DEF Max

LEMMA MaxIs ==
  ASSUME NEW n \in Nat, NEW s \in SUBSET (1..n), NEW k \in s, \A x \in s : k >= x
  PROVE  Max(s) = k
<1>1. Max(s) \in s /\ Max(s) >= k
  BY MaxIn
<1>2. Max(s) \in 1..n /\ k \in 1..n /\ k >= Max(s)
  BY <1>1
<1> QED BY <1>1, <1>2

(* f is the function that FoldLeft defines for the step st on sequences of
   length n, with values in A. *)
Folding(f, n, A, b, st) ==
  /\ f \in [SUBSET (1..n) -> A]
  /\ \A s \in SUBSET (1..n) : f[s] = IF s = {} THEN b ELSE st[Max(s)][f[s \ {Max(s)}]]

LEMMA FoldExists ==
  ASSUME NEW n \in Nat, NEW A, NEW b \in A, NEW st \in [1..n -> [A -> A]]
  PROVE  \E f : Folding(f, n, A, b, st)
<1> DEFINE Sub(k) == SUBSET (1..k)
           Of(k, f) == /\ f \in [Sub(k) -> A]
                       /\ \A s \in Sub(k) : f[s] = IF s = {} THEN b ELSE st[Max(s)][f[s \ {Max(s)}]]
           P == {k \in 0..n : \E f : Of(k, f)}
<1>1. Of(0, [s \in Sub(0) |-> b])
  <2>1. \A s \in Sub(0) : s = {}
    BY 1..0 = {}
  <2> QED BY <2>1
<1>2. ASSUME NEW k \in 1..n, NEW f, Of(k - 1, f)
      PROVE  Of(k, [s \in Sub(k) |-> IF k \in s THEN st[k][f[s \ {k}]] ELSE f[s]])
  <2> DEFINE g == [s \in Sub(k) |-> IF k \in s THEN st[k][f[s \ {k}]] ELSE f[s]]
  <2>1. /\ k \in Nat /\ k - 1 \in Nat
        /\ \A s \in Sub(k) : s \ {k} \in Sub(k - 1)
        /\ \A s \in Sub(k) : k \notin s => s \in Sub(k - 1)
        /\ \A s \in Sub(k - 1) : s \in Sub(k) /\ k \notin s
    OBVIOUS
  <2>2. f \in [Sub(k - 1) -> A] /\ \A s \in Sub(k - 1) : f[s] \in A
    BY <1>2
  <2>3. \A s \in Sub(k - 1) : g[s] = f[s]
    <3> HIDE DEF Sub
    <3> QED BY <2>1
  <2>4. st[k] \in [A -> A]
    OBVIOUS
  <2>5. g \in [Sub(k) -> A]
    <3> HIDE DEF Sub
    <3> QED BY <2>1, <2>2, <2>4
  <2>6. ASSUME NEW s \in Sub(k)
        PROVE  g[s] = IF s = {} THEN b ELSE st[Max(s)][g[s \ {Max(s)}]]
    <3>1. CASE k \in s
      <4>1. \A x \in s : k >= x
        OBVIOUS
      <4>2. Max(s) = k
        BY <2>1, <3>1, <4>1, MaxIs
      <4>3. g[s \ {k}] = f[s \ {k}]
        BY <2>1, <2>3
      <4>4. g[s] = st[k][f[s \ {k}]]
        BY <3>1
      <4> QED BY <3>1, <4>2, <4>3, <4>4
    <3>2. CASE k \notin s /\ s # {}
      <4>1. s \in Sub(k - 1)
        BY <3>2, <2>1
      <4>2. Max(s) \in s
        BY <3>2, <2>1, <4>1, MaxIn
      <4>3. s \ {Max(s)} \in Sub(k - 1)
        BY <4>1
      <4>4. f[s] = st[Max(s)][f[s \ {Max(s)}]]
        <5> HIDE DEF Sub
        <5> QED BY <4>1, <3>2, <1>2
      <4>5. g[s] = f[s] /\ g[s \ {Max(s)}] = f[s \ {Max(s)}]
        BY <4>1, <4>3, <2>3
      <4> QED BY <3>2, <4>4, <4>5
    <3>3. CASE s = {}
      <4>1. s \in Sub(k - 1) /\ g[s] = f[s]
        BY <3>3, <2>3
      <4> QED BY <4>1, <3>3, <1>2
    <3> QED BY <3>1, <3>2, <3>3
  <2> QED BY <2>5, <2>6
<1>3. n \in P
  <2>1. 0 \in P
    <3> HIDE DEF Of
    <3> QED BY <1>1
  <2>2. \A k \in 1..n : k - 1 \in P => k \in P
    <3> HIDE DEF Of
    <3> SUFFICES ASSUME NEW k \in 1..n, k - 1 \in P PROVE \E f : Of(k, f)
      OBVIOUS
    <3>1. PICK f : Of(k - 1, f)
      OBVIOUS
    <3> QED BY <3>1, <1>2
  <2>3. n \in 0..n
    OBVIOUS
  <2> HIDE DEF P
  <2> QED BY <2>1, <2>2, <2>3, Steps
<1>4. PICK f : Of(n, f)
  <2> HIDE DEF Of
  <2> QED BY <1>3
<1> QED BY <1>4 DEF Folding

Run(r, n, A, b, st) ==
  r \in [0..n -> A] /\ r[0] = b /\ \A i \in 1..n : r[i] = st[i][r[i - 1]]

(* Of g as much is known as the definition says. *)
Follows(g, n, A, b, st) ==
  /\ g[{}] = b
  /\ \A s \in SUBSET (1..n) : s # {} /\ g[s \ {Max(s)}] \in A
                               => g[s] = st[Max(s)][g[s \ {Max(s)}]]

LEMMA Running ==
  ASSUME NEW n \in Nat, NEW A, NEW b \in A, NEW st \in [1..n -> [A -> A]], NEW g,
         Follows(g, n, A, b, st)
  PROVE  \E r : Run(r, n, A, b, st) /\ r[n] = g[1..n]
<1> USE DEF Follows
<1> DEFINE r == [i \in 0..n |-> g[1..i]]
<1>1. r[0] = b /\ \A i \in 1..n : i \in 0..n /\ i - 1 \in 0..n /\ r[i] = g[1..i] /\ r[i - 1] = g[1..(i - 1)]
  BY 1..0 = {}
<1>2. ASSUME NEW i \in 1..n, r[i - 1] \in A PROVE r[i] = st[i][r[i - 1]] /\ r[i] \in A
  <2>1. Max(1..i) = i
    <3>1. i \in Nat /\ i \in 1..i /\ \A x \in 1..i : i >= x
      OBVIOUS
    <3> QED BY <3>1, MaxIs
  <2>2. (1..i) \ {i} = 1..(i - 1) /\ 1..i # {} /\ 1..i \in SUBSET (1..n)
    <3>1. i \in Nat /\ i >= 1 /\ i <= n
      OBVIOUS
    <3>2. \A x : x \in (1..i) \ {i} <=> x \in 1..(i - 1)
      BY <3>1
    <3> QED BY <3>1, <3>2
  <2>3. g[1..i] = st[i][g[1..(i - 1)]]
    <3>1. g[1..(i - 1)] \in A
      <4> HIDE DEF r
      <4> QED BY <1>2, <1>1
    <3> QED BY <3>1, <2>1, <2>2
  <2>4. st[i] \in [A -> A]
    OBVIOUS
  <2> HIDE DEF r
  <2> QED BY <1>2, <1>1, <2>3, <2>4
<1> DEFINE P == {i \in 0..n : r[i] \in A}
<1>3. 0..n \subseteq P
  <2>1. 0 \in P
    BY <1>1
  <2>2. \A i \in 1..n : i - 1 \in P => i \in P
    <3> HIDE DEF r
    <3> QED BY <1>1, <1>2
  <2> HIDE DEF P
  <2> QED BY <2>1, <2>2, Steps
<1>4. r \in [0..n -> A]
  BY <1>3
<1>5. Run(r, n, A, b, st)
  <2> HIDE DEF r, P
  <2>1. \A i \in 1..n : r[i - 1] \in A
    BY <1>1, <1>4
  <2> QED BY <1>1, <1>2, <1>4, <2>1 DEF Run
<1>6. r[n] = g[1..n]
  OBVIOUS
<1> QED BY <1>5, <1>6

(* If such a function exists, g is one of those. *)
LEMMA Folded ==
  ASSUME NEW n \in Nat, NEW A, NEW b \in A, NEW st \in [1..n -> [A -> A]], NEW g,
         \A f : Folding(f, n, A, b, st) => Follows(g, n, A, b, st)
  PROVE  \E r : Run(r, n, A, b, st) /\ r[n] = g[1..n]
<1>1. Follows(g, n, A, b, st)
  BY FoldExists
<1> QED BY <1>1, Running

(***************************************************************************)
(* Submission                                                              *)
(***************************************************************************)
Busy == pc \in {"check", "request", "invalid", "stage"}

(* Where the loop is: the job being submitted is open, and nothing was done
   about the ones behind it. *)
Position ==
  /\ Busy => at >= 1 /\ fate[at] = "owed" /\ copies[at] = lost[at]
  /\ pc \in {"request", "invalid"} => jobs[at].kb \in RemoteKB
  /\ pc = "request" => try < MaxAttempts
  /\ pc = "invalid" => fixes < MaxFixes
  /\ pc = "idle" => jobs = <<>>
  /\ \A i \in Item : i > at => /\ fate[i] = IF i <= Len(jobs) THEN "owed" ELSE "none"
                               /\ copies[i] = lost[i]

(* A knowledge base is skipped for a refusal behind us, and is not the one
   being submitted to. *)
Closed ==
  /\ \A kb \in skipped : \E k \in 1..at : jobs[k].kb = kb /\ fate[k] = "refused"
  /\ Busy => jobs[at].kb \notin skipped

Inv == TypeOK /\ Position /\ Closed /\ CopiesExplained /\ RoutedIsKept

-----------------------------------------------------------------------------
(* The job at hand *)
LEMMA AtHand ==
  ASSUME TypeOK, Position, Busy
  PROVE  /\ at \in Nat /\ Len(jobs) \in Nat /\ at \in 1..Len(jobs) /\ at \in Item
         /\ jobs[at] \in Job /\ jobs[at].kb \in KB
  <1>1. at \in 1..Len(jobs) /\ at \in Item
      BY SubmissionAssumption DEF TypeOK, Position, Item
  <1>2. jobs[at] \in Job
      BY <1>1 DEF TypeOK
  <1> QED BY <1>1, <1>2 DEF Job, TypeOK

LEMMA InitInv == Init => Inv
<1> SUFFICES ASSUME Init PROVE Inv
    OBVIOUS
<1>1. Len(jobs) = 0 /\ at = 0 /\ jobs \in Seq(Job)
    BY DEF Init
<1>2. TypeOK
    BY <1>1, SubmissionAssumption DEF Init, TypeOK, PCs, Draft, NotStaged, MaxFixes, MaxAttempts, Fates
<1>3. Position
    BY <1>1, SubmissionAssumption DEF Init, Position, Busy, Item
<1>4. Closed
    BY <1>1 DEF Init, Closed, Busy
<1>5. CopiesExplained
    BY <1>1, SubmissionAssumption DEF Init, CopiesExplained, CopiesOf, Item
<1>6. RoutedIsKept
    BY <1>1 DEF Init, RoutedIsKept
<1> QED BY <1>2, <1>3, <1>4, <1>5, <1>6 DEF Inv

LEMMA BeginInv ==
  ASSUME Inv, NEW js \in Seq(Job), Len(js) <= MaxJobs, Begin(js)
  PROVE  Inv'
<1>1. Len(jobs) = 0 /\ at = 0 /\ Len(js) \in Nat
    BY DEF Inv, Begin, Position, TypeOK
<1>2. TypeOK'
  <2>1. at' \in 0..Len(jobs')
      BY <1>1 DEF Begin
  <2>2. fate' \in [Item -> Fates]
      BY DEF Begin, Fates
  <2> QED BY <1>1, <2>1, <2>2 DEF Inv, Begin, TypeOK, PCs
<1>3. Position'
    BY <1>1, SubmissionAssumption DEF Inv, Begin, Position, Busy, Item
<1>4. Closed'
    BY <1>1 DEF Inv, Begin, Closed, Busy
<1>5. CopiesExplained'
    BY <1>1, SubmissionAssumption DEF Inv, Begin, CopiesExplained, CopiesOf, Position, Item
<1>6. RoutedIsKept'
    BY <1>1, SubmissionAssumption DEF Inv, Begin, RoutedIsKept, Kept, Item
<1> QED BY <1>2, <1>3, <1>4, <1>5, <1>6 DEF Inv

(* A step within a job that settles nothing *)
LEMMA Aside ==
  ASSUME Inv, Busy, Busy', TypeOK', UNCHANGED <<jobs, at, skipped, staged, fate, copies, lost>>,
         pc' \in {"request", "invalid"} => jobs[at].kb \in RemoteKB,
         pc' = "request" => try' < MaxAttempts,
         pc' = "invalid" => fixes' < MaxFixes
  PROVE  Inv'
<1>1. Position'
    BY DEF Inv, Position, Busy
<1>2. Closed' /\ CopiesExplained' /\ RoutedIsKept'
    BY DEF Inv, Closed, CopiesExplained, CopiesOf, RoutedIsKept, Kept
<1> QED BY <1>1, <1>2 DEF Inv

(* A job is settled: what the fate says of its copies and its pending file is
   enough, whatever the route. *)
LEMMA Settled ==
  ASSUME Inv, Busy, TypeOK', UNCHANGED <<jobs, at>>,
         NEW f \in {"sent", "staged", "failed", "refused"}, Return(f),
         \A i \in Item \ {at} : copies'[i] = copies[i] /\ lost'[i] = lost[i],
         copies'[at] \in {lost'[at], lost'[at] + 1},
         f \in {"failed", "refused"} /\ jobs[at].kb \in RemoteKB => copies'[at] = lost'[at],
         f = "sent" => copies'[at] > lost'[at],
         f = "staged" => staged'[at] # NotStaged,
         \A i \in Item \ {at} : \/ staged'[i] = staged[i]
                               \/ (f = "staged" /\ jobs[i].note = jobs[at].note),
         skipped' = IF f = "refused" THEN skipped \cup {jobs[at].kb} ELSE skipped
  PROVE  Inv'
<1>0. /\ at \in Nat /\ Len(jobs) \in Nat /\ at \in 1..Len(jobs) /\ at \in Item
      /\ Len(jobs) <= MaxJobs /\ MaxJobs \in Nat
    BY AtHand, SubmissionAssumption DEF Inv, TypeOK
<1>1. /\ pc' = "next"
      /\ fate'[at] = f
      /\ \A i \in Item \ {at} : fate'[i] = fate[i]
    BY <1>0 DEF Return, Inv, TypeOK
<1>2. Position'
    BY <1>0, <1>1 DEF Inv, Position, Busy, Item
<1>3. Closed'
  <2>1. ASSUME NEW kb \in skipped' PROVE \E k \in 1..at : jobs[k].kb = kb /\ fate'[k] = "refused"
    <3>1. CASE kb \in skipped
      <4>1. PICK k \in 1..at : jobs[k].kb = kb /\ fate[k] = "refused"
          BY <3>1 DEF Inv, Closed
      <4>2. k # at /\ k \in Item
          BY <1>0, <4>1 DEF Inv, Position, Busy, Item
      <4> QED BY <4>1, <4>2, <1>1
    <3>2. CASE kb \notin skipped
        BY <3>2, <2>1, <1>0, <1>1
    <3> QED BY <3>1, <3>2
  <2> QED BY <2>1, <1>1 DEF Closed, Busy
<1>4. CopiesExplained'
  <2>1. ASSUME NEW i \in Item PROVE CopiesOf(i)'
    <3>1. CASE i = at
        BY <3>1, <1>0, <1>1 DEF Inv, TypeOK, CopiesOf
    <3>2. CASE i # at
        BY <3>2, <1>1 DEF Inv, CopiesExplained, CopiesOf
    <3> QED BY <3>1, <3>2
  <2> QED BY <2>1 DEF CopiesExplained
<1>5. RoutedIsKept'
  <2> SUFFICES ASSUME NEW i \in 1..Len(jobs) PROVE Kept(i)'
      BY DEF RoutedIsKept
  <2>0. i \in Item /\ (i > at => fate[i] = "owed") /\ fate[at] = "owed"
      BY <1>0 DEF Item, Inv, Position, Busy
  <2>1. CASE i = at
      BY <2>1, <1>0, <1>1 DEF Kept
  <2>2. CASE i # at
    <3>1. fate'[i] = "sent" => copies'[i] > lost'[i]
        BY <2>0, <2>2, <1>1 DEF Inv, RoutedIsKept, Kept
    <3>2. ASSUME fate'[i] = "staged", staged'[i] = NotStaged
          PROVE  \E k \in (i + 1)..Len(jobs) : jobs[k].note = jobs[i].note /\ fate'[k] = "staged"
      <4>1. CASE staged'[i] = staged[i]
        <5>1. PICK k \in (i + 1)..Len(jobs) : jobs[k].note = jobs[i].note /\ fate[k] = "staged"
            BY <4>1, <3>2, <2>0, <2>2, <1>1 DEF Inv, RoutedIsKept, Kept
        <5>2. k \in Item \ {at}
            BY <5>1, <2>0, <1>0 DEF Item
        <5> QED BY <5>1, <5>2, <1>1
      <4>2. CASE staged'[i] # staged[i]
          BY <4>2, <3>2, <2>0, <2>2, <1>0, <1>1
      <4> QED BY <4>1, <4>2
    <3>3. ASSUME fate'[i] = "dropped"
          PROVE  \E k \in 1..(i - 1) : jobs[k].kb = jobs[i].kb /\ fate'[k] = "refused"
      <4>1. PICK k \in 1..(i - 1) : jobs[k].kb = jobs[i].kb /\ fate[k] = "refused"
          BY <3>3, <2>0, <2>2, <1>1 DEF Inv, RoutedIsKept, Kept
      <4>2. k \in Item \ {at}
          BY <4>1, <2>0, <1>0 DEF Item
      <4> QED BY <4>1, <4>2, <1>1
    <3> QED BY <3>1, <3>2, <3>3 DEF Kept
  <2> QED BY <2>1, <2>2
<1> QED BY <1>2, <1>3, <1>4, <1>5 DEF Inv

-----------------------------------------------------------------------------
(* The loop *)
LEMMA TakeInv == Inv /\ Take => Inv'
<1> SUFFICES ASSUME Inv, Take PROVE Inv'
    OBVIOUS
<1>0. /\ at \in Nat /\ Len(jobs) \in Nat /\ at' = at + 1 /\ at' \in 1..Len(jobs) /\ at' \in Item
      /\ pc' \in {"stage", "check"}
  <2>1. at \in 0..Len(jobs) /\ Len(jobs) \in Nat /\ Len(jobs) <= MaxJobs /\ MaxJobs \in Nat
      BY SubmissionAssumption DEF Inv, TypeOK
  <2>2. at < Len(jobs) /\ at' = at + 1 /\ pc' \in {"stage", "check"}
      BY DEF Take
  <2> QED BY <2>1, <2>2 DEF Item
<1>1. TypeOK'
  <2>1. draft' \in Draft
      BY DEF Take, Draft
  <2>2. at' \in 0..Len(jobs) /\ try' \in 0..MaxAttempts /\ fixes' \in 0..MaxFixes
      BY <1>0 DEF Take, MaxAttempts, MaxFixes
  <2> QED BY <1>0, <2>1, <2>2 DEF Inv, TypeOK, Take, PCs
<1>2. Position'
    BY <1>0 DEF Inv, Position, Busy, Take
<1>3. Closed'
  <2>1. ASSUME NEW kb \in skipped PROVE \E k \in 1..at' : jobs[k].kb = kb /\ fate[k] = "refused"
      BY <1>0 DEF Inv, Closed
  <2> QED BY <2>1, <1>0 DEF Take, Closed
<1>4. CopiesExplained' /\ RoutedIsKept'
    BY DEF Inv, Take, CopiesExplained, CopiesOf, RoutedIsKept, Kept
<1> QED BY <1>1, <1>2, <1>3, <1>4 DEF Inv

LEMMA SkipInv == Inv /\ Skip => Inv'
<1> SUFFICES ASSUME Inv, Skip PROVE Inv'
    OBVIOUS
<1>0. /\ at \in Nat /\ Len(jobs) \in Nat /\ at' = at + 1 /\ at' \in 1..Len(jobs) /\ at' \in Item
      /\ pc = "next" /\ pc' = "next" /\ jobs' = jobs /\ Len(jobs) <= MaxJobs /\ MaxJobs \in Nat
  <2>1. at \in Nat /\ Len(jobs) \in Nat /\ Len(jobs) <= MaxJobs /\ MaxJobs \in Nat /\ at < Len(jobs)
      BY SubmissionAssumption DEF Inv, TypeOK, Skip
  <2> QED BY <2>1 DEF Skip, Item
<1>1. TypeOK'
    BY <1>0 DEF Inv, TypeOK, Skip, Fates
<1>2. /\ fate[at'] = "owed" /\ copies[at'] = lost[at'] /\ fate'[at'] = "dropped"
      /\ \A i \in Item \ {at'} : fate'[i] = fate[i]
    BY <1>0 DEF Inv, Position, TypeOK, Skip
<1>3. Position'
    BY <1>0, <1>2 DEF Inv, Position, Busy, Skip
<1>4. PICK r \in 1..at : jobs[r].kb = jobs[at'].kb /\ fate[r] = "refused"
    BY DEF Inv, Closed, Skip
<1>5. ASSUME NEW k \in 1..Len(jobs), fate[k] \notin {"owed"} PROVE fate'[k] = fate[k]
    BY <1>0, <1>2, <1>5 DEF Item
<1>6. Closed'
  <2>1. ASSUME NEW kb \in skipped PROVE \E k \in 1..at' : jobs[k].kb = kb /\ fate'[k] = "refused"
    <3>1. PICK k \in 1..at : jobs[k].kb = kb /\ fate[k] = "refused"
        BY DEF Inv, Closed
    <3>2. k \in 1..Len(jobs) /\ k \in 1..at'
        BY <1>0
    <3> QED BY <3>1, <3>2, <1>5
  <2> QED BY <2>1, <1>0 DEF Skip, Closed, Busy
<1>7. CopiesExplained'
    BY <1>0, <1>2 DEF Inv, Skip, CopiesExplained, CopiesOf
<1>8. RoutedIsKept'
  <2> SUFFICES ASSUME NEW i \in 1..Len(jobs) PROVE Kept(i)'
      BY <1>0 DEF RoutedIsKept
  <2>0. i \in Item
      BY <1>0 DEF Item
  <2>1. CASE i = at'
    <3>1. r \in 1..(i - 1) /\ r \in 1..Len(jobs)
        BY <2>1, <1>0
    <3> QED BY <2>1, <1>0, <1>2, <1>4, <1>5, <3>1 DEF Kept
  <2>2. CASE i # at'
    <3>1. /\ fate'[i] = fate[i] /\ staged'[i] = staged[i]
          /\ copies'[i] = copies[i] /\ lost'[i] = lost[i]
        BY <2>0, <2>2, <1>2 DEF Skip
    <3>2. \A k \in (i + 1)..Len(jobs) : fate[k] = "staged" => fate'[k] = "staged"
        BY <1>0, <1>5
    <3>3. \A k \in 1..(i - 1) : fate[k] = "refused" => fate'[k] = "refused"
        BY <1>0, <1>5
    <3> QED BY <3>1, <3>2, <3>3, <1>0 DEF Inv, RoutedIsKept, Kept
  <2> QED BY <2>1, <2>2
<1> QED BY <1>1, <1>3, <1>6, <1>7, <1>8 DEF Inv

LEMMA RestInv == Inv /\ (End \/ Tick \/ UNCHANGED vars) => Inv'
<1> SUFFICES ASSUME Inv, End \/ Tick \/ UNCHANGED vars PROVE Inv'
    OBVIOUS
<1>1. UNCHANGED <<jobs, at, skipped, draft, try, fixes, staged, fate, copies, lost>>
    BY DEF End, Tick, vars
<1>2. TypeOK'
    BY <1>1 DEF Inv, TypeOK, End, Tick, vars, PCs
<1>3. Position'
    BY <1>1 DEF Inv, Position, Busy, End, Tick, vars
<1>4. Closed'
    BY <1>1 DEF Inv, Closed, Busy, End, Tick, vars
<1>5. CopiesExplained' /\ RoutedIsKept'
    BY <1>1 DEF Inv, CopiesExplained, CopiesOf, RoutedIsKept, Kept
<1> QED BY <1>2, <1>3, <1>4, <1>5 DEF Inv

-----------------------------------------------------------------------------
(* The routes *)
LEMMA RouteType ==
  ASSUME Inv, [JobStep]_vars, ~Take, ~Skip, ~End
  PROVE  TypeOK'
<1> USE DEF Inv, TypeOK
<1>1. ASSUME NEW f \in Fates, Return(f) PROVE pc' \in PCs /\ fate' \in [Item -> Fates]
    BY <1>1 DEF Return, PCs
<1>2. ASSUME Copied, Busy PROVE copies' \in [Item -> Nat]
    BY <1>2, AtHand DEF Copied
<1>3. /\ {"staged", "sent", "failed", "refused"} \subseteq Fates
      /\ {"next", "check", "request", "invalid", "stage", "done"} \subseteq PCs
      /\ MaxAttempts = 3 /\ MaxFixes = 2 /\ NotStaged = 3
    BY DEF Fates, PCs, MaxAttempts, MaxFixes, NotStaged
<1>4. CASE UNCHANGED vars
    BY <1>4 DEF vars
<1>5. CASE Stage
  <2>1. at \in Item /\ Busy /\ fixes \in 0..NotStaged /\ NotStaged \in 0..NotStaged
      BY <1>3, <1>5, AtHand DEF Stage, Busy
  <2>2. staged' \in [Item -> 0..NotStaged]
      BY <1>5, <2>1 DEF Stage
  <2>3. recent' \subseteq Item
      BY <1>5, <2>1 DEF Stage
  <2> QED BY <1>1, <1>2, <1>3, <1>5, <2>1, <2>2, <2>3 DEF Stage
<1>6. CASE StageFails
    BY <1>1, <1>3, <1>6 DEF StageFails
<1>7. CASE WriteLocal
    BY <1>1, <1>2, <1>3, <1>7 DEF WriteLocal, Local, Busy
<1>8. CASE WriteLocalFails
    BY <1>1, <1>2, <1>3, <1>8 DEF WriteLocalFails, Local, Busy
<1>9. CASE TooLong
    BY <1>1, <1>3, <1>9 DEF TooLong
<1>10. CASE Prepare
    BY <1>3, <1>10 DEF Prepare
<1>11. CASE Accepted
    BY <1>1, <1>2, <1>3, <1>11 DEF Accepted, Busy
<1>12. ASSUME Again, pc = "request"
       PROVE  pc' \in PCs /\ fate' \in [Item -> Fates] /\ try' \in 0..MaxAttempts
  <2>1. try' \in 0..MaxAttempts
      BY <1>3, <1>12 DEF Again, Position
  <2> QED BY <1>1, <1>3, <1>12, <2>1 DEF Again
<1>13. CASE NotReached
    BY <1>12, <1>13 DEF NotReached
<1>14. CASE AnswerLost
  <2>1. lost' \in [Item -> Nat] /\ copies' \in [Item -> Nat]
      BY <1>2, <1>14, AtHand DEF AnswerLost, Busy
  <2> QED BY <1>12, <1>14, <2>1 DEF AnswerLost
<1>15. CASE Unauthorized
  <2>1. jobs[at].kb \in RemoteKB
      BY <1>15 DEF Unauthorized, Position
  <2> QED BY <1>1, <1>3, <1>15, <2>1 DEF Unauthorized, job
<1>16. CASE Rejected
    BY <1>3, <1>16 DEF Rejected
<1>17. CASE Correct
    BY <1>3, <1>17 DEF Correct, Position
<1>18. CASE CorrectionFails
    BY <1>3, <1>18 DEF CorrectionFails
<1> QED BY <1>4, <1>5, <1>6, <1>7, <1>8, <1>9, <1>10, <1>11, <1>13, <1>14, <1>15, <1>16, <1>17,
           <1>18 DEF JobStep

LEMMA RouteInv ==
  ASSUME Inv, JobStep, ~Take, ~Skip, ~End
  PROVE  Inv'
<1>1. TypeOK'
    BY RouteType
<1>2. Busy
    BY DEF Busy, JobStep, Stage, StageFails, WriteLocal, WriteLocalFails, Local, TooLong, Prepare,
           Remote, Accepted, NotReached, AnswerLost, Unauthorized, Rejected, Correct, CorrectionFails
<1>3. at \in Item /\ at \in 1..Len(jobs) /\ copies[at] = lost[at] /\ lost[at] \in Nat
    BY <1>2, AtHand DEF Inv, Position, TypeOK
<1>4. /\ copies \in [Item -> Nat] /\ lost \in [Item -> Nat] /\ staged \in [Item -> 0..NotStaged]
      /\ fate \in [Item -> Fates] /\ fixes \in 0..MaxFixes
    BY DEF Inv, TypeOK
<1>5. CASE Stage
  <2>1. staged'[at] # NotStaged
      BY <1>3, <1>4, <1>5 DEF Stage, NotStaged, MaxFixes
  <2> QED BY <1>1, <1>2, <1>3, <1>4, <1>5, <2>1, Settled DEF Stage, Copied, SameFile, job
<1>6. CASE StageFails
    BY <1>1, <1>2, <1>3, <1>4, <1>6, Settled DEF StageFails
<1>7. CASE WriteLocal
    BY <1>1, <1>2, <1>3, <1>4, <1>7, Settled DEF WriteLocal, Copied
<1>8. CASE WriteLocalFails
  <2>1. jobs[at].kb \notin RemoteKB
      BY <1>8, SubmissionAssumption DEF WriteLocalFails, Local, job
  <2> QED BY <1>1, <1>2, <1>3, <1>4, <1>8, <2>1, Settled DEF WriteLocalFails, Copied
<1>9. CASE TooLong
    BY <1>1, <1>2, <1>3, <1>4, <1>9, Settled DEF TooLong
<1>10. CASE Prepare
    BY <1>1, <1>2, <1>10, Aside DEF Prepare, Remote, Busy, job, MaxAttempts
<1>11. CASE Accepted
    BY <1>1, <1>2, <1>3, <1>4, <1>11, Settled DEF Accepted, Copied
<1>12. CASE NotReached
  <2>1. CASE try' < MaxAttempts
      BY <1>1, <1>2, <1>12, <2>1, Aside DEF NotReached, Again, Busy, Inv, Position
  <2>2. CASE ~(try' < MaxAttempts)
      BY <1>1, <1>2, <1>3, <1>4, <1>12, <2>2, Settled DEF NotReached, Again
  <2> QED BY <2>1, <2>2
<1>13. CASE AnswerLost
  <2>0. /\ copies'[at] = lost'[at]
        /\ \A i \in Item \ {at} : copies'[i] = copies[i] /\ lost'[i] = lost[i]
      BY <1>3, <1>4, <1>13 DEF AnswerLost, Copied
  <2>1. CASE try' < MaxAttempts
    <3>0. /\ UNCHANGED <<pc, jobs, at, skipped, fixes, staged, recent, fate>> /\ pc = "request"
        BY <1>13, <2>1 DEF AnswerLost, Again
    <3>1. Position'
        BY <2>0, <2>1, <3>0 DEF Inv, Position, Busy
    <3>2. Closed' /\ RoutedIsKept'
      <4>1. ASSUME NEW i \in 1..Len(jobs) PROVE Kept(i)'
        <5>1. CASE i = at
            BY <5>1, <1>2, <3>0 DEF Inv, Position, Kept
        <5>2. CASE i # at
          <6>1. i \in Item
              BY SubmissionAssumption DEF Inv, TypeOK, Item
          <6> QED BY <5>2, <6>1, <2>0, <3>0 DEF Inv, RoutedIsKept, Kept
        <5> QED BY <5>1, <5>2
      <4> QED BY <4>1, <3>0 DEF Inv, Closed, Busy, RoutedIsKept
    <3>3. CopiesExplained'
      <4>1. ASSUME NEW i \in Item PROVE CopiesOf(i)'
        <5>1. CASE i = at
            BY <5>1, <1>1, <2>0 DEF TypeOK, CopiesOf
        <5>2. CASE i # at
            BY <5>2, <2>0, <3>0 DEF Inv, CopiesExplained, CopiesOf
        <5> QED BY <5>1, <5>2
      <4> QED BY <4>1 DEF CopiesExplained
    <3> QED BY <1>1, <3>1, <3>2, <3>3 DEF Inv
  <2>2. CASE ~(try' < MaxAttempts)
      BY <1>1, <1>2, <1>3, <1>4, <1>13, <2>0, <2>2, Settled DEF AnswerLost, Again
  <2> QED BY <2>1, <2>2
<1>14. CASE Unauthorized
    BY <1>1, <1>2, <1>3, <1>4, <1>14, Settled DEF Unauthorized, job
<1>15. CASE Rejected
    BY <1>1, <1>2, <1>15, Aside DEF Rejected, Busy, Inv, Position
<1>16. CASE Correct
    BY <1>1, <1>2, <1>16, Aside DEF Correct, Busy
<1>17. CASE CorrectionFails
    BY <1>1, <1>2, <1>17, Aside DEF CorrectionFails, Busy
<1> QED BY <1>5, <1>6, <1>7, <1>8, <1>9, <1>10, <1>11, <1>12, <1>13, <1>14, <1>15, <1>16, <1>17
        DEF JobStep

LEMMA NextInv == Inv /\ [Next]_vars => Inv'
<1> SUFFICES ASSUME Inv, [Next]_vars PROVE Inv'
    OBVIOUS
<1>1. CASE \E js \in Seq(Job) : Len(js) <= MaxJobs /\ Begin(js)
    BY <1>1, BeginInv
<1>2. CASE JobStep
    BY <1>2, TakeInv, SkipInv, RestInv, RouteInv
<1>3. CASE Tick \/ UNCHANGED vars
    BY <1>3, RestInv
<1> QED BY <1>1, <1>2, <1>3 DEF Next

-----------------------------------------------------------------------------
(* Type correctness: a job is for a base of the configuration, and no loop
   over attempts or corrections runs over its bound. *)
THEOREM TypeCorrect == Spec => []TypeOK
<1>1. Inv => TypeOK
    BY DEF Inv
<1> QED BY <1>1, InitInv, NextInv, PTL DEF Spec

(* A note for a remote base is on its queue at most once more than answers
   about it were lost (remote.go:70). *)
THEOREM CopiesHold == Spec => []CopiesExplained
<1>1. Inv => CopiesExplained
    BY DEF Inv
<1> QED BY <1>1, InitInv, NextInv, PTL DEF Spec

(* What is counted as routed is kept, replaced by a later job of the same
   note, or dropped after a refusal (process.go:289). *)
THEOREM RoutedHolds == Spec => []RoutedIsKept
<1>1. Inv => RoutedIsKept
    BY DEF Inv
<1> QED BY <1>1, InitInv, NextInv, PTL DEF Spec

(* A base that has answered 401 or 403 is asked for nothing more
   (remote.go:69). *)
THEOREM RefusalHolds == Spec => NothingAfterRefusal
<1>1. ASSUME Inv, [Next]_vars
      PROVE  [pc' \in {"request", "stage"} => jobs'[at'].kb \notin skipped]_vars
  <2>1. Inv'
      BY <1>1, NextInv
  <2>2. pc' \in {"request", "stage"} => jobs'[at'].kb \notin skipped'
      BY <2>1 DEF Inv, Closed, Busy
  <2>3. skipped \subseteq skipped' \/ pc' = "next"
      BY <1>1 DEF Next, vars, Begin, JobStep, Take, Skip, End, Stage, StageFails, WriteLocal,
         WriteLocalFails, TooLong, Prepare, Accepted, NotReached, AnswerLost, Unauthorized,
         Rejected, Correct, CorrectionFails, Tick
  <2> QED BY <2>2, <2>3
<1> QED BY <1>1, InitInv, NextInv, PTL DEF Spec, NothingAfterRefusal

-----------------------------------------------------------------------------
(* Submission implements Delivery *)

(* What a settled job looks like there *)
LEMMA SettledOutcome ==
  ASSUME Inv, Busy, UNCHANGED jobs, NEW f \in Fates, Return(f)
  PROVE  /\ at \in Item /\ Outcome[at] = "owed" /\ Target[at] = jobs[at].kb
         /\ Outcome' = [Outcome EXCEPT ![at] = IF f \in {"sent", "staged"} THEN "kept" ELSE f]
         /\ Target' = Target
<1>1. at \in Item /\ at \in 1..Len(jobs) /\ fate[at] = "owed"
    BY AtHand DEF Inv, Position
<1>2. Outcome[at] = "owed" /\ Target[at] = jobs[at].kb
    BY <1>1 DEF Outcome, Target
<1>3. fate' = [fate EXCEPT ![at] = f] /\ fate \in [Item -> Fates]
    BY DEF Return, Inv, TypeOK
<1>4. Outcome' = [Outcome EXCEPT ![at] = IF f \in {"sent", "staged"} THEN "kept" ELSE f]
    BY <1>1, <1>3 DEF Outcome
<1>5. Target' = Target
    BY DEF Target
<1> QED BY <1>1, <1>2, <1>4, <1>5

LEMMA BeginDelivers ==
  ASSUME Inv, NEW js \in Seq(Job), Len(js) <= MaxJobs, Begin(js)
  PROVE  D!Owe(1..Len(js))
<1>1. Len(jobs) = 0 /\ at = 0 /\ Len(js) \in Nat /\ 1..Len(js) \subseteq Item
    BY SubmissionAssumption DEF Inv, Begin, Position, TypeOK, Item
<1>2. \A i \in Item : fate[i] = "none"
    BY <1>1, SubmissionAssumption DEF Inv, Position, Item
<1>3. /\ Outcome = [i \in Item |-> "none"]
      /\ Outcome' = [i \in Item |-> IF i \in 1..Len(js) THEN "owed" ELSE Outcome[i]]
    BY <1>1, <1>2, SubmissionAssumption DEF Outcome, Begin, Item
<1>4. Target' = [i \in Item |-> IF i \in 1..Len(js) THEN [k \in 1..Len(js) |-> js[k].kb][i]
                                                    ELSE Target[i]]
    BY <1>1, SubmissionAssumption DEF Target, Begin, Item
<1>5. [k \in 1..Len(js) |-> js[k].kb] \in [1..Len(js) -> KB]
  <2>1. \A k \in 1..Len(js) : js[k] \in Job
      OBVIOUS
  <2> QED BY <2>1 DEF Job
<1> QED BY <1>1, <1>3, <1>4, <1>5 DEF D!Owe, Begin

LEMMA SkipDelivers == Inv /\ Skip => D!Drop(at + 1)
<1> SUFFICES ASSUME Inv, Skip PROVE D!Drop(at + 1)
    OBVIOUS
<1>1. at' = at + 1 /\ at' \in Item /\ at' <= Len(jobs) /\ at' > at
    BY SubmissionAssumption DEF Inv, TypeOK, Skip, Item
<1>2. fate[at'] = "owed" /\ fate' = [fate EXCEPT ![at'] = "dropped"] /\ UNCHANGED <<jobs, copies, skipped>>
    BY <1>1 DEF Inv, Position, Skip
<1>3. /\ Outcome[at'] = "owed" /\ Outcome' = [Outcome EXCEPT ![at'] = "dropped"]
      /\ Target[at'] \in skipped /\ Target' = Target
    BY <1>1, <1>2 DEF Inv, TypeOK, Outcome, Target, Skip
<1> QED BY <1>1, <1>2, <1>3 DEF D!Drop, D!Settle

LEMMA RouteDelivers ==
  ASSUME Inv, JobStep, ~Skip
  PROVE  D!Next \/ UNCHANGED D!vars
<1>1. CASE Take \/ End \/ Prepare \/ Rejected \/ Correct \/ CorrectionFails
  <2>1. UNCHANGED <<jobs, fate, copies, skipped>>
      BY <1>1 DEF Take, End, Prepare, Rejected, Correct, CorrectionFails
  <2> QED BY <2>1 DEF D!vars, Outcome, Target
<1>2. CASE Stage \/ WriteLocal \/ Accepted
  <2>1. PICK f \in {"sent", "staged"} : Return(f) /\ Copied /\ Busy /\ UNCHANGED <<jobs, skipped>>
      BY <1>2 DEF Stage, WriteLocal, Local, Accepted, Busy
  <2>2. D!Keep(at) /\ at \in Item
      BY <2>1, SettledOutcome DEF Fates, D!Keep, D!Settle, Copied
  <2> QED BY <2>2 DEF D!Next
<1>3. CASE \/ StageFails \/ WriteLocalFails \/ TooLong
           \/ (NotReached \/ AnswerLost) /\ ~(try' < MaxAttempts)
  <2>1. /\ Return("failed") /\ (UNCHANGED copies \/ Copied) /\ Busy
        /\ UNCHANGED <<jobs, skipped>>
      BY <1>3 DEF StageFails, WriteLocalFails, Local, TooLong, Remote, NotReached, AnswerLost,
         Again, Busy
  <2>2. D!Fail(at) /\ at \in Item
      BY <2>1, SettledOutcome DEF Fates, D!Fail, D!Settle, Copied
  <2> QED BY <2>2 DEF D!Next
<1>4. CASE NotReached /\ try' < MaxAttempts
  <2>1. UNCHANGED <<jobs, fate, copies, skipped>>
      BY <1>4 DEF NotReached, Again
  <2> QED BY <2>1 DEF D!vars, Outcome, Target
<1>5. CASE AnswerLost /\ try' < MaxAttempts
  <2>1. UNCHANGED <<jobs, fate, skipped>> /\ Copied /\ Busy
      BY <1>5 DEF AnswerLost, Again, Busy
  <2>2. at \in Item /\ Outcome[at] = "owed" /\ UNCHANGED <<Outcome, Target, skipped>>
      BY <2>1, AtHand DEF Inv, Position, Outcome, Target
  <2> QED BY <2>1, <2>2 DEF D!Next, D!Copy, Copied
<1>6. CASE Unauthorized
  <2>1. /\ Return("refused") /\ Busy /\ UNCHANGED <<jobs, copies>>
        /\ skipped' = skipped \cup {jobs[at].kb}
      BY <1>6 DEF Unauthorized, Busy, job
  <2>2. D!Refuse(at) /\ at \in Item
      BY <2>1, SettledOutcome DEF Fates, D!Refuse, D!Settle
  <2> QED BY <2>2 DEF D!Next
<1> QED BY <1>1, <1>2, <1>3, <1>4, <1>5, <1>6 DEF JobStep

(* Every run of the submission loop is a run of Delivery: each note owed to
   a base is settled once, and copies of it only appear before. *)
THEOREM Implements == Spec => Delivers
<1>1. Init => D!Init
    BY SubmissionAssumption DEF Init, D!Init, Outcome, Target, Item
<1>2. Inv /\ [Next]_vars => [D!Next]_(D!vars)
  <2> SUFFICES ASSUME Inv, [Next]_vars PROVE D!Next \/ UNCHANGED D!vars
      OBVIOUS
  <2>1. CASE \E js \in Seq(Job) : Len(js) <= MaxJobs /\ Begin(js)
    <3>1. PICK js \in Seq(Job) : Len(js) <= MaxJobs /\ Begin(js)
        BY <2>1
    <3>2. D!Owe(1..Len(js)) /\ 1..Len(js) \in SUBSET Item
        BY <3>1, BeginDelivers, SubmissionAssumption DEF Item
    <3> QED BY <3>2 DEF D!Next
  <2>2. CASE Skip
    <3>1. D!Drop(at + 1)
        BY <2>2, SkipDelivers
    <3>2. at + 1 \in Item
        BY <2>2, SubmissionAssumption DEF Skip, Inv, TypeOK, Item
    <3> QED BY <3>1, <3>2 DEF D!Next
  <2>3. CASE JobStep /\ ~Skip
      BY <2>3, RouteDelivers
  <2>4. CASE Tick \/ UNCHANGED vars
    <3>1. UNCHANGED <<jobs, fate, copies, skipped>>
        BY <2>4 DEF Tick, vars
    <3> QED BY <3>1 DEF D!vars, Outcome, Target
  <2> QED BY <2>1, <2>2, <2>3, <2>4 DEF Next, JobStep
<1> QED BY <1>1, <1>2, InitInv, NextInv, PTL DEF Spec, Delivers, D!Spec

(***************************************************************************)
(* Lines and chunks                                                        *)
(***************************************************************************)
Line == [tokens : Nat \ {0}, notes : Seq(Note)]

(* The sums of the first lines *)
LEMMA TokensRun ==
  ASSUME NEW c \in Seq(Line)
  PROVE  \E r \in [0..Len(c) -> Nat] :
           /\ r[0] = 0 /\ Tokens(c) = r[Len(c)]
           /\ \A i \in 1..Len(c) : r[i] = r[i - 1] + c[i].tokens
<1> DEFINE n  == Len(c)
           A  == Nat
           b  == 0
           st == [i \in 1..n |-> [x \in A |-> x + c[i].tokens]]
           Rec(g) == [s \in SUBSET (1..n) |->
                      IF s = {} THEN 0 ELSE g[s \ {Max(s)}] + c[Max(s)].tokens]
           g  == CHOOSE g : g = Rec(g)
<1>1. n \in Nat /\ DOMAIN c = 1..n
  OBVIOUS
<1>2. \A i \in 1..n : c[i].tokens \in Nat /\ c[i].notes \in Seq(Note) /\ c[i] \in Line
  <2>1. \A i \in 1..n : c[i] \in Line
    OBVIOUS
  <2> QED BY <2>1 DEF Line
<1>3. st \in [1..n -> [A -> A]] /\ b \in A
  BY <1>2
<1>4. \A i \in 1..n : \A x \in A : st[i][x] = x + c[i].tokens
  BY <1>1
<1>5. \A s \in SUBSET (1..n) : s # {} => Max(s) \in 1..n /\ s \ {Max(s)} \in SUBSET (1..n)
  BY <1>1, MaxIn
<1>6. ASSUME NEW f, Folding(f, n, A, b, st) PROVE Follows(g, n, A, b, st)
  <2> HIDE DEF n, st, A
  <2>1. f = Rec(f)
    BY <1>6, <1>4, <1>5 DEF Folding
  <2>2. g = Rec(g)
    BY <2>1
  <2> HIDE DEF g
  <2> QED BY <2>2, <1>4, <1>5 DEF Follows
<1>7. Tokens(c) = g[1..n]
  BY <1>1 DEF Tokens, FoldLeft, MapThenFoldSet
<1>8. PICK r : Run(r, n, A, b, st) /\ r[n] = g[1..n]
  <2> HIDE DEF n, st, g, A, b
  <2> QED BY <1>1, <1>3, <1>6, Folded
<1>9. r \in [0..n -> A] /\ r[0] = b /\ \A i \in 1..n : i - 1 \in 0..n /\ r[i] = st[i][r[i - 1]]
  <2>1. \A i \in 1..n : i - 1 \in 0..n
    BY <1>1
  <2> HIDE DEF n, st, g, A, b
  <2> QED BY <1>8, <2>1 DEF Run
<1>10. r \in [0..n -> Nat] /\ r[0] = 0 /\ Tokens(c) = r[n]
       /\ \A i \in 1..n : r[i] = r[i - 1] + c[i].tokens
  <2> HIDE DEF n, st, g
  <2> QED BY <1>4, <1>7, <1>8, <1>9
<1> QED BY <1>10

(* The notes of the first lines *)
LEMMA NotesRun ==
  ASSUME NEW c \in Seq(Line)
  PROVE  \E r \in [0..Len(c) -> Seq(Note)] :
           /\ r[0] = <<>> /\ Notes(c) = r[Len(c)]
           /\ \A i \in 1..Len(c) : r[i] = r[i - 1] \o c[i].notes
<1> DEFINE n  == Len(c)
           A  == Seq(Note)
           b  == <<>>
           st == [i \in 1..n |-> [x \in A |-> x \o c[i].notes]]
           Rec(g) == [s \in SUBSET (1..n) |->
                      IF s = {} THEN <<>> ELSE g[s \ {Max(s)}] \o c[Max(s)].notes]
           g  == CHOOSE g : g = Rec(g)
<1>1. n \in Nat /\ DOMAIN c = 1..n
  OBVIOUS
<1>2. \A i \in 1..n : c[i].tokens \in Nat /\ c[i].notes \in Seq(Note) /\ c[i] \in Line
  <2>1. \A i \in 1..n : c[i] \in Line
    OBVIOUS
  <2> QED BY <2>1 DEF Line
<1>3. st \in [1..n -> [A -> A]] /\ b \in A
  BY <1>2
<1>4. \A i \in 1..n : \A x \in A : st[i][x] = x \o c[i].notes
  BY <1>1
<1>5. \A s \in SUBSET (1..n) : s # {} => Max(s) \in 1..n /\ s \ {Max(s)} \in SUBSET (1..n)
  BY <1>1, MaxIn
<1>6. ASSUME NEW f, Folding(f, n, A, b, st) PROVE Follows(g, n, A, b, st)
  <2> HIDE DEF n, st, A
  <2>1. f = Rec(f)
    BY <1>6, <1>4, <1>5 DEF Folding
  <2>2. g = Rec(g)
    BY <2>1
  <2> HIDE DEF g
  <2> QED BY <2>2, <1>4, <1>5 DEF Follows
<1>7. Notes(c) = g[1..n]
  BY <1>1 DEF Notes, FoldLeft, MapThenFoldSet
<1>8. PICK r : Run(r, n, A, b, st) /\ r[n] = g[1..n]
  <2> HIDE DEF n, st, g, A, b
  <2> QED BY <1>1, <1>3, <1>6, Folded
<1>9. r \in [0..n -> A] /\ r[0] = b /\ \A i \in 1..n : i - 1 \in 0..n /\ r[i] = st[i][r[i - 1]]
  <2>1. \A i \in 1..n : i - 1 \in 0..n
    BY <1>1
  <2> HIDE DEF n, st, g, A, b
  <2> QED BY <1>8, <2>1 DEF Run
<1>10. r \in [0..n -> Seq(Note)] /\ r[0] = <<>> /\ Notes(c) = r[n]
       /\ \A i \in 1..n : r[i] = r[i - 1] \o c[i].notes
  <2> HIDE DEF n, st, g
  <2> QED BY <1>4, <1>7, <1>8, <1>9
<1> QED BY <1>10

LEMMA ParsedType ==
  ASSUME NEW c \in Seq(Line), NEW ns \in Parsed(c)
  PROVE  ns \in Seq(Note)
<1>0. Notes(c) \in Seq(Note)
  <2>1. Len(c) \in Nat /\ Len(c) \in 0..Len(c)
    OBVIOUS
  <2> QED BY <2>1, NotesRun
<1> DEFINE m == Notes(c)
<1>a. PICK S \in SUBSET ToSet(m) :
        ns = FoldLeft(LAMBDA x, y : IF y \in S THEN Append(x, y) ELSE x, <<>>, m)
  BY DEF Parsed
<1> HIDE DEF m
<1>b. m \in Seq(Note)
  BY <1>0 DEF m
<1> DEFINE n  == Len(m)
           A  == Seq(Note)
           b  == <<>>
           st == [i \in 1..n |-> [x \in A |-> IF m[i] \in S THEN Append(x, m[i]) ELSE x]]
           Rec(g) == [s \in SUBSET (1..n) |->
                      IF s = {} THEN <<>> ELSE IF m[Max(s)] \in S THEN Append(g[s \ {Max(s)}], m[Max(s)]) ELSE g[s \ {Max(s)}]]
           g  == CHOOSE g : g = Rec(g)
<1>1. n \in Nat /\ DOMAIN m = 1..n
  BY <1>b
<1>2. \A i \in 1..n : m[i] \in Note
  BY <1>b
<1>3. st \in [1..n -> [A -> A]] /\ b \in A
  BY <1>2
<1>4. \A i \in 1..n : \A x \in A : st[i][x] = IF m[i] \in S THEN Append(x, m[i]) ELSE x
  BY <1>1
<1>5. \A s \in SUBSET (1..n) : s # {} => Max(s) \in 1..n /\ s \ {Max(s)} \in SUBSET (1..n)
  BY <1>1, MaxIn
<1>6. ASSUME NEW f, Folding(f, n, A, b, st) PROVE Follows(g, n, A, b, st)
  <2> HIDE DEF n, st, A
  <2>1. ASSUME NEW s \in SUBSET (1..n), s # {}
        PROVE  f[s] = IF m[Max(s)] \in S THEN Append(f[s \ {Max(s)}], m[Max(s)]) ELSE f[s \ {Max(s)}]
    <3>1. Max(s) \in 1..n /\ f[s \ {Max(s)}] \in A
      BY <1>6, <1>5, <2>1 DEF Folding
    <3>2. f[s] = st[Max(s)][f[s \ {Max(s)}]]
      BY <1>6, <2>1 DEF Folding
    <3> QED BY <3>1, <3>2, <1>4
  <2>0. f = Rec(f)
    BY <1>6, <2>1 DEF Folding
  <2>2. g = Rec(g)
    BY <2>0
  <2> HIDE DEF g
  <2> QED BY <2>2, <1>4, <1>5 DEF Follows
<1>7. ns = g[1..n]
  BY <1>1, <1>a DEF FoldLeft, MapThenFoldSet
<1>8. PICK r : Run(r, n, A, b, st) /\ r[n] = g[1..n]
  <2> HIDE DEF n, st, g, A, b
  <2> QED BY <1>1, <1>3, <1>6, Folded
<1>9. r \in [0..n -> A] /\ r[0] = b /\ \A i \in 1..n : i - 1 \in 0..n /\ r[i] = st[i][r[i - 1]]
  <2>1. \A i \in 1..n : i - 1 \in 0..n
    BY <1>1
  <2> HIDE DEF n, st, g, A, b
  <2> QED BY <1>8, <2>1 DEF Run
<1>10. r \in [0..n -> Seq(Note)] /\ r[0] = <<>> /\ ns = r[n]
       /\ \A i \in 1..n : r[i] = IF m[i] \in S THEN Append(r[i - 1], m[i]) ELSE r[i - 1]
  <2> HIDE DEF n, st, g
  <2> QED BY <1>4, <1>7, <1>8, <1>9
<1> QED BY <1>10

(* What the loop of splitAtMessageBoundaries does with a line *)
Added(cs, l) ==
  IF cs = <<>> \/ (Tokens(Last(cs)) > 0 /\ Tokens(Last(cs)) + l.tokens > Threshold)
  THEN Append(cs, <<l>>)
  ELSE Front(cs) \o << Append(Last(cs), l) >>

LEMMA AddedType ==
  ASSUME NEW cs \in Seq(Seq(Line)), NEW l \in Line
  PROVE  Added(cs, l) \in Seq(Seq(Line))
<1>1. cs # <<>> => Front(cs) \in Seq(Seq(Line)) /\ Last(cs) \in Seq(Line)
  BY DEF Front, Last
<1> HIDE DEF Line
<1> QED BY <1>1 DEF Added

LEMMA SplitRun ==
  ASSUME NEW c \in Seq(Line)
  PROVE  \E r \in [0..Len(c) -> Seq(Seq(Line))] :
           /\ r[0] = <<>> /\ Split(c) = r[Len(c)]
           /\ \A i \in 1..Len(c) : r[i] = Added(r[i - 1], c[i])
<1> DEFINE n  == Len(c)
           A  == Seq(Seq(Line))
           b  == <<>>
           st == [i \in 1..n |-> [x \in A |-> Added(x, c[i])]]
           Rec(g) == [s \in SUBSET (1..n) |->
                      IF s = {} THEN <<>> ELSE Added(g[s \ {Max(s)}], c[Max(s)])]
           g  == CHOOSE g : g = Rec(g)
<1>1. n \in Nat /\ DOMAIN c = 1..n
  OBVIOUS
<1>2. \A i \in 1..n : c[i] \in Line
  OBVIOUS
<1>3. st \in [1..n -> [A -> A]] /\ b \in A
  <2>1. \A i \in 1..n : \A x \in A : Added(x, c[i]) \in A
    BY <1>2, AddedType
  <2>2. <<>> \in A
    OBVIOUS
  <2> HIDE DEF A
  <2> QED BY <2>1, <2>2
<1>4. \A i \in 1..n : \A x \in A : st[i][x] = Added(x, c[i])
  BY <1>1
<1>5. \A s \in SUBSET (1..n) : s # {} => Max(s) \in 1..n /\ s \ {Max(s)} \in SUBSET (1..n)
  BY <1>1, MaxIn
<1>6. ASSUME NEW f, Folding(f, n, A, b, st) PROVE Follows(g, n, A, b, st)
  <2> HIDE DEF n, st, A
  <2>1. ASSUME NEW s \in SUBSET (1..n), s # {}
        PROVE  f[s] = Added(f[s \ {Max(s)}], c[Max(s)])
    <3>1. Max(s) \in 1..n /\ f[s \ {Max(s)}] \in A /\ f[s] = st[Max(s)][f[s \ {Max(s)}]]
      BY <1>6, <1>5, <2>1 DEF Folding
    <3> QED BY <3>1, <1>4
  <2>2. f = Rec(f)
    BY <1>6, <2>1 DEF Folding
  <2>3. g = Rec(g)
    BY <2>2
  <2> HIDE DEF g
  <2> QED BY <2>3, <1>4, <1>5 DEF Follows
<1>7. Split(c) = g[1..n]
  BY <1>1 DEF Split, Added, FoldLeft, MapThenFoldSet
<1>8. PICK r : Run(r, n, A, b, st) /\ r[n] = g[1..n]
  <2> HIDE DEF n, st, g, A, b
  <2> QED BY <1>1, <1>3, <1>6, Folded
<1>9. r \in [0..n -> A] /\ r[0] = b /\ \A i \in 1..n : i - 1 \in 0..n /\ r[i] = st[i][r[i - 1]]
  <2>1. \A i \in 1..n : i - 1 \in 0..n
    BY <1>1
  <2> HIDE DEF n, st, g, A, b
  <2> QED BY <1>8, <2>1 DEF Run
<1>10. r \in [0..n -> Seq(Seq(Line))] /\ r[0] = <<>> /\ Split(c) = r[n]
       /\ \A i \in 1..n : r[i] = Added(r[i - 1], c[i])
  <2> HIDE DEF n, st, g
  <2> QED BY <1>4, <1>7, <1>8, <1>9
<1> QED BY <1>10

LEMMA RunExists ==
  ASSUME NEW n \in Nat, NEW A, NEW b \in A, NEW st \in [1..n -> [A -> A]]
  PROVE  \E r : Run(r, n, A, b, st)
<1>1. PICK f : Folding(f, n, A, b, st)
  BY FoldExists
<1>2. Follows(f, n, A, b, st)
  <2>1. f[{}] = b
    BY <1>1 DEF Folding
  <2> QED BY <1>1, <2>1 DEF Folding, Follows
<1> QED BY <1>2, Running

(* What FlattenSeq makes of the first sequences *)
Flats(r, seqs, S) ==
  /\ r \in [0..Len(seqs) -> Seq(S)]
  /\ r[0] = <<>> /\ FlattenSeq(seqs) = r[Len(seqs)]
  /\ \A i \in 1..Len(seqs) : r[i] = r[i - 1] \o seqs[i]

LEMMA FlattenRun ==
  ASSUME NEW S, NEW seqs \in Seq(Seq(S))
  PROVE  \E r : Flats(r, seqs, S)
<1> DEFINE n  == Len(seqs)
           A  == Seq(S)
           b  == <<>>
           st == [i \in 1..n |-> [x \in A |-> x \o seqs[i]]]
           Rec(g) == [i \in 1..n |-> IF i = 1 THEN seqs[i] ELSE g[i - 1] \o seqs[i]]
           g  == CHOOSE g : g = Rec(g)
<1>1. n \in Nat /\ \A i \in 1..n : seqs[i] \in A
  OBVIOUS
<1>2. st \in [1..n -> [A -> A]] /\ b \in A
  BY <1>1
<1>3. PICK r : Run(r, n, A, b, st)
  <2> HIDE DEF n, st, A, b
  <2> QED BY <1>1, <1>2, RunExists
<1>4. r \in [0..n -> A] /\ r[0] = <<>> /\ \A i \in 1..n : i - 1 \in 0..n /\ r[i] = r[i - 1] \o seqs[i]
  <2>1. \A i \in 1..n : i - 1 \in 0..n
    BY <1>1
  <2>2. r \in [0..n -> A] /\ r[0] = b /\ \A i \in 1..n : r[i] = st[i][r[i - 1]]
    <3> HIDE DEF n, st, A, b
    <3> QED BY <1>3 DEF Run
  <2> QED BY <2>1, <2>2
<1>5. \A i \in 1..n : r[i] = IF i = 1 THEN seqs[i] ELSE r[i - 1] \o seqs[i]
  <2> HIDE DEF n
  <2>1. \A i \in 1..n : i = 1 => r[i] = <<>> \o seqs[i]
    BY <1>4, 1 - 1 = 0
  <2>2. \A x \in A : <<>> \o x = x
    OBVIOUS
  <2> HIDE DEF A
  <2> QED BY <1>1, <1>4, <2>1, <2>2
<1>6. g = Rec(g)
  <2>1. [i \in 1..n |-> r[i]] = Rec([i \in 1..n |-> r[i]])
    <3>1. \A i \in 1..n : i # 1 => i - 1 \in 1..n
      BY <1>1
    <3> HIDE DEF n
    <3> QED BY <1>5, <3>1
  <2> QED BY <2>1
<1>7. \A i \in 1..n : g[i] = r[i]
  <2> DEFINE P == {i \in 0..n : i = 0 \/ g[i] = r[i]}
  <2>1. 0 \in P
    BY <1>1
  <2>2. \A i \in 1..n : i - 1 \in P => i \in P
    <3>1. \A i \in 1..n : g[i] = IF i = 1 THEN seqs[i] ELSE g[i - 1] \o seqs[i]
      <4> HIDE DEF g, n
      <4> QED BY <1>6
    <3> HIDE DEF g, n
    <3> QED BY <1>1, <1>5, <3>1
  <2>3. 0..n \subseteq P
    <3> HIDE DEF P, n
    <3> QED BY <1>1, <2>1, <2>2, Steps
  <2> HIDE DEF n, g
  <2> QED BY <2>3, <1>1
<1>8. FlattenSeq(seqs) = r[n]
  <2>1. CASE n = 0
    BY <2>1, <1>4 DEF FlattenSeq
  <2>2. CASE n # 0
    <3>1. FlattenSeq(seqs) = g[n]
      BY <2>2 DEF FlattenSeq
    <3>2. n \in 1..n
      BY <2>2, <1>1
    <3> HIDE DEF g, n
    <3> QED BY <3>1, <3>2, <1>7
  <2> QED BY <2>1, <2>2
<1> QED BY <1>4, <1>8 DEF Flats

LEMMA FlattenAppend ==
  ASSUME NEW S, NEW seqs \in Seq(Seq(S)), NEW x \in Seq(S)
  PROVE  /\ FlattenSeq(seqs) \in Seq(S)
         /\ FlattenSeq(Append(seqs, x)) = FlattenSeq(seqs) \o x
<1> DEFINE n == Len(seqs)
           more == Append(seqs, x)
<1>1. /\ n \in Nat /\ more \in Seq(Seq(S)) /\ Len(more) = n + 1 /\ more[n + 1] = x
      /\ \A i \in 1..n : more[i] = seqs[i] /\ i \in 1..(n + 1)
      /\ n + 1 \in 1..(n + 1) /\ (n + 1) - 1 = n /\ n \in 0..n
  OBVIOUS
<1>2. PICK r : Flats(r, seqs, S)
  BY FlattenRun
<1>3. PICK q : Flats(q, more, S)
  <2> HIDE DEF more
  <2> QED BY <1>1, FlattenRun
<1>4. r \in [0..n -> Seq(S)] /\ r[0] = <<>> /\ FlattenSeq(seqs) = r[n]
      /\ \A i \in 1..n : r[i] = r[i - 1] \o seqs[i]
  BY <1>2 DEF Flats
<1>5. q[0] = <<>> /\ FlattenSeq(more) = q[n + 1] /\ q[n + 1] = q[n] \o x
      /\ \A i \in 1..n : q[i] = q[i - 1] \o seqs[i]
  <2> HIDE DEF more, n
  <2> QED BY <1>1, <1>3 DEF Flats
<1>6. q[n] = r[n]
  <2> DEFINE P == {i \in 0..n : q[i] = r[i]}
  <2>1. 0 \in P
    BY <1>1, <1>4, <1>5
  <2>2. \A i \in 1..n : i - 1 \in P => i \in P
    <3> SUFFICES ASSUME NEW i \in 1..n, q[i - 1] = r[i - 1] PROVE q[i] = r[i]
      OBVIOUS
    <3> HIDE DEF n
    <3> QED BY <1>4, <1>5
  <2> HIDE DEF P, n
  <2>3. n \in P
    BY <1>1, <2>1, <2>2, Steps
  <2> QED BY <2>3 DEF P
<1> QED BY <1>1, <1>4, <1>5, <1>6

LEMMA TokensType ==
  ASSUME NEW c \in Seq(Line)
  PROVE  Tokens(c) \in Nat /\ (c # <<>> => Tokens(c) > 0)
<1> DEFINE n == Len(c)
<1>1. PICK r \in [0..n -> Nat] :
           /\ r[0] = 0 /\ Tokens(c) = r[n]
           /\ \A i \in 1..n : r[i] = r[i - 1] + c[i].tokens
  BY TokensRun
<1>2. n \in Nat /\ n \in 0..n
  OBVIOUS
<1>3. CASE c = <<>>
  BY <1>1, <1>2, <1>3
<1>4. CASE c # <<>>
  <2>1. n \in 1..n /\ n - 1 \in 0..n /\ c[n] \in Line
    BY <1>4
  <2>2. c[n].tokens \in Nat /\ c[n].tokens > 0
    BY <2>1 DEF Line
  <2> HIDE DEF n
  <2> QED BY <1>1, <1>2, <2>1, <2>2
<1> QED BY <1>3, <1>4

LEMMA TokensAppend ==
  ASSUME NEW c \in Seq(Line), NEW l \in Line
  PROVE  Tokens(Append(c, l)) = Tokens(c) + l.tokens
<1> DEFINE n == Len(c)
           more == Append(c, l)
<1>1. /\ n \in Nat /\ more \in Seq(Line) /\ Len(more) = n + 1 /\ more[n + 1] = l
      /\ \A i \in 1..n : more[i] = c[i] /\ i \in 1..(n + 1)
      /\ n + 1 \in 1..(n + 1) /\ (n + 1) - 1 = n /\ n \in 0..n
  OBVIOUS
<1>2. PICK r \in [0..n -> Nat] :
           /\ r[0] = 0 /\ Tokens(c) = r[n]
           /\ \A i \in 1..n : r[i] = r[i - 1] + c[i].tokens
  BY TokensRun
<1>3. PICK q : /\ q[0] = 0 /\ Tokens(more) = q[Len(more)]
               /\ \A i \in 1..Len(more) : q[i] = q[i - 1] + more[i].tokens
  <2> HIDE DEF more, n
  <2> QED BY <1>1, TokensRun
<1>4. q[0] = 0 /\ Tokens(more) = q[n + 1] /\ q[n + 1] = q[n] + l.tokens
      /\ \A i \in 1..n : q[i] = q[i - 1] + c[i].tokens
  <2> HIDE DEF more, n
  <2> QED BY <1>1, <1>3
<1>5. q[n] = r[n]
  <2> DEFINE P == {i \in 0..n : q[i] = r[i]}
  <2>1. 0 \in P
    BY <1>1, <1>2, <1>4
  <2>2. \A i \in 1..n : i - 1 \in P => i \in P
    <3> SUFFICES ASSUME NEW i \in 1..n, q[i - 1] = r[i - 1] PROVE q[i] = r[i]
      OBVIOUS
    <3> HIDE DEF n
    <3> QED BY <1>2, <1>4
  <2> HIDE DEF P, n
  <2>3. n \in P
    BY <1>1, <2>1, <2>2, Steps
  <2> QED BY <2>3 DEF P
<1> QED BY <1>2, <1>4, <1>5

LEMMA JoinedSet ==
  ASSUME NEW S, NEW s \in Seq(S), NEW t \in Seq(S)
  PROVE  ToSet(s \o t) = ToSet(s) \cup ToSet(t)
<1>1. /\ Len(s) \in Nat /\ Len(t) \in Nat /\ Len(s \o t) = Len(s) + Len(t)
      /\ DOMAIN s = 1..Len(s) /\ DOMAIN t = 1..Len(t) /\ DOMAIN (s \o t) = 1..(Len(s) + Len(t))
  OBVIOUS
<1>2. \A i \in 1..Len(s) : (s \o t)[i] = s[i] /\ i \in 1..(Len(s) + Len(t))
  BY <1>1
<1>3. \A i \in 1..Len(t) : (s \o t)[Len(s) + i] = t[i] /\ Len(s) + i \in 1..(Len(s) + Len(t))
  BY <1>1
<1>4. \A i \in 1..(Len(s) + Len(t)) :
        i \in 1..Len(s) \/ (i - Len(s) \in 1..Len(t) /\ i = Len(s) + (i - Len(s)))
  BY <1>1
<1> QED BY <1>1, <1>2, <1>3, <1>4 DEF ToSet

(* The notes in a text are those of its lines. *)
LEMMA NotesAre ==
  ASSUME NEW c \in Seq(Line)
  PROVE  /\ Notes(c) \in Seq(Note)
         /\ ToSet(Notes(c)) = UNION {ToSet(c[i].notes) : i \in 1..Len(c)}
<1> DEFINE n == Len(c)
<1>1. PICK r \in [0..n -> Seq(Note)] :
           /\ r[0] = <<>> /\ Notes(c) = r[n]
           /\ \A i \in 1..n : r[i] = r[i - 1] \o c[i].notes
  BY NotesRun
<1>2. n \in Nat /\ n \in 0..n /\ \A i \in 1..n : i - 1 \in 0..n /\ c[i] \in Line
  OBVIOUS
<1> DEFINE Of(i) == UNION {ToSet(c[j].notes) : j \in 1..i}
           P == {i \in 0..n : ToSet(r[i]) = Of(i)}
<1>3. 0 \in P
  <2>1. 1..0 = {}
    OBVIOUS
  <2>2. Of(0) = {}
    BY <2>1
  <2> QED BY <1>1, <1>2, <2>2 DEF ToSet
<1>4. \A i \in 1..n : i - 1 \in P => i \in P
  <2>0. SUFFICES ASSUME NEW i \in 1..n, ToSet(r[i - 1]) = Of(i - 1) PROVE ToSet(r[i]) = Of(i)
    <3> HIDE DEF Of
    <3> QED OBVIOUS
  <2> HIDE DEF n
  <2>1. r[i - 1] \in Seq(Note) /\ c[i].notes \in Seq(Note) /\ r[i] = r[i - 1] \o c[i].notes
    BY <1>1, <1>2 DEF Line
  <2>2. ToSet(r[i]) = ToSet(r[i - 1]) \cup ToSet(c[i].notes)
    BY <2>1, JoinedSet
  <2>3. \A j : j \in 1..i <=> j \in 1..(i - 1) \/ j = i
    BY <1>2
  <2> QED BY <2>0, <2>2, <2>3
<1>5. n \in P
  <2> HIDE DEF P, n
  <2> QED BY <1>2, <1>3, <1>4, Steps
<1> QED BY <1>1, <1>2, <1>5

-----------------------------------------------------------------------------
(* Chunks as they should be: none is empty, and one over the threshold is a
   single line. *)
Sound(cs) ==
  \A i \in DOMAIN cs : cs[i] # <<>> /\ (Tokens(cs[i]) > Threshold => Len(cs[i]) = 1)

(* The loop adds each line to the end, and keeps the chunks sound: a chunk of
   no tokens would be empty. *)
LEMMA AddedSound ==
  ASSUME NEW cs \in Seq(Seq(Line)), NEW l \in Line, Sound(cs)
  PROVE  Sound(Added(cs, l)) /\ FlattenSeq(Added(cs, l)) = Append(FlattenSeq(cs), l)
<1> HIDE DEF Line
<1>1. CASE cs = <<>> \/ (Tokens(Last(cs)) > 0 /\ Tokens(Last(cs)) + l.tokens > Threshold)
  <2>1. Added(cs, l) = Append(cs, <<l>>) /\ <<l>> \in Seq(Line) /\ FlattenSeq(cs) \in Seq(Line)
    BY <1>1, FlattenAppend DEF Added
  <2>2. FlattenSeq(Append(cs, <<l>>)) = FlattenSeq(cs) \o <<l>>
    BY <2>1, FlattenAppend
  <2>3. FlattenSeq(cs) \o <<l>> = Append(FlattenSeq(cs), l)
    BY <2>1
  <2>4. Sound(Append(cs, <<l>>))
    <3>1. /\ Len(cs) \in Nat /\ DOMAIN cs = 1..Len(cs)
          /\ DOMAIN Append(cs, <<l>>) = 1..(Len(cs) + 1)
          /\ \A i \in 1..(Len(cs) + 1) : i \in 1..Len(cs) \/ i = Len(cs) + 1
          /\ \A i \in 1..Len(cs) : Append(cs, <<l>>)[i] = cs[i]
          /\ Append(cs, <<l>>)[Len(cs) + 1] = <<l>>
          /\ Len(<<l>>) = 1 /\ <<l>> # <<>>
      OBVIOUS
    <3> QED BY <3>1 DEF Sound
  <2> QED BY <2>1, <2>2, <2>3, <2>4
<1>2. CASE cs # <<>> /\ ~(Tokens(Last(cs)) > 0 /\ Tokens(Last(cs)) + l.tokens > Threshold)
  <2> DEFINE n == Len(cs)
             f == Front(cs)
             x == Last(cs)
             y == Append(x, l)
  <2>1. /\ n \in Nat /\ n >= 1 /\ n \in DOMAIN cs /\ x = cs[n] /\ x \in Seq(Line)
        /\ f \in Seq(Seq(Line)) /\ Len(f) = n - 1 /\ \A i \in 1..(n - 1) : f[i] = cs[i]
    <3>1. n \in Nat /\ n >= 1 /\ n \in DOMAIN cs /\ cs[n] \in Seq(Line)
      BY <1>2
    <3>2. f = SubSeq(cs, 1, n - 1) /\ x = cs[n]
      BY DEF Front, Last
    <3>3. SubSeq(cs, 1, n - 1) \in Seq(Seq(Line)) /\ Len(SubSeq(cs, 1, n - 1)) = n - 1
          /\ \A i \in 1..(n - 1) : SubSeq(cs, 1, n - 1)[i] = cs[i]
      <4>1. cs \in Seq(Seq(Line)) /\ n = Len(cs)
        OBVIOUS
      <4> HIDE DEF n
      <4> QED BY <3>1, <4>1
    <3> HIDE DEF f, x, n
    <3> QED BY <3>1, <3>2, <3>3
  <2>2. cs = Append(f, x)
    <3>1. /\ Append(f, x) \in Seq(Seq(Line)) /\ Len(Append(f, x)) = n
          /\ \A i \in 1..(n - 1) : Append(f, x)[i] = f[i]
          /\ Append(f, x)[n] = x /\ \A i \in 1..n : i \in 1..(n - 1) \/ i = n
      <4> HIDE DEF f, x, n
      <4> QED BY <2>1
    <3>2. cs \in Seq(Seq(Line)) /\ Len(cs) = n
      OBVIOUS
    <3> HIDE DEF f, x, n
    <3>3. \A i \in 1..n : cs[i] = Append(f, x)[i]
      BY <2>1, <3>1
    <3> QED BY <2>1, <3>1, <3>2, <3>3, SeqEqual
  <2>3. y \in Seq(Line) /\ y # <<>> /\ Added(cs, l) = f \o <<y>>
    <3>1. y \in Seq(Line) /\ y # <<>>
      <4>1. x \in Seq(Line)
        BY <2>1
      <4> HIDE DEF x
      <4> QED BY <4>1
    <3> QED BY <3>1, <1>2 DEF Added
  <2>4. f \o <<y>> = Append(f, y)
    <3> HIDE DEF f, y
    <3> QED BY <2>1, <2>3
  <2>5. Tokens(x) \in Nat /\ Tokens(x) > 0 /\ Tokens(y) = Tokens(x) + l.tokens
    <3>1. x # <<>>
      BY <2>1 DEF Sound
    <3> HIDE DEF x
    <3> QED BY <3>1, <2>1, TokensType, TokensAppend
  <2>6. ~(Tokens(y) > Threshold)
    <3> HIDE DEF y
    <3> QED BY <2>5, <1>2
  <2>7. Sound(Append(f, y))
    <3>1. /\ DOMAIN Append(f, y) = 1..n /\ DOMAIN cs = 1..n
          /\ \A i \in 1..n : i \in 1..(n - 1) \/ i = n
          /\ \A i \in 1..(n - 1) : Append(f, y)[i] = f[i]
          /\ Append(f, y)[n] = y
      <4>1. cs \in Seq(Seq(Line)) /\ n = Len(cs)
        OBVIOUS
      <4> HIDE DEF f, y, n
      <4> QED BY <2>1, <2>3, <4>1
    <3> HIDE DEF f, y, n
    <3> QED BY <3>1, <2>1, <2>3, <2>6 DEF Sound
  <2>8. FlattenSeq(cs) = FlattenSeq(f) \o x /\ FlattenSeq(Append(f, y)) = FlattenSeq(f) \o y
        /\ FlattenSeq(f) \in Seq(Line)
    <3> HIDE DEF f, x, y
    <3> QED BY <2>1, <2>2, <2>3, FlattenAppend
  <2>9. FlattenSeq(f) \o y = Append(FlattenSeq(f) \o x, l)
    <3> DEFINE z == FlattenSeq(f)
    <3>1. z \in Seq(Line) /\ x \in Seq(Line)
      BY <2>1, <2>8
    <3> HIDE DEF z, x
    <3> QED BY <3>1
  <2> HIDE DEF f, x, y
  <2> QED BY <2>3, <2>4, <2>7, <2>8, <2>9
<1> QED BY <1>1, <1>2

(* Split leaves out no line, and each chunk is as it should be. *)
LEMMA SplitSound ==
  ASSUME NEW c \in Seq(Line)
  PROVE  /\ Split(c) \in Seq(Seq(Line)) /\ FlattenSeq(Split(c)) = c
         /\ Sound(Split(c)) /\ (c # <<>> => Split(c) # <<>>)
<1> DEFINE n == Len(c)
<1>1. PICK r \in [0..n -> Seq(Seq(Line))] :
           /\ r[0] = <<>> /\ Split(c) = r[n]
           /\ \A i \in 1..n : r[i] = Added(r[i - 1], c[i])
  BY SplitRun
<1>2. n \in Nat /\ n \in 0..n /\ \A i \in 1..n : i - 1 \in 0..n /\ c[i] \in Line
  OBVIOUS
<1> DEFINE P == {i \in 0..n : /\ Sound(r[i]) /\ FlattenSeq(r[i]) = SubSeq(c, 1, i)}
<1>3. 0 \in P
  <2>1. Len(<<>>) = 0 /\ DOMAIN <<>> = {} /\ SubSeq(c, 1, 0) = <<>>
    OBVIOUS
  <2> QED BY <1>1, <1>2, <2>1 DEF Sound, FlattenSeq
<1>4. \A i \in 1..n : i - 1 \in P => i \in P
  <2> SUFFICES ASSUME NEW i \in 1..n, Sound(r[i - 1]), FlattenSeq(r[i - 1]) = SubSeq(c, 1, i - 1)
               PROVE  Sound(r[i]) /\ FlattenSeq(r[i]) = SubSeq(c, 1, i)
    OBVIOUS
  <2>1. SubSeq(c, 1, i) = Append(SubSeq(c, 1, i - 1), c[i])
    BY <1>2
  <2> HIDE DEF n, Line
  <2> QED BY <1>1, <1>2, <2>1, AddedSound
<1>5. n \in P
  <2> HIDE DEF P, n
  <2> QED BY <1>2, <1>3, <1>4, Steps
<1>6. SubSeq(c, 1, n) = c
  OBVIOUS
<1>7. Split(c) = <<>> => c = <<>>
  <2>1. FlattenSeq(<<>>) = <<>>
    BY DEF FlattenSeq
  <2> QED BY <1>5, <1>6, <1>1, <2>1
<1> QED BY <1>1, <1>2, <1>5, <1>6, <1>7

(* The members of the first i sequences *)
Members(seqs, i) == UNION {ToSet(seqs[j]) : j \in 1..i}

LEMMA FlattenMembers ==
  ASSUME NEW S, NEW seqs \in Seq(Seq(S))
  PROVE  ToSet(FlattenSeq(seqs)) = Members(seqs, Len(seqs))
<1> DEFINE n == Len(seqs)
           Of(i) == Members(seqs, i)
<1>0. PICK r : Flats(r, seqs, S)
  BY FlattenRun
<1>1. r \in [0..n -> Seq(S)] /\ r[0] = <<>> /\ FlattenSeq(seqs) = r[n]
      /\ \A i \in 1..n : r[i] = r[i - 1] \o seqs[i]
  BY <1>0 DEF Flats
<1>2. n \in Nat /\ n \in 0..n /\ \A i \in 1..n : i - 1 \in 0..n /\ seqs[i] \in Seq(S)
  OBVIOUS
<1> DEFINE P == {i \in 0..n : ToSet(r[i]) = Of(i)}
<1>3. 0 \in P
  <2>1. 1..0 = {}
    OBVIOUS
  <2>2. Of(0) = {}
    BY <2>1 DEF Members
  <2> QED BY <1>1, <1>2, <2>2 DEF ToSet
<1>4. \A i \in 1..n : i - 1 \in P => i \in P
  <2>0. SUFFICES ASSUME NEW i \in 1..n, ToSet(r[i - 1]) = Of(i - 1) PROVE ToSet(r[i]) = Of(i)
    <3> HIDE DEF Of
    <3> QED OBVIOUS
  <2> HIDE DEF n
  <2>1. r[i - 1] \in Seq(S) /\ seqs[i] \in Seq(S) /\ r[i] = r[i - 1] \o seqs[i]
    BY <1>1, <1>2
  <2>2. ToSet(r[i]) = ToSet(r[i - 1]) \cup ToSet(seqs[i])
    BY <2>1, JoinedSet
  <2>3. \A j : j \in 1..i <=> j \in 1..(i - 1) \/ j = i
    BY <1>2
  <2> QED BY <2>0, <2>2, <2>3 DEF Members
<1>5. n \in P
  <2> HIDE DEF P, n
  <2> QED BY <1>2, <1>3, <1>4, Steps
<1>6. ToSet(r[n]) = Of(n)
  <2> HIDE DEF n, Of
  <2> QED BY <1>5
<1> QED BY <1>1, <1>6

(* No note falls between two chunks. *)
LEMMA NotesInChunks ==
  ASSUME NEW cs \in Seq(Seq(Line)), NEW c \in Seq(Line), FlattenSeq(cs) = c
  PROVE  ToSet(Notes(c)) \subseteq UNION {ToSet(Notes(cs[i])) : i \in 1..Len(cs)}
<1> SUFFICES ASSUME NEW m \in ToSet(Notes(c)) PROVE \E i \in 1..Len(cs) : m \in ToSet(Notes(cs[i]))
  OBVIOUS
<1> HIDE DEF Line
<1>1. PICK j \in 1..Len(c) : m \in ToSet(c[j].notes)
  BY NotesAre
<1>2. c[j] \in ToSet(c)
  BY DEF ToSet
<1>3. PICK i \in 1..Len(cs) : c[j] \in ToSet(cs[i])
  <2>1. ToSet(FlattenSeq(cs)) = Members(cs, Len(cs))
    BY FlattenMembers
  <2> QED BY <1>2, <2>1 DEF Members
<1>4. cs[i] \in Seq(Line)
  OBVIOUS
<1>5. PICK k \in 1..Len(cs[i]) : c[j] = cs[i][k]
  <2>1. DOMAIN cs[i] = 1..Len(cs[i])
    BY <1>4
  <2> QED BY <1>3, <2>1 DEF ToSet
<1> QED BY <1>1, <1>4, <1>5, NotesAre

(***************************************************************************)
(* Routing                                                                 *)
(***************************************************************************)
(* What the loop of BaseTargets does with an override *)
Tried(found0, ov, h, p) ==
  IF found0.final \/ ov.harness # h THEN found0
  ELSE IF p # NoPersona /\ ov.persona = p THEN [final |-> TRUE, targets |-> ov.targets]
  ELSE IF ov.persona = NoPersona THEN [final |-> FALSE, targets |-> ov.targets]
  ELSE found0

(* The lists of targets a source has *)
TargetLists(s) == {s.targets} \cup {ov.targets : ov \in ToSet(s.overrides)}

(* What the loop has found after each override *)
Tries(r, so, h, p) ==
  /\ r \in [0..Len(so.overrides) -> [final : BOOLEAN, targets : TargetLists(so)]]
  /\ r[0] = [final |-> FALSE, targets |-> so.targets]
  /\ BaseTargets(so, h, p) = r[Len(so.overrides)].targets
  /\ \A i \in 1..Len(so.overrides) : r[i] = Tried(r[i - 1], so.overrides[i], h, p)

LEMMA BaseRun ==
  ASSUME NEW so, so.overrides \in Seq(ToSet(so.overrides)), NEW h, NEW p
  PROVE  \E r : Tries(r, so, h, p)
<1> DEFINE n  == Len(so.overrides)
           A  == [final : BOOLEAN, targets : TargetLists(so)]
           b  == [final |-> FALSE, targets |-> so.targets]
           st == [i \in 1..n |-> [x \in A |-> Tried(x, so.overrides[i], h, p)]]
           Rec(g) == [s \in SUBSET (1..n) |->
                      IF s = {} THEN [final |-> FALSE, targets |-> so.targets] ELSE Tried(g[s \ {Max(s)}], so.overrides[Max(s)], h, p)]
           g  == CHOOSE g : g = Rec(g)
<1>1. n \in Nat /\ DOMAIN so.overrides = 1..n
  OBVIOUS
<1>2. \A i \in 1..n : so.overrides[i].targets \in TargetLists(so)
  BY DEF TargetLists, ToSet
<1>3. st \in [1..n -> [A -> A]] /\ b \in A
  BY <1>2 DEF Tried, TargetLists
<1>4. \A i \in 1..n : \A x \in A : st[i][x] = Tried(x, so.overrides[i], h, p)
  BY <1>1
<1>5. \A s \in SUBSET (1..n) : s # {} => Max(s) \in 1..n /\ s \ {Max(s)} \in SUBSET (1..n)
  BY <1>1, MaxIn
<1>6. ASSUME NEW f, Folding(f, n, A, b, st) PROVE Follows(g, n, A, b, st)
  <2> HIDE DEF n, st, A
  <2>1. ASSUME NEW s \in SUBSET (1..n), s # {}
        PROVE  f[s] = Tried(f[s \ {Max(s)}], so.overrides[Max(s)], h, p)
    <3>1. Max(s) \in 1..n /\ f[s \ {Max(s)}] \in A /\ f[s] = st[Max(s)][f[s \ {Max(s)}]]
      BY <1>6, <1>5, <2>1 DEF Folding
    <3> QED BY <3>1, <1>4
  <2>2. f = Rec(f)
    BY <1>6, <2>1 DEF Folding
  <2>3. g = Rec(g)
    BY <2>2
  <2> HIDE DEF g
  <2> QED BY <2>3, <1>4, <1>5 DEF Follows
<1>7. BaseTargets(so, h, p) = g[1..n].targets
  BY <1>1 DEF BaseTargets, Tried, FoldLeft, MapThenFoldSet
<1>8. PICK r : Run(r, n, A, b, st) /\ r[n] = g[1..n]
  <2> HIDE DEF n, st, g, A, b
  <2> QED BY <1>1, <1>3, <1>6, Folded
<1>9. r \in [0..n -> A] /\ r[0] = b /\ \A i \in 1..n : i - 1 \in 0..n /\ r[i] = st[i][r[i - 1]]
  <2>1. \A i \in 1..n : i - 1 \in 0..n
    BY <1>1
  <2> HIDE DEF n, st, g, A, b
  <2> QED BY <1>8, <2>1 DEF Run
<1>10. r \in [0..n -> [final : BOOLEAN, targets : TargetLists(so)]] /\ r[0] = [final |-> FALSE, targets |-> so.targets] /\ BaseTargets(so, h, p) = r[n].targets
       /\ \A i \in 1..n : r[i] = Tried(r[i - 1], so.overrides[i], h, p)
  <2> HIDE DEF n, st, g
  <2> QED BY <1>4, <1>7, <1>8, <1>9
<1> QED BY <1>10 DEF Tries

(* The targets of the last override with the harness and the persona, or of one
   with the harness only, or the source's own: all targets that count are
   lists the source has. *)
LEMMA BaseIsList ==
  ASSUME NEW so, so.overrides \in Seq(ToSet(so.overrides)), NEW h, NEW p
  PROVE  BaseTargets(so, h, p) \in TargetLists(so)
<1>1. PICK r : Tries(r, so, h, p)
  BY BaseRun
<1>2. r[Len(so.overrides)] \in [final : BOOLEAN, targets : TargetLists(so)]
  BY <1>1 DEF Tries
<1> QED BY <1>1, <1>2 DEF Tries

General(so, h) == {i \in DOMAIN so.overrides : /\ so.overrides[i].harness = h
                                               /\ so.overrides[i].persona = NoPersona}

(* Without a persona the last override for the harness wins *)
LEMMA LastWins ==
  ASSUME NEW so, so.overrides \in Seq(ToSet(so.overrides)), NEW h
  PROVE  /\ General(so, h) # {} =>
              \E i \in General(so, h) :
                /\ \A j \in General(so, h) : j <= i
                /\ BaseTargets(so, h, NoPersona) = so.overrides[i].targets
         /\ General(so, h) = {} => BaseTargets(so, h, NoPersona) = so.targets
<1> DEFINE general == General(so, h)
<1> DEFINE ovs == so.overrides
           n   == Len(ovs)
<1>0. PICK r : Tries(r, so, h, NoPersona)
  BY BaseRun
<1>1. /\ r \in [0..n -> [final : BOOLEAN, targets : TargetLists(so)]]
      /\ r[0] = [final |-> FALSE, targets |-> so.targets]
      /\ BaseTargets(so, h, NoPersona) = r[n].targets
      /\ \A i \in 1..n : r[i] = Tried(r[i - 1], ovs[i], h, NoPersona)
  BY <1>0 DEF Tries
<1> DEFINE Best(i) ==
      /\ ~r[i].final
      /\ (\E k \in general : k <= i) =>
           \E k \in general : /\ k <= i /\ r[i].targets = ovs[k].targets
                              /\ \A j \in general : j <= i => j <= k
      /\ ~(\E k \in general : k <= i) => r[i].targets = so.targets
<1>2. n \in Nat /\ DOMAIN ovs = 1..n /\ general \subseteq 1..n
  BY DEF General
<1> HIDE DEF general
<1>3. Best(0)
  <2>1. \A k \in 1..n : ~(k <= 0)
    BY <1>2
  <2> QED BY <1>1, <1>2, <2>1
<1>4. ASSUME NEW i \in 1..n, Best(i - 1) PROVE Best(i)
  <2>1. /\ r[i - 1] \in [final : BOOLEAN, targets : TargetLists(so)]
        /\ r[i] = Tried(r[i - 1], ovs[i], h, NoPersona)
        /\ \A k \in 1..n : k <= i <=> k <= i - 1 \/ k = i
        /\ i <= i
    <3>1. i - 1 \in 0..n /\ i <= i /\ \A k \in 1..n : k <= i <=> k <= i - 1 \/ k = i
      BY <1>2
    <3> HIDE DEF n, ovs
    <3> QED BY <1>1, <3>1
  <2>2. i \in general <=> ovs[i].harness = h /\ ovs[i].persona = NoPersona
    BY <1>2 DEF general, General
  <2>3. CASE i \notin general
    <3>1. r[i] = r[i - 1]
      BY <1>4, <2>1, <2>2, <2>3 DEF Tried
    <3> QED BY <1>2, <1>4, <2>1, <2>3, <3>1
  <2>4. CASE i \in general
    <3>1. ~r[i].final /\ r[i].targets = ovs[i].targets
      BY <1>4, <2>1, <2>2, <2>4 DEF Tried
    <3> QED BY <1>2, <2>1, <2>4, <3>1
  <2> QED BY <2>3, <2>4
<1>5. Best(n)
  <2> DEFINE P == {i \in 0..n : Best(i)}
  <2>1. 0 \in P /\ n \in 0..n
    BY <1>2, <1>3
  <2>2. \A i \in 1..n : i - 1 \in P => i \in P
    <3> HIDE DEF Best
    <3> QED BY <1>2, <1>4
  <2> HIDE DEF P, n
  <2>3. n \in P
    BY <1>2, <2>1, <2>2, Steps
  <2> QED BY <2>3 DEF P
<1>6. \A k \in 1..n : k <= n
  BY <1>2
<1> QED BY <1>1, <1>2, <1>5, <1>6 DEF general

(* Sources as the configuration file can describe them *)
Shaped(so) ==
  /\ so.targets \in Seq(ToSet(so.targets))
  /\ so.overrides \in Seq(ToSet(so.overrides))
  /\ \A ov \in ToSet(so.overrides) : ov.targets \in Seq(ToSet(ov.targets))

LEMMA BaseValid ==
  ASSUME NEW so, Shaped(so), ValidSource(so), NEW h, NEW p
  PROVE  LET bs == BaseTargets(so, h, p)
         IN bs \in Seq(ToSet(bs)) /\ \A t \in ToSet(bs) : t.kb \in KB
<1> DEFINE bs == BaseTargets(so, h, p)
<1>1. bs \in TargetLists(so)
  BY BaseIsList DEF Shaped
<1>2. bs \in Seq(ToSet(bs))
  BY <1>1 DEF Shaped, TargetLists
<1>3. ValidTargets(bs)
  <2>1. \A ov \in ToSet(so.overrides) : ValidTargets(ov.targets)
    BY DEF ValidSource, ToSet
  <2> QED BY <1>1, <2>1 DEF ValidSource, TargetLists
<1>4. \A t \in ToSet(bs) : t.kb \in KB
  BY <1>3 DEF ValidTargets, ValidTarget, ToSet, KB
<1> QED BY <1>2, <1>4

(* A note always has a target, and only bases the configuration has. *)
LEMMA ResolveType ==
  ASSUME NEW so, Shaped(so), ValidSource(so), NEW h, NEW p, NEW suggested
  PROVE  LET ts == Resolve(so, h, p, suggested)
         IN /\ Len(ts) \in Nat \ {0} /\ DOMAIN ts = 1..Len(ts)
            /\ \A i \in DOMAIN ts : ts[i].kb \in KB
<1> DEFINE bs == BaseTargets(so, h, p)
           Add(ts, t) == IF Wanted(t, suggested) THEN Append(ts, t) ELSE ts
           chosen == FoldLeft(Add, <<>>, bs)
<1>0. bs \in Seq(ToSet(bs)) /\ \A t \in ToSet(bs) : t.kb \in KB
  BY BaseValid
<1> HIDE DEF bs
<1> DEFINE n  == Len(bs)
           A  == Seq(ToSet(bs))
           b  == <<>>
           st == [i \in 1..n |-> [x \in A |-> IF Wanted(bs[i], suggested) THEN Append(x, bs[i]) ELSE x]]
           Rec(g) == [s \in SUBSET (1..n) |->
                      IF s = {} THEN <<>> ELSE IF Wanted(bs[Max(s)], suggested) THEN Append(g[s \ {Max(s)}], bs[Max(s)]) ELSE g[s \ {Max(s)}]]
           g  == CHOOSE g : g = Rec(g)
<1>1. n \in Nat /\ DOMAIN bs = 1..n
  BY <1>0
<1>2. \A i \in 1..n : bs[i] \in ToSet(bs)
  BY <1>0 DEF ToSet
<1>3. st \in [1..n -> [A -> A]] /\ b \in A
  BY <1>2
<1>4. \A i \in 1..n : \A x \in A : st[i][x] = IF Wanted(bs[i], suggested) THEN Append(x, bs[i]) ELSE x
  BY <1>1
<1>5. \A s \in SUBSET (1..n) : s # {} => Max(s) \in 1..n /\ s \ {Max(s)} \in SUBSET (1..n)
  BY <1>1, MaxIn
<1>6. ASSUME NEW f, Folding(f, n, A, b, st) PROVE Follows(g, n, A, b, st)
  <2> HIDE DEF n, st, A
  <2>1. ASSUME NEW s \in SUBSET (1..n), s # {}
        PROVE  f[s] = IF Wanted(bs[Max(s)], suggested) THEN Append(f[s \ {Max(s)}], bs[Max(s)]) ELSE f[s \ {Max(s)}]
    <3>1. Max(s) \in 1..n /\ f[s \ {Max(s)}] \in A /\ f[s] = st[Max(s)][f[s \ {Max(s)}]]
      BY <1>6, <1>5, <2>1 DEF Folding
    <3> QED BY <3>1, <1>4
  <2>2. f = Rec(f)
    BY <1>6, <2>1 DEF Folding
  <2>3. g = Rec(g)
    BY <2>2
  <2>4. g[{}] = b /\ \A s \in SUBSET (1..n) : s # {} =>
          g[s] = IF Wanted(bs[Max(s)], suggested) THEN Append(g[s \ {Max(s)}], bs[Max(s)]) ELSE g[s \ {Max(s)}]
    <3> HIDE DEF g
    <3> QED BY <2>3
  <2> HIDE DEF g, b
  <2> QED BY <2>4, <1>4, <1>5 DEF Follows
<1>7. chosen = g[1..n]
  BY <1>1 DEF FoldLeft, MapThenFoldSet
<1>8. PICK r : Run(r, n, A, b, st) /\ r[n] = g[1..n]
  <2> HIDE DEF n, st, g, A, b
  <2> QED BY <1>1, <1>3, <1>6, Folded
<1>9. r \in [0..n -> A] /\ r[0] = b /\ \A i \in 1..n : i - 1 \in 0..n /\ r[i] = st[i][r[i - 1]]
  <2>1. \A i \in 1..n : i - 1 \in 0..n
    BY <1>1
  <2> HIDE DEF n, st, g, A, b
  <2> QED BY <1>8, <2>1 DEF Run
<1>10. chosen \in Seq(ToSet(bs))
  <2>1. n \in 0..n
    BY <1>1
  <2> HIDE DEF n, st, g, b
  <2> QED BY <1>7, <1>8, <1>9, <2>1
<1> DEFINE ts == Resolve(so, h, p, suggested)
           default == [kb |-> Default, routing |-> "always", approval |-> "auto-approve"]
<1>11. ts = IF chosen = <<>> THEN <<default>> ELSE chosen
  BY DEF Resolve, bs
<1>12. default.kb \in KB
  BY RoutingAssumption DEF KB
<1> HIDE DEF chosen, ts, default
<1>13. ASSUME chosen = <<>>
       PROVE  Len(ts) \in Nat \ {0} /\ DOMAIN ts = 1..Len(ts) /\ \A i \in DOMAIN ts : ts[i].kb \in KB
  <2>1. ts = <<default>> /\ Len(<<default>>) = 1 /\ DOMAIN <<default>> = 1..1
        /\ <<default>>[1] = default
    BY <1>11, <1>13
  <2> QED BY <1>12, <2>1
<1>14. ASSUME chosen # <<>>
       PROVE  Len(ts) \in Nat \ {0} /\ DOMAIN ts = 1..Len(ts) /\ \A i \in DOMAIN ts : ts[i].kb \in KB
  <2>1. \A i \in DOMAIN chosen : chosen[i] \in ToSet(bs)
    BY <1>10
  <2>2. Len(chosen) \in Nat \ {0} /\ DOMAIN chosen = 1..Len(chosen)
    BY <1>10, <1>14
  <2>3. ts = chosen
    BY <1>11, <1>14
  <2> QED BY <1>0, <1>14, <2>1, <2>2, <2>3
<1> QED BY <1>13, <1>14 DEF ts

(* What RouteNotes makes of a note *)
JobsFor(so, h, p, n) ==
  LET ts == Resolve(so, h, p, n.suggested)
  IN [i \in DOMAIN ts |-> [note |-> n.note, kb |-> ts[i].kb,
                           manual |-> ts[i].approval = "require-manual-approval"]]

LEMMA JobsForType ==
  ASSUME NEW so, Shaped(so), ValidSource(so), NEW h, NEW p, NEW n, n.note \in Note
  PROVE  LET js == JobsFor(so, h, p, n)
         IN js \in Seq(Job) /\ Len(js) \in Nat \ {0} /\ \A i \in 1..Len(js) : js[i].note = n.note
<1> DEFINE ts == Resolve(so, h, p, n.suggested)
           js == JobsFor(so, h, p, n)
           k  == Len(ts)
<1>1. k \in Nat \ {0} /\ DOMAIN ts = 1..k /\ \A i \in DOMAIN ts : ts[i].kb \in KB
  BY ResolveType
<1>2. js = [i \in 1..k |-> [note |-> n.note, kb |-> ts[i].kb,
                            manual |-> ts[i].approval = "require-manual-approval"]]
  BY <1>1 DEF JobsFor
<1>4. \A i \in 1..k : [note |-> n.note, kb |-> ts[i].kb,
                       manual |-> ts[i].approval = "require-manual-approval"] \in Job
  BY <1>1 DEF Job
<1> HIDE DEF js, ts, k
<1>5. js \in [1..k -> Job]
  BY <1>2, <1>4
<1>6. js \in Seq(Job) /\ Len(js) = k
  BY <1>1, <1>5
<1> QED BY <1>1, <1>2, <1>6 DEF js

(* What RouteNotes has after each note *)
Routes(r, so, h, p, ns) ==
  /\ r \in [0..Len(ns) -> Seq(Job)]
  /\ r[0] = <<>> /\ RouteNotes(so, h, p, ns) = r[Len(ns)]
  /\ \A i \in 1..Len(ns) : r[i] = r[i - 1] \o JobsFor(so, h, p, ns[i])

LEMMA RouteRun ==
  ASSUME NEW so, Shaped(so), ValidSource(so), NEW h, NEW p, NEW S, NEW ns \in Seq(S),
         \A s \in S : s.note \in Note
  PROVE  \E r : Routes(r, so, h, p, ns)
<1> DEFINE n  == Len(ns)
           A  == Seq(Job)
           b  == <<>>
           st == [i \in 1..n |-> [x \in A |-> x \o JobsFor(so, h, p, ns[i])]]
           Rec(g) == [s \in SUBSET (1..n) |->
                      IF s = {} THEN <<>> ELSE g[s \ {Max(s)}] \o JobsFor(so, h, p, ns[Max(s)])]
           g  == CHOOSE g : g = Rec(g)
<1>1. n \in Nat /\ DOMAIN ns = 1..n
  OBVIOUS
<1>2. \A i \in 1..n : JobsFor(so, h, p, ns[i]) \in Seq(Job)
  <2>1. \A i \in 1..n : ns[i].note \in Note
    OBVIOUS
  <2> HIDE DEF n
  <2> QED BY <2>1, JobsForType
<1>3. st \in [1..n -> [A -> A]] /\ b \in A
  BY <1>2
<1>4. \A i \in 1..n : \A x \in A : st[i][x] = x \o JobsFor(so, h, p, ns[i])
  BY <1>1
<1>5. \A s \in SUBSET (1..n) : s # {} => Max(s) \in 1..n /\ s \ {Max(s)} \in SUBSET (1..n)
  BY <1>1, MaxIn
<1>6. ASSUME NEW f, Folding(f, n, A, b, st) PROVE Follows(g, n, A, b, st)
  <2> HIDE DEF n, st, A
  <2>1. f = Rec(f)
    BY <1>6, <1>4, <1>5 DEF Folding
  <2>2. g = Rec(g)
    BY <2>1
  <2> HIDE DEF g
  <2> QED BY <2>2, <1>4, <1>5 DEF Follows
<1>7. RouteNotes(so, h, p, ns) = g[1..n]
  BY <1>1 DEF RouteNotes, JobsFor, FoldLeft, MapThenFoldSet
<1>8. PICK r : Run(r, n, A, b, st) /\ r[n] = g[1..n]
  <2> HIDE DEF n, st, g, A, b
  <2> QED BY <1>1, <1>3, <1>6, Folded
<1>9. r \in [0..n -> A] /\ r[0] = b /\ \A i \in 1..n : i - 1 \in 0..n /\ r[i] = st[i][r[i - 1]]
  <2>1. \A i \in 1..n : i - 1 \in 0..n
    BY <1>1
  <2> HIDE DEF n, st, g, A, b
  <2> QED BY <1>8, <2>1 DEF Run
<1>10. r \in [0..n -> Seq(Job)] /\ r[0] = <<>> /\ RouteNotes(so, h, p, ns) = r[n]
       /\ \A i \in 1..n : r[i] = r[i - 1] \o JobsFor(so, h, p, ns[i])
  <2> HIDE DEF n, st, g
  <2> QED BY <1>4, <1>7, <1>8, <1>9
<1> QED BY <1>10 DEF Routes

Covers(x, ns, i) == \A j \in 1..i : \E k \in DOMAIN x : x[k].note = ns[j].note

(* Each note gets a job, at least. *)
LEMMA RoutedNotes ==
  ASSUME NEW so, Shaped(so), ValidSource(so), NEW h, NEW p, NEW S, NEW ns \in Seq(S),
         \A s \in S : s.note \in Note
  PROVE  /\ RouteNotes(so, h, p, ns) \in Seq(Job)
         /\ Covers(RouteNotes(so, h, p, ns), ns, Len(ns))
<1> DEFINE n  == Len(ns)
<1>1. PICK r : Routes(r, so, h, p, ns)
  BY RouteRun
<1>2. /\ r \in [0..n -> Seq(Job)] /\ r[0] = <<>> /\ RouteNotes(so, h, p, ns) = r[n]
      /\ \A i \in 1..n : r[i] = r[i - 1] \o JobsFor(so, h, p, ns[i])
  BY <1>1 DEF Routes
<1>3. n \in Nat /\ n \in 0..n /\ \A i \in 1..n : i - 1 \in 0..n /\ ns[i].note \in Note
  OBVIOUS
<1> DEFINE P == {i \in 0..n : Covers(r[i], ns, i)}
<1>4. 0 \in P
  <2>1. 1..0 = {}
    OBVIOUS
  <2> QED BY <1>3, <2>1 DEF Covers
<1>5. \A i \in 1..n : i - 1 \in P => i \in P
  <2>0. SUFFICES ASSUME NEW i \in 1..n, Covers(r[i - 1], ns, i - 1) PROVE Covers(r[i], ns, i)
    OBVIOUS
  <2> SUFFICES ASSUME NEW j \in 1..i PROVE \E k \in DOMAIN r[i] : r[i][k].note = ns[j].note
    BY DEF Covers
  <2> DEFINE x == r[i - 1]
             y == JobsFor(so, h, p, ns[i])
  <2>1. x \in Seq(Job) /\ r[i] = x \o y
    BY <1>2, <1>3
  <2>2. y \in Seq(Job) /\ Len(y) \in Nat \ {0} /\ \A k \in 1..Len(y) : y[k].note = ns[i].note
    BY <1>3, JobsForType
  <2>3. CASE j = i
    <3> HIDE DEF x, y, n
    <3>1. Len(x) + 1 \in DOMAIN (x \o y) /\ (x \o y)[Len(x) + 1] = y[1] /\ 1 \in 1..Len(y)
      BY <2>1, <2>2
    <3>2. PICK k \in DOMAIN (x \o y) : (x \o y)[k] = y[1]
      BY <3>1
    <3>3. y[1].note = ns[i].note
      BY <2>2, <3>1
    <3> QED BY <2>1, <2>3, <3>2, <3>3
  <2>4. CASE j # i
    <3>1. j \in 1..(i - 1)
      BY <1>3, <2>4
    <3>2. PICK k \in DOMAIN x : x[k].note = ns[j].note
      BY <2>0, <3>1 DEF Covers
    <3> HIDE DEF x, y, n
    <3>3. k \in DOMAIN (x \o y) /\ (x \o y)[k] = x[k]
      BY <2>1, <2>2
    <3> QED BY <2>1, <3>2, <3>3
  <2> QED BY <2>3, <2>4
<1>6. n \in P
  <2> HIDE DEF P, n
  <2> QED BY <1>3, <1>4, <1>5, Steps
<1>7. r[n] \in Seq(Job)
  BY <1>2, <1>3
<1> QED BY <1>2, <1>6, <1>7

(***************************************************************************)
(* Extraction                                                              *)
(***************************************************************************)
(* The chunks of the conversation *)
Pieces ==
  /\ chunks \in Seq(Seq(Line))
  /\ FlattenSeq(chunks) = convo
  /\ \A i \in DOMAIN chunks : Tokens(chunks[i]) > Threshold => Len(chunks[i]) = 1

Chunked ==
  /\ stage \in {"start", "extract", "summarize", "done", "left"}
  /\ found \in Seq(Note)
  /\ stage = "start" => convo \in Seq(Line)
  /\ stage \in {"extract", "summarize", "done"} => Pieces
  /\ stage \in {"extract", "summarize"} => ci \in 1..Len(chunks)
  /\ stage = "summarize" => ci < Len(chunks)

(* Of the chunks since the one the summary is of, none was answered. *)
Remembered ==
  /\ stage = "start" => summary = 0
  /\ stage \in {"extract", "summarize"} =>
       /\ summary \in 0..(ci - 1)
       /\ summary # 0 => (summary + 1)..(ci - 1) \subseteq failed

Ahead(i) == UNION {ToSet(Notes(chunks[k])) : k \in i..Len(chunks)}

(* Every note is found, passed over, or still in a chunk ahead of us. *)
Accounted ==
  /\ stage = "start" => held = ToSet(Notes(convo)) /\ found = <<>>
  /\ stage = "extract" => held \subseteq passed \cup ToSet(found) \cup Ahead(ci)
  /\ stage = "extract" /\ ci = 1 => found = <<>>
  /\ stage = "summarize" => held \subseteq passed \cup ToSet(found) \cup Ahead(ci + 1)
  /\ stage = "done" => held \subseteq passed \cup ToSet(found)
  /\ extracted = "error" => stage \in {"done", "left"} /\ held \subseteq passed

LEMMA ChunkPieces ==
  ASSUME NEW c \in Seq(Line),
         NEW cs, cs = IF Tokens(c) <= Threshold THEN <<c>> ELSE Split(c)
  PROVE  /\ cs \in Seq(Seq(Line)) /\ 1 \in 1..Len(cs) /\ FlattenSeq(cs) = c
         /\ \A i \in DOMAIN cs : Tokens(cs[i]) > Threshold => Len(cs[i]) = 1
<1>0. Tokens(c) \in Nat /\ (c = <<>> => Tokens(c) = 0)
  <2>1. Len(<<>>) = 0 /\ <<>> \in Seq(Line)
    OBVIOUS
  <2>2. PICK r \in [0..Len(c) -> Nat] : r[0] = 0 /\ Tokens(c) = r[Len(c)]
    BY TokensRun
  <2> QED BY <2>1, <2>2, TokensType
<1> HIDE DEF Line
<1>1. CASE Tokens(c) <= Threshold
  <2>1. cs = <<c>> /\ cs \in Seq(Seq(Line)) /\ Len(cs) = 1 /\ DOMAIN cs = 1..1 /\ cs[1] = c
    BY <1>1
  <2>2. FlattenSeq(Append(<<>>, c)) = FlattenSeq(<<>>) \o c
    <3>1. <<>> \in Seq(Seq(Line))
      OBVIOUS
    <3> QED BY <3>1, FlattenAppend
  <2>3. FlattenSeq(<<>>) = <<>> /\ Append(<<>>, c) = <<c>> /\ <<>> \o c = c
    BY DEF FlattenSeq
  <2>4. ~(Tokens(c) > Threshold)
    BY <1>0, <1>1, ExtractionAssumption
  <2> QED BY <2>1, <2>2, <2>3, <2>4
<1>2. CASE ~(Tokens(c) <= Threshold)
  <2>1. cs = Split(c) /\ c # <<>>
    BY <1>0, <1>2, ExtractionAssumption
  <2>2. cs \in Seq(Seq(Line)) /\ FlattenSeq(cs) = c /\ Sound(cs) /\ cs # <<>>
    BY <2>1, SplitSound
  <2> QED BY <2>2 DEF Sound
<1> QED BY <1>1, <1>2

LEMMA ExtractStep ==
  ASSUME Chunked, Remembered, Accounted, ExNext
  PROVE  Chunked' /\ Remembered' /\ Accounted'
<1>1. CASE Chunk
  <2>1. convo \in Seq(Line) /\ held = ToSet(Notes(convo)) /\ found = <<>> /\ summary = 0
    BY <1>1 DEF Chunk, Chunked, Remembered, Accounted
  <2>2. /\ chunks' \in Seq(Seq(Line)) /\ 1 \in 1..Len(chunks') /\ FlattenSeq(chunks') = convo
        /\ \A i \in DOMAIN chunks' : Tokens(chunks'[i]) > Threshold => Len(chunks'[i]) = 1
    BY <1>1, <2>1, ChunkPieces DEF Chunk
  <2>3. held \subseteq Ahead(1)'
    BY <2>1, <2>2, NotesInChunks DEF Ahead
  <2>4. ci' = 1 /\ stage' = "extract" /\ UNCHANGED <<convo, summary, found, extracted, failed, held, passed>>
    BY <1>1 DEF Chunk
  <2>5. extracted # "error"
    BY <1>1 DEF Chunk, Accounted
  <2>6. Chunked'
    BY <2>2, <2>4 DEF Chunked, Pieces
  <2>7. Remembered'
    BY <2>1, <2>4 DEF Remembered
  <2>8. Accounted'
    BY <2>1, <2>3, <2>4, <2>5 DEF Accounted
  <2> QED BY <2>6, <2>7, <2>8
<1>2. CASE Retry
  <2>1. stage = "extract"
        /\ UNCHANGED <<stage, convo, chunks, ci, summary, found, extracted, failed, held, passed>>
    BY <1>2 DEF Retry
  <2> QED BY <2>1 DEF Chunked, Remembered, Accounted, Pieces, Ahead
<1>3. CASE Leave
  <2>1. stage = "done" /\ stage' = "left" /\ UNCHANGED <<found, extracted, held, passed>>
    BY <1>3 DEF Leave
  <2> QED BY <2>1 DEF Chunked, Remembered, Accounted
<1>4. ASSUME stage \in {"extract", "summarize"}, ci \in Nat, Len(chunks) \in Nat, NextChunk,
             UNCHANGED <<convo, chunks, held>>, found' \in Seq(Note),
             \/ summary' = ci
             \/ summary' = 0
             \/ summary' = summary /\ failed' = failed \cup {ci},
             held \subseteq passed' \cup ToSet(found') \cup Ahead(ci + 1),
             failed \subseteq failed',
             extracted' = "error" => ci = Len(chunks) /\ held \subseteq passed'
      PROVE  Chunked' /\ Remembered' /\ Accounted'
  <2> USE <1>4
  <2>0. ci \in 1..Len(chunks) /\ summary \in 0..(ci - 1) /\ Pieces
        /\ (summary # 0 => (summary + 1)..(ci - 1) \subseteq failed)
    BY DEF Chunked, Remembered
  <2>1. Pieces'
    BY <2>0 DEF Pieces
  <2>2. CASE ci < Len(chunks)
    <3>1. ci' = ci + 1 /\ stage' = "extract" /\ ci' \in 1..Len(chunks) /\ ci' # 1
      BY <2>0, <2>2 DEF NextChunk
    <3>2. Chunked'
      BY <2>1, <3>1 DEF Chunked
    <3>3. Remembered'
      <4>1. summary' \in 0..(ci' - 1)
        BY <2>0, <3>1
      <4>2. ASSUME summary' # 0 PROVE (summary' + 1)..(ci' - 1) \subseteq failed'
        BY <2>0, <3>1, <4>2
      <4> QED BY <3>1, <4>1, <4>2 DEF Remembered
    <3>4. Ahead(ci)' = Ahead(ci + 1)
      BY <3>1 DEF Ahead
    <3> QED BY <2>2, <3>1, <3>2, <3>3, <3>4 DEF Accounted
  <2>3. CASE ci = Len(chunks)
    <3>1. stage' = "done"
      BY <2>3 DEF NextChunk
    <3>2. Ahead(ci + 1) = {}
      BY <2>3 DEF Ahead
    <3> QED BY <2>1, <3>1, <3>2 DEF Chunked, Remembered, Accounted
  <2> QED BY <2>0, <2>2, <2>3
<1>5. ASSUME stage \in {"extract", "summarize"}
      PROVE  /\ ci \in Nat /\ Len(chunks) \in Nat /\ ci \in 1..Len(chunks) /\ extracted # "error"
             /\ chunks \in Seq(Seq(Line)) /\ chunks[ci] \in Seq(Line)
    <2>1. ci \in 1..Len(chunks) /\ chunks \in Seq(Seq(Line)) /\ extracted # "error"
      BY <1>5 DEF Chunked, Pieces, Accounted
    <2> HIDE DEF Line
    <2> QED BY <2>1
<1>6. CASE Summarize
  <2>1. /\ stage = "summarize" /\ NextChunk /\ summary' \in {ci, 0}
        /\ UNCHANGED <<convo, chunks, found, extracted, failed, held, passed>>
    BY <1>6 DEF Summarize
  <2>2. held \subseteq passed' \cup ToSet(found') \cup Ahead(ci + 1) /\ found' \in Seq(Note)
    BY <2>1 DEF Accounted, Chunked
  <2> QED BY <1>4, <1>5, <2>1, <2>2
<1>7. ASSUME stage = "extract"
      PROVE  held \subseteq passed \cup ToSet(found) \cup ToSet(Notes(chunks[ci])) \cup Ahead(ci + 1)
  <2>1. \A k \in ci..Len(chunks) : k = ci \/ k \in (ci + 1)..Len(chunks)
    BY <1>5, <1>7
  <2> QED BY <1>7, <2>1 DEF Accounted, Ahead
<1>8. CASE GiveUp
  <2>1. /\ stage = "extract" /\ NextChunk /\ failed' = failed \cup {ci}
        /\ extracted' = IF Len(chunks) = 1 THEN "error" ELSE extracted
        /\ passed' = passed \cup ToSet(Notes(chunks[ci]))
        /\ UNCHANGED <<convo, chunks, summary, found, held>>
    BY <1>8 DEF GiveUp
  <2>2. held \subseteq passed' \cup ToSet(found') \cup Ahead(ci + 1) /\ found' \in Seq(Note)
    BY <1>7, <2>1 DEF Chunked
  <2>3. ASSUME extracted' = "error" PROVE ci = Len(chunks) /\ held \subseteq passed'
    <3>1. Len(chunks) = 1 /\ ci = 1
      BY <1>5, <2>1, <2>3
    <3>2. Ahead(ci + 1) = {} /\ ToSet(found') = {}
      <4>1. found' = <<>> /\ (ci + 1)..Len(chunks) = {} /\ DOMAIN <<>> = {}
        BY <2>1, <3>1 DEF Accounted
      <4> QED BY <4>1 DEF Ahead, ToSet
    <3> QED BY <2>2, <3>1, <3>2
  <2> QED BY <1>4, <1>5, <2>1, <2>2, <2>3
<1>9. CASE Answer
  <2>1. PICK ns \in Parsed(chunks[ci]) :
          /\ found' = found \o ns
          /\ passed' = passed \cup (ToSet(Notes(chunks[ci])) \ ToSet(ns))
    BY <1>9 DEF Answer
  <2>2. /\ stage = "extract"
        /\ UNCHANGED <<convo, chunks, summary, extracted, failed, held>>
    BY <1>9 DEF Answer
  <2>3. ns \in Seq(Note) /\ found \in Seq(Note)
    BY <1>5, <2>1, <2>2, ParsedType DEF Chunked
  <2>4. found' \in Seq(Note) /\ ToSet(found') = ToSet(found) \cup ToSet(ns)
    BY <2>1, <2>3, JoinedSet
  <2>5. held \subseteq passed' \cup ToSet(found') \cup Ahead(ci + 1)
    BY <1>7, <2>1, <2>2, <2>4
  <2>6. CASE ci < Len(chunks)
    <3>1. stage' = "summarize" /\ UNCHANGED ci
      BY <1>9, <2>6 DEF Answer
    <3>2. Chunked'
      BY <2>2, <2>4, <2>6, <3>1 DEF Chunked, Pieces
    <3>3. Remembered'
      BY <2>2, <3>1 DEF Remembered
    <3>4. Accounted'
      <4>1. Ahead(ci + 1)' = Ahead(ci + 1)
        BY <2>2, <3>1 DEF Ahead
      <4> QED BY <1>5, <2>2, <2>5, <3>1, <4>1 DEF Accounted
    <3> QED BY <3>2, <3>3, <3>4
  <2>7. CASE ~(ci < Len(chunks))
    <3>1. NextChunk /\ stage' = "done"
      BY <1>9, <2>7 DEF Answer, NextChunk
    <3>2. Ahead(ci + 1) = {}
      <4>1. (ci + 1)..Len(chunks) = {}
        BY <1>5, <2>2, <2>7
      <4> QED BY <4>1 DEF Ahead
    <3> QED BY <1>5, <2>2, <2>4, <2>5, <3>1, <3>2 DEF Chunked, Remembered, Accounted, Pieces
  <2> QED BY <2>6, <2>7
<1> QED BY <1>1, <1>2, <1>3, <1>6, <1>8, <1>9 DEF ExNext

(***************************************************************************)
(* The pipeline                                                            *)
(***************************************************************************)
(* The jobs behind the loop are settled, and what is staged was written. *)
Concluded ==
  /\ pc = "done" => at = Len(jobs)
  /\ \A i \in 1..Len(jobs) : i < at \/ (i = at /\ ~Busy) => fate[i] \notin {"none", "owed"}
  /\ \A i \in Item : fate[i] = "staged" => copies[i] > 0

LEMMA ConcludedSettled ==
  ASSUME Inv, Concluded, Busy, UNCHANGED <<jobs, at>>,
         NEW f \in {"sent", "staged", "failed", "refused"}, Return(f),
         UNCHANGED copies \/ Copied, f = "staged" => Copied
  PROVE  Concluded'
<1>0. /\ at \in Nat /\ Len(jobs) \in Nat /\ at \in 1..Len(jobs) /\ at \in Item
      /\ 1..Len(jobs) \subseteq Item
  <2>1. Len(jobs) <= MaxJobs /\ MaxJobs \in Nat
    BY SubmissionAssumption DEF Inv, TypeOK
  <2> QED BY <2>1, AtHand DEF Inv, Item
<1>1. /\ pc' = "next"
      /\ fate'[at] = f
      /\ \A i \in Item \ {at} : fate'[i] = fate[i]
  BY <1>0 DEF Return, Inv, TypeOK
<1>2. /\ \A i \in Item : copies'[i] = copies[i] \/ copies'[i] = copies[i] + 1
      /\ f = "staged" => copies'[at] > 0
      /\ \A i \in Item : copies[i] \in Nat
  BY <1>0 DEF Copied, Inv, TypeOK
<1>3. \A i \in 1..Len(jobs) : i < at \/ i = at => fate'[i] \notin {"none", "owed"}
  BY <1>0, <1>1 DEF Concluded
<1>4. \A i \in Item : fate'[i] = "staged" => copies'[i] > 0
  BY <1>0, <1>1, <1>2 DEF Concluded
<1> QED BY <1>1, <1>3, <1>4 DEF Concluded

LEMMA ConcludedAside ==
  ASSUME Inv, Concluded, UNCHANGED <<jobs, at, fate>>, Busy => Busy',
         UNCHANGED copies \/ (Copied /\ Busy), pc' = "done" => pc = "done" \/ at = Len(jobs)
  PROVE  Concluded'
<1>1. \A i \in Item : fate[i] = "staged" => copies'[i] > 0
  <2> SUFFICES ASSUME NEW i \in Item, fate[i] = "staged" PROVE copies'[i] > 0
    OBVIOUS
  <2>1. copies[i] > 0 /\ copies[i] \in Nat
    BY DEF Concluded, Inv, TypeOK
  <2>2. CASE UNCHANGED copies
    BY <2>1, <2>2
  <2>3. CASE Copied
    <3>1. copies'[i] = IF i = at THEN copies[i] + 1 ELSE copies[i]
      BY <2>3 DEF Copied, Inv, TypeOK
    <3> QED BY <2>1, <3>1
  <2> QED BY <2>2, <2>3
<1>2. pc' = "done" => at = Len(jobs)
  BY DEF Concluded
<1>3. \A i \in 1..Len(jobs) : i < at \/ (i = at /\ ~Busy') => fate[i] \notin {"none", "owed"}
  BY DEF Concluded
<1> QED BY <1>1, <1>2, <1>3 DEF Concluded, Busy

LEMMA ConcludedStep ==
  ASSUME Inv, Concluded, JobStep \/ Tick \/ UNCHANGED vars
  PROVE  Concluded'
<1>0. Len(jobs) \in Nat /\ at \in Nat /\ 1..Len(jobs) \subseteq Item
      /\ fate \in [Item -> Fates] /\ copies \in [Item -> Nat]
  <2>1. Len(jobs) <= MaxJobs /\ MaxJobs \in Nat /\ jobs \in Seq(Job)
    BY SubmissionAssumption DEF Inv, TypeOK
  <2> QED BY <2>1 DEF Inv, TypeOK, Item
<1>1. CASE Take
  <2>1. /\ pc = "next" /\ at' = at + 1 /\ pc' \in {"stage", "check"} /\ UNCHANGED <<jobs, fate, copies>>
    BY <1>1 DEF Take
  <2>2. ~Busy /\ Busy' /\ pc' # "done"
    BY <2>1 DEF Busy
  <2>3. \A i \in 1..Len(jobs) : i < at' => i < at \/ i = at
    BY <1>0, <2>1
  <2> QED BY <2>1, <2>2, <2>3 DEF Concluded
<1>2. CASE Skip
  <2>1. /\ pc = "next" /\ pc' = "next" /\ at' = at + 1 /\ UNCHANGED <<jobs, copies>>
        /\ fate' = [fate EXCEPT ![at'] = "dropped"] /\ at' \in Item
    <3>1. at + 1 \in Item
      BY <1>0, <1>2 DEF Skip, Item
    <3> QED BY <1>2, <3>1 DEF Skip
  <2>2. ~Busy
    BY <2>1 DEF Busy
  <2>3. \A i \in 1..Len(jobs) : i < at' \/ i = at' => i < at \/ i = at \/ i = at'
    BY <1>0, <2>1
  <2>4. \A i \in Item : fate'[i] = IF i = at' THEN "dropped" ELSE fate[i]
    BY <1>0, <2>1
  <2> QED BY <1>0, <2>1, <2>2, <2>3, <2>4 DEF Concluded
<1>3. CASE End
  <2>1. pc = "next" /\ pc' = "done" /\ at = Len(jobs) /\ UNCHANGED <<jobs, at, fate, copies>>
    BY <1>3 DEF End
  <2>2. ~Busy
    BY <2>1 DEF Busy
  <2> QED BY <2>1, <2>2, ConcludedAside
<1>4. CASE Stage
  BY <1>4, ConcludedSettled DEF Stage, Busy
<1>5. CASE StageFails
  BY <1>5, ConcludedSettled DEF StageFails, Busy
<1>6. CASE WriteLocal
  BY <1>6, ConcludedSettled DEF WriteLocal, Local, Busy
<1>7. CASE WriteLocalFails
  BY <1>7, ConcludedSettled DEF WriteLocalFails, Local, Busy
<1>8. CASE TooLong
  BY <1>8, ConcludedSettled DEF TooLong, Remote, Busy
<1>9. CASE Accepted
  BY <1>9, ConcludedSettled DEF Accepted, Busy
<1>10. CASE Unauthorized
  BY <1>10, ConcludedSettled DEF Unauthorized, Busy
<1>11. CASE Prepare \/ Rejected \/ Correct \/ CorrectionFails
  <2>1. UNCHANGED <<jobs, at, fate, copies>> /\ Busy /\ Busy' /\ pc' # "done"
    BY <1>11 DEF Prepare, Remote, Rejected, Correct, CorrectionFails, Busy
  <2> QED BY <2>1, ConcludedAside
<1>12. CASE NotReached \/ AnswerLost
  <2>1. UNCHANGED <<jobs, at>> /\ pc = "request" /\ Busy /\ Again /\ (UNCHANGED copies \/ Copied)
    BY <1>12 DEF NotReached, AnswerLost, Busy
  <2>2. CASE try' < MaxAttempts
    <3>1. UNCHANGED <<pc, fate>>
      BY <2>1, <2>2 DEF Again
    <3> QED BY <2>1, <3>1, ConcludedAside DEF Busy
  <2>3. CASE ~(try' < MaxAttempts)
    <3>1. Return("failed")
      BY <2>1, <2>3 DEF Again
    <3> QED BY <2>1, <3>1, ConcludedSettled
  <2> QED BY <2>2, <2>3
<1>13. CASE Tick \/ UNCHANGED vars
  <2>1. UNCHANGED <<pc, jobs, at, fate, copies>>
    BY <1>13 DEF Tick, vars
  <2> QED BY <2>1, ConcludedAside DEF Busy
<1> QED BY <1>1, <1>2, <1>3, <1>4, <1>5, <1>6, <1>7, <1>8, <1>9, <1>10, <1>11, <1>12, <1>13
        DEF JobStep

LEMMA ConcludedBegin ==
  ASSUME Inv, NEW js \in Seq(Job), Len(js) <= MaxJobs, Begin(js)
  PROVE  Concluded'
<1>1. at = 0 /\ at' = 0 /\ pc' = "next" /\ Len(js) \in Nat /\ jobs' = js
  BY DEF Inv, Begin, Position, TypeOK
<1>2. \A i \in Item : fate'[i] \in {"owed", "none"}
  BY DEF Begin
<1>3. \A i \in 1..Len(js) : ~(i < 0) /\ i # 0
  BY <1>1
<1> QED BY <1>1, <1>2, <1>3 DEF Concluded

-----------------------------------------------------------------------------
(* Where the conversation is *)
PInv ==
  /\ Inv /\ Concluded
  /\ Chunked /\ Remembered /\ Accounted
  /\ src # NoSource =>
       /\ src \in Source
       /\ pc = "idle"
       /\ stage # "start" => ValidSource(src)
       /\ session.persona = NoPersona
  /\ pc # "idle" => src = NoSource /\ stage = "left"
  /\ pc = "idle" /\ stage = "left" => held \subseteq passed \cup ToSet(found) \/ src = NoSource
  /\ pc # "idle" => held \subseteq passed \cup {jobs[i].note : i \in DOMAIN jobs}

LEMMA PInitInv == PInit => PInv
<1> SUFFICES ASSUME PInit PROVE PInv
  OBVIOUS
<1>1. Inv /\ pc = "idle" /\ stage = "start"
  BY InitInv DEF PInit, Init, ExInit
<1>2. Concluded
  <2>1. Len(jobs) = 0 /\ \A i \in Item : fate[i] = "none"
    BY DEF PInit, Init
  <2> QED BY <1>1, <2>1 DEF Concluded
<1>3. convo \in Seq(Line)
  BY PipelineAssumption DEF PInit, ExInit, Line
<1>4. Chunked /\ Remembered /\ Accounted
  BY <1>3 DEF PInit, ExInit, Chunked, Remembered, Accounted
<1>5. src \in Source
  BY DEF PInit, RouteInit
<1>6. session.persona = NoPersona
  BY DEF PInit, RouteInit
<1> QED BY <1>1, <1>2, <1>4, <1>5, <1>6 DEF PInv

LEMMA ExtractInv ==
  ASSUME PInv, Extract
  PROVE  PInv'
<1>1. ExNext /\ UNCHANGED <<src, session, vars>> /\ src # NoSource /\ ValidSource(src)
  BY DEF Extract
<1>2. Chunked' /\ Remembered' /\ Accounted'
  BY <1>1, ExtractStep DEF PInv
<1>3. Inv' /\ Concluded'
  BY <1>1, NextInv, ConcludedStep DEF PInv
<1>4. pc = "idle" /\ pc' = pc /\ src' = src
  BY <1>1 DEF PInv, vars
<1>5. stage' = "left" => held' \subseteq passed' \cup ToSet(found')
  <2>1. stage' = "left" => stage = "done" /\ UNCHANGED <<held, passed, found>>
    BY <1>1 DEF ExNext, Chunk, Answer, Retry, GiveUp, Summarize, NextChunk, Leave, PInv, Chunked
  <2> QED BY <2>1 DEF PInv, Accounted
<1> QED BY <1>1, <1>2, <1>3, <1>4, <1>5 DEF PInv

(* What is routed *)
LEMMA RouteBegins ==
  ASSUME PInv, Route
  PROVE  \E js \in Seq(Job) :
           /\ Len(js) <= MaxJobs /\ Begin(js)
           /\ ToSet(found) \subseteq {js[i].note : i \in DOMAIN js}
<1>1. PICK wants \in [ToSet(found) -> SUBSET KB] :
        LET notes == [i \in DOMAIN found |-> [note |-> found[i], suggested |-> wants[found[i]]]]
            js    == RouteNotes(src, session.harness, session.persona, notes)
        IN Len(js) <= MaxJobs /\ Begin(js)
  BY DEF Route
<1>2. found \in Seq(Note) /\ src \in Source /\ ValidSource(src)
  BY DEF PInv, Chunked, Route
<1>3. Shaped(src)
  BY <1>2, PipelineAssumption DEF Shaped
<1> DEFINE notes == [i \in DOMAIN found |-> [note |-> found[i], suggested |-> wants[found[i]]]]
           S == {notes[i] : i \in DOMAIN found}
           js == RouteNotes(src, session.harness, session.persona, notes)
<1>4. DOMAIN found = 1..Len(found) /\ Len(found) \in Nat
  BY <1>2
<1>5. notes \in Seq(S) /\ Len(notes) = Len(found) /\ \A i \in 1..Len(found) : notes[i].note = found[i]
  BY <1>4
<1>6. \A s \in S : s.note \in Note
  BY <1>2, <1>4
<1>7. js \in Seq(Job) /\ Covers(js, notes, Len(notes))
  <2> HIDE DEF notes, S
  <2> QED BY <1>2, <1>3, <1>5, <1>6, RoutedNotes
<1>8. Len(js) <= MaxJobs /\ Begin(js)
  BY <1>1
<1>9. ToSet(found) \subseteq {js[i].note : i \in DOMAIN js}
  <2> SUFFICES ASSUME NEW i \in 1..Len(found) PROVE \E k \in DOMAIN js : found[i] = js[k].note
    BY <1>4 DEF ToSet
  <2> HIDE DEF notes, S, js
  <2> QED BY <1>5, <1>7 DEF Covers
<1> HIDE DEF js
<1> QED BY <1>7, <1>8, <1>9

LEMMA RouteInvP ==
  ASSUME PInv, Route
  PROVE  PInv'
<1>1. PICK js \in Seq(Job) :
           /\ Len(js) <= MaxJobs /\ Begin(js)
           /\ ToSet(found) \subseteq {js[i].note : i \in DOMAIN js}
  BY RouteBegins
<1>2. Inv' /\ Concluded'
  BY <1>1, BeginInv, ConcludedBegin DEF PInv
<1>3. /\ src' = NoSource /\ found' = <<>> /\ pc = "idle" /\ stage = "left" /\ src # NoSource
      /\ extracted = "yes"
      /\ UNCHANGED <<stage, convo, chunks, ci, summary, extracted, failed, held, passed>>
  BY DEF Route
<1>4. Chunked' /\ Remembered' /\ Accounted'
  <2>1. <<>> \in Seq(Note)
    OBVIOUS
  <2> QED BY <1>3, <2>1 DEF PInv, Chunked, Remembered, Accounted
<1>5. jobs' = js /\ pc' = "next"
  BY <1>1 DEF Begin
<1>6. held' \subseteq passed' \cup {jobs'[i].note : i \in DOMAIN jobs'}
  BY <1>1, <1>3, <1>5 DEF PInv
<1> QED BY <1>2, <1>3, <1>4, <1>5, <1>6 DEF PInv

LEMMA SubmitInv ==
  ASSUME PInv, JobStep \/ Tick \/ UNCHANGED vars, UNCHANGED <<src, session, exvars>>
  PROVE  PInv'
<1>1. Inv' /\ Concluded'
  BY NextInv, ConcludedStep DEF PInv, Next
<1>2. UNCHANGED <<src, stage, convo, chunks, ci, summary, found, extracted, failed, held, passed>>
  BY DEF exvars
<1>3. Chunked' /\ Remembered' /\ Accounted'
  BY <1>2 DEF PInv, Chunked, Remembered, Accounted, Pieces, Ahead
<1>4. UNCHANGED jobs /\ (pc = "idle" <=> pc' = "idle")
  BY DEF JobStep, Take, Skip, End, Stage, StageFails, WriteLocal, WriteLocalFails, Local, Remote,
         TooLong, Prepare, Accepted, NotReached, AnswerLost, Again, Unauthorized, Rejected, Correct,
         CorrectionFails, Return, Tick, vars
<1> QED BY <1>1, <1>2, <1>3, <1>4 DEF PInv

LEMMA PNextInv == PInv /\ [PNext]_allvars => PInv'
<1> SUFFICES ASSUME PInv, [PNext]_allvars PROVE PInv'
  OBVIOUS
<1>1. CASE Extract
  BY <1>1, ExtractInv
<1>2. CASE Route
  BY <1>2, RouteInvP
<1>3. CASE Submit \/ UNCHANGED allvars
  BY <1>3, SubmitInv DEF Submit, allvars
<1> QED BY <1>1, <1>2, <1>3 DEF PNext

-----------------------------------------------------------------------------
(* No line is lost at a boundary between two chunks, and a chunk over the
   threshold is a single line (extract.go:119). *)
THEOREM ChunksHold == PSpec => []ChunksCover
<1>1. PInv => ChunksCover
  BY DEF PInv, Chunked, Pieces, ChunksCover
<1> QED BY <1>1, PInitInv, PNextInv, PTL DEF PSpec

(* A prompt has the summary of the chunk before it, or of an older one if
   nothing since was answered (extract.go:76). *)
THEOREM SummaryHolds == PSpec => []SummaryIsLatest
<1>1. PInv => SummaryIsLatest
  <2> SUFFICES ASSUME PInv, stage = "extract", summary # 0
               PROVE  summary < ci /\ (summary + 1)..(ci - 1) \subseteq failed
    BY DEF SummaryIsLatest
  <2>1. ci \in 1..Len(chunks) /\ chunks \in Seq(Seq(Line)) /\ summary \in 0..(ci - 1)
    BY DEF PInv, Chunked, Pieces, Remembered
  <2>2. ci \in Nat /\ summary \in Nat /\ summary <= ci - 1
    BY <2>1
  <2> QED BY <2>2 DEF PInv, Remembered
<1> QED BY <1>1, PInitInv, PNextInv, PTL DEF PSpec

(* Whatever the overrides of the source and their order: the last one for the
   session's harness decides, and none for a persona does (process.go:207). *)
THEOREM OverrideHolds == PSpec => []HarnessDecides
<1>1. PInv => HarnessDecides
  <2> SUFFICES ASSUME PInv, src # NoSource PROVE HarnessDecides
    BY DEF HarnessDecides
  <2>1. /\ src.overrides \in Seq(ToSet(src.overrides))
        /\ session.persona = NoPersona
    BY PipelineAssumption DEF PInv
  <2> DEFINE general == General(src, session.harness)
             targets == BaseTargets(src, session.harness, session.persona)
  <2>2. /\ general # {} => \E i \in general : /\ \A j \in general : j <= i
                                             /\ targets = src.overrides[i].targets
        /\ general = {} => targets = src.targets
    BY <2>1, LastWins
  <2>3. HarnessDecides <=>
          IF general = {} THEN targets = src.targets
          ELSE \E i \in general : /\ \A j \in general : j <= i
                                  /\ targets = src.overrides[i].targets
    BY DEF HarnessDecides, General
  <2> HIDE DEF general, targets
  <2> QED BY <2>2, <2>3
<1> QED BY <1>1, PInitInv, PNextInv, PTL DEF PSpec

(* A note the conversation held is copied somewhere, or its loss has one of
   the known causes (process.go:289, extract.go:65). *)
THEOREM LossHolds == PSpec => []LossIsExplained
<1>1. PInv => LossIsExplained
  <2> SUFFICES ASSUME PInv, pc = "done" \/ (stage = "left" /\ extracted = "error"),
                      NEW n \in held \ passed
               PROVE  LET mine == {i \in DOMAIN jobs : jobs[i].note = n}
                      IN /\ mine # {}
                         /\ \/ \E i \in mine : copies[i] > 0
                            \/ \A i \in mine : fate[i] \in {"failed", "refused", "dropped"}
    BY DEF LossIsExplained
  <2>1. extracted # "error"
    BY DEF PInv, Accounted
  <2>2. pc = "done" /\ at = Len(jobs) /\ ~Busy
    BY <2>1 DEF PInv, Concluded, Busy
  <2>3. PICK k \in DOMAIN jobs : jobs[k].note = n
    BY <2>2 DEF PInv
  <2>4. DOMAIN jobs = 1..Len(jobs) /\ Len(jobs) \in Nat /\ 1..Len(jobs) \subseteq Item
        /\ fate \in [Item -> Fates] /\ copies \in [Item -> Nat] /\ lost \in [Item -> Nat]
    <3>1. Len(jobs) <= MaxJobs /\ MaxJobs \in Nat /\ jobs \in Seq(Job)
      BY SubmissionAssumption DEF PInv, Inv, TypeOK
    <3>2. DOMAIN jobs = 1..Len(jobs) /\ Len(jobs) \in Nat /\ 1..Len(jobs) \subseteq Item
      BY <3>1 DEF Item
    <3> QED BY <3>2 DEF PInv, Inv, TypeOK
  <2>5. ASSUME NEW i \in DOMAIN jobs
        PROVE  copies[i] > 0 \/ fate[i] \in {"failed", "refused", "dropped"}
    <3>1. fate[i] \in Fates /\ fate[i] \notin {"none", "owed"}
      BY <2>2, <2>4, <2>5 DEF PInv, Concluded
    <3>2. fate[i] = "staged" => copies[i] > 0
      BY <2>4, <2>5 DEF PInv, Concluded
    <3>3. fate[i] = "sent" => copies[i] > lost[i]
      BY <2>4, <2>5 DEF PInv, Inv, RoutedIsKept, Kept
    <3>4. copies[i] \in Nat /\ lost[i] \in Nat
      BY <2>4, <2>5
    <3> QED BY <3>1, <3>2, <3>3, <3>4 DEF Fates
  <2> QED BY <2>3, <2>5
<1> QED BY <1>1, PInitInv, PNextInv, PTL DEF PSpec

-----------------------------------------------------------------------------
(* A capture run's conversation is a run of the submission loop: what Route
   begins with are jobs for bases of the configuration. *)
THEOREM PipelineSubmits == PSpec => Spec
<1>1. PInit => Init
  BY DEF PInit
<1>2. PInv /\ [PNext]_allvars => [Next]_vars
  <2> SUFFICES ASSUME PInv, [PNext]_allvars PROVE Next \/ UNCHANGED vars
    OBVIOUS
  <2>1. CASE Extract
    BY <2>1 DEF Extract
  <2>2. CASE Route
    BY <2>2, RouteBegins DEF Next
  <2>3. CASE Submit \/ UNCHANGED allvars
    BY <2>3 DEF Submit, Next, allvars
  <2> QED BY <2>1, <2>2, <2>3 DEF PNext
<1> QED BY <1>1, <1>2, PInitInv, PNextInv, PTL DEF PSpec, Spec

(* And so what holds of the loop holds of the run: copies are explained, *)
THEOREM PipelineCopies == PSpec => []CopiesExplained
  BY PipelineSubmits, CopiesHold, PTL

(* what is counted as routed is kept, *)
THEOREM PipelineKeeps == PSpec => []RoutedIsKept
  BY PipelineSubmits, RoutedHolds, PTL

(* a base that refused is left alone, *)
THEOREM PipelineStops == PSpec => NothingAfterRefusal
  BY PipelineSubmits, RefusalHolds, PTL

(* and each job is delivered as Delivery promises. *)
THEOREM PipelineDelivers == PSpec => Delivers
  BY PipelineSubmits, Implements, PTL

(***************************************************************************)
(* The throttle                                                            *)
(***************************************************************************)
(* What makes it inductive: last never runs ahead of the clock, nobody passed
   after it, and a sleep lasts until MinDelay after what its goroutine saw,
   which is not before that goroutine's own last request. *)
Ordered ==
  /\ last <= clock
  /\ \A c \in Caller :
       /\ sentAt[c] <= last
       /\ phase[c] = "wait" => /\ sentAt[c] <= seen[c] /\ seen[c] <= last
                            /\ seen[c] + MinDelay <= wake[c]

ThInv == ThTypeOK /\ Ordered

LEMMA ThInitInv == ThInit => ThInv
  BY ThrottleAssumption DEF ThInit, ThInv, ThTypeOK, Ordered

LEMMA ThNextInv == ThInv /\ [ThNext]_thvars => ThInv'
<1> SUFFICES ASSUME ThInv, [ThNext]_thvars PROVE ThInv'
    OBVIOUS
<1> USE ThrottleAssumption
<1>1. CASE Advance
    BY <1>1 DEF ThInv, ThTypeOK, Ordered, Advance
<1>2. ASSUME NEW c \in Caller, Wait(c) PROVE ThInv'
  <2>1. ThTypeOK'
      BY <1>2 DEF ThInv, ThTypeOK, Ordered, Wait
  <2>2. wake'[c] >= last + MinDelay /\ seen'[c] = last /\ sentAt' = sentAt
      BY <1>2 DEF ThInv, ThTypeOK, Ordered, Wait
  <2>3. Ordered'
      BY <1>2, <2>2 DEF ThInv, ThTypeOK, Ordered, Wait
  <2> QED BY <2>1, <2>3 DEF ThInv
<1>3. ASSUME NEW c \in Caller, Pass(c) PROVE ThInv'
  <2>1. ThTypeOK'
      BY <1>3 DEF ThInv, ThTypeOK, Ordered, Pass
  <2>2. Ordered'
      BY <1>3 DEF ThInv, ThTypeOK, Ordered, Pass
  <2> QED BY <2>1, <2>2 DEF ThInv
<1>4. ASSUME NEW c \in Caller, Cancelled(c) PROVE ThInv'
    BY <1>4 DEF ThInv, ThTypeOK, Ordered, Cancelled
<1>5. ASSUME NEW c \in Caller, Sent(c) PROVE ThInv'
    BY <1>5 DEF ThInv, ThTypeOK, Ordered, Sent
<1>6. CASE UNCHANGED thvars
    BY <1>6 DEF ThInv, ThTypeOK, Ordered, thvars
<1> QED BY <1>1, <1>2, <1>3, <1>4, <1>5, <1>6 DEF ThNext

(* Type correctness. *)
THEOREM ThrottleTypeCorrect == ThSpec => []ThTypeOK
<1>1. ThInv => ThTypeOK
    BY DEF ThInv
<1> QED BY <1>1, ThInitInv, ThNextInv, PTL DEF ThSpec

(* Only a pass leads from "wait" to "send". *)
LEMMA OnlyPass ==
  ASSUME ThInv, ThNext, NEW c \in Caller, phase[c] = "wait", phase'[c] = "send"
  PROVE  Pass(c)
<1>1. CASE Advance
    BY <1>1 DEF Advance
<1>2. ASSUME NEW d \in Caller, Wait(d) PROVE Pass(c)
    BY <1>2 DEF Wait, ThInv, ThTypeOK
<1>3. ASSUME NEW d \in Caller, Pass(d) PROVE Pass(c)
    BY <1>3 DEF Pass, ThInv, ThTypeOK
<1>4. ASSUME NEW d \in Caller, Cancelled(d) PROVE Pass(c)
    BY <1>4 DEF Cancelled, ThInv, ThTypeOK
<1>5. ASSUME NEW d \in Caller, Sent(d) PROVE Pass(c)
    BY <1>5 DEF Sent, ThInv, ThTypeOK
<1> QED BY <1>1, <1>2, <1>3, <1>4, <1>5 DEF ThNext

(* A goroutine keeps to the rate, and a submission that is closer to another's
   than MinDelay had looked before that one passed (remote.go:49 reads,
   remote.go:62 writes). *)
THEOREM RateKeptHolds == ThSpec => RateKept
<1>1. ASSUME ThInv, [ThNext]_thvars
      PROVE  [\A c \in Caller :
                phase[c] = "wait" /\ phase'[c] = "send" =>
                  /\ clock - sentAt[c] >= MinDelay
                  /\ clock - last < MinDelay => seen[c] < last]_thvars
  <2> SUFFICES ASSUME ThNext, NEW c \in Caller, phase[c] = "wait", phase'[c] = "send"
               PROVE  /\ clock - sentAt[c] >= MinDelay
                      /\ clock - last < MinDelay => seen[c] < last
      BY <1>1 DEF thvars
  <2>1. Pass(c)
      BY <1>1, OnlyPass
  <2> QED BY <1>1, <2>1, ThrottleAssumption DEF ThInv, ThTypeOK, Ordered, Pass
<1> QED BY <1>1, ThInitInv, ThNextInv, PTL DEF ThSpec, RateKept
=============================================================================
