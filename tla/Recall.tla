-------------------------------- MODULE Recall --------------------------------
(***************************************************************************)
(* How recalled notes are ranked: by the search of a local knowledge base  *)
(* (git/grep.go), by the recall function of a remote one                   *)
(* (cdk/lambda/recall), and when the lists of several are merged for the   *)
(* prompt (recall/merge.go).                                               *)
(***************************************************************************)
EXTENDS Naturals, Sequences, FiniteSets, SequencesExt, FiniteSetsExt

CONSTANTS
  LocalUid,    \* uids of the notes of a local knowledge base
  RemoteUid,   \* and of a remote one
  Scores,      \* match counts, and relevance scores of the search index
  Threshold,   \* COVERAGE_SCORE_THRESHOLD
  Limit,       \* how many results a remote one is asked for
  MaxResults   \* how many are put into the prompt

ASSUME RecallAssumption ==
  /\ IsFiniteSet(LocalUid)
  /\ Scores \subseteq Nat /\ Threshold \in Nat
  /\ Limit \in Nat \ {0} /\ MaxResults \in Nat \ {0}

-----------------------------------------------------------------------------
Lesser(m, n) == IF m < n THEN m ELSE n

(* GrepNotes: the active notes with a match, by descending count.  They come
   out of a map: which of two with one count is first is left to chance, and
   there is no limit. *)
GrepNotes(active, count) ==
  LET matched == {u \in active : count[u] > 0}
  IN {s \in SetToSeqs(matched) : \A i, j \in DOMAIN s : i < j => count[s[i]] >= count[s[j]]}

LocalLists ==
  UNION {GrepNotes(active, count) : active \in SUBSET LocalUid, count \in [LocalUid -> Scores]}

-----------------------------------------------------------------------------
(* The recall function.  A retrieval is a sequence of hits, best first, each
   note at most once (it is one chunk). *)
Hit == [uid : RemoteUid, score : Scores]

Retrievals ==
  {s \in UNION {[1..n -> Hit] : n \in 0..Limit} :
     \A i, j \in DOMAIN s : i < j => s[i].uid # s[j].uid /\ s[i].score >= s[j].score}

Uids(s) == {s[i].uid : i \in DOMAIN s}

(* Array.sort by descending score, which is stable *)
Higher(s, j, i) == s[j].score > s[i].score \/ (s[j].score = s[i].score /\ j < i)

ByScore(s, kept) ==
  [k \in 1..Cardinality(kept) |->
     s[CHOOSE i \in kept : Cardinality({j \in kept : Higher(s, j, i)}) = k - 1]]

(* A second retrieval, with the query the model refined, adds what the first
   did not have *)
Joined(first, more) ==
  {i \in DOMAIN (first \o more) : i <= Len(first) \/ (first \o more)[i].uid \notin Uids(first)}

(* Fault: cut before it is sorted *)
Combined_CutFirst(first, more) ==
  ByScore(first \o more,
          {i \in Joined(first, more) : Cardinality({j \in Joined(first, more) : j < i}) < Limit})

Combined(first, more) ==
  LET all == ByScore(first \o more, Joined(first, more))
  IN SubSeq(all, 1, Lesser(Limit, Len(all)))

Weak(first) == first # <<>> /\ first[1].score < Threshold

(* No second one if the first is good enough, the model sees no gap, or it or
   the retrieval fails *)
Served(first, more, gap) == IF Weak(first) /\ gap THEN Combined(first, more) ELSE first

(* What a model says of the first results, or that it could not be asked *)
Assessments == BOOLEAN

RemoteLists ==
  {[i \in DOMAIN s |-> s[i].uid] : s \in
     {Served(first, more, gap) : first \in Retrievals, more \in Retrievals, gap \in Assessments}}

-----------------------------------------------------------------------------
(* InterleaveResults: the best of each list, then the second of each, ...
   without a note's second occurrence, until there are enough *)
Turns(lists) == UNION {{[list |-> l, rank |-> r] : r \in DOMAIN lists[l]} : l \in DOMAIN lists}

At(lists, t) == lists[t.list][t.rank]

(* Fault: one list after the other *)
Before_Concat(s, t) == s.list < t.list \/ (s.list = t.list /\ s.rank < t.rank)

Before(s, t) == s.rank < t.rank \/ (s.rank = t.rank /\ s.list < t.list)

(* Fault: the same note from two sources is two *)
Unseen_BySource(lists, t) ==
  \A s \in Turns(lists) : Before(s, t) => At(lists, s) # At(lists, t)

Unseen(lists, t) ==
  \A s \in Turns(lists) : Before(s, t) => At(lists, s).uid # At(lists, t).uid

Fresh(lists) == {t \in Turns(lists) : Unseen(lists, t)}

(* The k-th of those that are put out, were there no limit *)
Nth(lists, k) ==
  CHOOSE t \in Fresh(lists) : Cardinality({s \in Fresh(lists) : Before(s, t)}) = k - 1

(* Fault: no limit but that of each list *)
InterleaveResults_All(lists) ==
  [k \in 1..Cardinality(Fresh(lists)) |-> At(lists, Nth(lists, k))]

InterleaveResults(lists) ==
  [k \in 1..Lesser(MaxResults, Cardinality(Fresh(lists))) |-> At(lists, Nth(lists, k))]
=============================================================================
