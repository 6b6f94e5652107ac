--------------------------------- MODULE Hook ---------------------------------
(***************************************************************************)
(* The hook that a harness runs at each prompt (cmd/hook.go,               *)
(* hook/inject.go): for the first prompt of a conversation it asks every   *)
(* knowledge base of the directory at once, with one timeout for all, and  *)
(* prints what they know.                                                  *)
(***************************************************************************)
EXTENDS Recall

CONSTANTS
  Local,       \* local knowledge bases
  Remote,      \* remote ones in the configuration
  Unknown,     \* names that are neither
  MaxLines     \* bound on the lines of a transcript

ASSUME HookAssumption == MaxLines \in Nat /\ IsFiniteSet(Local) /\ IsFiniteSet(Remote)

VARIABLES
  transcript,  \* lines of the conversation so far: "user", "other", or "long"
  line,        \* what the harness will write for the current prompt
  pc,          \* where the hook is
  keywords,    \* what the local search is given: "fit", or rejected by it
  expired,     \* the timeout has passed
  waiting,     \* knowledge bases still asked
  lists,       \* non-empty answers, as they arrive
  errors,      \* knowledge bases logged in hook-errors.jsonl
  printed,     \* the notes put out
  blocks       \* how often notes were put out in this conversation

inject == <<keywords, expired, waiting, lists, errors>>
vars   == <<transcript, line, pc, inject, printed, blocks>>

KB == Local \cup Remote
Result == [uid : LocalUid \cup RemoteUid, kb : KB]

TypeOK ==
  /\ transcript \in Seq({"user", "other", "long"}) /\ Len(transcript) <= MaxLines
  /\ line \in {"none", "user", "long"}
  /\ pc \in {"idle", "keywords", "query", "print"}
  /\ keywords \in {"none", "fit", "rejected"}
  /\ expired \in BOOLEAN
  /\ waiting \subseteq KB /\ errors \subseteq KB
  /\ lists \in Seq(Seq(Result)) /\ Len(lists) <= Cardinality(KB)
  /\ printed \in Seq(Result) /\ Len(printed) <= MaxResults
  /\ blocks \in 0..(MaxLines + 1)

Init ==
  /\ transcript = <<>> /\ line = "none"
  /\ pc = "idle" /\ keywords = "none" /\ expired = FALSE
  /\ waiting = {} /\ lists = <<>> /\ errors = {}
  /\ printed = <<>> /\ blocks = 0

-----------------------------------------------------------------------------
(* isNotFirstMessage: is there a line of the user's?  The scanner gives up at
   a line that does not fit its buffer, and what follows is not seen. *)

(* Fault: the current prompt is taken to be in the transcript already *)
NotFirst_Second(t) == Cardinality({i \in DOMAIN t : t[i] = "user"}) > 1

NotFirst(t) == \E i \in DOMAIN t : t[i] = "user" /\ \A j \in 1..i : t[j] # "long"

(* The harness writes the line of a prompt when the hook has ended, and other
   lines in between *)
Prompt(l) ==
  /\ pc = "idle" /\ Len(transcript) < MaxLines
  /\ IF NotFirst(transcript)
     THEN transcript' = Append(transcript, l) /\ UNCHANGED <<line, pc>>
     ELSE line' = l /\ pc' = "keywords" /\ UNCHANGED transcript
  /\ UNCHANGED <<inject, printed, blocks>>

Other(l) ==
  /\ pc = "idle" /\ Len(transcript) < MaxLines
  /\ transcript' = Append(transcript, l)
  /\ UNCHANGED <<line, pc, inject, printed, blocks>>

Expire ==
  /\ pc \in {"keywords", "query"} /\ ~expired
  /\ expired' = TRUE
  /\ UNCHANGED <<transcript, line, pc, keywords, waiting, lists, errors, printed, blocks>>

End ==
  /\ pc' = "idle"
  /\ transcript' = Append(transcript, line) /\ line' = "none"
  /\ keywords' = "none" /\ expired' = FALSE
  /\ waiting' = {} /\ lists' = <<>> /\ errors' = {} /\ printed' = <<>>

(* The directory is no source, or its targets name nothing known *)
NoTargets ==
  /\ pc = "keywords"
  /\ End
  /\ UNCHANGED blocks

(* The keywords come from the model, or from the words of the prompt if it
   fails or does not answer in time; both may have a character the local
   search does not take. *)
Derived == {"fit", "rejected"}
Takes(kws) == kws = "fit"

(* A target named twice is asked once, an unknown one not at all. *)
Ask(targets) ==
  /\ pc = "keywords"
  /\ targets \cap KB # {}
  /\ waiting' = targets \cap KB
  /\ keywords' \in Derived
  /\ pc' = "query"
  /\ UNCHANGED <<transcript, line, expired, lists, errors, printed, blocks>>

-----------------------------------------------------------------------------
(* The answers, in any order *)

Answer(kb, uids) ==
  /\ pc = "query" /\ kb \in waiting
  /\ waiting' = waiting \ {kb}
  /\ lists' = IF uids = <<>> THEN lists
              ELSE Append(lists, [i \in DOMAIN uids |-> [uid |-> uids[i], kb |-> kb]])
  /\ UNCHANGED <<transcript, line, pc, keywords, expired, errors, printed, blocks>>

Fails(kb) ==
  /\ pc = "query" /\ kb \in waiting
  /\ waiting' = waiting \ {kb}
  /\ errors' = errors \cup {kb}
  /\ UNCHANGED <<transcript, line, pc, keywords, expired, lists, printed, blocks>>

(* git grep knows nothing of the timeout *)
LocalAnswers(kb) == kb \in Local /\ Takes(keywords) /\ \E uids \in LocalLists : Answer(kb, uids)
LocalFails(kb)   == kb \in Local /\ Fails(kb)

RemoteAnswers(kb) == kb \in Remote /\ ~expired /\ \E uids \in RemoteLists : Answer(kb, uids)
RemoteFails(kb)   == kb \in Remote /\ Fails(kb)

(* Fault: the request does not have the context, and waits for its answer *)
TimesOut_NoContext(kb) == FALSE /\ UNCHANGED vars

(* An empty answer, and no error; so is an answer with status 400 *)
TimesOut(kb) == kb \in Remote /\ expired /\ Answer(kb, <<>>)
Refused(kb)  == kb \in Remote /\ ~expired /\ Answer(kb, <<>>)

(* wg.Wait: when the last one is in, and not before *)
Merge ==
  /\ pc = "query" /\ waiting = {}
  /\ printed' = InterleaveResults(lists)
  /\ pc' = "print"
  /\ UNCHANGED <<transcript, line, inject, blocks>>

PutOut ==
  /\ pc = "print"
  /\ blocks' = IF printed = <<>> THEN blocks ELSE blocks + 1
  /\ End

-----------------------------------------------------------------------------
AnswersIn(kb) ==
  LocalAnswers(kb) \/ LocalFails(kb) \/ RemoteAnswers(kb) \/ RemoteFails(kb) \/ TimesOut(kb)
    \/ Refused(kb)

Next ==
  \/ \E l \in {"user", "long"} : Prompt(l)
  \/ \E l \in {"other", "long"} : Other(l)
  \/ Expire \/ NoTargets \/ Merge \/ PutOut
  \/ \E targets \in SUBSET (KB \cup Unknown) : Ask(targets)
  \/ \E kb \in KB : AnswersIn(kb)

(* The clock runs, the hook goes on, a local search ends; a remote one may
   never answer. *)
Fairness ==
  /\ WF_vars(Expire) /\ WF_vars(Merge) /\ WF_vars(PutOut)
  /\ WF_vars(NoTargets \/ \E targets \in SUBSET (KB \cup Unknown) : Ask(targets))
  /\ \A kb \in KB : WF_vars(LocalFails(kb) \/ LocalAnswers(kb)) /\ WF_vars(TimesOut(kb))

Spec == Init /\ [][Next]_vars /\ Fairness

-----------------------------------------------------------------------------
(* However the answers arrive: no note is put out twice, though two knowledge
   bases may have it (merge.go:33). *)
NothingTwice ==
  \A i, j \in DOMAIN printed : printed[i].uid = printed[j].uid => i = j

(* A result is left out only if there are enough, and none of these was ranked
   lower by every knowledge base that has it: no list is used up at the
   expense of another, whichever arrived first (merge.go:29). *)
RankedFairly ==
  pc = "print" =>
    \A l \in DOMAIN lists : \A i \in DOMAIN lists[l] :
      \/ lists[l][i].uid \in Uids(printed)
      \/ /\ Len(printed) = MaxResults
         /\ \A k \in DOMAIN printed :
              \E m \in DOMAIN lists : \E r \in DOMAIN lists[m] :
                r <= i /\ lists[m][r].uid = printed[k].uid

(* Notes are put out once in a conversation, at its start (cmd/hook.go:76),
   unless a line was too long for the scanner. *)
InjectedOnce ==
  blocks > 1 => \E i \in DOMAIN transcript : transcript[i] = "long"

(* A follow-up of the recall function cannot hide a note: what it found, and
   the first query had not, is returned unless enough others are at least as
   relevant (recall/index.ts:190).  It does not depend on the state. *)
FollowUpCompetes ==
  pc = "idle" /\ transcript = <<>> => \A first, more \in Retrievals :
    LET all == Combined(first, more)
    IN \A i \in DOMAIN more :
         more[i].uid \notin Uids(first) =>
           \/ \E k \in DOMAIN all : all[k] = more[i]
           \/ Len(all) = Limit /\ \A k \in DOMAIN all : all[k].score >= more[i].score

(* The prompt is not held up for good: whatever the knowledge bases do, the
   hook ends, a remote one that never answers at the timeout. *)
HookEnds == pc # "idle" ~> pc = "idle"
=============================================================================
