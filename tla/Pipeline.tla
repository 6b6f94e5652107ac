------------------------------- MODULE Pipeline -------------------------------
(***************************************************************************)
(* One conversation through a capture run (cli/internal/cmd/process.go):   *)
(* load the configuration, extract (module Extraction), route (module      *)
(* Routing), submit (module Submission).  The session's timestamp was      *)
(* advanced before the extraction, so nothing of it is tried again.        *)
(***************************************************************************)
EXTENDS Extraction, Submission

CONSTANTS
  Source,    \* source entries a configuration may have, valid or not
  Harness,
  NoSource

(* A translated line is a JSON object, of more than half a token *)
ASSUME PipelineAssumption ==
  /\ Convo \subseteq Seq([tokens : Nat \ {0}, notes : Seq(Note)])
  /\ \A s \in Source :
       /\ s.targets \in Seq(ToSet(s.targets))
       /\ s.overrides \in Seq(ToSet(s.overrides))
       /\ \A ov \in ToSet(s.overrides) : ov.targets \in Seq(ToSet(ov.targets))

VARIABLES
  src,       \* the source of the session, NoSource once it has been routed
  session    \* its harness and persona, likewise

allvars == <<src, session, exvars, vars>>

(* discoverSessions fills in the harness of a session and never its persona *)
RouteInit ==
  /\ src \in Source
  /\ session \in [harness : Harness, persona : {NoPersona}]

PInit == RouteInit /\ ExInit /\ Init

(* config.Load: a run with an invalid configuration ends at once *)
Extract ==
  /\ src # NoSource /\ ValidSource(src)
  /\ ExNext
  /\ UNCHANGED <<src, session, vars>>

(* The names the model suggests for the notes are anybody's guess *)
Route ==
  /\ pc = "idle" /\ src # NoSource /\ stage = "left" /\ extracted = "yes"
  /\ \E wants \in [ToSet(found) -> SUBSET KB] :
       LET notes == [i \in DOMAIN found |-> [note |-> found[i], suggested |-> wants[found[i]]]]
           js    == RouteNotes(src, session.harness, session.persona, notes)
       IN Len(js) <= MaxJobs /\ Begin(js)
  /\ src' = NoSource
  /\ session' = NoSource
  /\ found' = <<>>
  /\ UNCHANGED <<stage, convo, chunks, ci, tries, summary, extracted, failed, held, passed>>

Submit == (JobStep \/ Tick) /\ UNCHANGED <<src, session, exvars>>

PNext == Extract \/ Route \/ Submit

(* The run is one thread that goes on while it can *)
PSpec ==
  /\ PInit /\ [][PNext]_allvars
  /\ WF_allvars(Extract) /\ WF_allvars(Route)
  /\ WF_allvars(JobStep /\ UNCHANGED <<src, session, exvars>>)

-----------------------------------------------------------------------------
(* The last override that names the session's harness and no persona
   decides, wherever it stands among the others; without one the source's own
   targets stand.  An override for a persona, with the approvals it asks for,
   is never used: no session has a persona (process.go:207).  The
   documentation promises it to the sessions of that persona (spec.md:280). *)
HarnessDecides ==
  src # NoSource =>
    LET ovs     == src.overrides
        general == {i \in DOMAIN ovs : /\ ovs[i].harness = session.harness
                                       /\ ovs[i].persona = NoPersona}
        targets == BaseTargets(src, session.harness, session.persona)
    IN IF general = {} THEN targets = src.targets
       ELSE \E i \in general : /\ \A j \in general : j <= i
                               /\ targets = ovs[i].targets

(* When the run is over, every note the conversation held was put somewhere,
   or the loss has one of the known causes: the model never answered for
   its chunk, the parser dropped it, or every one of its targets failed,
   refused it, or was closed by an earlier refusal. *)
LossIsExplained ==
  pc = "done" \/ (stage = "left" /\ extracted = "error") =>
    \A n \in held \ passed :
      LET mine == {i \in DOMAIN jobs : jobs[i].note = n}
      IN /\ mine # {}
         /\ \/ \E i \in mine : copies[i] > 0
            \/ \A i \in mine : fate[i] \in {"failed", "refused", "dropped"}

(* Every conversation of a valid source is extracted and submitted to the
   end, whatever fails on the way. *)
RunEnds ==
  src # NoSource /\ ValidSource(src) ~> (extracted = "error" \/ pc = "done")
=============================================================================
