------------------------------- MODULE Routing -------------------------------
(***************************************************************************)
(* Which knowledge bases a note goes to (cli/internal/route/route.go) and  *)
(* which configurations are refused (cli/internal/config/validate.go), as  *)
(* far as routing depends on it.                                           *)
(*                                                                         *)
(*   target    [kb, routing, approval]                                     *)
(*   override  [harness, persona, targets]                                 *)
(*   source    [targets, overrides]                                        *)
(***************************************************************************)
EXTENDS Sequences, SequencesExt

CONSTANTS
  RemoteKB,  \* the names in knowledge_bases
  LocalKB,   \* local/<name>, any name
  Default,   \* local/default
  NoPersona  \* the empty persona

ASSUME RoutingAssumption == Default \in LocalKB

-----------------------------------------------------------------------------
(* Validation *)

ValidTarget(t) ==
  /\ t.kb \in LocalKB \cup RemoteKB
  /\ t.routing \in {"always", "consider"}
  /\ t.approval \in {"auto-approve", "require-manual-approval"}

ValidTargets(ts) == \A i \in DOMAIN ts : ValidTarget(ts[i])

(* An override's harness and persona are not looked at *)
ValidSource(src) ==
  /\ ValidTargets(src.targets)
  /\ \A i \in DOMAIN src.overrides : ValidTargets(src.overrides[i].targets)

-----------------------------------------------------------------------------
(* Routing *)

(* Fault: an override for a persona counts for every session of its harness *)
BaseTargets_AnyPersona(src, harness, persona) ==
  LET Try(found, ov) == IF ov.harness = harness THEN ov.targets ELSE found
  IN FoldLeft(Try, src.targets, src.overrides)

(* The loop over the overrides: one with the session's persona ends it, one
   without a persona replaces what was found before *)
BaseTargets(src, harness, persona) ==
  LET Try(found, ov) ==
        IF found.final \/ ov.harness # harness THEN found
        ELSE IF persona # NoPersona /\ ov.persona = persona
        THEN [final |-> TRUE, targets |-> ov.targets]
        ELSE IF ov.persona = NoPersona
        THEN [final |-> FALSE, targets |-> ov.targets]
        ELSE found
  IN FoldLeft(Try, [final |-> FALSE, targets |-> src.targets], src.overrides).targets

(* suggested: the targets whose bare names the model named.  local/<x> and
   a remote base <x> have one bare name. *)
Wanted(t, suggested) ==
  \/ t.routing = "always"
  \/ t.routing = "consider" /\ t.kb \in suggested

(* Fault: no default when no target wants the note *)
Resolve_NoDefault(src, harness, persona, suggested) ==
  SelectSeq(BaseTargets(src, harness, persona), LAMBDA t : Wanted(t, suggested))

Resolve(src, harness, persona, suggested) ==
  LET Add(ts, t) == IF Wanted(t, suggested) THEN Append(ts, t) ELSE ts
      chosen == FoldLeft(Add, <<>>, BaseTargets(src, harness, persona))
  IN IF chosen = <<>>
     THEN << [kb |-> Default, routing |-> "always", approval |-> "auto-approve"] >>
     ELSE chosen

(* The jobs for the extracted notes, each with its suggestions, in order *)
RouteNotes(src, harness, persona, notes) ==
  LET Jobs(n) ==
        LET ts == Resolve(src, harness, persona, n.suggested)
        IN [i \in DOMAIN ts |-> [note   |-> n.note, kb |-> ts[i].kb,
                                 manual |-> ts[i].approval = "require-manual-approval"]]
  IN FoldLeft(LAMBDA js, n : js \o Jobs(n), <<>>, notes)
=============================================================================
