------------------------------ MODULE MCPipeline ------------------------------
(* One conversation of up to three lines, for TLC *)
EXTENDS Pipeline, TLC

CONSTANTS n1, n2, remote, unknown, default, coder, claude, notor

Line(t, ns) == [tokens |-> t, notes |-> ns]
MCConvo ==
  LET lines == {Line(1, <<n1>>), Line(2, <<n2>>), Line(1, <<>>), Line(3, <<>>)}
  IN {c \in BoundedSeq(lines, 3) : Len(Notes(c)) <= 2}

T(kb, routing, approval) == [kb |-> kb, routing |-> routing, approval |-> approval]
Auto(kb)     == T(kb, "always", "auto-approve")
Consider(kb) == T(kb, "consider", "auto-approve")
Manual(kb)   == T(kb, "always", "require-manual-approval")

Ov(h, p, ts) == [harness |-> h, persona |-> p, targets |-> ts]

(* Overrides for a persona, for a harness, of another harness, not valid *)
Exact   == Ov(notor, coder, << Manual(remote), Consider(default) >>)
General == Ov(notor, NoPersona, << Manual(default) >>)
Later   == Ov(notor, NoPersona, << Manual(remote), Consider(default) >>)
Wrong   == Ov(notor, NoPersona, << Auto(unknown) >>)

MCSource ==
  { [targets |-> <<Consider(remote)>>, overrides |-> << Wrong >>],
    [targets |-> <<Auto(remote), Manual(remote)>>, overrides |-> <<>>],
    [targets |-> <<Auto(remote), Manual(default)>>, overrides |-> << General, Exact >>],
    [targets |-> <<Consider(remote)>>, overrides |-> << General, Exact, Later >>] }
=============================================================================
