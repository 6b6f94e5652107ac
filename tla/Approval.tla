------------------------------ MODULE Approval ------------------------------
(***************************************************************************)
(* The pending queue ~/.multi-kb/pending (cli/internal/route/pending.go)   *)
(* and the approval web server over it (cli/internal/approve).             *)
(*                                                                         *)
(* A pending file lists the KBs a note still waits for.  The capture run   *)
(* creates files; HTTP handlers, one goroutine per request and no lock     *)
(* between them, submit a note to one KB or reject it and then take the KB *)
(* off the list with a read, a truncation and a write (or a removal).  The *)
(* server can stop at any moment: its graceful shutdown waits five seconds *)
(* for the handlers and then the process exits.                            *)
(*                                                                         *)
(* staged, approved, rejected, acked, delivered and hazard are history     *)
(* variables: no action reads them to decide what to do.                   *)
(***************************************************************************)
EXTENDS Naturals, FiniteSets

CONSTANTS
  File,         \* pending filenames: <second>-<hash of the note>
  Target,       \* knowledge bases
  Handler,      \* requests that can be served at the same time
  TargetLists,  \* the target_kbs lists CreatePending is called with
  NoFile,       \* there is no such file
  Empty,        \* truncated, not written yet
  Garbage,      \* left by two interleaved writes: does not parse
  NoRequest     \* what a handler that is not serving one holds

Item     == File \X Target
Requests == [act : {"approve", "reject"}, f : File, k : Target]

ASSUME ApprovalAssumption ==
  /\ TargetLists \subseteq SUBSET Target /\ {} \notin TargetLists
  /\ \A S \in SUBSET Target : S # NoFile /\ S # Empty /\ S # Garbage
  /\ NoFile # Empty /\ NoFile # Garbage /\ Empty # Garbage
  /\ NoRequest \notin Requests

VARIABLES
  entry,      \* [File -> what is on disk]
  creating,   \* the CreatePending the capture run has under way: {} or one
              \* <<file, list, what became of the file it has open>>
  srv,        \* the approval server: "down", "up", "closing"
  resolvedCh, \* allResolvedCh holds a signal
  pc, req,    \* per handler: where it is and the request it serves
  rest,       \* per handler: the list it read, without its target
  detached,   \* handlers whose open descriptor is of a removed file
  staged, approved, rejected, acked, delivered, hazard

disk    == <<entry, detached>>
history == <<staged, approved, rejected, acked, delivered, hazard>>
vars    == <<entry, creating, srv, resolvedCh, pc, req, rest, detached,
             staged, approved, rejected, acked, delivered, hazard>>

PCs      == {"idle", "submit", "update", "delete", "open", "write", "check"}
Hazards  == {"collision", "interleaved", "torn", "twin", "unrecorded",
             "relisted"}

TypeOK ==
  /\ entry \in [File -> {NoFile, Empty, Garbage} \cup SUBSET Target]
  /\ creating \subseteq File \X TargetLists \X {"linked", "removed"}
  /\ srv \in {"down", "up", "closing"}
  /\ resolvedCh \in BOOLEAN
  /\ pc \in [Handler -> PCs]
  /\ req \in [Handler -> Requests \cup {NoRequest}]
  /\ rest \in [Handler -> SUBSET Target]
  /\ detached \subseteq Handler
  /\ staged \subseteq Item /\ approved \subseteq Item
  /\ rejected \subseteq Item /\ acked \subseteq Item
  /\ delivered \in [Item -> 0..2]
  /\ hazard \subseteq Hazards

Init ==
  /\ entry = [f \in File |-> NoFile]
  /\ creating = {}
  /\ srv = "down" /\ resolvedCh = FALSE
  /\ pc = [h \in Handler |-> "idle"]
  /\ req = [h \in Handler |-> NoRequest]
  /\ rest = [h \in Handler |-> {}]
  /\ detached = {} /\ staged = {} /\ approved = {} /\ rejected = {}
  /\ acked = {} /\ hazard = {}
  /\ delivered = [i \in Item |-> 0]

-----------------------------------------------------------------------------
(* Files *)

Readable(f) == entry[f] \notin {NoFile, Empty, Garbage}
Listed(f)   == IF Readable(f) THEN entry[f] ELSE {}
Present     == {f \in File : entry[f] # NoFile}

Writers(f) == {h \in Handler : pc[h] = "write" /\ req[h].f = f}

(* The bytes at f after a list is written through a descriptor: none of    *)
(* them if that file was removed since, and a mixture if another list of   *)
(* another length was written since the truncation.                        *)
Written(f, list, linked) ==
  IF ~linked THEN {entry[f]}
  ELSE IF entry[f] = Empty THEN {list}
  ELSE {list, Garbage}

-----------------------------------------------------------------------------
(* CreatePending, called by the capture run.  The name is computed from    *)
(* the note and the second, so a second target of the same note within the *)
(* same second opens, and truncates, the same file.                        *)

CreateOpen(f, T) ==
  /\ creating = {}
  /\ \A k \in T : <<f, k>> \notin staged
  /\ creating' = {<<f, T, "linked">>}
  /\ entry' = [entry EXCEPT ![f] = Empty]
  /\ hazard' = IF \E k \in Target : <<f, k>> \in staged
               THEN hazard \cup {"collision"} ELSE hazard
  /\ UNCHANGED <<srv, resolvedCh, pc, req, rest, detached, staged, approved,
                 rejected, acked, delivered>>

CreateWrite(f, T, link) ==
  /\ <<f, T, link>> \in creating
  /\ creating' = {}
  /\ \E bytes \in Written(f, T, link = "linked") :
       entry' = [entry EXCEPT ![f] = bytes]
  /\ staged' = staged \cup {<<f, k>> : k \in T}
  /\ UNCHANGED <<srv, resolvedCh, pc, req, rest, detached, approved,
                 rejected, acked, delivered, hazard>>

(* The capture run dies, or its write fails, between the two *)
CreateFails ==
  /\ creating # {}
  /\ creating' = {}
  /\ UNCHANGED <<disk, srv, resolvedCh, pc, req, rest, history>>

-----------------------------------------------------------------------------
(* The handlers *)

InFlight(h) == pc[h] \notin {"idle", "check"}

Goto(h, to) == pc' = [pc EXCEPT ![h] = to]

(* The handler answers and returns; the check for an empty queue is next *)
Answer(h) ==
  /\ pc' = [pc EXCEPT ![h] = "check"]
  /\ req' = [req EXCEPT ![h] = NoRequest]
  /\ rest' = [rest EXCEPT ![h] = {}]

(* A POST for a target that is not listed, or of a file that cannot be     *)
(* read, is answered 404 or 400 and nothing changes.                       *)
RequestRefused(h, r) ==
  /\ srv = "up" /\ pc[h] = "idle"
  /\ r.k \notin Listed(r.f)
  /\ Answer(h)
  /\ UNCHANGED <<disk, creating, srv, resolvedCh, history>>

Request(h, r) ==
  /\ srv = "up" /\ pc[h] = "idle"
  /\ r.k \in Listed(r.f)
  /\ req' = [req EXCEPT ![h] = r]
  /\ Goto(h, IF r.act = "approve" THEN "submit" ELSE "update")
  /\ rejected' = IF r.act = "reject"
                 THEN rejected \cup {<<r.f, r.k>>} ELSE rejected
  /\ hazard' = IF \E g \in Handler : InFlight(g) /\ req[g].f = r.f
                                                 /\ req[g].k = r.k
               THEN hazard \cup {"twin"} ELSE hazard
  /\ UNCHANGED <<disk, creating, srv, resolvedCh, rest, staged, approved,
                 acked, delivered>>

ItemOf(h) == <<req[h].f, req[h].k>>

(* History counts up to two: only "more than once" matters *)
Deliver(h) ==
  delivered' = [delivered EXCEPT ![ItemOf(h)] = IF @ < 2 THEN @ + 1 ELSE @]

SubmitOK_NoUpdate(h) ==
  /\ pc[h] = "submit"
  /\ Answer(h)
  /\ Deliver(h)
  /\ approved' = approved \cup {ItemOf(h)}
  /\ UNCHANGED <<disk, creating, srv, resolvedCh, staged, rejected, acked,
                 hazard>>

SubmitOK(h) ==
  /\ pc[h] = "submit"
  /\ Goto(h, "update")
  /\ Deliver(h)
  /\ approved' = approved \cup {ItemOf(h)}
  /\ UNCHANGED <<disk, creating, srv, resolvedCh, req, rest, staged, rejected,
                 acked, hazard>>

SubmitFails_Drops(h) ==
  /\ pc[h] = "submit"
  /\ Goto(h, "update")
  /\ UNCHANGED <<disk, creating, srv, resolvedCh, req, rest, history>>

(* 502: the file is not touched *)
SubmitFails(h) ==
  /\ pc[h] = "submit"
  /\ Answer(h)
  /\ UNCHANGED <<disk, creating, srv, resolvedCh, history>>

(* 502 although the note arrived: the answer was lost, or a local note was *)
(* written and its commit failed.                                          *)
SubmitUnknown(h) ==
  /\ pc[h] = "submit"
  /\ Answer(h)
  /\ Deliver(h)
  /\ hazard' = hazard \cup {"unrecorded"}
  /\ UNCHANGED <<disk, creating, srv, resolvedCh, staged, approved,
                 rejected, acked>>

-----------------------------------------------------------------------------
(* UpdatePending *)

UpdateRead(h) ==
  /\ pc[h] = "update" /\ Readable(req[h].f)
  /\ LET left == entry[req[h].f] \ {req[h].k}
     IN  /\ rest' = [rest EXCEPT ![h] = left]
         /\ Goto(h, IF left = {} THEN "delete" ELSE "open")
  /\ UNCHANGED <<disk, creating, srv, resolvedCh, req, history>>

(* An error of UpdatePending is answered 500.  After a delivery it leaves  *)
(* the KB on the list of a file that is still there.                       *)
Unrecorded(h) == IF req[h].act = "approve" /\ entry[req[h].f] # NoFile
                 THEN {"unrecorded"} ELSE {}

(* The file is gone, does not parse or cannot be read *)
UpdateFails(h) ==
  /\ pc[h] = "update"
  /\ Answer(h)
  /\ hazard' = hazard \cup Unrecorded(h)
  /\ UNCHANGED <<disk, creating, srv, resolvedCh, staged, approved,
                 rejected, acked, delivered>>

(* History keeps the KBs whose rejection was answered 200 *)
Acked(h) == IF req[h].act = "reject" THEN acked \cup {ItemOf(h)} ELSE acked

Delete(h) ==
  /\ pc[h] = "delete"
  /\ Answer(h)
  /\ LET f == req[h].f
     IN  /\ entry' = [entry EXCEPT ![f] = NoFile]
         /\ detached' = detached \cup Writers(f)
         /\ creating' = {<<c[1], c[2], IF c[1] = f THEN "removed" ELSE c[3]>> :
                           c \in creating}
         /\ acked' = IF entry[f] # NoFile THEN Acked(h) ELSE acked
  /\ UNCHANGED <<srv, resolvedCh, staged, approved, rejected, delivered,
                 hazard>>

(* os.Remove fails: the file stays *)
DeleteFails(h) ==
  /\ pc[h] = "delete"
  /\ Answer(h)
  /\ hazard' = hazard \cup Unrecorded(h)
  /\ UNCHANGED <<disk, creating, srv, resolvedCh, staged, approved,
                 rejected, acked, delivered>>

Open(h) ==
  /\ pc[h] = "open"
  /\ Goto(h, "write")
  /\ entry' = [entry EXCEPT ![req[h].f] = Empty]
  /\ hazard' = IF Writers(req[h].f) # {}
               THEN hazard \cup {"interleaved"} ELSE hazard
  /\ UNCHANGED <<creating, srv, resolvedCh, req, rest, detached, staged,
                 approved, rejected, acked, delivered>>

(* os.WriteFile fails before it truncates the file *)
OpenFails(h) ==
  /\ pc[h] = "open"
  /\ Answer(h)
  /\ hazard' = hazard \cup Unrecorded(h)
  /\ UNCHANGED <<disk, creating, srv, resolvedCh, staged, approved,
                 rejected, acked, delivered>>

Write(h) ==
  /\ pc[h] = "write"
  /\ Answer(h)
  /\ \E bytes \in Written(req[h].f, rest[h], h \notin detached) :
       entry' = [entry EXCEPT ![req[h].f] = bytes]
  /\ detached' = detached \ {h}
  /\ acked' = Acked(h)
  /\ hazard' =
       IF \E k \in rest[h] : <<req[h].f, k>> \in approved \cup rejected
       THEN hazard \cup {"relisted"} ELSE hazard
  /\ UNCHANGED <<creating, srv, resolvedCh, staged, approved,
                 rejected, delivered>>

(* os.WriteFile fails after it truncated the file (no space left, an I/O   *)
(* error): nothing or a part of the list is written, and the KBs that were *)
(* still to be decided are lost with it.                                   *)
WriteFails(h) ==
  /\ pc[h] = "write"
  /\ Answer(h)
  /\ LET f == req[h].f
         lost == IF h \in detached THEN {} ELSE {"torn"}
     IN  /\ \E bytes \in IF lost = {} THEN {entry[f]} ELSE {entry[f], Garbage} :
              entry' = [entry EXCEPT ![f] = bytes]
         /\ hazard' = hazard \cup lost \cup Unrecorded(h)
  /\ detached' = detached \ {h}
  /\ UNCHANGED <<creating, srv, resolvedCh, staged, approved, rejected, acked,
                 delivered>>

-----------------------------------------------------------------------------
(* The server's life *)

(* The goroutine started after every POST counts the pending files *)
CheckResolved_Unbuffered(h) ==
  /\ pc[h] = "check"
  /\ Goto(h, "idle")
  /\ UNCHANGED <<disk, creating, srv, resolvedCh, req, rest, history>>

CheckResolved(h) ==
  /\ pc[h] = "check"
  /\ Goto(h, "idle")
  /\ resolvedCh' = (resolvedCh \/ Present = {})
  /\ UNCHANGED <<disk, creating, srv, req, rest, history>>

(* `multi-kb approve` does not start a server over an empty queue *)
Launch ==
  /\ srv = "down" /\ Present # {}
  /\ srv' = "up"
  /\ UNCHANGED <<disk, creating, resolvedCh, pc, req, rest, history>>

(* All notes resolved *)
Resolved ==
  /\ srv = "up" /\ resolvedCh
  /\ srv' = "closing"
  /\ UNCHANGED <<disk, creating, resolvedCh, pc, req, rest, history>>

(* The idle timeout, or Ctrl+C *)
Interrupt ==
  /\ srv = "up"
  /\ srv' = "closing"
  /\ UNCHANGED <<disk, creating, resolvedCh, pc, req, rest, history>>

(* The process exits: after Shutdown when every handler has returned or    *)
(* its five seconds are over, or because it was killed.  A handler that is *)
(* still at work is gone in the middle of what it did.                     *)
Stop ==
  /\ srv # "down"
  /\ srv' = "down"
  /\ pc' = [h \in Handler |-> "idle"]
  /\ req' = [h \in Handler |-> NoRequest]
  /\ rest' = [h \in Handler |-> {}]
  /\ detached' = {}
  /\ hazard' = hazard
       \cup (IF \E h \in Handler : pc[h] = "write" THEN {"torn"} ELSE {})
       \cup (IF \E h \in Handler : InFlight(h) /\ req[h].act = "approve"
                                   /\ pc[h] # "submit"
             THEN {"unrecorded"} ELSE {})
  /\ resolvedCh' = FALSE
  /\ UNCHANGED <<entry, creating, staged, approved, rejected, acked, delivered>>

-----------------------------------------------------------------------------

(* What a handler does with a request it took *)
Proceed(h) ==
  \/ SubmitOK(h) \/ SubmitFails(h) \/ SubmitUnknown(h)
  \/ UpdateRead(h) \/ UpdateFails(h) \/ Delete(h) \/ DeleteFails(h)
  \/ Open(h) \/ OpenFails(h) \/ Write(h) \/ WriteFails(h)
  \/ CheckResolved(h)

Serve(h) ==
  \/ \E r \in Requests : Request(h, r) \/ RequestRefused(h, r)
  \/ Proceed(h)

Next ==
  \/ \E f \in File, T \in TargetLists :
       \/ CreateOpen(f, T)
       \/ \E link \in {"linked", "removed"} : CreateWrite(f, T, link)
  \/ CreateFails
  \/ \E h \in Handler : Serve(h)
  \/ Launch \/ Resolved \/ Interrupt \/ Stop

Spec == Init /\ [][Next]_vars

(* Handlers run to their end while the server lives, and the shutdown      *)
(* goroutine takes its signal.  Users are under no obligation.             *)
Fairness ==
  /\ WF_vars(Resolved)
  /\ \A h \in Handler : WF_vars(Proceed(h))

FairSpec == Spec /\ Fairness

-----------------------------------------------------------------------------
(* Properties *)

Waiting(f) == {k \in Target : <<f, k>> \in staged \ (approved \cup rejected)}

Kept ==
  \A f \in File :
    \/ Waiting(f) \subseteq Listed(f)
    \/ \E h \in Writers(f) \ detached :
         entry[f] = Empty /\ Waiting(f) \subseteq rest[h]

(* A KB that was neither approved nor rejected stays on its note's list,   *)
(* whatever handlers do to the other KBs of the note: lost only when two   *)
(* CreatePending share a filename, two rewrites of a file interleave, the  *)
(* process dies inside a rewrite, or the write fails after the file was    *)
(* truncated.                                                              *)
NothingDropped ==
  hazard \cap {"collision", "interleaved", "torn"} = {} => Kept

(* Each KB of a note has one outcome: it receives the note once, or its    *)
(* rejection was acknowledged and it never does.  This fails only when two *)
(* requests for the same KB overlap, the process dies or errs between a    *)
(* delivery and the update of the file, a rewrite puts a resolved KB back  *)
(* on the list, or two CreatePending share a filename.                     *)
OneOutcome ==
  hazard \cap {"twin", "unrecorded", "relisted", "collision"} = {} =>
    /\ \A i \in Item : delivered[i] <= 1
    /\ \A i \in acked : delivered[i] = 0

(* When the last pending file goes, the server notices: it stops serving   *)
(* unless a capture run adds a file (spec.md:38).                          *)
ShutsDownWhenResolved ==
  srv = "up" /\ Present = {} ~> srv # "up" \/ Present # {}
=============================================================================
