--------------------------- MODULE ApprovalProofs ---------------------------
(***************************************************************************)
(* For any files, KBs, target lists and number of handlers: a KB nobody    *)
(* decided on stays on its note's list, unless two CreatePending share a   *)
(* filename, two rewrites of a file interleave, or a rewrite breaks off    *)
(* after the truncation, with the process or because its write fails; and  *)
(* a KB has one outcome, with the exceptions that OneOutcome names.        *)
(***************************************************************************)
EXTENDS Approval, TLAPS

(* A handler past its checks has a request *)
ReqInv == \A h \in Handler : InFlight(h) => req[h] \in Requests

Losses == {"collision", "interleaved", "torn"}

Decided == approved \cup rejected

(* What a handler at work knows: its own KB was decided on, and the list   *)
(* it will write has every KB that still waits.                            *)
HandlerOK(h) ==
  /\ InFlight(h) => ItemOf(h) \in staged
  /\ pc[h] \in {"update", "open", "write", "delete"} => ItemOf(h) \in Decided
  /\ pc[h] \in {"open", "write"} =>
       /\ Waiting(req[h].f) \subseteq rest[h]
       /\ \A k \in rest[h] : <<req[h].f, k>> \in staged
  /\ pc[h] = "delete" => Waiting(req[h].f) = {}

HandlerInv == \A h \in Handler : HandlerOK(h)

(* A file has one writer, and while the writer's descriptor is linked the  *)
(* file is empty.                                                          *)
WriterInv ==
  /\ \A h \in Handler : h \in detached => pc[h] = "write"
  /\ \A f \in File :
       /\ \A g, h \in Writers(f) : g = h
       /\ Writers(f) \ detached # {} => entry[f] = Empty

(* The file being created is empty and nothing was staged in it yet *)
CreateInv ==
  /\ \A c, d \in creating : c = d
  /\ \A f \in File, T \in TargetLists, l \in {"linked", "removed"} :
       <<f, T, l>> \in creating =>
         /\ l = "linked"
         /\ entry[f] = Empty
         /\ \A k \in Target : <<f, k>> \notin staged

(* Lists name only KBs the note was staged for *)
ListInv ==
  \A f \in File : \A k \in Listed(f) : <<f, k>> \in staged

IInv ==
  hazard \cap Losses = {} =>
    Kept /\ HandlerInv /\ WriterInv /\ CreateInv /\ ListInv

-----------------------------------------------------------------------------
(* Type correctness *)

LEMMA WrittenType ==
  ASSUME TypeOK, NEW f \in File, NEW list \in SUBSET Target, NEW l
  PROVE  Written(f, list, l) \subseteq {NoFile, Empty, Garbage} \cup SUBSET Target
  BY DEF TypeOK, Written

(* What the type invariant says of a request and of a list *)
LEMMA RequestType ==
  ASSUME NEW r \in Requests
  PROVE  r.f \in File /\ r.k \in Target /\ <<r.f, r.k>> \in Item
  BY DEF Requests, Item

LEMMA ListType ==
  ASSUME NEW T \in TargetLists
  PROVE  T \in SUBSET Target
  BY ApprovalAssumption

LEMMA ItemType ==
  ASSUME NEW f \in File, NEW k \in Target
  PROVE  <<f, k>> \in Item
  BY DEF Item

TypeInv == TypeOK /\ ReqInv

LEMMA TypeInductive == TypeInv /\ [Next]_vars => TypeInv'
<1> SUFFICES ASSUME TypeInv, [Next]_vars PROVE TypeInv'
  OBVIOUS
<1> USE DEF TypeInv, TypeOK, ReqInv, PCs, Hazards, InFlight, disk, history
<1>1. ASSUME NEW f \in File, NEW T \in TargetLists, CreateOpen(f, T)
      PROVE TypeInv'
  <2>1. creating' \subseteq File \X TargetLists \X {"linked", "removed"}
    BY <1>1 DEF CreateOpen
  <2>2. entry' \in [File -> {NoFile, Empty, Garbage} \cup SUBSET Target]
    BY <1>1 DEF CreateOpen
  <2>3. hazard' \subseteq Hazards
    BY <1>1 DEF CreateOpen
  <2> QED
    BY <1>1, <2>1, <2>2, <2>3 DEF CreateOpen
<1>2. ASSUME NEW f \in File, NEW T \in TargetLists, NEW l \in {"linked", "removed"},
             CreateWrite(f, T, l)
      PROVE TypeInv'
  <2>1. entry' \in [File -> {NoFile, Empty, Garbage} \cup SUBSET Target]
    BY <1>2, WrittenType, ListType DEF CreateWrite
  <2>2. staged' \subseteq Item
    BY <1>2, ListType, ItemType DEF CreateWrite
  <2> QED
    BY <1>2, <2>1, <2>2 DEF CreateWrite
<1>3. CASE CreateFails
  BY <1>3 DEF CreateFails
<1>4. ASSUME NEW h \in Handler, NEW r \in Requests, RequestRefused(h, r)
      PROVE TypeInv'
  BY <1>4 DEF RequestRefused, Answer
<1>5. ASSUME NEW h \in Handler, NEW r \in Requests, Request(h, r)
      PROVE TypeInv'
  BY <1>5, RequestType DEF Request, Goto
<1>6. ASSUME NEW h \in Handler, SubmitOK(h) PROVE TypeInv'
  BY <1>6, RequestType DEF SubmitOK, Goto, Deliver, ItemOf
<1>7. ASSUME NEW h \in Handler, SubmitFails(h) PROVE TypeInv'
  BY <1>7 DEF SubmitFails, Answer
<1>8. ASSUME NEW h \in Handler, SubmitUnknown(h) PROVE TypeInv'
  BY <1>8, RequestType DEF SubmitUnknown, Answer, Deliver, ItemOf
<1>9. ASSUME NEW h \in Handler, UpdateRead(h) PROVE TypeInv'
  BY <1>9, RequestType DEF UpdateRead, Goto, Readable
<1>10. ASSUME NEW h \in Handler, UpdateFails(h) PROVE TypeInv'
  BY <1>10 DEF UpdateFails, Answer, Unrecorded
<1>11. ASSUME NEW h \in Handler, Delete(h) PROVE TypeInv'
  <2>1. req[h] \in Requests /\ req[h].f \in File
    BY <1>11, RequestType DEF Delete
  <2>2. creating' \subseteq File \X TargetLists \X {"linked", "removed"}
    BY <1>11 DEF Delete
  <2>3. entry' \in [File -> {NoFile, Empty, Garbage} \cup SUBSET Target]
    BY <1>11, <2>1 DEF Delete
  <2>4. detached' \subseteq Handler
    BY <1>11 DEF Delete, Writers
  <2>5. ReqInv' /\ pc' \in [Handler -> PCs]
    BY <1>11 DEF Delete, Answer
  <2>6. acked' \subseteq Item
    BY <1>11, <2>1, RequestType DEF Delete, Acked, ItemOf
  <2> QED
    BY <1>11, <2>2, <2>3, <2>4, <2>5, <2>6 DEF Delete, Answer
<1>12. ASSUME NEW h \in Handler, Open(h) PROVE TypeInv'
  BY <1>12, RequestType DEF Open, Goto
<1>13. ASSUME NEW h \in Handler, Write(h) PROVE TypeInv'
  <2>1. req[h] \in Requests /\ req[h].f \in File
    BY <1>13, RequestType DEF Write
  <2>2. entry' \in [File -> {NoFile, Empty, Garbage} \cup SUBSET Target]
    BY <1>13, <2>1, WrittenType DEF Write
  <2>3. ReqInv' /\ pc' \in [Handler -> PCs]
    BY <1>13 DEF Write, Answer
  <2>4. acked' \subseteq Item
    BY <1>13, <2>1, RequestType DEF Write, Acked, ItemOf
  <2> QED
    BY <1>13, <2>2, <2>3, <2>4 DEF Write, Answer
<1>14. ASSUME NEW h \in Handler, CheckResolved(h) PROVE TypeInv'
  BY <1>14 DEF CheckResolved, Goto, Present
<1>15. CASE Launch
  BY <1>15 DEF Launch
<1>16. CASE Resolved
  BY <1>16 DEF Resolved
<1>17. CASE Interrupt
  BY <1>17 DEF Interrupt
<1>18. CASE Stop
  <2>1. ReqInv' /\ pc' \in [Handler -> PCs]
    BY <1>18 DEF Stop
  <2>2. hazard' \subseteq Hazards
    BY <1>18 DEF Stop
  <2> QED
    BY <1>18, <2>1, <2>2 DEF Stop
<1>19. CASE UNCHANGED vars
  BY <1>19 DEF vars
<1>20. ASSUME NEW h \in Handler, DeleteFails(h) PROVE TypeInv'
  BY <1>20 DEF DeleteFails, Answer, Unrecorded
<1>21. ASSUME NEW h \in Handler, OpenFails(h) PROVE TypeInv'
  BY <1>21 DEF OpenFails, Answer, Unrecorded
<1>22. ASSUME NEW h \in Handler, WriteFails(h) PROVE TypeInv'
  <2>1. req[h] \in Requests /\ req[h].f \in File
    BY <1>22, RequestType DEF WriteFails
  <2>2. entry' \in [File -> {NoFile, Empty, Garbage} \cup SUBSET Target]
    BY <1>22, <2>1 DEF WriteFails
  <2>3. ReqInv' /\ pc' \in [Handler -> PCs]
    BY <1>22 DEF WriteFails, Answer
  <2>4. hazard' \subseteq Hazards
    BY <1>22 DEF WriteFails, Unrecorded
  <2> QED
    BY <1>22, <2>2, <2>3, <2>4 DEF WriteFails, Answer
<1> QED
  BY <1>1, <1>2, <1>3, <1>4, <1>5, <1>6, <1>7, <1>8, <1>9, <1>10, <1>11, <1>12,
     <1>13, <1>14, <1>15, <1>16, <1>17, <1>18, <1>19, <1>20, <1>21, <1>22
  DEF Next, Serve, Proceed

LEMMA TypeAlways == Spec => []TypeInv
<1>1. Init => TypeOK
  <2>1. Init => resolvedCh \in BOOLEAN
    BY Zenon DEF Init
  <2>2. Init => delivered \in [Item -> 0..2]
    BY DEF Init
  <2> QED
    BY <2>1, <2>2 DEF Init, TypeOK, PCs
<1>2. Init => ReqInv
  BY DEF Init, ReqInv, InFlight
<1> QED
  BY <1>1, <1>2, TypeInductive, PTL DEF Spec, TypeInv

(* Every reachable state of the pending queue and its server has the       *)
(* declared types.                                                         *)
THEOREM TypeCorrect == Spec => []TypeOK
<1>1. TypeInv => TypeOK
  BY DEF TypeInv
<1> QED
  BY <1>1, TypeAlways, PTL

-----------------------------------------------------------------------------
(* The inductive invariant *)

Lossless == hazard \cap Losses = {}

LEMMA InitIInv == Init => IInv
  BY DEF Init, IInv, Kept, HandlerInv, HandlerOK, WriterInv, CreateInv, ListInv, Waiting,
     Listed, Readable, Writers, InFlight

(* The share of Kept that is about one file *)
KeptIn(f) ==
  \/ Waiting(f) \subseteq Listed(f)
  \/ \E h \in Writers(f) \ detached :
       entry[f] = Empty /\ Waiting(f) \subseteq rest[h]

(* What a step that leaves a file and its writers alone preserves *)
LEMMA Untouched ==
  ASSUME NEW g \in File, entry'[g] = entry[g]
  PROVE  /\ Listed(g)' = Listed(g)
         /\ KeptIn(g) /\ Waiting(g)' \subseteq Waiting(g)
            /\ (\A h \in Writers(g) \ detached :
                  h \in Writers(g)' \ detached' /\ rest'[h] = rest[h])
            => KeptIn(g)'
<1>1. Listed(g)' = Listed(g)
  BY DEF Listed, Readable
<1> QED
  BY <1>1 DEF KeptIn

(* A handler past its checks works for a target that was staged *)
LEMMA AtWork ==
  ASSUME TypeInv, HandlerInv, NEW h \in Handler, InFlight(h)
  PROVE  /\ req[h].f \in File /\ req[h].k \in Target
         /\ <<req[h].f, req[h].k>> \in staged
  BY DEF TypeInv, ReqInv, HandlerInv, HandlerOK, ItemOf, Requests

(* so a file in which nothing was staged has no handler *)
LEMMA Unstaged ==
  ASSUME TypeInv, HandlerInv, NEW f \in File,
         \A k \in Target : <<f, k>> \notin staged
  PROVE  /\ \A h \in Handler : InFlight(h) => req[h].f # f
         /\ Writers(f) = {} /\ Waiting(f) = {}
<1>1. \A h \in Handler : InFlight(h) => req[h].f # f
  BY AtWork
<1> QED
  BY <1>1 DEF Writers, InFlight, Waiting

(* What a handler knows stays true while nobody stages or decides *)
LEMMA Undisturbed ==
  ASSUME TypeInv, NEW g \in Handler, HandlerOK(g),
         pc'[g] = pc[g], req'[g] = req[g], rest'[g] = rest[g],
         staged' = staged, approved' = approved, rejected' = rejected
  PROVE  HandlerOK(g)'
<1>1. Waiting(req[g].f)' = Waiting(req[g].f)
  BY DEF Waiting
<1> QED
  BY <1>1 DEF HandlerOK, InFlight, ItemOf, Decided

Safe == Kept /\ HandlerInv /\ WriterInv /\ CreateInv /\ ListInv

LEMMA CreateOpenSafe ==
  ASSUME TypeInv, Safe, NEW f \in File, NEW T \in TargetLists,
         CreateOpen(f, T), Lossless'
  PROVE  Safe'
<1> USE DEF Safe
<1>1. /\ entry'[f] = Empty
      /\ \A g \in File : g # f => entry'[g] = entry[g]
      /\ creating' = {<<f, T, "linked">>}
      /\ pc' = pc /\ req' = req /\ rest' = rest /\ detached' = detached
      /\ staged' = staged /\ approved' = approved /\ rejected' = rejected
  BY DEF CreateOpen, TypeInv, TypeOK
<1>2. \A k \in Target : <<f, k>> \notin staged
  BY DEF CreateOpen, Lossless, Losses
<1>3. Writers(f) = {} /\ Waiting(f) = {}
  BY <1>2, Unstaged
<1>4. \A g \in File : Waiting(g)' = Waiting(g) /\ Writers(g)' = Writers(g)
  BY <1>1 DEF Waiting, Writers
<1>5. Listed(f)' = {}
  BY <1>1 DEF Listed, Readable
<1>6. \A g \in File : g # f => KeptIn(g)' /\ Listed(g)' = Listed(g)
  BY <1>1, <1>4, Untouched DEF Kept, KeptIn
<1>7. Kept'
  BY <1>3, <1>4, <1>6 DEF Kept, KeptIn
<1>8. HandlerInv'
  BY <1>1, <1>4 DEF HandlerInv, HandlerOK, InFlight, ItemOf, Decided, TypeInv, ReqInv, Requests
<1>9. WriterInv'
  BY <1>1, <1>3, <1>4 DEF WriterInv
<1>10. CreateInv'
  BY <1>1, <1>2 DEF CreateInv
<1>11. ListInv'
  <2> SUFFICES ASSUME NEW g \in File, NEW k \in Listed(g)'
               PROVE  <<g, k>> \in staged'
    BY DEF ListInv
  <2>1. k \in Listed(g)
    BY <1>5, <1>6
  <2> QED
    BY <1>1, <2>1 DEF ListInv
<1> QED
  BY <1>7, <1>8, <1>9, <1>10, <1>11

LEMMA CreateWriteSafe ==
  ASSUME TypeInv, Safe, NEW f \in File, NEW T \in TargetLists,
         NEW l \in {"linked", "removed"}, CreateWrite(f, T, l)
  PROVE  Safe'
<1> USE DEF Safe
<1>1. /\ creating' = {} /\ staged' = staged \cup {<<f, k>> : k \in T}
      /\ pc' = pc /\ req' = req /\ rest' = rest /\ detached' = detached
      /\ approved' = approved /\ rejected' = rejected
  BY DEF CreateWrite
<1>2. /\ l = "linked" /\ entry[f] = Empty
      /\ \A k \in Target : <<f, k>> \notin staged
  BY DEF CreateWrite, CreateInv
<1>3. T \in SUBSET Target /\ T \notin {NoFile, Empty, Garbage}
  BY ListType, ApprovalAssumption
<1>4. /\ entry'[f] = T
      /\ \A g \in File : g # f => entry'[g] = entry[g]
  BY <1>2, <1>3 DEF CreateWrite, Written, TypeInv, TypeOK
<1>5. Listed(f)' = T
  BY <1>3, <1>4 DEF Listed, Readable
<1>6. Waiting(f)' \subseteq T
  BY <1>1, <1>2 DEF Waiting
<1>7. \A g \in File : g # f => Waiting(g)' = Waiting(g)
  BY <1>1 DEF Waiting
<1>8. /\ \A h \in Handler : InFlight(h) => req[h].f # f
      /\ Writers(f) = {}
  BY <1>2, Unstaged
<1>9. \A g \in File : Writers(g)' = Writers(g)
  BY <1>1 DEF Writers
<1>10. \A g \in File : g # f => KeptIn(g)' /\ Listed(g)' = Listed(g)
  BY <1>1, <1>4, <1>7, <1>9, Untouched DEF Kept, KeptIn
<1>11. Kept'
  BY <1>5, <1>6, <1>10 DEF Kept, KeptIn
<1>12. HandlerInv'
  <2> SUFFICES ASSUME NEW h \in Handler, InFlight(h)
               PROVE  Waiting(req[h].f)' = Waiting(req[h].f)
    BY <1>1 DEF HandlerInv, HandlerOK, InFlight, ItemOf, Decided
  <2> QED
    BY <1>1, <1>7, <1>8, AtWork
<1>13. WriterInv'
  BY <1>1, <1>4, <1>8, <1>9 DEF WriterInv
<1>14. CreateInv'
  BY <1>1 DEF CreateInv
<1>15. ListInv'
  <2> SUFFICES ASSUME NEW g \in File, NEW k \in Listed(g)'
               PROVE  <<g, k>> \in staged'
    BY DEF ListInv
  <2>1. CASE g = f
    BY <1>1, <1>5, <2>1
  <2>2. CASE g # f
    BY <1>1, <1>10, <2>2 DEF ListInv
  <2> QED
    BY <2>1, <2>2
<1> QED
  BY <1>11, <1>12, <1>13, <1>14, <1>15

(* Delete, Open and Write touch the file of their handler's request *)
LEMMA DeleteSafe ==
  ASSUME TypeInv, Safe, NEW h \in Handler, Delete(h)
  PROVE  Safe'
<1> USE DEF Safe
<1>1. InFlight(h) /\ pc[h] = "delete"
  BY DEF Delete, InFlight
<1>2. PICK f \in File : f = req[h].f
  BY <1>1, AtWork
<1>3. /\ staged' = staged /\ approved' = approved /\ rejected' = rejected
      /\ detached' = detached \cup Writers(f)
      /\ pc' = [pc EXCEPT ![h] = "check"]
      /\ \A g \in Handler : g # h => req'[g] = req[g] /\ rest'[g] = rest[g]
  BY <1>2 DEF Delete, Answer, TypeInv, TypeOK
<1>4. /\ entry'[f] = NoFile
      /\ \A g \in File : g # f => entry'[g] = entry[g]
  BY <1>2 DEF Delete, TypeInv, TypeOK
<1>5. Waiting(f) = {}
  BY <1>1, <1>2 DEF HandlerInv, HandlerOK
<1>6. \A g \in File : Waiting(g)' = Waiting(g)
  BY <1>3 DEF Waiting
<1>7. \A g \in File : Writers(g)' = Writers(g)
  BY <1>1, <1>3 DEF Writers, TypeInv, TypeOK
<1>8. Listed(f)' = {}
  BY <1>4 DEF Listed, Readable
<1>9. \A g \in File : g # f => Writers(f) \cap Writers(g) = {}
  BY DEF Writers
<1>10. \A g \in File : g # f => KeptIn(g)' /\ Listed(g)' = Listed(g)
  <2> SUFFICES ASSUME NEW g \in File, g # f
               PROVE  KeptIn(g)' /\ Listed(g)' = Listed(g)
    OBVIOUS
  <2>1. \A w \in Writers(g) \ detached :
          w \in Writers(g)' \ detached' /\ rest'[w] = rest[w]
    BY <1>1, <1>3, <1>7, <1>9 DEF Writers
  <2> QED
    BY <1>4, <1>6, <2>1, Untouched DEF Kept, KeptIn
<1>11. Kept'
  BY <1>5, <1>6, <1>10 DEF Kept, KeptIn
<1>12. HandlerInv'
  <2>1. \A g \in Handler : g # h => HandlerOK(g)'
    BY <1>3, Undisturbed DEF HandlerInv, TypeInv, TypeOK
  <2>2. HandlerOK(h)'
    BY <1>3 DEF HandlerOK, InFlight, TypeInv, TypeOK
  <2> QED
    BY <2>1, <2>2 DEF HandlerInv
<1>13. WriterInv'
  <2>1. Writers(f)' \ detached' = {}
    BY <1>3, <1>7
  <2>2. \A w \in Handler : w \in detached' => pc'[w] = "write"
    BY <1>1, <1>3 DEF WriterInv, Writers, TypeInv, TypeOK
  <2> QED
    BY <1>3, <1>4, <1>7, <2>1, <2>2 DEF WriterInv
<1>14. CreateInv'
  (* the file being created is not this one *)
  <2>1. \A c \in creating : c[1] # f
    <3>1. <<f, req[h].k>> \in staged /\ req[h].k \in Target
      BY <1>1, <1>2, AtWork
    <3>2. \A c \in creating : c[1] \in File /\ c[2] \in TargetLists
             /\ c[3] \in {"linked", "removed"} /\ c = <<c[1], c[2], c[3]>>
      BY DEF TypeInv, TypeOK
    <3> SUFFICES ASSUME NEW c \in creating, c[1] = f PROVE FALSE
      OBVIOUS
    <3>3. <<f, c[2], c[3]>> \in creating
      BY <3>2
    <3> QED
      BY <3>1, <3>2, <3>3 DEF CreateInv
  <2>2. \A c \in creating : c = <<c[1], c[2], IF c[1] = f THEN "removed" ELSE c[3]>>
    BY <2>1 DEF TypeInv, TypeOK
  <2>3. creating' = creating
    BY <1>2, <2>2 DEF Delete
  <2>4. \A g \in File, T \in TargetLists, l \in {"linked", "removed"} :
          <<g, T, l>> \in creating => g # f
    BY <2>1
  <2> QED
    BY <1>3, <1>4, <2>3, <2>4 DEF CreateInv
<1>15. ListInv'
  <2> SUFFICES ASSUME NEW g \in File, NEW k \in Listed(g)'
               PROVE  <<g, k>> \in staged'
    BY DEF ListInv
  <2> QED
    BY <1>3, <1>8, <1>10 DEF ListInv
<1> QED
  BY <1>11, <1>12, <1>13, <1>14, <1>15

LEMMA OpenSafe ==
  ASSUME TypeInv, Safe, NEW h \in Handler, Open(h), Lossless'
  PROVE  Safe'
<1> USE DEF Safe
<1>1. InFlight(h) /\ pc[h] = "open"
  BY DEF Open, InFlight
<1>2. PICK f \in File : f = req[h].f
  BY <1>1, AtWork
<1>3. /\ staged' = staged /\ approved' = approved /\ rejected' = rejected
      /\ detached' = detached /\ pc' = [pc EXCEPT ![h] = "write"]
      /\ req' = req /\ rest' = rest /\ creating' = creating
  BY DEF Open, Goto
<1>4. /\ entry'[f] = Empty
      /\ \A g \in File : g # f => entry'[g] = entry[g]
  BY <1>2 DEF Open, TypeInv, TypeOK
(* no other handler has the file open *)
<1>5. Writers(f) = {}
  BY <1>2 DEF Open, Lossless, Losses
<1>6. h \notin detached
  BY <1>1 DEF WriterInv
<1>7. \A g \in File : Waiting(g)' = Waiting(g)
  BY <1>3 DEF Waiting
<1>8. Writers(f)' = {h} /\ \A g \in File : g # f => Writers(g)' = Writers(g)
  BY <1>1, <1>2, <1>3, <1>5 DEF Writers, TypeInv, TypeOK
<1>9. Waiting(f) \subseteq rest[h] /\ <<f, req[h].k>> \in staged
  BY <1>1, <1>2 DEF HandlerInv, HandlerOK, ItemOf
<1>10. Listed(f)' = {}
  BY <1>4 DEF Listed, Readable
<1>11. \A g \in File : g # f => KeptIn(g)' /\ Listed(g)' = Listed(g)
  BY <1>3, <1>4, <1>7, <1>8, Untouched DEF Kept, KeptIn
<1>12. KeptIn(f)'
  BY <1>3, <1>4, <1>6, <1>7, <1>8, <1>9 DEF KeptIn
<1>13. Kept'
  BY <1>11, <1>12 DEF Kept, KeptIn
<1>14. HandlerInv'
  <2>1. \A g \in Handler : g # h => HandlerOK(g)'
    BY <1>3, Undisturbed DEF HandlerInv, TypeInv, TypeOK
  <2>2. HandlerOK(h)'
    <3>1. Waiting(req[h].f)' = Waiting(req[h].f) /\ pc'[h] = "write"
      BY <1>2, <1>3, <1>7 DEF TypeInv, TypeOK
    <3> QED
      BY <1>1, <1>3, <3>1 DEF HandlerInv, HandlerOK, InFlight, ItemOf, Decided
  <2> QED
    BY <2>1, <2>2 DEF HandlerInv
<1>15. WriterInv'
  <2>1. \A w \in Handler : w \in detached' => pc'[w] = "write"
    BY <1>3 DEF WriterInv, TypeInv, TypeOK
  <2>2. \A g \in File : g # f => (\A v, w \in Writers(g)' : v = w)
                               /\ (Writers(g)' \ detached' # {} => entry'[g] = Empty)
    BY <1>3, <1>4, <1>8 DEF WriterInv
  <2>3. (\A v, w \in Writers(f)' : v = w) /\ entry'[f] = Empty
    BY <1>4, <1>8
  <2> QED
    BY <2>1, <2>2, <2>3 DEF WriterInv
<1>16. CreateInv'
  BY <1>3, <1>4 DEF CreateInv
<1>17. ListInv'
  <2> SUFFICES ASSUME NEW g \in File, NEW k \in Listed(g)'
               PROVE  <<g, k>> \in staged'
    BY DEF ListInv
  <2> QED
    BY <1>3, <1>10, <1>11 DEF ListInv
<1> QED
  BY <1>13, <1>14, <1>15, <1>16, <1>17

(* A write that fails tears the file, unless its descriptor is detached *)
LEMMA WriteSafe ==
  ASSUME TypeInv, Safe, NEW h \in Handler, Write(h) \/ WriteFails(h), Lossless'
  PROVE  Safe'
<1> USE DEF Safe
<1>0. WriteFails(h) => h \in detached
  BY DEF WriteFails, Lossless, Losses
<1>1. InFlight(h) /\ pc[h] = "write"
  BY DEF Write, WriteFails, InFlight
<1>2. PICK f \in File : f = req[h].f
  BY <1>1, AtWork
<1>3. /\ staged' = staged /\ approved' = approved /\ rejected' = rejected
      /\ detached' = detached \ {h} /\ pc' = [pc EXCEPT ![h] = "check"]
      /\ creating' = creating
      /\ \A g \in Handler : g # h => req'[g] = req[g] /\ rest'[g] = rest[g]
  BY DEF Write, WriteFails, Answer, TypeInv, TypeOK
<1>4. Writers(f) = {h}
  BY <1>1, <1>2 DEF WriterInv, Writers
<1>5. rest[h] \in SUBSET Target /\ rest[h] \notin {NoFile, Empty, Garbage}
  BY ApprovalAssumption DEF TypeInv, TypeOK
(* alone on the file, it writes its list, or nothing at all *)
<1>6. /\ entry'[f] = IF h \in detached THEN entry[f] ELSE rest[h]
      /\ \A g \in File : g # f => entry'[g] = entry[g]
  <2>1. PICK bytes \in Written(f, rest[h], h \notin detached) :
          entry' = [entry EXCEPT ![f] = bytes]
    BY <1>0, <1>2 DEF Write, WriteFails, Written
  <2>2. h \notin detached => entry[f] = Empty
    BY <1>4 DEF WriterInv
  <2> QED
    BY <2>1, <2>2 DEF Written, TypeInv, TypeOK
<1>7. /\ Waiting(f) \subseteq rest[h] /\ <<f, req[h].k>> \in staged
      /\ \A k \in rest[h] : <<f, k>> \in staged
  BY <1>1, <1>2 DEF HandlerInv, HandlerOK, ItemOf
<1>8. \A g \in File : Waiting(g)' = Waiting(g)
  BY <1>3 DEF Waiting
<1>9. Writers(f)' = {} /\ \A g \in File : g # f => Writers(g)' = Writers(g)
  BY <1>1, <1>2, <1>3, <1>4 DEF Writers, TypeInv, TypeOK
<1>10. Listed(f)' = IF h \in detached THEN Listed(f) ELSE rest[h]
  BY <1>5, <1>6 DEF Listed, Readable
(* a detached write changes nothing, and nothing depended on it *)
<1>11. Waiting(f)' \subseteq Listed(f)'
  <2>1. h \in detached => Waiting(f) \subseteq Listed(f)
    BY <1>4 DEF Kept
  <2> QED
    BY <1>7, <1>8, <1>10, <2>1
<1>12. \A g \in File : g # f => KeptIn(g)' /\ Listed(g)' = Listed(g)
  <2> SUFFICES ASSUME NEW g \in File, g # f
               PROVE  KeptIn(g)' /\ Listed(g)' = Listed(g)
    OBVIOUS
  <2>1. h \notin Writers(g)
    BY <1>2 DEF Writers
  <2>2. \A w \in Writers(g) \ detached :
          w \in Writers(g)' \ detached' /\ rest'[w] = rest[w]
    BY <1>3, <1>9, <2>1 DEF Writers
  <2> QED
    BY <1>6, <1>8, <2>2, Untouched DEF Kept, KeptIn
<1>13. Kept'
  BY <1>11, <1>12 DEF Kept, KeptIn
<1>14. HandlerInv'
  <2>1. \A g \in Handler : g # h => HandlerOK(g)'
    BY <1>3, Undisturbed DEF HandlerInv, TypeInv, TypeOK
  <2>2. HandlerOK(h)'
    BY <1>3 DEF HandlerOK, InFlight, TypeInv, TypeOK
  <2> QED
    BY <2>1, <2>2 DEF HandlerInv
<1>15. WriterInv'
  <2>1. \A w \in Handler : w \in detached' => pc'[w] = "write"
    BY <1>3 DEF WriterInv, TypeInv, TypeOK
  <2>2. \A g \in File : g # f => (\A v, w \in Writers(g)' : v = w)
    BY <1>9 DEF WriterInv
  <2>3. \A g \in File : g # f => (Writers(g)' \ detached' # {} => entry'[g] = Empty)
    <3> SUFFICES ASSUME NEW g \in File, g # f, Writers(g)' \ detached' # {}
                 PROVE  entry'[g] = Empty
      OBVIOUS
    <3>1. h \notin Writers(g)
      BY <1>2 DEF Writers
    <3> QED
      BY <1>3, <1>6, <1>9, <3>1 DEF WriterInv
  <2> QED
    BY <1>9, <2>1, <2>2, <2>3 DEF WriterInv
<1>16. CreateInv'
  <2>1. \A T \in TargetLists, l \in {"linked", "removed"} : <<f, T, l>> \notin creating
    BY <1>1, <1>2, <1>7, AtWork DEF CreateInv
  <2> QED
    BY <1>3, <1>6, <2>1 DEF CreateInv
<1>17. ListInv'
  <2> SUFFICES ASSUME NEW g \in File, NEW k \in Listed(g)'
               PROVE  <<g, k>> \in staged'
    BY DEF ListInv
  <2>1. CASE g = f
    BY <1>3, <1>7, <1>10, <2>1 DEF ListInv
  <2>2. CASE g # f
    BY <1>3, <1>12, <2>2 DEF ListInv
  <2> QED
    BY <2>1, <2>2
<1> QED
  BY <1>13, <1>14, <1>15, <1>16, <1>17

(* Hazards are history: none is ever forgotten *)
LEMMA HazardsStay == [Next]_vars => hazard \subseteq hazard'
  BY DEF Next, vars, history, Serve, CreateOpen, CreateWrite, CreateFails,
     Request, RequestRefused, SubmitOK, SubmitFails, SubmitUnknown, UpdateRead,
     UpdateFails, Delete, Open, Write, CheckResolved, Launch, Resolved,
     Interrupt, Stop, Proceed, DeleteFails, OpenFails, WriteFails

LEMMA NextIInv == TypeInv /\ IInv /\ [Next]_vars => IInv'
<1> SUFFICES ASSUME TypeInv, IInv, [Next]_vars, Lossless'
             PROVE  (Kept /\ HandlerInv /\ WriterInv /\ CreateInv /\ ListInv)'
  BY DEF IInv, Lossless
<1> DEFINE Goal == (Kept /\ HandlerInv /\ WriterInv /\ CreateInv /\ ListInv)'
<1>0. Kept /\ HandlerInv /\ WriterInv /\ CreateInv /\ ListInv
  BY HazardsStay DEF IInv, Lossless
<1>1. ASSUME NEW f \in File, NEW T \in TargetLists, CreateOpen(f, T)
      PROVE Goal
  BY <1>0, <1>1, CreateOpenSafe DEF Safe
<1>2. ASSUME NEW f \in File, NEW T \in TargetLists,
             NEW l \in {"linked", "removed"}, CreateWrite(f, T, l)
      PROVE Goal
  BY <1>0, <1>2, CreateWriteSafe DEF Safe
<1>3. ASSUME NEW h \in Handler, Delete(h) PROVE Goal
  BY <1>0, <1>3, DeleteSafe DEF Safe
<1>4. ASSUME NEW h \in Handler, Open(h) PROVE Goal
  BY <1>0, <1>4, OpenSafe DEF Safe
<1>5. ASSUME NEW h \in Handler, Write(h) \/ WriteFails(h) PROVE Goal
  BY <1>0, <1>5, WriteSafe DEF Safe
<1> USE ApprovalAssumption
        DEF TypeInv, TypeOK, ReqInv, PCs, InFlight, disk, history, Kept,
            HandlerInv, HandlerOK, WriterInv, CreateInv, ListInv, Waiting, Listed,
            Readable, Writers, ItemOf, Decided, IInv, Losses, Lossless,
            Requests
<1>6. CASE CreateFails
  BY <1>6, SMTT(30) DEF CreateFails
<1>7. ASSUME NEW h \in Handler, NEW r \in Requests, RequestRefused(h, r)
      PROVE Goal
  BY <1>7, SMTT(30) DEF RequestRefused, Answer
<1>8. ASSUME NEW h \in Handler, NEW r \in Requests, Request(h, r)
      PROVE Goal
  BY <1>8, SMTT(30) DEF Request, Goto
<1>9. ASSUME NEW h \in Handler, SubmitOK(h) PROVE Goal
  BY <1>9, SMTT(30) DEF SubmitOK, Goto
<1>10. ASSUME NEW h \in Handler, SubmitFails(h) PROVE Goal
  BY <1>10, SMTT(30) DEF SubmitFails, Answer
<1>11. ASSUME NEW h \in Handler, SubmitUnknown(h) PROVE Goal
  BY <1>11, SMTT(30) DEF SubmitUnknown, Answer
<1>12. ASSUME NEW h \in Handler, UpdateRead(h) PROVE Goal
  BY <1>12, SMTT(30) DEF UpdateRead, Goto
<1>13. ASSUME NEW h \in Handler, UpdateFails(h) PROVE Goal
  BY <1>13, SMTT(30) DEF UpdateFails, Answer, Unrecorded
<1>14. ASSUME NEW h \in Handler, CheckResolved(h) PROVE Goal
  BY <1>14, SMTT(30) DEF CheckResolved, Goto
<1>15. CASE Launch
  BY <1>15, SMTT(30) DEF Launch
<1>16. CASE Resolved
  BY <1>16, SMTT(30) DEF Resolved
<1>17. CASE Interrupt
  BY <1>17, SMTT(30) DEF Interrupt
<1>18. CASE Stop
  <2>0. \A h \in Handler : pc[h] # "write"
    <3>1. "torn" \notin hazard'
      OBVIOUS
    <3> QED
      BY <1>18, <3>1 DEF Stop
  <2>1. /\ \A h \in Handler : pc'[h] = "idle" /\ pc[h] # "write"
        /\ detached' = {} /\ entry' = entry /\ creating' = creating
        /\ staged' = staged /\ approved' = approved /\ rejected' = rejected
    BY <1>18, <2>0 DEF Stop
  <2>2. \A f \in File : Waiting(f) \subseteq Listed(f)
    BY <1>0, <2>1
  <2>3. Kept'
    BY <2>1, <2>2
  <2> QED
    BY <1>0, <2>1, <2>3
<1>19. CASE UNCHANGED vars
  BY <1>19, SMTT(30) DEF vars
<1>20. ASSUME NEW h \in Handler, DeleteFails(h) PROVE Goal
  BY <1>20, SMTT(30) DEF DeleteFails, Answer, Unrecorded
<1>21. ASSUME NEW h \in Handler, OpenFails(h) PROVE Goal
  BY <1>21, SMTT(30) DEF OpenFails, Answer, Unrecorded
<1> HIDE DEF TypeInv, TypeOK, ReqInv, Kept, HandlerInv, WriterInv, CreateInv,
             ListInv, IInv, Lossless, Requests
<1> QED
  BY <1>1, <1>2, <1>3, <1>4, <1>5, <1>6, <1>7, <1>8, <1>9, <1>10, <1>11, <1>12,
     <1>13, <1>14, <1>15, <1>16, <1>17, <1>18, <1>19, <1>20, <1>21
  DEF Next, Serve, Proceed

(* However requests overlap and file operations fail, no target nobody     *)
(* decided on leaves the queue without a filename collision, an            *)
(* interleaved rewrite, or a rewrite that broke off after the truncation.  *)
THEOREM NoTargetLost == Spec => []NothingDropped
<1>1. IInv => NothingDropped
  BY DEF IInv, NothingDropped, Losses
<1> QED
  BY <1>1, InitIInv, NextIInv, TypeAlways, PTL DEF Spec
-----------------------------------------------------------------------------
(* One outcome per KB *)

(* A KB that has its outcome: it received the note, or its rejection was   *)
(* acknowledged.                                                           *)
Refused(f, k) == <<f, k>> \in acked
Closed(f, k)  == <<f, k>> \in approved \/ Refused(f, k)

Serves(h, f, k) == InFlight(h) /\ req[h].f = f /\ req[h].k = k

(* What a handler at work knows of the KB it serves: nobody has closed it, *)
(* unless the handler itself delivered the note.                           *)
Knows(h) ==
  LET f == req[h].f  k == req[h].k
  IN /\ <<f, k>> \in staged
     /\ pc[h] = "submit" => req[h].act = "approve"
     /\ pc[h] = "submit" \/ req[h].act = "reject" => ~Closed(f, k)
     /\ pc[h] # "submit" => <<f, k>> \in IF req[h].act = "approve" THEN approved ELSE rejected
     /\ pc[h] \in {"open", "write"} =>
          k \notin rest[h] /\ \A j \in rest[h] : <<f, j>> \in staged
     /\ pc[h] = "write" => k \notin Listed(f)

(* Closed KBs are staged, closed in one way, and still listed only while   *)
(* the handler that delivered the note has not rewritten the file.         *)
ClosedOK(f, k) ==
  /\ Refused(f, k) => <<f, k>> \in rejected \ approved
  /\ Closed(f, k) \/ k \in Listed(f) => <<f, k>> \in staged
  /\ delivered[<<f, k>>] <= IF <<f, k>> \in approved THEN 1 ELSE 0
  /\ Closed(f, k) /\ k \in Listed(f) =>
       \E h \in Handler : /\ Serves(h, f, k) /\ req[h].act = "approve"
                          /\ pc[h] \in {"update", "open", "delete"}

(* Nothing was staged in the file that is being created. *)
FreshInv ==
  /\ \A c, d \in creating : c = d
  /\ \A c \in creating : \A k \in Target : <<c[1], k>> \notin staged

Single == \A f \in File, k \in Target : \A g, h \in Handler :
            Serves(g, f, k) /\ Serves(h, f, k) => g = h

Exceptions == {"twin", "unrecorded", "relisted", "collision"}

OutcomeParts ==
  /\ \A h \in Handler : InFlight(h) => Knows(h)
  /\ Single
  /\ \A f \in File, k \in Target : ClosedOK(f, k)
  /\ FreshInv
OutcomeInv == hazard \cap Exceptions = {} => OutcomeParts

LEMMA AtHand ==
  ASSUME TypeInv, NEW h \in Handler, InFlight(h)
  PROVE  /\ req[h] \in Requests /\ req[h].f \in File /\ req[h].k \in Target
         /\ req[h].act \in {"approve", "reject"}
         /\ ItemOf(h) = <<req[h].f, req[h].k>> /\ ItemOf(h) \in Item
         /\ Serves(h, req[h].f, req[h].k)
         /\ \A f, k : Serves(h, f, k) => f = req[h].f /\ k = req[h].k
         /\ req[h] = [act |-> req[h].act, f |-> req[h].f, k |-> req[h].k]
  BY DEF TypeInv, ReqInv, Requests, Serves, ItemOf, Item

\* What a handler knows stays true while no other handler closes its KB
LEMMA KnowsStays ==
  ASSUME NEW h \in Handler, Knows(h), NEW f, NEW k, f = req[h].f, k = req[h].k,
         pc'[h] = pc[h], req'[h] = req[h], rest'[h] = rest[h],
         staged \subseteq staged', approved \subseteq approved',
         rejected \subseteq rejected', Closed(f, k)' => Closed(f, k),
         pc[h] = "write" => k \notin Listed(f)'
  PROVE  Knows(h)'
<1>1. f = req'[h].f /\ k = req'[h].k
  OBVIOUS
<1> QED
  BY <1>1 DEF Knows, Closed, Refused, Listed, Readable

\* and a KB stays as it is while its handler and its file do.
LEMMA ClosedStays ==
  ASSUME NEW f \in File, NEW k \in Target, ClosedOK(f, k),
         Closed(f, k)' = Closed(f, k), UNCHANGED <<staged, approved>>,
         rejected \subseteq rejected',
         Refused(f, k)' = Refused(f, k),
         delivered'[<<f, k>>] = delivered[<<f, k>>],
         Closed(f, k) /\ k \in Listed(f)' => k \in Listed(f),
         k \in Listed(f)' => <<f, k>> \in staged,
         \A h \in Handler : Serves(h, f, k) /\ k \in Listed(f)' /\ req[h].act = "approve"
                            /\ pc[h] \in {"update", "open", "delete"} =>
           /\ req'[h] = req[h] /\ pc'[h] \in {"update", "open", "delete"}
  PROVE  ClosedOK(f, k)'
<1>1. ASSUME Closed(f, k)', k \in Listed(f)'
      PROVE \E h \in Handler : /\ Serves(h, f, k)' /\ req'[h].act = "approve"
                               /\ pc'[h] \in {"update", "open", "delete"}
  <2>1. PICK h \in Handler : /\ Serves(h, f, k) /\ req[h].act = "approve"
                             /\ pc[h] \in {"update", "open", "delete"}
    BY <1>1 DEF ClosedOK
  <2> QED
    BY <1>1, <2>1 DEF Serves, InFlight
<1> QED
  BY <1>1 DEF ClosedOK

(* A handler returns: what it closed is not listed any more, or it was a   *)
(* rejection that closed nothing; and what its rewrite put on the list is  *)
(* not closed.                                                             *)
LEMMA Retires ==
  ASSUME TypeInv, OutcomeParts, NEW w \in Handler, InFlight(w), pc[w] # "submit",
         pc' = [pc EXCEPT ![w] = "check"], req' = [req EXCEPT ![w] = NoRequest],
         rest' = [rest EXCEPT ![w] = {}], acked' \in {acked, Acked(w)},
         UNCHANGED <<staged, approved, rejected, delivered>>, FreshInv',
         NEW F, NEW K, F = req[w].f, K = req[w].k,
         K \notin Listed(F)' \/ (acked' = acked /\ req[w].act = "reject"),
         \A f \in File : \A k \in Listed(f)' :
           \/ k \in Listed(f)
           \/ <<f, k>> \in staged /\ <<f, k>> \notin approved \cup rejected
  PROVE  OutcomeParts'
<1>1. /\ \A h \in Handler : InFlight(h) => Knows(h)
      /\ Single
      /\ \A f \in File, k \in Target : ClosedOK(f, k)
  BY DEF OutcomeParts
<1>2. /\ F \in File /\ K \in Target /\ Knows(w) /\ Serves(w, F, K)
      /\ req[w] = [act |-> req[w].act, f |-> F, k |-> K]
      /\ req[w].act \in {"approve", "reject"}
  BY <1>1, AtHand
<1>3. ASSUME NEW f, NEW k
      PROVE  /\ Refused(f, k) => Refused(f, k)'
             /\ Refused(f, k)' =>
                  Refused(f, k) \/ (f = F /\ k = K /\ req[w].act = "reject")
  BY <1>2 DEF Refused, Acked, ItemOf
<1>4. /\ pc'[w] = "check" /\ ~InFlight(w)'
      /\ \A h \in Handler \ {w} :
           pc'[h] = pc[h] /\ req'[h] = req[h] /\ rest'[h] = rest[h]
  BY DEF TypeInv, TypeOK, InFlight
<1>5. ASSUME NEW h \in Handler, NEW f, NEW k, Serves(h, f, k)'
      PROVE  h # w /\ Serves(h, f, k)
  BY <1>4, <1>5 DEF Serves, InFlight
<1>6. ASSUME NEW h \in Handler, h # w, NEW f, NEW k, Serves(h, f, k)
      PROVE  Serves(h, f, k)' /\ (f # F \/ k # K)
  BY <1>1, <1>2, <1>4, <1>6, AtHand DEF Serves, InFlight, Single
<1>7. ASSUME NEW h \in Handler, InFlight(h)' PROVE Knows(h)'
  <2>1. h # w /\ InFlight(h) /\ Knows(h)
    BY <1>1, <1>4, <1>7 DEF InFlight
  <2>2. PICK f \in File, k \in Target : f = req[h].f /\ k = req[h].k
    BY <2>1, AtHand
  <2>3. Serves(h, f, k)
    BY <2>1, <2>2, AtHand
  <2>4. f # F \/ k # K
    BY <1>6, <2>1, <2>3
  <2>5. Closed(f, k)' => Closed(f, k)
    BY <1>3, <2>4 DEF Closed
  <2>6. pc[h] = "write" => k \notin Listed(f) /\ <<f, k>> \in approved \cup rejected
    BY <2>1, <2>2 DEF Knows
  <2>7. pc[h] = "write" => k \notin Listed(f)'
    BY <2>2, <2>6
  <2> QED
    BY <1>4, <2>1, <2>2, <2>5, <2>7, KnowsStays
<1>8. Single'
  BY <1>1, <1>5 DEF Single
<1>9. ASSUME NEW f \in File, NEW k \in Target PROVE ClosedOK(f, k)'
  <2>1. ClosedOK(f, k)
    BY <1>1
  <2>2. CASE f = F /\ k = K
    <3>1. <<f, k>> \in staged /\ (req[w].act = "reject" => <<f, k>> \in rejected \ approved)
      BY <1>2, <2>2 DEF Knows, Closed
    <3>2. Refused(f, k)' => <<f, k>> \in rejected \ approved
      BY <1>3, <2>1, <3>1 DEF ClosedOK
    <3>3. ~(Closed(f, k)' /\ k \in Listed(f)')
      BY <1>2, <2>2 DEF Knows, Closed, Refused
    <3> QED
      BY <2>1, <2>2, <3>1, <3>2, <3>3 DEF ClosedOK
  <2>3. CASE f # F \/ k # K
    <3>1. Refused(f, k)' = Refused(f, k) /\ Closed(f, k)' = Closed(f, k)
      BY <1>3, <2>3 DEF Closed, Refused
    <3>2. k \in Listed(f)' => <<f, k>> \in staged
      BY <2>1 DEF ClosedOK
    <3>3. Closed(f, k) /\ k \in Listed(f)' => k \in Listed(f)
      BY <2>1 DEF ClosedOK, Closed
    <3>4. \A h \in Handler : Serves(h, f, k) => h # w
      BY <1>2, <2>3, AtHand DEF Serves
    <3> QED
      BY <1>4, <2>1, <3>1, <3>2, <3>3, <3>4, ClosedStays
  <2> QED
    BY <2>2, <2>3
<1> QED
  BY <1>7, <1>8, <1>9 DEF OutcomeParts

LEMMA NextOutcome == TypeInv /\ OutcomeInv /\ [Next]_vars => OutcomeInv'
<1> SUFFICES ASSUME TypeInv, OutcomeInv, [Next]_vars, (hazard \cap Exceptions = {})'
             PROVE  OutcomeParts'
  BY DEF OutcomeInv
<1>0. hazard \cap Exceptions = {} /\ OutcomeParts
  BY HazardsStay DEF OutcomeInv
<1> USE <1>0, ApprovalAssumption
<1>1. /\ \A h \in Handler : InFlight(h) => Knows(h)
      /\ Single /\ FreshInv
      /\ \A f \in File, k \in Target : ClosedOK(f, k)
  BY DEF OutcomeParts
<1>2. ASSUME NEW F \in File, NEW T \in TargetLists, CreateOpen(F, T)
      PROVE OutcomeParts'
  <2>1. /\ entry' = [entry EXCEPT ![F] = Empty] /\ creating' = {<<F, T, "linked">>}
        /\ UNCHANGED <<pc, req, rest, staged, approved, rejected, acked, delivered>>
        /\ \A k \in Target : <<F, k>> \notin staged
    BY <1>2 DEF CreateOpen, Exceptions
  <2>2. ASSUME NEW f \in File
        PROVE  Listed(f)' = IF f = F THEN {} ELSE Listed(f)
    BY <2>1 DEF TypeInv, TypeOK, Listed, Readable
  <2>3. ASSUME NEW h \in Handler, InFlight(h)' PROVE Knows(h)'
    <3>1. InFlight(h) /\ Knows(h)
      BY <1>1, <2>1, <2>3 DEF InFlight
    <3>2. req[h].f \in File /\ req[h].k \in Target /\ req[h].f # F
      BY <2>1, <3>1, AtHand DEF Knows
    <3>3. \A f, k : Closed(f, k)' = Closed(f, k)
      BY <2>1 DEF Closed, Refused
    <3> QED
      BY <2>1, <2>2, <3>1, <3>2, <3>3, KnowsStays DEF Knows
  <2>4. Single'
    BY <1>1, <2>1 DEF Single, Serves, InFlight
  <2>5. ASSUME NEW f \in File, NEW k \in Target PROVE ClosedOK(f, k)'
    <3>1. Closed(f, k)' = Closed(f, k) /\ Refused(f, k)' = Refused(f, k)
      BY <2>1 DEF Closed, Refused
    <3>2. k \in Listed(f) => <<f, k>> \in staged
      BY <1>1 DEF ClosedOK
    <3> QED
      BY <1>1, <2>1, <2>2, <3>1, <3>2, ClosedStays
  <2>6. FreshInv'
    BY <2>1 DEF FreshInv
  <2> QED
    BY <2>3, <2>4, <2>5, <2>6 DEF OutcomeParts
<1>3. ASSUME NEW F \in File, NEW T \in TargetLists,
             NEW l \in {"linked", "removed"}, CreateWrite(F, T, l)
      PROVE OutcomeParts'
  <2>1. /\ creating' = {} /\ staged' = staged \cup {<<F, k>> : k \in T}
        /\ UNCHANGED <<pc, req, rest, approved, rejected, acked, delivered, hazard>>
        /\ <<F, T, l>> \in creating
    BY <1>3 DEF CreateWrite
  <2>2. \A k \in Target : <<F, k>> \notin staged
    BY <1>1, <2>1 DEF FreshInv
  <2>3. T \subseteq Target
    BY ListType
  <2>4. PICK bytes \in Written(F, T, l = "linked") : entry' = [entry EXCEPT ![F] = bytes]
    BY <1>3 DEF CreateWrite
  <2>5. ASSUME NEW f \in File
        PROVE  Listed(f)' \subseteq IF f = F THEN Listed(f) \cup T ELSE Listed(f)
    BY <2>4 DEF TypeInv, TypeOK, Listed, Readable, Written
  <2>6. ASSUME NEW h \in Handler, InFlight(h)' PROVE Knows(h)'
    <3>1. InFlight(h) /\ Knows(h)
      BY <1>1, <2>1, <2>6 DEF InFlight
    <3>2. req[h].f \in File /\ req[h].k \in Target /\ req[h].f # F
      BY <2>2, <3>1, AtHand DEF Knows
    <3>3. \A f, k : Closed(f, k)' = Closed(f, k)
      BY <2>1 DEF Closed, Refused
    <3> QED
      BY <2>1, <2>5, <3>1, <3>2, <3>3, KnowsStays DEF Knows
  <2>7. Single'
    BY <1>1, <2>1 DEF Single, Serves, InFlight
  <2>8. ASSUME NEW f \in File, NEW k \in Target PROVE ClosedOK(f, k)'
    <3>1. Closed(f, k)' = Closed(f, k) /\ Refused(f, k)' = Refused(f, k)
      BY <2>1 DEF Closed, Refused
    <3>2. ClosedOK(f, k) /\ (f = F => ~Closed(f, k) /\ k \notin Listed(f))
      BY <1>1, <2>2 DEF ClosedOK
    <3>3. CASE f = F
      BY <2>1, <2>3, <2>5, <3>1, <3>2, <3>3 DEF ClosedOK
    <3>4. CASE f # F
      <4>1. Listed(f)' = Listed(f)
        BY <2>4, <3>4 DEF TypeInv, TypeOK, Listed, Readable
      <4>2. \A h \in Handler : Serves(h, f, k)' = Serves(h, f, k)
        BY <2>1 DEF Serves, InFlight
      <4> QED
        BY <2>1, <3>1, <3>2, <4>1, <4>2 DEF ClosedOK
    <3> QED
      BY <3>3, <3>4
  <2>9. FreshInv'
    BY <2>1 DEF FreshInv
  <2> QED
    BY <2>6, <2>7, <2>8, <2>9 DEF OutcomeParts
<1>4. ASSUME NEW w \in Handler, NEW r \in Requests, Request(w, r)
      PROVE OutcomeParts'
  <2>1. /\ pc[w] = "idle" /\ req' = [req EXCEPT ![w] = r]
        /\ pc' = [pc EXCEPT ![w] = IF r.act = "approve" THEN "submit" ELSE "update"]
        /\ rejected' = IF r.act = "reject" THEN rejected \cup {<<r.f, r.k>>} ELSE rejected
        /\ UNCHANGED <<entry, creating, rest, staged, approved, acked, delivered>>
        /\ r.k \in Listed(r.f)
    BY <1>4 DEF Request, Goto, disk
  <2>2. \A g \in Handler : ~Serves(g, r.f, r.k)
    BY <1>4 DEF Request, Serves, Exceptions
  <2>3. /\ r.f \in File /\ r.k \in Target /\ r.act \in {"approve", "reject"}
        /\ pc \in [Handler -> PCs] /\ req \in [Handler -> Requests \cup {NoRequest}]
    BY RequestType DEF Requests, TypeInv, TypeOK
  <2>4. ~Closed(r.f, r.k) /\ <<r.f, r.k>> \in staged
    BY <1>1, <2>1, <2>2, <2>3 DEF ClosedOK
  <2>5. \A f, k : Closed(f, k)' = Closed(f, k) /\ Refused(f, k)' = Refused(f, k)
    BY <2>1 DEF Closed, Refused
  <2>6. \A f : Listed(f)' = Listed(f)
    BY <2>1 DEF Listed, Readable
  <2>7. ASSUME NEW h \in Handler, InFlight(h)' PROVE Knows(h)'
    <3>1. CASE h = w
      <4>1. req'[w] = r /\ pc'[w] = IF r.act = "approve" THEN "submit" ELSE "update"
        BY <2>1, <2>3
      <4> QED
        BY <2>1, <2>3, <2>4, <2>5, <3>1, <4>1 DEF Knows
    <3>2. CASE h # w
      <4>1. pc'[h] = pc[h] /\ req'[h] = req[h] /\ InFlight(h) /\ Knows(h)
        BY <1>1, <2>1, <2>3, <2>7, <3>2 DEF InFlight
      <4> QED
        BY <2>1, <2>5, <2>6, <4>1, KnowsStays DEF Knows
    <3> QED
      BY <3>1, <3>2
  <2>8. Single'
    <3> SUFFICES ASSUME NEW f \in File, NEW k \in Target, NEW g \in Handler,
                        NEW h \in Handler, Serves(g, f, k)', Serves(h, f, k)'
                 PROVE  g = h
      BY DEF Single
    <3>1. \A x \in Handler : Serves(x, f, k)' =>
            IF x = w THEN f = r.f /\ k = r.k ELSE Serves(x, f, k)
      BY <2>1, <2>3 DEF Serves, InFlight
    <3> QED
      BY <1>1, <2>2, <3>1 DEF Single
  <2>9. ASSUME NEW f \in File, NEW k \in Target PROVE ClosedOK(f, k)'
    <3>1. ClosedOK(f, k) /\ (k \in Listed(f) => <<f, k>> \in staged)
      BY <1>1 DEF ClosedOK
    <3>2. \A h \in Handler : Serves(h, f, k) => h # w
      BY <2>1 DEF Serves, InFlight
    <3> QED
      BY <2>1, <2>3, <2>5, <2>6, <3>1, <3>2, ClosedStays
  <2>10. FreshInv'
    BY <1>1, <2>1 DEF FreshInv
  <2> QED
    BY <2>7, <2>8, <2>9, <2>10 DEF OutcomeParts
<1>5. ASSUME NEW w \in Handler, SubmitOK(w) PROVE OutcomeParts'
  <2>0. PICK F, K : F = req[w].f /\ K = req[w].k
    OBVIOUS
  <2> USE <2>0
  <2>1. /\ pc[w] = "submit" /\ pc' = [pc EXCEPT ![w] = "update"]
        /\ delivered' = [delivered EXCEPT ![ItemOf(w)] = IF @ < 2 THEN @ + 1 ELSE @]
        /\ approved' = approved \cup {ItemOf(w)}
        /\ UNCHANGED <<entry, creating, req, rest, staged, rejected, acked, hazard>>
    BY <1>5 DEF SubmitOK, Goto, Deliver, disk
  <2>2. /\ F \in File /\ K \in Target /\ ItemOf(w) = <<F, K>> /\ ItemOf(w) \in Item
        /\ InFlight(w) /\ Serves(w, F, K) /\ Knows(w)
    BY <1>1, <2>1, AtHand DEF InFlight
  <2>3. /\ req[w].act = "approve" /\ ~Closed(F, K) /\ <<F, K>> \in staged
    BY <2>1, <2>2 DEF Knows
  <2>4. pc \in [Handler -> PCs] /\ delivered \in [Item -> 0..2]
    BY DEF TypeInv, TypeOK
  <2>5. ASSUME NEW f, NEW k
        PROVE  /\ Refused(f, k)' = Refused(f, k)
               /\ (f # F \/ k # K) => (Closed(f, k)' = Closed(f, k))
               /\ Listed(f)' = Listed(f)
    BY <2>1, <2>2 DEF Closed, Refused, Listed, Readable
  <2>6. ASSUME NEW h \in Handler, InFlight(h)' PROVE Knows(h)'
    <3>1. CASE h = w
      <4>1. pc'[w] = "update" /\ req'[w] = req[w]
        BY <2>1, <2>4
      <4> QED
        BY <2>1, <2>2, <2>3, <3>1, <4>1 DEF Knows
    <3>2. CASE h # w
      <4>1. pc'[h] = pc[h] /\ InFlight(h) /\ Knows(h)
        BY <1>1, <2>1, <2>4, <2>6, <3>2 DEF InFlight
      <4>2. req[h].f # F \/ req[h].k # K
        <5>1. Serves(h, req[h].f, req[h].k)
          BY <4>1, AtHand
        <5> QED
          BY <1>1, <2>2, <3>2, <5>1 DEF Single
      <4> QED
        BY <2>1, <2>5, <4>1, <4>2, KnowsStays DEF Knows
    <3> QED
      BY <3>1, <3>2
  <2>7. \A h \in Handler : \A f, k : Serves(h, f, k)' = Serves(h, f, k)
    BY <2>1, <2>4 DEF Serves, InFlight
  <2>8. ASSUME NEW f \in File, NEW k \in Target PROVE ClosedOK(f, k)'
    <3>1. ClosedOK(f, k) /\ <<f, k>> \in Item
      BY <1>1 DEF Item
    <3>2. CASE f = F /\ k = K
      <4>1. delivered[<<f, k>>] = 0 /\ ~Refused(f, k) /\ <<f, k>> \notin approved
        BY <2>3, <2>4, <3>1, <3>2 DEF ClosedOK, Closed
      <4>2. delivered'[<<f, k>>] = 1
        BY <2>1, <2>2, <2>4, <3>1, <3>2, <4>1
      <4>3. pc'[w] = "update" /\ Serves(w, f, k)' /\ req'[w].act = "approve"
        BY <2>1, <2>2, <2>3, <2>4, <2>7, <3>2
      <4> QED
        BY <2>1, <2>2, <2>3, <2>5, <3>2, <4>1, <4>2, <4>3 DEF ClosedOK
    <3>3. CASE f # F \/ k # K
      <4>1. delivered'[<<f, k>>] = delivered[<<f, k>>] /\ <<f, k>> # ItemOf(w)
        BY <2>1, <2>2, <2>4, <3>1, <3>3
      <4>2. \A h \in Handler : Serves(h, f, k) => h # w /\ pc'[h] = pc[h]
        BY <2>1, <2>4, <3>3 DEF Serves
      <4> QED
        BY <2>1, <2>5, <2>7, <3>1, <3>3, <4>1, <4>2 DEF ClosedOK
    <3> QED
      BY <3>2, <3>3
  <2>9. Single' /\ FreshInv'
    BY <1>1, <2>1, <2>7 DEF Single, FreshInv
  <2> QED
    BY <2>6, <2>8, <2>9 DEF OutcomeParts
<1>6. ASSUME NEW w \in Handler, SubmitUnknown(w) PROVE FALSE
  BY <1>6 DEF SubmitUnknown, Exceptions
<1>7. ASSUME NEW w \in Handler, UpdateRead(w) PROVE OutcomeParts'
  <2>0. PICK F, K : F = req[w].f /\ K = req[w].k
    OBVIOUS
  <2> USE <2>0
  <2>1. /\ pc[w] = "update" /\ entry[F] \notin {NoFile, Empty, Garbage}
        /\ rest' = [rest EXCEPT ![w] = entry[F] \ {K}]
        /\ \E to \in {"delete", "open"} : pc' = [pc EXCEPT ![w] = to]
        /\ UNCHANGED <<entry, creating, req, staged, approved, rejected, acked, delivered>>
    BY <1>7 DEF UpdateRead, Goto, Readable, disk, history
  <2>2. /\ F \in File /\ K \in Target /\ InFlight(w) /\ Knows(w)
    BY <1>1, <2>1, AtHand DEF InFlight
  <2>3. pc \in [Handler -> PCs] /\ rest \in [Handler -> SUBSET Target]
        /\ Listed(F) = entry[F] /\ Listed(F) \subseteq Target
    BY <2>1, <2>2 DEF TypeInv, TypeOK, Listed, Readable
  <2>4. \A f, k : /\ Closed(f, k)' = Closed(f, k) /\ Refused(f, k)' = Refused(f, k)
                  /\ Listed(f)' = Listed(f)
    BY <2>1 DEF Closed, Refused, Listed, Readable
  <2>5. pc'[w] \in {"delete", "open"} /\ \A h \in Handler \ {w} : pc'[h] = pc[h]
    BY <2>1, <2>3
  <2>6. ASSUME NEW h \in Handler, InFlight(h)' PROVE Knows(h)'
    <3>1. CASE h = w
      <4>1. rest'[w] = entry[F] \ {K}
        BY <2>1, <2>3
      <4>2. \A j \in rest'[w] : <<F, j>> \in staged
        BY <1>1, <2>2, <2>3, <4>1 DEF ClosedOK
      <4>3. K \notin rest'[w] /\ req'[w] = req[w]
        BY <2>1, <4>1
      <4> QED
        BY <2>1, <2>2, <2>4, <2>5, <3>1, <4>2, <4>3 DEF Knows
    <3>2. CASE h # w
      <4>1. pc'[h] = pc[h] /\ rest'[h] = rest[h] /\ InFlight(h) /\ Knows(h)
        BY <1>1, <2>1, <2>3, <2>5, <2>6, <3>2 DEF InFlight
      <4> QED
        BY <2>1, <2>4, <4>1, KnowsStays DEF Knows
    <3> QED
      BY <3>1, <3>2
  <2>7. \A h \in Handler : \A f, k : Serves(h, f, k)' = Serves(h, f, k)
    BY <2>1, <2>5 DEF Serves, InFlight
  <2>8. ASSUME NEW f \in File, NEW k \in Target PROVE ClosedOK(f, k)'
    <3>1. ClosedOK(f, k) /\ (k \in Listed(f) => <<f, k>> \in staged)
      BY <1>1 DEF ClosedOK
    <3>2. \A h \in Handler : pc[h] \in {"update", "open", "delete"}
                             => pc'[h] \in {"update", "open", "delete"}
      BY <2>5
    <3> QED
      BY <2>1, <2>4, <3>1, <3>2, ClosedStays
  <2>9. Single' /\ FreshInv'
    BY <1>1, <2>1, <2>7 DEF Single, FreshInv
  <2> QED
    BY <2>6, <2>8, <2>9 DEF OutcomeParts
(* An error of UpdatePending: after a delivery it is an exception, unless  *)
(* the file is gone; a rejection that was not acknowledged closes nothing. *)
<1>8. ASSUME NEW w \in Handler,
             UpdateFails(w) \/ DeleteFails(w) \/ OpenFails(w) \/ WriteFails(w)
      PROVE OutcomeParts'
  <2>1. /\ pc[w] \in {"update", "delete", "open", "write"}
        /\ pc' = [pc EXCEPT ![w] = "check"] /\ req' = [req EXCEPT ![w] = NoRequest]
        /\ rest' = [rest EXCEPT ![w] = {}]
        /\ UNCHANGED <<creating, staged, approved, rejected, acked, delivered>>
    BY <1>8 DEF UpdateFails, DeleteFails, OpenFails, WriteFails, Answer, disk
  <2>2. PICK F, K : F = req[w].f /\ K = req[w].k
    OBVIOUS
  <2>3. F \in File /\ req[w].act \in {"approve", "reject"} /\ InFlight(w)
    BY <2>1, <2>2, AtHand DEF InFlight
  <2>4. \E bytes \in {entry[F], Garbage} : entry' = [entry EXCEPT ![F] = bytes]
    <3>1. CASE WriteFails(w)
      BY <2>2, <3>1 DEF WriteFails
    <3>2. CASE entry' = entry
      BY <2>3, <3>2 DEF TypeInv, TypeOK
    <3> QED
      BY <1>8, <3>1, <3>2 DEF UpdateFails, DeleteFails, OpenFails, disk
  <2>5. ASSUME NEW f \in File PROVE Listed(f)' \subseteq Listed(f)
    BY <2>3, <2>4 DEF Listed, Readable, TypeInv, TypeOK
  <2>6. req[w].act = "approve" => entry[F] = NoFile
    BY <1>8, <2>2 DEF UpdateFails, DeleteFails, OpenFails, WriteFails, Unrecorded, Exceptions
  <2>7. entry[F] = NoFile => Listed(F) = {}
    BY DEF Listed, Readable
  <2>8. K \notin Listed(F)' \/ (acked' = acked /\ req[w].act = "reject")
    BY <2>1, <2>3, <2>5, <2>6, <2>7
  <2>9. FreshInv'
    BY <1>1, <2>1 DEF FreshInv
  <2> QED
    BY <2>1, <2>2, <2>3, <2>5, <2>8, <2>9, Retires
<1>9. ASSUME NEW w \in Handler, Delete(w) PROVE OutcomeParts'
  <2>0. PICK F, K : F = req[w].f /\ K = req[w].k
    OBVIOUS
  <2> USE <2>0
  <2>1. /\ pc[w] = "delete" /\ entry' = [entry EXCEPT ![F] = NoFile]
        /\ pc' = [pc EXCEPT ![w] = "check"] /\ req' = [req EXCEPT ![w] = NoRequest]
        /\ rest' = [rest EXCEPT ![w] = {}]
        /\ acked' \in {acked, Acked(w)}
        /\ creating' = {<<c[1], c[2], IF c[1] = F THEN "removed" ELSE c[3]>> :
                          c \in creating}
        /\ UNCHANGED <<staged, approved, rejected, delivered>>
    BY <1>9 DEF Delete, Answer
  <2>2. F \in File
    BY <2>1, AtHand DEF InFlight
  <2>3. \A f \in File : Listed(f)' = IF f = F THEN {} ELSE Listed(f)
    BY <2>1, <2>2 DEF TypeInv, TypeOK, Listed, Readable
  <2>4. FreshInv'
    BY <1>1, <2>1 DEF FreshInv
  <2>5. \A f \in File : \A k \in Listed(f)' : k \in Listed(f)
    BY <2>3
  <2> QED
    BY <2>1, <2>2, <2>3, <2>4, <2>5, Retires DEF InFlight
<1>10. ASSUME NEW w \in Handler, Open(w) PROVE OutcomeParts'
  <2>0. PICK F, K : F = req[w].f /\ K = req[w].k
    OBVIOUS
  <2> USE <2>0
  <2>1. /\ pc[w] = "open" /\ pc' = [pc EXCEPT ![w] = "write"]
        /\ entry' = [entry EXCEPT ![F] = Empty]
        /\ UNCHANGED <<creating, req, rest, staged, approved, rejected, acked, delivered>>
    BY <1>10 DEF Open, Goto
  <2>2. /\ F \in File /\ K \in Target /\ InFlight(w) /\ Knows(w)
    BY <1>1, <2>1, AtHand DEF InFlight
  <2>3. \A f \in File : Listed(f)' = IF f = F THEN {} ELSE Listed(f)
    BY <2>1, <2>2 DEF TypeInv, TypeOK, Listed, Readable
  <2>4. \A f, k : Closed(f, k)' = Closed(f, k) /\ Refused(f, k)' = Refused(f, k)
    BY <2>1 DEF Closed, Refused
  <2>5. pc'[w] = "write" /\ \A h \in Handler \ {w} : pc'[h] = pc[h]
    BY <2>1 DEF TypeInv, TypeOK
  <2>6. ASSUME NEW h \in Handler, InFlight(h)' PROVE Knows(h)'
    <3>1. CASE h = w
      <4>1. K \notin Listed(F)' /\ req'[w].f = F
        BY <2>1, <2>2, <2>3
      <4>2. K \notin Listed(req[w].f)'
        BY <2>1, <4>1 DEF Listed, Readable
      <4> QED
        BY <2>1, <2>2, <2>4, <2>5, <3>1, <4>2 DEF Knows
    <3>2. CASE h # w
      <4>1. pc'[h] = pc[h] /\ InFlight(h) /\ Knows(h)
        BY <1>1, <2>5, <2>6, <3>2 DEF InFlight
      <4>2. req[h].f \in File
        BY <4>1, AtHand
      <4>3. PICK f, k : f = req[h].f /\ k = req[h].k
        OBVIOUS
      <4>4. pc[h] = "write" => k \notin Listed(f)'
        BY <2>3, <4>1, <4>2, <4>3 DEF Knows
      <4> QED
        BY <2>1, <2>4, <4>1, <4>3, <4>4, KnowsStays
    <3> QED
      BY <3>1, <3>2
  <2>7. \A h \in Handler : \A f, k : Serves(h, f, k)' = Serves(h, f, k)
    BY <2>1, <2>5 DEF Serves, InFlight
  <2>8. ASSUME NEW f \in File, NEW k \in Target PROVE ClosedOK(f, k)'
    <3>1. ClosedOK(f, k) /\ (k \in Listed(f) => <<f, k>> \in staged)
      BY <1>1 DEF ClosedOK
    <3>2. \A h \in Handler : Serves(h, f, k) /\ k \in Listed(f)' => pc'[h] = pc[h]
      BY <2>3, <2>5 DEF Serves
    <3> QED
      BY <2>1, <2>3, <2>4, <3>1, <3>2, ClosedStays
  <2>9. Single' /\ FreshInv'
    BY <1>1, <2>1, <2>7 DEF Single, FreshInv
  <2> QED
    BY <2>6, <2>8, <2>9 DEF OutcomeParts
<1>11. ASSUME NEW w \in Handler, Write(w) PROVE OutcomeParts'
  <2>0. PICK F, K : F = req[w].f /\ K = req[w].k
    OBVIOUS
  <2> USE <2>0
  <2>1. /\ pc[w] = "write"
        /\ pc' = [pc EXCEPT ![w] = "check"] /\ req' = [req EXCEPT ![w] = NoRequest]
        /\ rest' = [rest EXCEPT ![w] = {}]
        /\ acked' = Acked(w)
        /\ UNCHANGED <<creating, staged, approved, rejected, delivered>>
        /\ \A k \in rest[w] : <<F, k>> \notin approved \cup rejected
    BY <1>11 DEF Write, Answer, Exceptions
  <2>2. F \in File /\ Knows(w)
    BY <1>1, <2>1, AtHand DEF InFlight
  <2>3. PICK bytes \in Written(F, rest[w], w \notin detached) :
          entry' = [entry EXCEPT ![F] = bytes]
    BY <1>11 DEF Write
  <2>4. rest[w] \in SUBSET Target
    BY DEF TypeInv, TypeOK
  <2>5. ASSUME NEW f \in File
        PROVE  /\ f # F => Listed(f)' = Listed(f)
               /\ f = F => Listed(f)' \in {{}, Listed(f), rest[w]}
    <3>1. CASE f # F
      BY <2>3, <3>1 DEF Listed, Readable, TypeInv, TypeOK
    <3>2. CASE f = F
      <4>1. entry'[F] = bytes /\ bytes \in {entry[F], rest[w], Garbage}
        BY <2>2, <2>3 DEF Written, TypeInv, TypeOK
      <4> QED
        BY <2>4, <3>2, <4>1, ApprovalAssumption DEF Listed, Readable
    <3> QED
      BY <3>1, <3>2
  <2>6. K \notin rest[w] /\ K \notin Listed(F)
        /\ \A j \in rest[w] : <<F, j>> \in staged
    BY <2>1, <2>2 DEF Knows
  <2>7. K \notin Listed(F)'
    BY <2>2, <2>5, <2>6
  <2>8. FreshInv'
    BY <1>1, <2>1 DEF FreshInv
  <2>9. \A f \in File : \A k \in Listed(f)' :
          \/ k \in Listed(f)
          \/ /\ <<f, k>> \in staged /\ <<f, k>> \notin approved \cup rejected
             /\ f = F /\ k \in rest[w]
    BY <2>1, <2>5, <2>6
  <2> QED
    BY <2>1, <2>7, <2>8, <2>9, Retires DEF InFlight
<1>12. CASE Stop
  <2>1. /\ \A h \in Handler : pc'[h] = "idle"
        /\ UNCHANGED <<entry, creating, staged, approved, rejected, acked, delivered>>
        /\ \A h \in Handler : InFlight(h) /\ req[h].act = "approve" => pc[h] = "submit"
    BY <1>12 DEF Stop, Exceptions
  <2>2. ASSUME NEW f \in File, NEW k \in Target PROVE ClosedOK(f, k)'
    <3>1. ~(Closed(f, k) /\ k \in Listed(f))
      BY <1>1, <2>1 DEF ClosedOK, Serves
    <3> QED
      BY <1>1, <2>1, <3>1 DEF ClosedOK, Closed, Refused, Listed, Readable
  <2> QED
    BY <1>1, <2>1, <2>2 DEF OutcomeParts, InFlight, Single, Serves, FreshInv
<1> USE DEF TypeInv, TypeOK, ReqInv, PCs, InFlight, disk, history, OutcomeParts, Knows,
            Single, ClosedOK, FreshInv, Refused, Closed, Serves, Listed, Readable, ItemOf,
            Requests, Exceptions, Item
<1>13. CASE CreateFails
  BY <1>13 DEF CreateFails
<1>14. ASSUME NEW w \in Handler, NEW r \in Requests, RequestRefused(w, r)
      PROVE OutcomeParts'
  BY <1>14 DEF RequestRefused, Answer
<1>15. ASSUME NEW w \in Handler, SubmitFails(w) PROVE OutcomeParts'
  BY <1>15 DEF SubmitFails, Answer
<1>16. ASSUME NEW w \in Handler, CheckResolved(w) PROVE OutcomeParts'
  BY <1>16 DEF CheckResolved, Goto
<1>17. CASE Launch
  BY <1>17 DEF Launch
<1>18. CASE Resolved
  BY <1>18 DEF Resolved
<1>19. CASE Interrupt
  BY <1>19 DEF Interrupt
<1>20. CASE UNCHANGED vars
  BY <1>20 DEF vars
<1> HIDE DEF TypeInv, TypeOK, ReqInv, OutcomeParts, Requests
<1> QED
  BY <1>2, <1>3, <1>4, <1>5, <1>6, <1>7, <1>8, <1>9, <1>10, <1>11, <1>12, <1>13,
     <1>14, <1>15, <1>16, <1>17, <1>18, <1>19, <1>20 DEF Next, Serve, Proceed

(* However requests overlap and rewrites of a file interleave: a KB gets   *)
(* the note once or has its rejection acknowledged, never both.            *)
THEOREM EveryOutcome == Spec => []OneOutcome
<1>1. Init => OutcomeInv
  BY DEF Init, OutcomeInv, OutcomeParts, Knows, Single, ClosedOK, FreshInv, Refused,
     Closed, Serves, Listed, Readable, InFlight, Item
<1>2. TypeInv /\ OutcomeInv => OneOutcome
  <2> SUFFICES ASSUME TypeInv, OutcomeParts
               PROVE  /\ \A i \in Item : delivered[i] <= 1
                      /\ \A i \in acked : delivered[i] = 0
    BY DEF OutcomeInv, OneOutcome, Exceptions
  <2>1. ASSUME NEW f \in File, NEW k \in Target
        PROVE  /\ delivered[<<f, k>>] \in 0..1
               /\ Refused(f, k) => delivered[<<f, k>>] = 0
    BY DEF TypeInv, TypeOK, OutcomeParts, ClosedOK, Item
  <2>2. ASSUME NEW i \in acked PROVE delivered[i] = 0
    BY <2>1, <2>2 DEF TypeInv, TypeOK, Item, Refused
  <2> QED
    BY <2>1, <2>2 DEF Item
<1> QED
  BY <1>1, <1>2, NextOutcome, TypeAlways, PTL DEF Spec
=============================================================================
