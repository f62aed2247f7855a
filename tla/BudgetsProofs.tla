---------------------------- MODULE BudgetsProofs ----------------------------
(***************************************************************************)
(* Theorems about Budgets, for every set of deliverables, activities and   *)
(* requests and every number of budgets.                                   *)
(***************************************************************************)
EXTENDS Budgets, SequenceTheorems, TLAPS

-----------------------------------------------------------------------------
(* What the three kinds of writes do to the sequence of budgets.           *)

LEMMA IdsAre == ASSUME TypeOK PROVE Ids = 1..Len(budget) /\ Len(budget) \in Nat
  BY LenProperties DEF TypeOK, Ids

LEMMA RowOf == ASSUME TypeOK, NEW b \in Ids PROVE budget[b] \in BudgetRecord
  BY IdsAre, ElementOfSeq DEF TypeOK

(* One row replaced by a row with the same lineage and version.            *)
LEMMA Replaced ==
    ASSUME TypeOK, NEW b \in Ids, NEW r \in BudgetRecord, budget' = [budget EXCEPT ![b] = r]
    PROVE  /\ budget' \in Seq(BudgetRecord) /\ Ids' = Ids
           /\ \A i \in Ids : budget'[i] = IF i = b THEN r ELSE budget[i]
  <1>1. /\ budget' \in Seq(BudgetRecord) /\ Len(budget') = Len(budget)
        /\ \A i \in 1..Len(budget) : budget'[i] = IF i = b THEN r ELSE budget[i]
    BY IdsAre, ExceptSeq DEF TypeOK
  <1>2. Ids' = 1..Len(budget')
    BY <1>1, LenProperties DEF Ids
  <1>3. QED
    BY <1>1, <1>2, IdsAre

(* A row added behind the others.                                          *)
LEMMA Appended ==
    ASSUME TypeOK, NEW s \in Seq(BudgetRecord), DOMAIN s = Ids,
           NEW r \in BudgetRecord, budget' = Append(s, r)
    PROVE  /\ budget' \in Seq(BudgetRecord) /\ Ids \subseteq Ids'
           /\ \E n \in Ids' : n \notin Ids /\ Ids' = Ids \cup {n} /\ budget'[n] = r
           /\ \A i \in Ids : budget'[i] = s[i]
  <1>1. Len(s) \in Nat /\ Ids = 1..Len(s)
    BY LenProperties
  <1>2. /\ budget' \in Seq(BudgetRecord) /\ Len(budget') = Len(s) + 1
        /\ \A i \in 1..Len(s) : budget'[i] = s[i]
        /\ budget'[Len(s) + 1] = r
    BY AppendProperties
  <1>3. Ids' = 1..Len(s) + 1
    BY <1>2, LenProperties DEF Ids
  <1>4. Len(s) + 1 \in Ids' /\ Len(s) + 1 \notin Ids /\ Ids' = Ids \cup {Len(s) + 1}
    BY <1>1, <1>3
  <1>5. QED
    BY <1>1, <1>2, <1>4

(* What happens to the rows in a step: a status is written ...             *)
StatusWritten(b, t) ==
    /\ Ids' = Ids
    /\ \A i \in Ids : budget'[i] = IF i = b THEN [budget[b] EXCEPT !.status = t] ELSE budget[i]

(* ... a first version is added ...                                        *)
FirstAdded(l, s) ==
    \E n \in Ids' :
        /\ n \notin Ids /\ Ids' = Ids \cup {n} /\ budget'[n] = First(l, s)
        /\ \A i \in Ids : budget'[i] = budget[i]

(* ... or b gets a successor.                                              *)
Succeeded(b) ==
    \E n \in Ids' :
        /\ n \notin Ids /\ Ids' = Ids \cup {n}
        /\ budget'[n] = Draft(budget[b].lineage, budget[b].version)
        /\ \A i \in Ids : budget'[i] = IF i = b THEN [budget[b] EXCEPT !.current = FALSE] ELSE budget[i]

LEMMA CreateRows ==
    ASSUME TypeOK, NEW l \in Lineages, NEW s \in Births, Create(l, s)
    PROVE  budget' \in Seq(BudgetRecord) /\ FirstAdded(l, s)
  <1>1. First(l, s) \in BudgetRecord
    BY BudgetConstants DEF First, BudgetRecord
  <1>2. budget \in Seq(BudgetRecord) /\ DOMAIN budget = Ids
    BY DEF TypeOK, Ids
  <1>3. budget' = Append(budget, First(l, s))
    BY DEF Create
  <1>4. QED
    BY <1>1, <1>2, <1>3, Appended DEF FirstAdded

LEMMA WriteRows ==
    ASSUME TypeOK, NEW p \in Procs, BudgetWrite(p)
    PROVE  budget' \in Seq(BudgetRecord) /\ StatusWritten(req[p].id, req[p].to)
  <1> DEFINE b == req[p].id
             r == [budget[b] EXCEPT !.status = req[p].to]
  <1>1. b \in Ids /\ req[p].to \in BudgetStatuses
    BY DEF TypeOK, ReqOK, BudgetWrite
  <1>2. r \in BudgetRecord
    BY <1>1, RowOf DEF BudgetRecord
  <1>3. budget' = [budget EXCEPT ![b] = r]
    BY DEF BudgetWrite
  <1>4. QED
    BY <1>1, <1>2, <1>3, Replaced DEF StatusWritten

LEMMA SwitchRows ==
    ASSUME TypeOK, NEW p \in Procs, VersionSwitch(p)
    PROVE  budget' \in Seq(BudgetRecord) /\ Succeeded(req[p].id)
  <1> DEFINE b == req[p].id
             r == [budget[b] EXCEPT !.current = FALSE]
             s == [budget EXCEPT ![b] = r]
             d == Draft(budget[b].lineage, budget[b].version)
  <1>1. b \in Ids /\ req[p].version = budget[b].version
    BY DEF TypeOK, ReqOK, VersionSwitch
  <1>2. budget[b] \in BudgetRecord
    BY <1>1, RowOf
  <1>3. r \in BudgetRecord /\ d \in BudgetRecord
    <2>1. r \in BudgetRecord
      BY <1>2 DEF BudgetRecord
    <2>2. budget[b].lineage \in Lineages /\ budget[b].version \in Nat
      BY <1>2 DEF BudgetRecord
    <2>3. budget[b].version + 1 \in Nat \ {0}
      BY <2>2
    <2>4. d \in BudgetRecord
      BY <2>2, <2>3 DEF BudgetRecord, Draft, BudgetStatuses
    <2>5. QED
      BY <2>1, <2>4
  <1>4. /\ s \in Seq(BudgetRecord) /\ DOMAIN s = Ids
        /\ \A i \in Ids : s[i] = IF i = b THEN r ELSE budget[i]
    <2>1. /\ s \in Seq(BudgetRecord) /\ Len(s) = Len(budget)
          /\ \A i \in 1..Len(budget) : s[i] = IF i = b THEN r ELSE budget[i]
      BY <1>1, <1>3, IdsAre, ExceptSeq DEF TypeOK
    <2>2. DOMAIN s = 1..Len(s)
      BY <2>1, LenProperties
    <2>3. QED
      BY <2>1, <2>2, IdsAre
  <1>5. budget' = Append(s, d)
    BY <1>1 DEF VersionSwitch
  <1> HIDE DEF s, d, r
  <1>6. /\ budget' \in Seq(BudgetRecord)
        /\ \E n \in Ids' : n \notin Ids /\ Ids' = Ids \cup {n} /\ budget'[n] = d
        /\ \A i \in Ids : budget'[i] = s[i]
    BY <1>3, <1>4, <1>5, Appended
  <1>7. QED
    BY <1>4, <1>6 DEF Succeeded, d, r

-----------------------------------------------------------------------------
(* Type correctness.                                                       *)

KeysKept ==
    /\ Ids \subseteq Ids'
    /\ \A i \in Ids : /\ budget'[i].lineage = budget[i].lineage
                      /\ budget'[i].version = budget[i].version

LEMMA RowsKeepKeys ==
    ASSUME TypeOK,
           \/ \E b, t : StatusWritten(b, t)
           \/ \E l, s : FirstAdded(l, s)
           \/ \E b : Succeeded(b)
           \/ UNCHANGED budget
    PROVE  KeysKept
  <1>1. \A i \in Ids : budget[i] \in BudgetRecord
    BY RowOf
  <1>2. ASSUME NEW b, NEW t, StatusWritten(b, t) PROVE KeysKept
    BY <1>1, <1>2 DEF StatusWritten, KeysKept, BudgetRecord
  <1>3. ASSUME NEW l, NEW s, FirstAdded(l, s) PROVE KeysKept
    BY <1>3 DEF FirstAdded, KeysKept
  <1>4. ASSUME NEW b, Succeeded(b) PROVE KeysKept
    BY <1>1, <1>4 DEF Succeeded, KeysKept, BudgetRecord
  <1>5. ASSUME UNCHANGED budget PROVE KeysKept
    BY <1>5 DEF KeysKept, Ids
  <1>6. QED
    BY <1>2, <1>3, <1>4, <1>5

(* A process takes up r while rows keep their keys.                        *)
LEMMA ReqStep ==
    ASSUME TypeOK, KeysKept, NEW p \in Procs, NEW r \in ReqRecord, req' = [req EXCEPT ![p] = r],
           r.op \in {"budget", "version"} => r.id \in Ids,
           r.op = "version" => r.version = budget[r.id].version,
           r.op = "budget" => r.to \in BudgetStatuses,
           r.op = "deliverable" => r.d \in Deliverables /\ r.to \in DeliverableStatuses
    PROVE  /\ req' \in [Procs -> ReqRecord]
           /\ \A q \in Procs : ReqOK(req[q])'
           /\ \A q \in Procs : req'[q] = IF q = p THEN r ELSE req[q]
  <1>1. \A q \in Procs : req'[q] = IF q = p THEN r ELSE req[q]
    BY DEF TypeOK
  <1>2. req' \in [Procs -> ReqRecord]
    BY DEF TypeOK
  <1>3. ASSUME NEW q \in Procs PROVE ReqOK(req[q])'
    <2>1. ReqOK(req[q])
      BY DEF TypeOK
    <2>2. CASE q = p
      BY <1>1, <2>2 DEF ReqOK, KeysKept
    <2>3. CASE q # p
      BY <1>1, <2>1, <2>3 DEF ReqOK, KeysKept
    <2>4. QED
      BY <2>2, <2>3
  <1>4. QED
    BY <1>1, <1>2, <1>3

LEMMA IdleIsReq == Idle \in ReqRecord /\ Idle.op = "none" /\ Idle.pc = "idle" /\ Idle.d = NoDeliverable
  BY DEF Idle, ReqRecord, Statuses

LEMMA EndReq ==
    ASSUME TypeOK, KeysKept, NEW p \in Procs, End(p)
    PROVE  /\ req' \in [Procs -> ReqRecord]
           /\ \A q \in Procs : ReqOK(req[q])'
           /\ \A q \in Procs : req'[q] = IF q = p THEN Idle ELSE req[q]
  BY ReqStep, IdleIsReq DEF End

LEMMA TypeStep == ASSUME TypeOK, [Next]_vars PROVE TypeOK' /\ KeysKept
  <1>1. ASSUME NEW l \in Lineages, NEW s \in Births, Create(l, s) PROVE TypeOK' /\ KeysKept
    <2>1. budget' \in Seq(BudgetRecord) /\ KeysKept
      BY <1>1, CreateRows, RowsKeepKeys
    <2>2. UNCHANGED <<deliverable, req, raced>>
      BY <1>1 DEF Create
    <2>3. QED
      BY <2>1, <2>2 DEF TypeOK, ReqOK, KeysKept
  <1>2. ASSUME NEW p \in Procs, BudgetWrite(p) PROVE TypeOK' /\ KeysKept
    <2>1. budget' \in Seq(BudgetRecord) /\ KeysKept
      BY <1>2, WriteRows, RowsKeepKeys
    <2>2. End(p) /\ UNCHANGED deliverable
      BY <1>2 DEF BudgetWrite
    <2>3. raced' \subseteq Ids'
      BY <1>2, <2>1 DEF BudgetWrite, TypeOK, ReqOK, KeysKept
    <2>4. QED
      BY <2>1, <2>2, <2>3, EndReq DEF TypeOK
  <1>3. ASSUME NEW p \in Procs, VersionSwitch(p) PROVE TypeOK' /\ KeysKept
    <2>1. budget' \in Seq(BudgetRecord) /\ KeysKept
      BY <1>3, SwitchRows, RowsKeepKeys
    <2>2. End(p) /\ UNCHANGED <<deliverable, raced>>
      BY <1>3 DEF VersionSwitch
    <2>3. QED
      BY <2>1, <2>2, EndReq DEF TypeOK, KeysKept
  <1>4. ASSUME UNCHANGED budget PROVE KeysKept
    BY <1>4, RowsKeepKeys
  <1>5. ASSUME NEW p \in Procs, NEW b \in Ids, NEW to \in BudgetStatuses, BudgetRead(p, b, to)
        PROVE  TypeOK' /\ KeysKept
    <2> DEFINE r == [Idle EXCEPT !.pc = "write", !.op = "budget", !.id = b,
                                 !.was = budget[b].status, !.to = to]
    <2>1. UNCHANGED <<budget, deliverable, raced>> /\ req' = [req EXCEPT ![p] = r] /\ KeysKept
      BY <1>4, <1>5 DEF BudgetRead, BudgetAsked, Begin
    <2>2. r \in ReqRecord /\ r.op = "budget" /\ r.id = b /\ r.to = to
      <3>1. b \in Nat /\ budget[b].status \in BudgetStatuses
        BY IdsAre, RowOf DEF BudgetRecord
      <3>2. QED
        BY <3>1 DEF Idle, ReqRecord, Statuses
    <2> HIDE DEF r
    <2>3. req' \in [Procs -> ReqRecord] /\ \A q \in Procs : ReqOK(req[q])'
      BY <2>1, <2>2, ReqStep
    <2>4. QED
      BY <2>1, <2>3 DEF TypeOK, Ids
  <1>6. ASSUME NEW p \in Procs, NEW b \in Ids, VersionRead(p, b) PROVE TypeOK' /\ KeysKept
    <2> DEFINE r == [Idle EXCEPT !.pc = "write", !.op = "version", !.id = b,
                                 !.version = budget[b].version]
    <2>1. UNCHANGED <<budget, deliverable, raced>> /\ req' = [req EXCEPT ![p] = r] /\ KeysKept
      BY <1>4, <1>6 DEF VersionRead, OpenVersion, Begin
    <2>2. b \in Nat /\ budget[b].version \in Nat
      BY RowOf, IdsAre DEF BudgetRecord
    <2>3. r \in ReqRecord /\ r.op = "version" /\ r.id = b /\ r.version = budget[b].version
      BY <2>2 DEF Idle, ReqRecord, Statuses
    <2> HIDE DEF r
    <2>4. req' \in [Procs -> ReqRecord] /\ \A q \in Procs : ReqOK(req[q])'
      BY <2>1, <2>3, ReqStep
    <2>5. QED
      BY <2>1, <2>4 DEF TypeOK, Ids
  <1>7. ASSUME NEW p \in Procs, NEW d \in Deliverables, NEW to \in DeliverableStatuses,
               DeliverableRead(p, d, to)
        PROVE  TypeOK' /\ KeysKept
    <2> DEFINE r == [Idle EXCEPT !.pc = IF to = "released" THEN "check" ELSE "write",
                                 !.op = "deliverable", !.d = d, !.was = deliverable[d], !.to = to]
    <2>1. UNCHANGED <<budget, deliverable, raced>> /\ req' = [req EXCEPT ![p] = r] /\ KeysKept
      BY <1>4, <1>7 DEF DeliverableRead, Begin
    <2>2. r \in ReqRecord /\ r.op = "deliverable" /\ r.d = d /\ r.to = to
      BY DEF Idle, ReqRecord, Statuses, TypeOK
    <2> HIDE DEF r
    <2>3. req' \in [Procs -> ReqRecord] /\ \A q \in Procs : ReqOK(req[q])'
      BY <2>1, <2>2, ReqStep
    <2>4. QED
      BY <2>1, <2>3 DEF TypeOK, Ids
  <1>8. ASSUME NEW p \in Procs, ReleaseCheck(p) PROVE TypeOK' /\ KeysKept
    <2> DEFINE r == [req[p] EXCEPT !.pc = "write"]
    <2>1. UNCHANGED <<budget, deliverable, raced>> /\ KeysKept
      BY <1>4, <1>8 DEF ReleaseCheck
    <2>2. CASE req' = [req EXCEPT ![p].pc = "write"]
      <3>1. req' = [req EXCEPT ![p] = r]
        BY <2>2
      <3>2. /\ r \in ReqRecord /\ r.op = req[p].op /\ r.id = req[p].id /\ r.to = req[p].to
            /\ r.d = req[p].d /\ r.version = req[p].version
        BY DEF TypeOK, ReqRecord
      <3>3. ReqOK(req[p])
        BY DEF TypeOK
      <3> HIDE DEF r
      <3>4. req' \in [Procs -> ReqRecord] /\ \A q \in Procs : ReqOK(req[q])'
        BY <2>1, <3>1, <3>2, <3>3, ReqStep DEF ReqOK
      <3>5. QED
        BY <2>1, <3>4 DEF TypeOK, Ids
    <2>3. CASE End(p)
      BY <2>1, <2>3, EndReq DEF TypeOK, Ids
    <2>4. QED
      BY <1>8, <2>2, <2>3 DEF ReleaseCheck
  <1>9. ASSUME NEW p \in Procs, DeliverableWrite(p) PROVE TypeOK' /\ KeysKept
    <2>1. KeysKept /\ UNCHANGED <<budget, raced>> /\ End(p)
      BY <1>4, <1>9 DEF DeliverableWrite
    <2>2. deliverable' \in [Deliverables -> DeliverableStatuses]
      BY <1>9 DEF DeliverableWrite, TypeOK, ReqOK
    <2>3. QED
      BY <2>1, <2>2, EndReq DEF TypeOK, Ids
  <1>10. ASSUME NEW p \in Procs, Cut(p) PROVE TypeOK' /\ KeysKept
    <2>1. KeysKept /\ UNCHANGED <<budget, deliverable, raced>> /\ End(p)
      BY <1>4, <1>10 DEF Cut
    <2>2. QED
      BY <2>1, EndReq DEF TypeOK, Ids
  <1>11. ASSUME UNCHANGED vars PROVE TypeOK' /\ KeysKept
    BY <1>4, <1>11 DEF vars, TypeOK, ReqOK, Ids
  <1>12. QED
    BY <1>1, <1>2, <1>3, <1>5, <1>6, <1>7, <1>8, <1>9, <1>10, <1>11 DEF Next, Budget, Deliverable

LEMMA InitType == Init => TypeOK
  <1> SUFFICES ASSUME Init PROVE TypeOK
    OBVIOUS
  <1>1. budget \in Seq(BudgetRecord)
    BY EmptySeq DEF Init
  <1>2. req \in [Procs -> ReqRecord] /\ \A p \in Procs : req[p].op = "none"
    BY IdleIsReq DEF Init
  <1>3. QED
    BY <1>1, <1>2 DEF Init, TypeOK, ReqOK, DeliverableStatuses

(* Every reachable state of the budgets, deliverables and requests is well *)
(* typed; what a request has read of a budget's version stays true.        *)
THEOREM TypeCorrect == Spec => []TypeOK
  BY InitType, TypeStep, PTL DEF Spec

-----------------------------------------------------------------------------
(* The latest version is current, whatever overlaps.                       *)

LEMMA LatestStep ==
    ASSUME TypeOK, LatestIsCurrent,
           \/ \E b, t : StatusWritten(b, t)
           \/ \E l, s : FirstAdded(l, s)
           \/ \E b \in Ids : Succeeded(b)
           \/ UNCHANGED budget
    PROVE  LatestIsCurrent'
  <1>1. KeysKept
    BY RowsKeepKeys
  <1>2. \A i \in Ids : budget[i] \in BudgetRecord
    BY RowOf
  <1>3. ASSUME NEW b, NEW t, StatusWritten(b, t) PROVE LatestIsCurrent'
    <2>1. \A i \in Ids : budget'[i].current = budget[i].current
      BY <1>2, <1>3 DEF StatusWritten, BudgetRecord
    <2>2. QED
      BY <1>1, <1>3, <2>1 DEF StatusWritten, LatestIsCurrent, Older, KeysKept
  <1>4. ASSUME NEW l, NEW s, FirstAdded(l, s) PROVE LatestIsCurrent'
    <2>1. PICK n \in Ids' : /\ n \notin Ids /\ Ids' = Ids \cup {n} /\ budget'[n] = First(l, s)
                            /\ \A i \in Ids : budget'[i] = budget[i]
      BY <1>4 DEF FirstAdded
    <2>2. budget'[n].current
      BY <2>1 DEF First
    <2>3. QED
      BY <2>1, <2>2 DEF LatestIsCurrent, Older
  <1>5. ASSUME NEW b \in Ids, Succeeded(b) PROVE LatestIsCurrent'
    <2>1. PICK n \in Ids' : /\ n \notin Ids /\ Ids' = Ids \cup {n}
                            /\ budget'[n] = Draft(budget[b].lineage, budget[b].version)
                            /\ \A i \in Ids : budget'[i] = IF i = b THEN [budget[b] EXCEPT !.current = FALSE]
                                                           ELSE budget[i]
      BY <1>5 DEF Succeeded
    <2>2. budget'[n].current /\ budget'[n].lineage = budget[b].lineage
      BY <2>1 DEF Draft
    <2>3. budget[b].version < budget'[n].version
      <3>1. budget[b].version \in Nat
        BY <1>2 DEF BudgetRecord
      <3>2. budget'[n].version = budget[b].version + 1
        BY <2>1 DEF Draft
      <3>3. QED
        BY <3>1, <3>2
    <2>4. Older(b, n)'
      BY <1>1, <2>2, <2>3 DEF Older, KeysKept
    <2>5. ASSUME NEW i \in Ids, i # b PROVE budget'[i].current \/ \E c \in Ids' : Older(i, c)'
      BY <1>1, <2>1, <2>5 DEF LatestIsCurrent, Older, KeysKept
    <2>6. QED
      BY <2>1, <2>2, <2>4, <2>5 DEF LatestIsCurrent
  <1>6. ASSUME UNCHANGED budget PROVE LatestIsCurrent'
    BY <1>6 DEF LatestIsCurrent, Older, Ids
  <1>7. QED
    BY <1>3, <1>4, <1>5, <1>6

(* How the rows of budgets change in a step.                               *)
LEMMA RowsStep ==
    ASSUME TypeOK, [Next]_vars
    PROVE  \/ \E l \in Lineages, s \in Births : Create(l, s) /\ FirstAdded(l, s)
           \/ \E p \in Procs : BudgetWrite(p) /\ StatusWritten(req[p].id, req[p].to)
           \/ \E p \in Procs : VersionSwitch(p) /\ req[p].id \in Ids /\ Succeeded(req[p].id)
           \/ UNCHANGED budget
  <1>1. ASSUME NEW p \in Procs, VersionSwitch(p) PROVE req[p].id \in Ids
    BY <1>1 DEF TypeOK, ReqOK, VersionSwitch
  <1>2. ASSUME NEW p \in Procs, Deliverable(p) \/ Cut(p) PROVE UNCHANGED budget
    BY <1>2 DEF Deliverable, DeliverableRead, ReleaseCheck, DeliverableWrite, Cut
  <1>3. ASSUME NEW p \in Procs, Budget(p), ~BudgetWrite(p), ~VersionSwitch(p) PROVE UNCHANGED budget
    BY <1>3 DEF Budget, BudgetRead, BudgetAsked, VersionRead, OpenVersion
  <1>4. QED
    BY <1>1, <1>2, <1>3, CreateRows, WriteRows, SwitchRows DEF Next, vars

(* The latest version of every budget is current: a new version and its    *)
(* predecessor change hands together, also when the route is called twice, *)
(* on an old version, or fails halfway.                                    *)
THEOREM LatestCurrent == Spec => []LatestIsCurrent
  <1>1. Init => LatestIsCurrent
    BY DEF Init, LatestIsCurrent, Ids
  <1>2. TypeOK /\ LatestIsCurrent /\ [Next]_vars => LatestIsCurrent'
    BY RowsStep, LatestStep
  <1>3. QED
    BY <1>1, <1>2, TypeCorrect, PTL DEF Spec

-----------------------------------------------------------------------------
(* What a request has read bears on what it writes, however they overlap.  *)

Knows(r) ==
    /\ r.pc = "check" => r.op = "deliverable"
    /\ r.op = "budget" => <<r.was, r.to>> \in BudgetTransitions
    /\ r.op = "version" => Stands(r.id)
    /\ r.op = "deliverable" =>
          /\ <<r.was, r.to>> \in DeliverableTransitions
          /\ r.to = "released" /\ r.pc = "write" => Rests(r.d)
          /\ r.was = "released" => Rests(r.d)

Held ==
    /\ TypeOK /\ ReleaseRestsOnApproval
    /\ \A p \in Procs : Knows(req[p])

\* Approvals stay, but for a raced write, and superseded versions do not come back.
ApprovalsKept ==
    \A i \in Ids : /\ Stands(i) => Stands(i)'
                   /\ budget'[i].current => budget[i].current

LEMMA ApprovalsStep == ASSUME Held, [Next]_vars PROVE KeysKept /\ ApprovalsKept
  <1>1. TypeOK /\ KeysKept /\ \A i \in Ids : budget[i] \in BudgetRecord
    BY TypeStep, RowOf DEF Held
  <1>2. raced \subseteq raced'
    BY DEF Next, vars, Create, Budget, BudgetRead, BudgetAsked, BudgetWrite, VersionRead, OpenVersion,
           VersionSwitch, Deliverable, DeliverableRead, ReleaseCheck, DeliverableWrite, Cut
  <1>3. ASSUME NEW l, NEW s, FirstAdded(l, s) PROVE ApprovalsKept
    BY <1>2, <1>3 DEF FirstAdded, ApprovalsKept, Stands
  <1>4. ASSUME NEW p \in Procs, BudgetWrite(p), StatusWritten(req[p].id, req[p].to) PROVE ApprovalsKept
    <2>1. /\ <<req[p].was, req[p].to>> \in BudgetTransitions
          /\ req[p].was # budget[req[p].id].status => req[p].id \in raced'
      BY <1>4 DEF Held, Knows, BudgetWrite
    <2>2. \A i \in Ids : /\ budget'[i].status = IF i = req[p].id THEN req[p].to ELSE budget[i].status
                         /\ budget'[i].current = budget[i].current
      BY <1>1, <1>4 DEF StatusWritten, BudgetRecord
    <2>3. QED
      BY <1>2, <2>1, <2>2 DEF ApprovalsKept, Stands, BudgetTransitions, Approved
  <1>5. ASSUME NEW b \in Ids, Succeeded(b) PROVE ApprovalsKept
    <2>1. \A i \in Ids : /\ budget'[i].status = budget[i].status
                         /\ budget'[i].current => budget[i].current
      BY <1>1, <1>5 DEF Succeeded, BudgetRecord
    <2>2. QED
      BY <1>2, <2>1 DEF ApprovalsKept, Stands
  <1>6. ASSUME UNCHANGED budget PROVE ApprovalsKept
    BY <1>2, <1>6 DEF ApprovalsKept, Stands
  <1>7. QED
    BY <1>1, <1>3, <1>4, <1>5, <1>6, RowsStep

LEMMA RestsKept ==
    ASSUME KeysKept, ApprovalsKept, NEW d, Rests(d)
    PROVE  Rests(d)'
  BY DEF KeysKept, ApprovalsKept, Rests

(* What a request knows outlives every step, its record's status included. *)
LEMMA StillKnows ==
    ASSUME KeysKept, ApprovalsKept, NEW r, ReqOK(r), Knows(r)
    PROVE  Knows(r)'
  <1>1. Rests(r.d) => Rests(r.d)'
    BY RestsKept
  <1>2. r.op = "version" => Stands(r.id)'
    BY DEF Knows, ReqOK, ApprovalsKept
  <1>3. QED
    BY <1>1, <1>2 DEF Knows

(* p goes on as r and knows what it needs; no deliverable is written.      *)
LEMMA GoesOn ==
    ASSUME Held, [Next]_vars, NEW p \in Procs, NEW r, req' = [req EXCEPT ![p] = r],
           Knows(r)', UNCHANGED deliverable
    PROVE  Held'
  <1>1. TypeOK' /\ KeysKept /\ ApprovalsKept
    BY TypeStep, ApprovalsStep DEF Held
  <1>2. \A q \in Procs : req'[q] = IF q = p THEN r ELSE req[q]
    BY DEF Held, TypeOK
  <1>3. ASSUME NEW q \in Procs PROVE Knows(req[q])'
    <2> PICK s : s = req[q]
      OBVIOUS
    <2>1. ReqOK(s) /\ Knows(s)
      BY DEF Held, TypeOK
    <2>2. Knows(s)'
      BY <1>1, <2>1, StillKnows
    <2>3. QED
      BY <1>2, <2>2 DEF Knows
  <1>4. ReleaseRestsOnApproval'
    BY <1>1, RestsKept DEF Held, ReleaseRestsOnApproval
  <1>5. QED
    BY <1>1, <1>3, <1>4 DEF Held

LEMMA IdleKnows == Knows(Idle)'
  BY IdleIsReq DEF Knows

LEMMA HeldStep == ASSUME Held, [Next]_vars PROVE Held'
  <1>1. TypeOK /\ TypeOK' /\ KeysKept /\ ApprovalsKept
    BY TypeStep, ApprovalsStep DEF Held
  <1>2. ASSUME UNCHANGED <<deliverable, req>> PROVE Held'
    <2>1. ASSUME NEW q \in Procs PROVE Knows(req[q])'
      <3> PICK r : r = req[q]
        OBVIOUS
      <3>1. ReqOK(r) /\ Knows(r)
        BY DEF Held, TypeOK
      <3>2. Knows(r)'
        BY <1>1, <3>1, StillKnows
      <3>3. QED
        BY <1>2, <3>2 DEF Knows
    <2>2. QED
      BY <1>1, <1>2, <2>1, RestsKept DEF Held, ReleaseRestsOnApproval
  <1>3. ASSUME NEW p \in Procs, End(p), UNCHANGED deliverable PROVE Held'
    BY <1>3, IdleKnows, GoesOn DEF End
  <1>4. ASSUME NEW p \in Procs, NEW b \in Ids, NEW to \in BudgetStatuses, BudgetRead(p, b, to)
        PROVE  Held'
    <2> PICK r : r = [Idle EXCEPT !.pc = "write", !.op = "budget", !.id = b,
                                  !.was = budget[b].status, !.to = to]
      OBVIOUS
    <2>1. /\ UNCHANGED deliverable /\ req' = [req EXCEPT ![p] = r]
          /\ <<budget[b].status, to>> \in BudgetTransitions
      BY <1>4 DEF BudgetRead, BudgetAsked, Begin
    <2>2. r.pc = "write" /\ r.op = "budget" /\ r.was = budget[b].status /\ r.to = to
      BY DEF Idle
    <2>3. Knows(r)'
      BY <2>1, <2>2 DEF Knows
    <2>4. QED
      BY <2>1, <2>3, GoesOn
  <1>5. ASSUME NEW p \in Procs, NEW b \in Ids, VersionRead(p, b) PROVE Held'
    <2> PICK r : r = [Idle EXCEPT !.pc = "write", !.op = "version", !.id = b,
                                  !.version = budget[b].version]
      OBVIOUS
    <2>1. UNCHANGED deliverable /\ req' = [req EXCEPT ![p] = r] /\ Stands(b)
      BY <1>5 DEF VersionRead, OpenVersion, Begin, Stands
    <2>2. r.pc = "write" /\ r.op = "version" /\ r.id = b
      BY DEF Idle
    <2>3. Knows(r)'
      BY <1>1, <2>1, <2>2 DEF Knows, ApprovalsKept
    <2>4. QED
      BY <2>1, <2>3, GoesOn
  <1>6. ASSUME NEW p \in Procs, NEW d \in Deliverables, NEW to \in DeliverableStatuses,
               DeliverableRead(p, d, to)
        PROVE  Held'
    <2> PICK r : r = [Idle EXCEPT !.pc = IF to = "released" THEN "check" ELSE "write",
                                  !.op = "deliverable", !.d = d, !.was = deliverable[d], !.to = to]
      OBVIOUS
    <2>1. /\ UNCHANGED deliverable /\ req' = [req EXCEPT ![p] = r]
          /\ <<deliverable[d], to>> \in DeliverableTransitions
      BY <1>6 DEF DeliverableRead, Begin
    <2>2. /\ r.pc = IF to = "released" THEN "check" ELSE "write"
          /\ r.op = "deliverable" /\ r.d = d /\ r.was = deliverable[d] /\ r.to = to
      BY DEF Idle
    <2>3. deliverable[d] = "released" => Rests(d)'
      BY <1>1, RestsKept DEF Held, ReleaseRestsOnApproval
    <2>4. Knows(r)'
      BY <2>1, <2>2, <2>3 DEF Knows
    <2>5. QED
      BY <2>1, <2>4, GoesOn
  <1>7. ASSUME NEW p \in Procs, ReleaseCheck(p), Releasable(req[p].d),
               req' = [req EXCEPT ![p].pc = "write"]
        PROVE  Held'
    <2> PICK r : r = [req[p] EXCEPT !.pc = "write"]
      OBVIOUS
    <2>1. UNCHANGED deliverable /\ req' = [req EXCEPT ![p] = r] /\ req[p].pc = "check"
      BY <1>7 DEF ReleaseCheck
    <2>2. /\ r.pc = "write" /\ r.op = req[p].op /\ r.id = req[p].id /\ r.to = req[p].to
          /\ r.d = req[p].d /\ r.was = req[p].was
      BY <1>1 DEF TypeOK, ReqRecord
    <2>3. Rests(r.d)'
      BY <1>1, <1>7, <2>2, RestsKept DEF Releasable, Rests, Stands, Approved
    <2>4. Knows(req[p]) /\ req[p].op = "deliverable"
      BY <2>1 DEF Held, Knows
    <2>5. Knows(r)'
      BY <2>2, <2>3, <2>4 DEF Knows
    <2>6. QED
      BY <2>1, <2>5, GoesOn
  <1>8. ASSUME NEW p \in Procs, DeliverableWrite(p) PROVE Held'
    <2>1. \A d \in Deliverables : deliverable'[d] = IF d = req[p].d THEN req[p].to ELSE deliverable[d]
      BY <1>1, <1>8 DEF DeliverableWrite, TypeOK
    <2>2. req[p].to \in {"released", "finished"} => Rests(req[p].d)
      BY <1>8 DEF DeliverableWrite, Held, Knows, DeliverableTransitions
    <2>3. ReleaseRestsOnApproval'
      BY <1>1, <2>1, <2>2, RestsKept DEF Held, ReleaseRestsOnApproval
    <2>4. \A q \in Procs : req'[q] = IF q = p THEN Idle ELSE req[q]
      BY <1>1, <1>8, EndReq DEF DeliverableWrite
    <2>5. ASSUME NEW q \in Procs PROVE Knows(req[q])'
      <3> PICK r : r = IF q = p THEN Idle ELSE req[q]
        OBVIOUS
      <3>1. ReqOK(req[q]) /\ Knows(req[q])
        BY DEF Held, TypeOK
      <3>2. Knows(r)'
        BY <1>1, <3>1, StillKnows, IdleKnows DEF Knows
      <3>3. QED
        BY <2>4, <3>2 DEF Knows
    <2>6. QED
      BY <1>1, <2>3, <2>5 DEF Held
  <1>9. QED
    BY <1>2, <1>3, <1>4, <1>5, <1>6, <1>7, <1>8
    DEF Next, vars, Create, Budget, BudgetWrite, VersionSwitch, Deliverable, ReleaseCheck, Cut

LEMMA InitHeld == Init => Held
  <1> SUFFICES ASSUME Init PROVE Held
    OBVIOUS
  <1>1. \A p \in Procs : req[p] = Idle
    BY DEF Init
  <1>2. QED
    BY <1>1, InitType, IdleIsReq DEF Init, Held, Knows, ReleaseRestsOnApproval

(* The inductive invariant behind the theorems below: whatever has become  *)
(* of the record, the move a request will write was allowed from the       *)
(* status it read, a new version's predecessor has been approved, and a    *)
(* release under way has its approved budget.                              *)
THEOREM RequestsKnow == Spec => []Held
  BY InitHeld, HeldStep, PTL DEF Spec

(* Every version after the first grew out of the one before, which is not  *)
(* current and has been approved; only updates of it that race can take    *)
(* the approval back.                                                      *)
THEOREM VersionsGrow == Spec => []VersionsGrowFromApproved
  <1>1. Init => VersionsGrowFromApproved
    BY DEF Init, VersionsGrowFromApproved, Ids
  <1>2. ASSUME Held, VersionsGrowFromApproved, [Next]_vars PROVE VersionsGrowFromApproved'
    <2>1. TypeOK /\ KeysKept /\ ApprovalsKept
      BY <1>2, ApprovalsStep DEF Held
    <2>2. ASSUME NEW i \in Ids, budget'[i].version > 1
          PROVE  \E a \in Ids' : /\ Older(a, i)' /\ budget'[a].version = budget'[i].version - 1
                                 /\ Stands(a)' /\ ~budget'[a].current
      <3>1. budget[i].version > 1
        BY <2>1, <2>2 DEF KeysKept
      <3>2. PICK a \in Ids : /\ Older(a, i) /\ budget[a].version = budget[i].version - 1
                             /\ Stands(a) /\ ~budget[a].current
        BY <1>2, <3>1 DEF VersionsGrowFromApproved
      <3>3. Older(a, i)' /\ budget'[a].version = budget'[i].version - 1
        BY <2>1, <3>2 DEF KeysKept, Older
      <3>4. Stands(a)' /\ ~budget'[a].current
        BY <2>1, <3>2 DEF ApprovalsKept
      <3>5. QED
        BY <2>1, <3>3, <3>4 DEF KeysKept
    <2>3. ASSUME Ids' = Ids PROVE VersionsGrowFromApproved'
      BY <2>2, <2>3 DEF VersionsGrowFromApproved, Older, Stands
    <2>4. ASSUME NEW l, NEW s, FirstAdded(l, s) PROVE VersionsGrowFromApproved'
      BY <2>2, <2>4 DEF FirstAdded, First, VersionsGrowFromApproved, Older, Stands
    <2>5. ASSUME NEW p \in Procs, VersionSwitch(p), NEW b \in Ids, req[p].id = b, Succeeded(b)
          PROVE  VersionsGrowFromApproved'
      <3>1. PICK n \in Ids' : /\ n \notin Ids /\ Ids' = Ids \cup {n}
                              /\ budget'[n] = Draft(budget[b].lineage, budget[b].version)
                              /\ budget'[b] = [budget[b] EXCEPT !.current = FALSE]
        BY <2>5 DEF Succeeded
      <3>2. budget[b] \in BudgetRecord /\ Stands(b)
        BY <2>1, <1>2, <2>5, RowOf DEF Held, Knows, VersionSwitch
      <3>3. /\ budget'[n].lineage = budget[b].lineage
            /\ budget'[n].version = budget[b].version + 1 /\ budget[b].version \in Nat
        BY <3>1, <3>2 DEF Draft, BudgetRecord
      <3>4. ~budget'[b].current
        BY <3>1, <3>2 DEF BudgetRecord
      <3>5. Stands(b)' /\ b \in Ids'
        BY <2>1, <2>5, <3>2 DEF ApprovalsKept, KeysKept
      <3>6. budget'[b].version = budget'[n].version - 1 /\ Older(b, n)'
        BY <2>1, <2>5, <3>3 DEF KeysKept, Older
      <3>7. QED
        BY <2>2, <3>1, <3>4, <3>5, <3>6 DEF VersionsGrowFromApproved, Older, Stands
    <2>6. QED
      BY <1>2, <2>1, <2>3, <2>4, <2>5, RowsStep DEF StatusWritten, Ids
  <1>3. QED
    BY <1>1, <1>2, RequestsKnow, PTL DEF Spec

(* Work goes on only on deliverables with a budget that was approved, and  *)
(* stayed so unless updates of it raced, although the check and the        *)
(* release are two statements and the deliverable's own updates overlap.   *)
THEOREM ReleasesRest == Spec => []ReleaseRestsOnApproval
  <1>1. Held => ReleaseRestsOnApproval
    BY DEF Held
  <1>2. QED
    BY <1>1, RequestsKnow, PTL

(* Statuses of budgets and deliverables leave VALID_TRANSITIONS only where *)
(* a request writes over a status that another has written since it read.  *)
THEOREM StatusesMove == Spec => WorkflowsKept
  <1>1. ASSUME Held, [Next]_vars
        PROVE  [/\ \A b \in Ids : BudgetMoves(b, budget'[b].status)
                /\ \A d \in Deliverables : DeliverableMoves(d, deliverable'[d])]_vars
    <2>1. TypeOK /\ \A i \in Ids : budget[i] \in BudgetRecord
      BY <1>1, RowOf DEF Held
    <2>2. ASSUME NEW b \in Ids PROVE BudgetMoves(b, budget'[b].status)
      <3>1. ASSUME NEW l, NEW s, FirstAdded(l, s) PROVE budget'[b].status = budget[b].status
        BY <3>1 DEF FirstAdded
      <3>2. ASSUME NEW c, Succeeded(c) PROVE budget'[b].status = budget[b].status
        BY <2>1, <3>2 DEF Succeeded, BudgetRecord
      <3>3. ASSUME NEW p \in Procs, BudgetWrite(p), StatusWritten(req[p].id, req[p].to)
            PROVE  BudgetMoves(b, budget'[b].status)
        <4>1. budget'[b].status = IF b = req[p].id THEN req[p].to ELSE budget[b].status
          BY <2>1, <3>3 DEF StatusWritten, BudgetRecord
        <4>2. req[p].op = "budget" /\ <<req[p].was, req[p].to>> \in BudgetTransitions
          BY <1>1, <3>3 DEF BudgetWrite, Held, Knows
        <4>3. QED
          BY <4>1, <4>2 DEF BudgetMoves
      <3>4. QED
        BY <1>1, <2>1, <3>1, <3>2, <3>3, RowsStep DEF BudgetMoves
    <2>3. ASSUME NEW d \in Deliverables PROVE DeliverableMoves(d, deliverable'[d])
      <3>1. ASSUME NEW p \in Procs, DeliverableWrite(p) PROVE DeliverableMoves(d, deliverable'[d])
        <4>1. deliverable'[d] = IF d = req[p].d THEN req[p].to ELSE deliverable[d]
          BY <2>1, <3>1 DEF DeliverableWrite, TypeOK
        <4>2. req[p].op = "deliverable" /\ <<req[p].was, req[p].to>> \in DeliverableTransitions
          BY <1>1, <3>1 DEF DeliverableWrite, Held, Knows
        <4>3. QED
          BY <4>1, <4>2 DEF DeliverableMoves
      <3>2. ASSUME UNCHANGED deliverable PROVE DeliverableMoves(d, deliverable'[d])
        BY <3>2 DEF DeliverableMoves
      <3>3. QED
        BY <1>1, <3>1, <3>2
        DEF Next, vars, Create, Budget, BudgetRead, BudgetAsked, BudgetWrite, VersionRead, OpenVersion,
            VersionSwitch, Deliverable, DeliverableRead, ReleaseCheck, Cut
    <2>4. QED
      BY <2>2, <2>3
  <1>2. QED
    BY <1>1, RequestsKnow, PTL DEF Spec, WorkflowsKept

=============================================================================
