------------------------------- MODULE Budgets -------------------------------
(***************************************************************************)
(* Budget versions and the release of deliverables: the create, update and *)
(* new-version routes of activities/controllers/budgetsController.js and   *)
(* the update route of deliverablesController.js.                          *)
(*                                                                         *)
(* A handler reads the record, checks what it read, and writes by id in a  *)
(* later statement; any other request may run in between.  Only            *)
(* new-version opens a transaction, around its two writes and not around   *)
(* its read: nothing depends on its uncommitted state, so it is one step.  *)
(*                                                                         *)
(* Amounts and audit columns are left out: no check looks at them.         *)
(***************************************************************************)
EXTENDS Naturals, Sequences

CONSTANTS
    Deliverables, Activities,
    Procs,          \* concurrent requests
    NoDeliverable,
    MaxBudgets,     \* bound: budgets ever inserted
    Births,         \* statuses a create request may carry
    FirstOnly       \* TRUE: users create a budget only where there is none

Lineages == Deliverables \X Activities
BudgetStatuses == {"draft", "submitted", "approved", "locked", "rejected"}
DeliverableStatuses == {"pending", "released", "finished", "canceled"}

Statuses == BudgetStatuses \cup DeliverableStatuses \cup {"none"}

BudgetTransitions ==
    {<<"draft", "submitted">>, <<"submitted", "approved">>,
     <<"submitted", "rejected">>, <<"approved", "locked">>}

DeliverableTransitions ==
    {<<"pending", "released">>, <<"pending", "canceled">>,
     <<"released", "finished">>, <<"released", "canceled">>}

Approved == {"approved", "locked"}

ASSUME BudgetConstants ==
    /\ NoDeliverable \notin Deliverables
    /\ MaxBudgets \in Nat /\ Births \subseteq BudgetStatuses
    /\ FirstOnly \in BOOLEAN

VARIABLES
    budget,         \* the rows of budgets in the order they were inserted
    deliverable,    \* deliverables.status
    req,            \* the request each process is executing
    raced           \* history: budgets whose status was written over one not read

vars == <<budget, deliverable, req, raced>>

Ids == DOMAIN budget
First(l, s) == [lineage |-> l, version |-> 1, current |-> TRUE, status |-> s]

\* id, version and was (the status) are what a request read; 0, "none": nothing.
Idle == [pc |-> "idle", op |-> "none", id |-> 0, version |-> 0, d |-> NoDeliverable,
         was |-> "none", to |-> "none"]

BudgetRecord == [lineage : Lineages, version : Nat \ {0}, current : BOOLEAN, status : BudgetStatuses]

ReqRecord ==
    [pc : {"idle", "check", "write"}, op : {"none", "budget", "version", "deliverable"},
     id : Nat, version : Nat, d : Deliverables \cup {NoDeliverable},
     was : Statuses, to : Statuses]

ReqOK(r) ==
    /\ r.op \in {"budget", "version"} => r.id \in Ids
    /\ r.op = "version" => r.version = budget[r.id].version
    /\ r.op = "budget" => r.to \in BudgetStatuses
    /\ r.op = "deliverable" => r.d \in Deliverables /\ r.to \in DeliverableStatuses

TypeOK ==
    /\ budget \in Seq(BudgetRecord)
    /\ deliverable \in [Deliverables -> DeliverableStatuses]
    /\ req \in [Procs -> ReqRecord] /\ raced \subseteq Ids
    /\ \A p \in Procs : ReqOK(req[p])

Init ==
    /\ budget = <<>>
    /\ deliverable = [d \in Deliverables |-> "pending"]
    /\ req = [p \in Procs |-> Idle]
    /\ raced = {}

-----------------------------------------------------------------------------

Begin(p, r) ==
    /\ req[p].pc = "idle"
    /\ req' = [req EXCEPT ![p] = r]

End(p) == req' = [req EXCEPT ![p] = Idle]

\* POST: version and is_current take their defaults.
Create(l, s) ==
    /\ Len(budget) < MaxBudgets
    /\ FirstOnly => \A b \in Ids : budget[b].lineage # l
    /\ budget' = Append(budget, First(l, s))
    /\ UNCHANGED <<deliverable, req, raced>>

-----------------------------------------------------------------------------
(* PUT /update of a budget with a status.                                  *)

BudgetAsked(p, b, to) ==
    /\ Begin(p, [Idle EXCEPT !.pc = "write", !.op = "budget", !.id = b,
                             !.was = budget[b].status, !.to = to])
    /\ UNCHANGED <<budget, deliverable, raced>>

BudgetRead(p, b, to) == <<budget[b].status, to>> \in BudgetTransitions /\ BudgetAsked(p, b, to)

\* updateWhere by id, whatever the status has become.
BudgetWrite(p) ==
    /\ req[p].op = "budget"
    /\ budget' = [budget EXCEPT ![req[p].id].status = req[p].to]
    /\ raced' = IF req[p].was = budget[req[p].id].status THEN raced ELSE raced \cup {req[p].id}
    /\ End(p)
    /\ UNCHANGED deliverable

-----------------------------------------------------------------------------
(* POST /new-version.                                                      *)

OpenVersion(p, b) ==
    /\ Begin(p, [Idle EXCEPT !.pc = "write", !.op = "version", !.id = b,
                             !.version = budget[b].version])
    /\ UNCHANGED <<budget, deliverable, raced>>

\* Nothing asks whether b is the current version.
VersionRead(p, b) == budget[b].status \in Approved /\ OpenVersion(p, b)

\* The draft that follows version n of l.
Draft(l, n) == [lineage |-> l, version |-> n + 1, current |-> TRUE, status |-> "draft"]

VersionInPlace(p) ==
    /\ req[p].op = "version"
    /\ budget' = [budget EXCEPT ![req[p].id].version = @ + 1, ![req[p].id].status = "draft"]
    /\ End(p)
    /\ UNCHANGED <<deliverable, raced>>

\* Flip the version that was read and insert its successor.
VersionSwitch(p) ==
    LET b == req[p].id IN
    /\ req[p].op = "version" /\ Len(budget) < MaxBudgets
    /\ budget' = Append([budget EXCEPT ![b].current = FALSE],
                        Draft(budget[b].lineage, req[p].version))
    /\ End(p)
    /\ UNCHANGED <<deliverable, raced>>

-----------------------------------------------------------------------------
(* PUT /update of a deliverable with a status.                             *)

DeliverableRead(p, d, to) ==
    /\ <<deliverable[d], to>> \in DeliverableTransitions
    /\ Begin(p, [Idle EXCEPT !.pc = IF to = "released" THEN "check" ELSE "write",
                             !.op = "deliverable", !.d = d, !.was = deliverable[d], !.to = to])
    /\ UNCHANGED <<budget, deliverable, raced>>

ReleasableByAny(d) == \E b \in Ids : budget[b].status = "approved" /\ budget[b].current

Releasable(d) ==
    \E b \in Ids : budget[b].lineage[1] = d /\ budget[b].status = "approved" /\ budget[b].current

\* A second read: is there an approved, current budget?
ReleaseCheck(p) ==
    /\ req[p].pc = "check"
    /\ IF Releasable(req[p].d) THEN req' = [req EXCEPT ![p].pc = "write"] ELSE End(p)
    /\ UNCHANGED <<budget, deliverable, raced>>

DeliverableWrite(p) ==
    /\ req[p].op = "deliverable" /\ req[p].pc = "write"
    /\ deliverable' = [deliverable EXCEPT ![req[p].d] = req[p].to]
    /\ End(p)
    /\ UNCHANGED <<budget, raced>>

-----------------------------------------------------------------------------

CutMidSwitch(p) ==
    /\ req[p].pc # "idle"
    /\ budget' = IF req[p].op = "version" THEN [budget EXCEPT ![req[p].id].current = FALSE] ELSE budget
    /\ End(p)
    /\ UNCHANGED <<deliverable, raced>>

\* A statement fails, or the server stops: a new-version transaction rolls back.
Cut(p) ==
    /\ req[p].pc # "idle"
    /\ End(p)
    /\ UNCHANGED <<budget, deliverable, raced>>

Budget(p) ==
    \/ \E b \in Ids, to \in BudgetStatuses : BudgetRead(p, b, to)
    \/ BudgetWrite(p)
    \/ \E b \in Ids : VersionRead(p, b)
    \/ VersionSwitch(p)

Deliverable(p) ==
    \/ \E d \in Deliverables, to \in DeliverableStatuses : DeliverableRead(p, d, to)
    \/ ReleaseCheck(p) \/ DeliverableWrite(p)

Next ==
    \/ \E l \in Lineages, s \in Births : Create(l, s)
    \/ \E p \in Procs : Budget(p) \/ Deliverable(p) \/ Cut(p)

Spec == Init /\ [][Next]_vars

-----------------------------------------------------------------------------
(* Properties.                                                             *)

Older(a, b) == budget[a].lineage = budget[b].lineage /\ budget[a].version < budget[b].version

\* The latest version of a budget is current, so there is one to release and
\* report on: createNewVersion's two writes succeed or fail together, also
\* when it is called twice or on an old version.
LatestIsCurrent == \A b \in Ids : budget[b].current \/ \E c \in Ids : Older(b, c)

\* b was approved and nothing the workflow has took that back: only a request
\* that writes over a status it has not read can (updateWhere by id).
Stands(b) == budget[b].status \in Approved \/ b \in raced

\* Every version after the first grew out of the one before, which was
\* approved and is no longer current (createNewVersion's check, and no step
\* but a raced write that takes an approval back).
VersionsGrowFromApproved ==
    \A b \in Ids : budget[b].version > 1 =>
        \E a \in Ids : /\ Older(a, b) /\ budget[a].version = budget[b].version - 1
                       /\ Stands(a) /\ ~budget[a].current

\* Work goes on, or went on, only on deliverables with a budget that was
\* approved, whatever happened to it and to the deliverable since the
\* release's check; and that stayed so, unless updates of it raced.
Rests(d) == \E b \in Ids : budget[b].lineage[1] = d /\ Stands(b)
ReleaseRestsOnApproval ==
    \A d \in Deliverables : deliverable[d] \in {"released", "finished"} => Rests(d)

\* Statuses leave the two VALID_TRANSITIONS tables only where a request
\* writes over a status that another wrote after it had read.
BudgetMoves(b, t) ==
    \/ t = budget[b].status \/ <<budget[b].status, t>> \in BudgetTransitions
    \/ \E p \in Procs : req[p].op = "budget" /\ req[p].id = b /\ req[p].was # budget[b].status
DeliverableMoves(d, t) ==
    \/ t = deliverable[d] \/ <<deliverable[d], t>> \in DeliverableTransitions
    \/ \E p \in Procs : req[p].op = "deliverable" /\ req[p].d = d /\ req[p].was # deliverable[d]
WorkflowsKept ==
    [][/\ \A b \in Ids : BudgetMoves(b, budget'[b].status)
       /\ \A d \in Deliverables : DeliverableMoves(d, deliverable'[d])]_vars

=============================================================================
