------------------------------- MODULE Tasks --------------------------------
(***************************************************************************)
(* The task board (app/tasks): who takes a task, hands it in, reviews it,  *)
(* and how closing one makes the tasks that depend on it ready.            *)
(*                                                                         *)
(* The handlers take no row locks of their own, so a request is three      *)
(* steps.  It reads its task and checks the guards; it writes - from here  *)
(* PostgreSQL keeps its rows from the other writers - and a closing reads  *)
(* the dependents as they are committed; it commits, and the others see.   *)
(* The ORM writes the columns and the link rows in which the task it read  *)
(* and the task it wants differ, and those only.                           *)
(*                                                                         *)
(* Tasks of CRM are left out: get_task_or_404 locks them first.            *)
(***************************************************************************)
EXTENDS Integers, FiniteSets

CONSTANTS
    Tasks,          \* tasks.id
    BlockTasks,     \* of a production block: they need a review
    LinkedTasks,    \* made by other sections, which close them too
    Planned,        \* the tasks there are at the start, ready, without a team
    People,
    MayClaim,       \* pairs of a person and a task of a section open to them
    Teams,          \* the people a payload may put on a task
    Requests,       \* requests served at the same time
    MaxEdits,       \* bound: how often a task is edited or deleted
    None            \* no responsible

TeamRows == [assignees : SUBSET People, reviewers : SUBSET People,
             responsible : People \cup {None}]

ASSUME TasksAssumption ==
    /\ BlockTasks \cup LinkedTasks \cup Planned \subseteq Tasks
    /\ BlockTasks \cap LinkedTasks = {}
    /\ Teams \subseteq TeamRows
    /\ MaxEdits \in Nat

VARIABLES
    task,       \* the committed rows
    logged,     \* to_status of the last row of task_stage_events
    request,    \* what each request is doing
    edits       \* edits made so far

vars == <<task, logged, request, edits>>

Statuses == {"NOT_READY", "READY", "IN_PROGRESS", "IN_REVIEW", "DONE"}

\* "absent" and "deleted" are not statuses: there is no such row
Vacant(kind) == [status |-> kind, assignees |-> {}, reviewers |-> {},
                 responsible |-> None, depends_on |-> {}]

Existing == {t \in Tasks : task[t].status \in Statuses}

dependents(t) == {d \in Existing : t \in task[d].depends_on}

requires_review(t) == t \in BlockTasks

\* u \in assignees may not accept a task that needs a review
can_accept(t, assignees, u) == ~(requires_review(t) /\ u \in assignees)

eligible_reviewers(t, row) == {u \in row.reviewers : can_accept(t, row.assignees, u)}

initial_status(ds) ==
    IF \A d \in ds : task[d].status = "DONE" THEN "READY" ELSE "NOT_READY"

------------------------------------------------------------------------------
(* What a request has at hand: the row it read, the row it wants, the      *)
(* dependents it is going to wake, and, for the properties, whether another *)
(* request committed since it read.                                        *)

Idle == [step |-> "idle"]

UnderWay(r) == request[r].step # "idle"

Holding == {r \in Requests : request[r].step = "written"}

Read(r, op, t, u, row) ==
    /\ ~UnderWay(r)
    /\ request' = [request EXCEPT ![r] =
         [step |-> "read", op |-> op, task |-> t, by |-> u,
          seen |-> task[t], wanted |-> row, wakes |-> {}, crossed |-> FALSE]]
    /\ UNCHANGED <<task, logged>>

Links == {"assignees", "reviewers", "depends_on"}

Added(q, f) == q.wanted[f] \ q.seen[f]
Removed(q, f) == q.seen[f] \ q.wanted[f]

\* UPDATE, INSERT or DELETE of the row of tasks itself
WritesRow(q) ==
    \/ q.wanted.status # q.seen.status
    \/ q.wanted.responsible # q.seen.responsible

Deletes(q) == q.wanted.status = "deleted"

(***************************************************************************)
(* Writers of one row wait for each other; a deletion waits for whoever    *)
(* writes a link to or from its row, and they for it; two writers of one   *)
(* link row wait too.                                                      *)
(***************************************************************************)
Conflict(p, q) ==
    \/ p.task = q.task /\ ((WritesRow(p) /\ WritesRow(q)) \/ Deletes(p) \/ Deletes(q))
    \/ Deletes(p) /\ p.task \in Added(q, "depends_on") \cup Removed(q, "depends_on")
    \/ Deletes(q) /\ q.task \in Added(p, "depends_on") \cup Removed(p, "depends_on")
    \/ p.task = q.task /\ \E f \in Links :
          (Added(p, f) \cup Removed(p, f)) \cap (Added(q, f) \cup Removed(q, f)) # {}

\* What another flush has to wait for: the row of a dependent that is woken
KeepsRow(q, d) == q.task = d /\ (WritesRow(q) \/ Deletes(q))

\* The rows are there to be changed, the links to be made are not there yet
Fits(q) ==
    LET now == task[q.task] IN
    /\ q.op = "create" \/ q.task \in Existing
    /\ \A f \in Links : /\ Added(q, f) \cap now[f] = {}
                        /\ Removed(q, f) \subseteq now[f]
    /\ Added(q, "depends_on") \subseteq Existing \cup {q.task}

Merged(q, now) ==
    [status |-> IF q.wanted.status # q.seen.status THEN q.wanted.status ELSE now.status,
     responsible |-> IF q.wanted.responsible # q.seen.responsible
                     THEN q.wanted.responsible ELSE now.responsible,
     assignees |-> (now.assignees \ Removed(q, "assignees")) \cup Added(q, "assignees"),
     reviewers |-> (now.reviewers \ Removed(q, "reviewers")) \cup Added(q, "reviewers"),
     depends_on |-> (now.depends_on \ Removed(q, "depends_on")) \cup Added(q, "depends_on")]

------------------------------------------------------------------------------
(* The requests, up to the guards                                           *)

create_task(r, t, team, ds) ==
    /\ task[t].status = "absent" /\ ds \subseteq Existing
    /\ t \in LinkedTasks => ds = {}
    /\ \A o \in Requests : UnderWay(o) => request[o].task # t     \* a new id
    /\ Read(r, "create", t, None,
            [status |-> initial_status(ds), assignees |-> team.assignees,
             reviewers |-> team.reviewers, responsible |-> team.responsible,
             depends_on |-> ds])
    /\ UNCHANGED edits

claim_task(r, t, u) ==
    /\ task[t].status = "READY" /\ task[t].assignees = {}
    /\ <<u, t>> \in MayClaim
    /\ Read(r, "claim", t, u, [task[t] EXCEPT !.assignees = {u}])
    /\ UNCHANGED edits

\* set_status by an assignee: the only way into work
start_task(r, t, u) ==
    /\ task[t].status = "READY" /\ u \in task[t].assignees
    /\ Read(r, "start", t, u, [task[t] EXCEPT !.status = "IN_PROGRESS"])
    /\ UNCHANGED edits

submit_report(r, t, u) ==
    /\ task[t].status = "IN_PROGRESS" /\ u \in task[t].assignees
    /\ Read(r, "submit", t, u, [task[t] EXCEPT !.status = "IN_REVIEW"])
    /\ UNCHANGED edits

return_task(r, t, u) ==
    /\ task[t].status = "IN_REVIEW" /\ u \in task[t].reviewers
    /\ Read(r, "return", t, u, [task[t] EXCEPT !.status = "IN_PROGRESS"])
    /\ UNCHANGED edits

accept_task(r, t, u) ==
    /\ task[t].status = "IN_REVIEW" /\ u \in task[t].reviewers
    /\ can_accept(t, task[t].assignees, u)
    /\ Read(r, "accept", t, u, [task[t] EXCEPT !.status = "DONE"])
    /\ UNCHANGED edits

\* force_close and close_with_resolution, by the section the task belongs to
close_task(r, t) ==
    /\ t \in LinkedTasks \cap Existing /\ task[t].status # "DONE"
    /\ Read(r, "close", t, None, [task[t] EXCEPT !.status = "DONE"])
    /\ UNCHANGED edits

Edit ==
    /\ edits < MaxEdits
    /\ edits' = edits + 1

\* update_task with the people given; a responsible is never taken off
update_people(r, t, team) ==
    /\ t \in Existing
    /\ Read(r, "update", t, None,
            [task[t] EXCEPT !.assignees = team.assignees, !.reviewers = team.reviewers,
                            !.responsible = IF team.responsible = None THEN @
                                            ELSE team.responsible])
    /\ Edit

\* update_task with depends_on_ids given
update_dependencies(r, t, ds) ==
    /\ t \in Existing /\ ds \subseteq Existing
    /\ Read(r, "update", t, None,
            [task[t] EXCEPT !.depends_on = ds,
                            !.status = IF @ = "NOT_READY" THEN initial_status(ds) ELSE @])
    /\ Edit

delete_task(r, t) ==
    /\ t \in Existing \ (BlockTasks \cup LinkedTasks)
    /\ Read(r, "delete", t, None, Vacant("deleted"))
    /\ Edit

------------------------------------------------------------------------------
(* The flushes                                                              *)

\* Deviation: whatever has no reviewer is closed when it is handed in.
FinalAlways(q, row) ==
    IF row.reviewers = {} THEN [row EXCEPT !.status = "DONE"] ELSE row

(***************************************************************************)
(* _finalize_status after IN_REVIEW is written: nobody to review closes    *)
(* the task, unless its kind needs a review; then the responsible becomes  *)
(* the reviewer, if nobody else can accept and they can.                   *)
(***************************************************************************)
Final(q, row) ==
    IF row.reviewers = {} /\ ~requires_review(q.task)
    THEN [row EXCEPT !.status = "DONE"]
    ELSE IF /\ eligible_reviewers(q.task, row) = {}
            /\ row.responsible # None
            /\ can_accept(q.task, row.assignees, row.responsible)
    THEN [row EXCEPT !.reviewers = @ \cup {row.responsible}]
    ELSE row

\* What is only loaded by the flush
Loaded(q) ==
    LET now == task[q.task].reviewers IN
    CASE q.op = "submit" ->
            [q EXCEPT !.seen.reviewers = now,
                      !.wanted = Final(q, [@ EXCEPT !.reviewers = now])]
      [] q.op = "delete" -> [q EXCEPT !.seen = task[q.task]]
      [] OTHER -> q

Closes(q) == q.wanted.status = "DONE" /\ q.seen.status # "DONE"

\* Deviation: the closed task itself is looked at as the others see it.
cascade_as_committed(t) ==
    {d \in dependents(t) \ {t} :
        /\ task[d].status = "NOT_READY"
        /\ \A p \in task[d].depends_on : task[p].status = "DONE"}

\* Deviation: nobody looks at what else the dependents wait for.
cascade_to_all(t) == {d \in dependents(t) \ {t} : task[d].status = "NOT_READY"}

\* Read as they are committed, t itself as it is in this session
cascade_readiness(t) ==
    {d \in dependents(t) \ {t} :
        /\ task[d].status = "NOT_READY"
        /\ \A p \in task[d].depends_on \ {t} : task[p].status = "DONE"}

Write(r) ==
    /\ request[r].step = "read"
    /\ LET q == Loaded(request[r]) IN
       /\ Fits(q)
       /\ \A h \in Holding : ~Conflict(q, request[h])
       /\ request' = [request EXCEPT ![r] =
            [q EXCEPT !.step = "written",
                      !.wakes = IF Closes(q) THEN cascade_readiness(q.task) ELSE {}]]
    /\ UNCHANGED <<task, logged, edits>>

Committed(q) ==
    [t \in Tasks |->
       IF t = q.task THEN Merged(q, task[t])
       ELSE IF t \in q.wakes THEN [task[t] EXCEPT !.status = "READY"]
       ELSE IF Deletes(q) THEN [task[t] EXCEPT !.depends_on = @ \ {q.task}]
       ELSE task[t]]

\* Deviation: the cascade is left out of the journal.
record_own_stage(q) ==
    [t \in Tasks |->
       IF t = q.task /\ q.wanted.status # q.seen.status THEN q.wanted.status
       ELSE logged[t]]

\* record_stage for each status written; a deleted task takes its rows along
record_stage(q) ==
    [t \in Tasks |->
       IF t = q.task /\ q.wanted.status # q.seen.status THEN q.wanted.status
       ELSE IF t \in q.wakes THEN "READY"
       ELSE logged[t]]

\* The dependents are written, and all of it becomes visible
Commit(r) ==
    LET q == request[r] IN
    /\ q.step = "written"
    /\ \A d \in q.wakes : /\ d \in Existing
                          /\ \A h \in Holding \ {r} : ~KeepsRow(request[h], d)
    /\ task' = Committed(q)
    /\ logged' = record_stage(q)
    /\ request' = [o \in Requests |->
         IF o = r THEN Idle
         ELSE IF UnderWay(o) THEN [request[o] EXCEPT !.crossed = TRUE]
         ELSE request[o]]
    /\ UNCHANGED edits

\* A refusal by the database, a lost connection, a restart: all is rolled back
Fail(r) ==
    /\ UnderWay(r)
    /\ request' = [request EXCEPT ![r] = Idle]
    /\ UNCHANGED <<task, logged, edits>>

------------------------------------------------------------------------------
TasksInit ==
    /\ task = [t \in Tasks |-> Vacant(IF t \in Planned THEN "READY" ELSE "absent")]
    /\ logged = [t \in Tasks |-> task[t].status]
    /\ request = [r \in Requests |-> Idle]
    /\ edits = 0

TasksNext ==
    \E r \in Requests :
       \/ /\ ~UnderWay(r)
          /\ \/ \E t \in Tasks, team \in Teams, ds \in SUBSET Existing : create_task(r, t, team, ds)
             \/ \E t \in Tasks, u \in People :
                   \/ claim_task(r, t, u) \/ start_task(r, t, u) \/ submit_report(r, t, u)
                   \/ return_task(r, t, u) \/ accept_task(r, t, u)
             \/ \E t \in Tasks : close_task(r, t) \/ delete_task(r, t)
             \/ \E t \in Tasks, team \in Teams : update_people(r, t, team)
             \/ \E t \in Tasks, ds \in SUBSET Existing : update_dependencies(r, t, ds)
       \/ Write(r) \/ Commit(r) \/ Fail(r)

TasksSpec == TasksInit /\ [][TasksNext]_vars

------------------------------------------------------------------------------
Row == [status : Statuses \cup {"absent", "deleted"},
        assignees : SUBSET People, reviewers : SUBSET People,
        responsible : People \cup {None}, depends_on : SUBSET Tasks]

Operations == {"create", "claim", "start", "submit", "return", "accept", "close",
               "update", "delete"}

RequestRow == [step : {"read", "written"}, op : Operations, task : Tasks,
               by : People \cup {None}, seen : Row, wanted : Row,
               wakes : SUBSET Tasks, crossed : BOOLEAN]

\* The tables and the requests are well formed; nobody is None on a team.
TasksTypeOK ==
    /\ task \in [Tasks -> Row]
    /\ logged \in [Tasks -> Statuses \cup {"absent", "deleted"}]
    /\ request \in [Requests -> RequestRow \cup {Idle}]
    /\ edits \in 0 .. MaxEdits

\* The last row of the journal of stages, from which the work durations and
\* is_complete are computed, names the status of the task - even when two
\* requests overwrite each other's status (timelog.record_stage).
StagesLogged ==
    \A t \in Existing : logged[t] = task[t].status

\* r commits in this step, and nobody did since it read
CommitsAlone(r) ==
    request[r].step = "written" /\ ~request[r].crossed /\ Commit(r)

\* A closing that no other commit crossed leaves no task waiting that only
\* waited for it: nothing but another closing wakes it later.
CloserWakes ==
    [][\A r \in Requests : CommitsAlone(r) /\ Closes(request[r]) =>
          \A d \in Existing' :
             request[r].task \in task[d]'.depends_on /\ task[d]'.status = "NOT_READY" =>
                \E p \in task[d]'.depends_on : task[p]'.status # "DONE"]_vars

\* A task becomes ready only with all it depends on done, and a done task
\* is never anything else again, while requests do not cross.
ReadyWhenDone ==
    [][\A r \in Requests : CommitsAlone(r) =>
          \A t \in Existing \cap Existing' :
             /\ task[t].status = "NOT_READY" /\ task[t]'.status # "NOT_READY" =>
                   \A p \in task[t]'.depends_on : task[p]'.status = "DONE"
             /\ task[t].status = "DONE" => task[t]'.status = "DONE"]_vars

\* Whatever crosses: a task of a production block gets done in the hands of
\* somebody who reviews it and was not one of its assignees when they looked
\* at it (tasks/policy.py) - never by being handed in.
BlockTasksReviewed ==
    [][\A t \in BlockTasks \cap Existing :
          task[t].status # "DONE" /\ task[t]'.status = "DONE" =>
             \E r \in Requests :
                /\ Commit(r) /\ request[r].task = t
                /\ request[r].by \in request[r].seen.reviewers \ request[r].seen.assignees]_vars

\* A task that is not ready waits for something (set_status: both statuses
\* "are set automatically").
WaitsForSomething ==
    (\A r \in Requests : ~UnderWay(r)) =>
       \A t \in Existing : task[t].status = "NOT_READY" =>
          \E p \in task[t].depends_on : task[p].status # "DONE"
=============================================================================
