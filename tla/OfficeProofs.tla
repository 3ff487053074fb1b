---------------------------- MODULE OfficeProofs ----------------------------
(***************************************************************************)
(* Theorems about the task board and the other parts of the office, for    *)
(* any number of tasks, people and requests that cross in any way.         *)
(***************************************************************************)
EXTENDS MCOffice, BooksProofs

------------------------------------------------------------------------------
(* Tasks                                                                    *)

Operation(r) ==
    \/ \E t \in Tasks, team \in Teams, ds \in SUBSET Tasks : create_task(r, t, team, ds)
    \/ \E t \in Tasks, u \in People :
          \/ claim_task(r, t, u) \/ start_task(r, t, u) \/ submit_report(r, t, u)
          \/ return_task(r, t, u) \/ accept_task(r, t, u)
    \/ \E t \in Tasks : close_task(r, t) \/ delete_task(r, t)
    \/ \E t \in Tasks, team \in Teams : update_people(r, t, team)
    \/ \E t \in Tasks, ds \in SUBSET Tasks : update_dependencies(r, t, ds)

LEMMA StepOfTasks ==
    ASSUME TasksNext
    PROVE  \E r \in Requests : Operation(r) \/ Write(r) \/ Commit(r) \/ Fail(r)
  <1>1. Existing \subseteq Tasks
    BY DEF Existing
  <1> QED  BY <1>1 DEF TasksNext, Operation

\* Until it commits a request changes nothing that others see.
LEMMA OnlyCommitsShow ==
    ASSUME NEW r \in Requests, Operation(r) \/ Write(r) \/ Fail(r)
    PROVE  UNCHANGED <<task, logged>>
  BY DEF Operation, create_task, claim_task, start_task, submit_report, return_task,
         accept_task, close_task, delete_task, update_people, update_dependencies,
         Read, Write, Fail

------------------------------------------------------------------------------
(* What the variables are                                                   *)

LEMMA IdleIsNoRequest ==
    /\ Idle \notin RequestRow
    /\ \A q \in RequestRow : q.step # "idle"
  BY DEF Idle, RequestRow

\* A request under way has the fields of one.
LEMMA UnderWayTyped ==
    ASSUME TasksTypeOK, NEW r \in Requests, request[r].step # "idle"
    PROVE  request[r] \in RequestRow
  BY DEF TasksTypeOK, Idle

LEMMA VacantTyped ==
    ASSUME NEW kind \in Statuses \cup {"absent", "deleted"}
    PROVE  Vacant(kind) \in Row /\ Vacant(kind).status = kind
  BY DEF Vacant, Row

LEMMA InitialStatus ==
    ASSUME NEW ds
    PROVE  initial_status(ds) \in {"READY", "NOT_READY"}
  BY DEF initial_status

\* The rows the requests want are rows.
LEMMA ReadTyped ==
    ASSUME TasksTypeOK, NEW r \in Requests, NEW op \in Operations, NEW t \in Tasks,
           NEW u \in People \cup {None}, NEW row \in Row, Read(r, op, t, u, row)
    PROVE  /\ request' \in [Requests -> RequestRow \cup {Idle}]
           /\ task' = task /\ logged' = logged
  <1> DEFINE q == [step |-> "read", op |-> op, task |-> t, by |-> u,
                   seen |-> task[t], wanted |-> row, wakes |-> {}, crossed |-> FALSE]
  <1>1. task[t] \in Row
    BY DEF TasksTypeOK
  <1>2. q \in RequestRow
    BY <1>1 DEF RequestRow
  <1>3. request' = [request EXCEPT ![r] = q] /\ request \in [Requests -> RequestRow \cup {Idle}]
    BY DEF Read, TasksTypeOK
  <1> QED
    BY <1>2, <1>3 DEF Read

LEMMA OperationTyped ==
    ASSUME TasksTypeOK, NEW r \in Requests, Operation(r)
    PROVE  TasksTypeOK'
  <1> SUFFICES /\ request' \in [Requests -> RequestRow \cup {Idle}]
               /\ task' = task /\ logged' = logged
               /\ edits' \in 0 .. MaxEdits
    BY DEF TasksTypeOK
  <1> USE DEF Operations
  <1>0. /\ \A t \in Tasks : task[t] \in Row
        /\ edits \in 0 .. MaxEdits /\ MaxEdits \in Nat
        /\ \A team \in Teams : team \in TeamRows
    BY TasksAssumption DEF TasksTypeOK
  <1>e. edits < MaxEdits => edits + 1 \in 0 .. MaxEdits
    BY <1>0
  <1>1. ASSUME NEW t \in Tasks, NEW team \in Teams, NEW ds \in SUBSET Tasks,
               create_task(r, t, team, ds)
        PROVE  /\ request' \in [Requests -> RequestRow \cup {Idle}]
               /\ task' = task /\ logged' = logged /\ edits' = edits
    <2> DEFINE row == [status |-> initial_status(ds), assignees |-> team.assignees,
                       reviewers |-> team.reviewers, responsible |-> team.responsible,
                       depends_on |-> ds]
    <2>1. row \in Row
      BY <1>0, InitialStatus DEF Row, TeamRows, Statuses
    <2>2. Read(r, "create", t, None, row) /\ edits' = edits
      BY <1>1 DEF create_task
    <2> QED
      BY <2>1, <2>2, ReadTyped
  <1>2. ASSUME NEW t \in Tasks, NEW u \in People, claim_task(r, t, u)
        PROVE  /\ request' \in [Requests -> RequestRow \cup {Idle}]
               /\ task' = task /\ logged' = logged /\ edits' = edits
    <2>1. [task[t] EXCEPT !.assignees = {u}] \in Row
      BY <1>0 DEF Row
    <2> QED
      BY <1>2, <2>1, ReadTyped DEF claim_task
  <1>3. ASSUME NEW t \in Tasks, NEW u \in People,
               \/ start_task(r, t, u) \/ submit_report(r, t, u)
               \/ return_task(r, t, u) \/ accept_task(r, t, u)
        PROVE  /\ request' \in [Requests -> RequestRow \cup {Idle}]
               /\ task' = task /\ logged' = logged /\ edits' = edits
    <2>1. \A s \in Statuses : [task[t] EXCEPT !.status = s] \in Row
      BY <1>0 DEF Row
    <2>2. PICK s \in Statuses, op \in Operations :
             Read(r, op, t, u, [task[t] EXCEPT !.status = s]) /\ edits' = edits
      BY <1>3 DEF start_task, submit_report, return_task, accept_task, Statuses
    <2> QED
      BY <2>1, <2>2, ReadTyped
  <1>4. ASSUME NEW t \in Tasks, close_task(r, t)
        PROVE  /\ request' \in [Requests -> RequestRow \cup {Idle}]
               /\ task' = task /\ logged' = logged /\ edits' = edits
    <2>1. [task[t] EXCEPT !.status = "DONE"] \in Row
      BY <1>0 DEF Row, Statuses
    <2> QED
      BY <1>4, <2>1, ReadTyped DEF close_task
  <1>5. ASSUME NEW t \in Tasks, delete_task(r, t)
        PROVE  /\ request' \in [Requests -> RequestRow \cup {Idle}]
               /\ task' = task /\ logged' = logged
               /\ edits < MaxEdits /\ edits' = edits + 1
    BY <1>5, VacantTyped, ReadTyped DEF delete_task, Edit
  <1>6. ASSUME NEW t \in Tasks, NEW team \in Teams, update_people(r, t, team)
        PROVE  /\ request' \in [Requests -> RequestRow \cup {Idle}]
               /\ task' = task /\ logged' = logged
               /\ edits < MaxEdits /\ edits' = edits + 1
    <2> DEFINE row == [task[t] EXCEPT !.assignees = team.assignees,
                         !.reviewers = team.reviewers,
                         !.responsible = IF team.responsible = None THEN @
                                         ELSE team.responsible]
    <2> DEFINE who == IF team.responsible = None THEN task[t].responsible
                      ELSE team.responsible
    <2>0. /\ who \in People \cup {None}
          /\ team.assignees \in SUBSET People /\ team.reviewers \in SUBSET People
      BY <1>0 DEF Row, TeamRows
    <2>a. ASSUME NEW old \in Row, NEW as \in SUBSET People, NEW rs \in SUBSET People,
                 NEW w \in People \cup {None}
          PROVE  [old EXCEPT !.assignees = as, !.reviewers = rs, !.responsible = w] \in Row
      BY DEF Row
    <2>1. row \in Row
      BY <1>0, <2>0, <2>a
    <2>2. Read(r, "update", t, None, row) /\ Edit
      BY <1>6 DEF update_people
    <2> QED
      BY <2>1, <2>2, ReadTyped DEF Edit
  <1>7. ASSUME NEW t \in Tasks, NEW ds \in SUBSET Tasks, update_dependencies(r, t, ds)
        PROVE  /\ request' \in [Requests -> RequestRow \cup {Idle}]
               /\ task' = task /\ logged' = logged
               /\ edits < MaxEdits /\ edits' = edits + 1
    <2> DEFINE row == [task[t] EXCEPT !.depends_on = ds,
                         !.status = IF @ = "NOT_READY" THEN initial_status(ds) ELSE @]
    <2> DEFINE s == IF task[t].status = "NOT_READY" THEN initial_status(ds)
                    ELSE task[t].status
    <2>0. s \in Statuses \cup {"absent", "deleted"}
      BY <1>0, InitialStatus DEF Row, Statuses
    <2>a. ASSUME NEW old \in Row, NEW new \in Statuses \cup {"absent", "deleted"}
          PROVE  [old EXCEPT !.depends_on = ds, !.status = new] \in Row
      BY DEF Row
    <2>1. row \in Row
      BY <1>0, <2>0, <2>a
    <2>2. Read(r, "update", t, None, row) /\ Edit
      BY <1>7 DEF update_dependencies
    <2> QED
      BY <2>1, <2>2, ReadTyped DEF Edit
  <1> QED
    BY <1>0, <1>e, <1>1, <1>2, <1>3, <1>4, <1>5, <1>6, <1>7 DEF Operation

LEMMA FinalTyped ==
    ASSUME NEW q \in RequestRow, NEW row \in Row
    PROVE  /\ Final(q, row) \in Row
           /\ q.task \in BlockTasks => Final(q, row).status = row.status
  <1>1. [row EXCEPT !.status = "DONE"] \in Row
    BY DEF Row, Statuses
  <1>2. row.responsible # None =>
          /\ [row EXCEPT !.reviewers = @ \cup {row.responsible}] \in Row
          /\ [row EXCEPT !.reviewers = @ \cup {row.responsible}].status = row.status
    BY DEF Row
  <1> QED
    BY <1>1, <1>2 DEF Final, requires_review

\* What the flush loads changes neither the task nor who does what to it.
LEMMA LoadedTyped ==
    ASSUME TasksTypeOK, NEW q \in RequestRow
    PROVE  /\ Loaded(q) \in RequestRow
           /\ Loaded(q).op = q.op /\ Loaded(q).task = q.task /\ Loaded(q).by = q.by
           /\ q.op \notin {"submit", "delete"} => Loaded(q) = q
           /\ q.op = "delete" => Loaded(q).wanted = q.wanted
           /\ q.op = "submit" /\ q.task \in BlockTasks =>
                 Loaded(q).wanted.status = q.wanted.status
  <1> DEFINE now == task[q.task].reviewers
             mid == [q.wanted EXCEPT !.reviewers = now]
             old == [q.seen EXCEPT !.reviewers = now]
  <1>1. task[q.task] \in Row /\ now \in SUBSET People
    BY DEF TasksTypeOK, RequestRow, Row
  <1>2. q.wanted \in Row /\ q.seen \in Row
    BY DEF RequestRow
  <1>3. mid \in Row /\ old \in Row /\ mid.status = q.wanted.status
    BY <1>1, <1>2 DEF Row
  <1>4. /\ Final(q, mid) \in Row
        /\ q.task \in BlockTasks => Final(q, mid).status = q.wanted.status
    BY <1>3, FinalTyped
  <1>5. CASE q.op = "submit"
    <2> DEFINE new == [q EXCEPT !.seen = old, !.wanted = Final(q, mid)]
    <2>1. Loaded(q) = new
      BY <1>5 DEF Loaded
    <2>2. ASSUME NEW s \in Row, NEW w \in Row
          PROVE  /\ [q EXCEPT !.seen = s, !.wanted = w] \in RequestRow
                 /\ [q EXCEPT !.seen = s, !.wanted = w].op = q.op
                 /\ [q EXCEPT !.seen = s, !.wanted = w].task = q.task
                 /\ [q EXCEPT !.seen = s, !.wanted = w].by = q.by
                 /\ [q EXCEPT !.seen = s, !.wanted = w].wanted = w
      BY DEF RequestRow
    <2> HIDE DEF mid, old
    <2>3. /\ new \in RequestRow /\ new.op = q.op /\ new.task = q.task
          /\ new.by = q.by /\ new.wanted = Final(q, mid)
      BY <2>2, <1>3, <1>4
    <2> QED
      BY <2>1, <2>3, <1>4, <1>5
  <1>6. CASE q.op = "delete"
    <2>1. Loaded(q) = [q EXCEPT !.seen = task[q.task]]
      BY <1>6 DEF Loaded
    <2> QED
      BY <2>1, <1>1, <1>6 DEF RequestRow
  <1>7. CASE q.op \notin {"submit", "delete"}
    BY <1>7 DEF Loaded
  <1> QED
    BY <1>5, <1>6, <1>7

LEMMA CascadeTyped ==
    ASSUME NEW t
    PROVE  cascade_readiness(t) \subseteq Tasks
  BY DEF cascade_readiness, dependents, Existing

\* What is in the hands of a request after it wrote
LEMMA WriteMakes ==
    ASSUME TasksTypeOK, NEW r \in Requests, Write(r)
    PROVE  \E q \in RequestRow :
             /\ request[r] \in RequestRow /\ request[r].step = "read"
             /\ q.op = request[r].op /\ q.task = request[r].task /\ q.by = request[r].by
             /\ q.seen = Loaded(request[r]).seen /\ q.wanted = Loaded(request[r]).wanted
             /\ q.step = "written"
             /\ q.wakes # {} => Closes(q)
             /\ request' = [request EXCEPT ![r] = q]
  <1> DEFINE l == Loaded(request[r])
             wakes == IF Closes(l) THEN cascade_readiness(l.task) ELSE {}
             q == [l EXCEPT !.step = "written", !.wakes = wakes]
  <1>1. request[r].step = "read" /\ request' = [request EXCEPT ![r] = q]
    BY DEF Write
  <1>2. request[r] \in RequestRow
    BY <1>1, UnderWayTyped
  <1>3. l \in RequestRow /\ l.op = request[r].op /\ l.task = request[r].task
        /\ l.by = request[r].by
    BY <1>2, LoadedTyped
  <1>4. wakes \in SUBSET Tasks
    BY CascadeTyped
  <1>5. ASSUME NEW m \in RequestRow, NEW W \in SUBSET Tasks
        PROVE  LET n == [m EXCEPT !.step = "written", !.wakes = W] IN
               /\ n \in RequestRow /\ n.op = m.op /\ n.task = m.task /\ n.by = m.by
               /\ n.seen = m.seen /\ n.wanted = m.wanted
               /\ n.step = "written" /\ n.wakes = W
    BY DEF RequestRow
  <1> HIDE DEF l, wakes
  <1>6. /\ q \in RequestRow /\ q.op = l.op /\ q.task = l.task /\ q.by = l.by
        /\ q.seen = l.seen /\ q.wanted = l.wanted
        /\ q.step = "written" /\ q.wakes = wakes
    BY <1>3, <1>4, <1>5
  <1>7. q.wakes # {} => Closes(q)
    BY <1>6 DEF wakes, Closes
  <1> QED
    BY <1>1, <1>2, <1>3, <1>6, <1>7 DEF l

LEMMA MergedTyped ==
    ASSUME NEW q \in RequestRow, NEW now \in Row
    PROVE  Merged(q, now) \in Row
  <1>1. q.wanted \in Row /\ q.seen \in Row
    BY DEF RequestRow
  <1>2. /\ Removed(q, "assignees") = q.seen.assignees \ q.wanted.assignees
        /\ Added(q, "assignees") = q.wanted.assignees \ q.seen.assignees
        /\ Removed(q, "reviewers") = q.seen.reviewers \ q.wanted.reviewers
        /\ Added(q, "reviewers") = q.wanted.reviewers \ q.seen.reviewers
        /\ Removed(q, "depends_on") = q.seen.depends_on \ q.wanted.depends_on
        /\ Added(q, "depends_on") = q.wanted.depends_on \ q.seen.depends_on
    BY DEF Removed, Added
  <1> QED
    BY <1>1, <1>2 DEF Merged, Row

LEMMA CommitTyped ==
    ASSUME TasksTypeOK, NEW r \in Requests, Commit(r)
    PROVE  TasksTypeOK'
  <1> DEFINE q == request[r]
  <1>1. q \in RequestRow
    BY UnderWayTyped DEF Commit
  <1>2. \A t \in Tasks : task[t] \in Row
    BY DEF TasksTypeOK
  <1>3. \A t \in Tasks : [task[t] EXCEPT !.status = "READY"] \in Row
    BY <1>2 DEF Row, Statuses
  <1>4. \A t \in Tasks : [task[t] EXCEPT !.depends_on = @ \ {q.task}] \in Row
    BY <1>2 DEF Row
  <1>5. task' \in [Tasks -> Row]
    <2>1. task' = Committed(q)
      BY DEF Commit
    <2>2. \A t \in Tasks : Committed(q)[t] \in Row
      BY <1>1, <1>2, <1>3, <1>4, MergedTyped DEF Committed
    <2> QED
      BY <2>1, <2>2 DEF Committed
  <1>6. logged' \in [Tasks -> Statuses \cup {"absent", "deleted"}]
    <2>1. logged' = record_stage(q) /\ logged \in [Tasks -> Statuses \cup {"absent", "deleted"}]
      BY DEF Commit, TasksTypeOK
    <2>2. q.wanted.status \in Statuses \cup {"absent", "deleted"}
      BY <1>1 DEF RequestRow, Row
    <2> QED
      BY <2>1, <2>2 DEF record_stage, Statuses
  <1>7. request' \in [Requests -> RequestRow \cup {Idle}]
    <2>1. \A o \in Requests : UnderWay(o) => [request[o] EXCEPT !.crossed = TRUE] \in RequestRow
      <3> SUFFICES ASSUME NEW o \in Requests, UnderWay(o)
                   PROVE  [request[o] EXCEPT !.crossed = TRUE] \in RequestRow
        OBVIOUS
      <3>1. request[o] \in RequestRow
        BY UnderWayTyped DEF UnderWay
      <3> QED
        BY <3>1 DEF RequestRow
    <2>2. \A o \in Requests : request[o] \in RequestRow \cup {Idle}
      BY DEF TasksTypeOK
    <2> QED
      BY <2>1, <2>2 DEF Commit
  <1>8. edits' \in 0 .. MaxEdits
    BY DEF Commit, TasksTypeOK
  <1> QED
    BY <1>5, <1>6, <1>7, <1>8 DEF TasksTypeOK

LEMMA TypeInit == TasksInit => TasksTypeOK
  <1> SUFFICES ASSUME TasksInit PROVE TasksTypeOK
    OBVIOUS
  <1>1. \A t \in Tasks : /\ task[t] \in Row
                        /\ task[t].status \in Statuses \cup {"absent", "deleted"}
    BY VacantTyped DEF TasksInit, Statuses
  <1>2. task \in [Tasks -> Row] /\ logged \in [Tasks -> Statuses \cup {"absent", "deleted"}]
    BY <1>1 DEF TasksInit
  <1> QED
    BY <1>2, TasksAssumption DEF TasksInit, TasksTypeOK

LEMMA TypeStep == TasksTypeOK /\ [TasksNext]_vars => TasksTypeOK'
  <1>1. ASSUME TasksTypeOK, UNCHANGED vars
        PROVE  TasksTypeOK'
    BY <1>1 DEF TasksTypeOK, vars
  <1>2. ASSUME TasksTypeOK, NEW r \in Requests, Write(r)
        PROVE  TasksTypeOK'
    <2>1. PICK q \in RequestRow : request' = [request EXCEPT ![r] = q]
      BY <1>2, WriteMakes
    <2> QED
      BY <1>2, <2>1 DEF TasksTypeOK, Write
  <1>3. ASSUME TasksTypeOK, NEW r \in Requests, Fail(r)
        PROVE  TasksTypeOK'
    BY <1>3 DEF TasksTypeOK, Fail
  <1> QED
    BY <1>1, <1>2, <1>3, CommitTyped, OperationTyped, StepOfTasks

\* The tables stay well formed, whoever crosses whom.
THEOREM BoardTyped == TasksSpec => []TasksTypeOK
  BY TypeInit, TypeStep, PTL DEF TasksSpec

------------------------------------------------------------------------------
(* The journal.  A commit writes a status and its stage together, or        *)
(* neither; that it does not log a stage of its own task twice rests on     *)
(* WakersClose: only who closes a task wakes others.                        *)

WakersClose ==
    \A r \in Requests : UnderWay(r) /\ request[r].wakes # {} => Closes(request[r])

LEMMA WakersInit == TasksInit => WakersClose
  BY DEF TasksInit, WakersClose, UnderWay, Idle

\* What an operation on t by u wants: no task of a block is to be done but by
\* a reviewer who is no assignee.
Meant(op, t, u, row) ==
    /\ op = "submit" => row.status = "IN_REVIEW"
    /\ op = "delete" => row.status = "deleted"
    /\ t \in BlockTasks /\ row.status = "DONE" /\ task[t].status # "DONE" =>
          u \in task[t].reviewers \ task[t].assignees

LEMMA OperationReads ==
    ASSUME TasksTypeOK, NEW r \in Requests, Operation(r)
    PROVE  \E op \in Operations, t \in Tasks, u \in People \cup {None} : \E row :
              Read(r, op, t, u, row) /\ Meant(op, t, u, row)
  <1> USE DEF Operations
  <1>0. \A t \in Tasks : task[t] \in Row
    BY DEF TasksTypeOK
  <1>1. ASSUME NEW t \in Tasks, NEW team \in Teams, NEW ds \in SUBSET Tasks,
               create_task(r, t, team, ds)
        PROVE  \E row : Read(r, "create", t, None, row) /\ Meant("create", t, None, row)
    <2> DEFINE row == [status |-> initial_status(ds), assignees |-> team.assignees,
                       reviewers |-> team.reviewers, responsible |-> team.responsible,
                       depends_on |-> ds]
    <2>1. Read(r, "create", t, None, row)
      BY <1>1 DEF create_task
    <2>2. row.status # "DONE"
      BY InitialStatus
    <2> QED
      BY <2>1, <2>2 DEF Meant
  <1>2. ASSUME NEW t \in Tasks, NEW u \in People, claim_task(r, t, u)
        PROVE  \E row : Read(r, "claim", t, u, row) /\ Meant("claim", t, u, row)
    <2>1. [task[t] EXCEPT !.assignees = {u}].status = task[t].status
      BY <1>0 DEF Row
    <2> QED
      BY <1>2, <2>1 DEF claim_task, Meant
  <1>s. \A t \in Tasks, s \in Statuses : [task[t] EXCEPT !.status = s].status = s
    BY <1>0 DEF Row
  <1>3. ASSUME NEW t \in Tasks, NEW u \in People, start_task(r, t, u)
        PROVE  \E row : Read(r, "start", t, u, row) /\ Meant("start", t, u, row)
    BY <1>3, <1>s DEF start_task, Meant, Statuses
  <1>4. ASSUME NEW t \in Tasks, NEW u \in People, submit_report(r, t, u)
        PROVE  \E row : Read(r, "submit", t, u, row) /\ Meant("submit", t, u, row)
    BY <1>4, <1>s DEF submit_report, Meant, Statuses
  <1>5. ASSUME NEW t \in Tasks, NEW u \in People, return_task(r, t, u)
        PROVE  \E row : Read(r, "return", t, u, row) /\ Meant("return", t, u, row)
    BY <1>5, <1>s DEF return_task, Meant, Statuses
  <1>6. ASSUME NEW t \in Tasks, NEW u \in People, accept_task(r, t, u)
        PROVE  \E row : Read(r, "accept", t, u, row) /\ Meant("accept", t, u, row)
    BY <1>6 DEF accept_task, can_accept, requires_review, Meant
  <1>7. ASSUME NEW t \in Tasks, close_task(r, t)
        PROVE  \E row : Read(r, "close", t, None, row) /\ Meant("close", t, None, row)
    BY <1>7, TasksAssumption DEF close_task, Meant
  <1>8. ASSUME NEW t \in Tasks, delete_task(r, t)
        PROVE  \E row : Read(r, "delete", t, None, row) /\ Meant("delete", t, None, row)
    BY <1>8, VacantTyped DEF delete_task, Meant
  <1>9. ASSUME NEW t \in Tasks, NEW team \in Teams, update_people(r, t, team)
        PROVE  \E row : Read(r, "update", t, None, row) /\ Meant("update", t, None, row)
    <2> DEFINE row == [task[t] EXCEPT !.assignees = team.assignees,
                         !.reviewers = team.reviewers,
                         !.responsible = IF team.responsible = None THEN @
                                         ELSE team.responsible]
    <2>1. ASSUME NEW old \in Row, NEW as, NEW rs, NEW w
          PROVE  [old EXCEPT !.assignees = as, !.reviewers = rs, !.responsible = w].status
                    = old.status
      BY DEF Row
    <2>2. row.status = task[t].status
      BY <1>0, <2>1
    <2>3. Read(r, "update", t, None, row)
      BY <1>9 DEF update_people
    <2> QED
      BY <2>2, <2>3 DEF Meant
  <1>10. ASSUME NEW t \in Tasks, NEW ds \in SUBSET Tasks, update_dependencies(r, t, ds)
        PROVE  \E row : Read(r, "update", t, None, row) /\ Meant("update", t, None, row)
    <2> DEFINE s == IF task[t].status = "NOT_READY" THEN initial_status(ds)
                    ELSE task[t].status
               row == [task[t] EXCEPT !.depends_on = ds,
                         !.status = IF @ = "NOT_READY" THEN initial_status(ds) ELSE @]
    <2>1. ASSUME NEW old \in Row, NEW new
          PROVE  [old EXCEPT !.depends_on = ds, !.status = new].status = new
      BY DEF Row
    <2>2. row.status = s
      BY <1>0, <2>1
    <2>3. s = "DONE" => task[t].status = "DONE"
      BY InitialStatus
    <2>4. Read(r, "update", t, None, row)
      BY <1>10 DEF update_dependencies
    <2> HIDE DEF s, row
    <2>5. Meant("update", t, None, row)
      BY <2>2, <2>3 DEF Meant
    <2> QED
      BY <2>4, <2>5
  <1> QED
    BY <1>1, <1>2, <1>3, <1>4, <1>5, <1>6, <1>7, <1>8, <1>9, <1>10 DEF Operation

LEMMA WakersStep == TasksTypeOK /\ WakersClose /\ [TasksNext]_vars => WakersClose'
  <1> SUFFICES ASSUME TasksTypeOK, WakersClose, [TasksNext]_vars,
                      NEW o \in Requests, UnderWay(o)', request'[o].wakes # {}
               PROVE  Closes(request[o])'
    BY DEF WakersClose
  <1>1. CASE request' = request
    BY <1>1 DEF WakersClose, UnderWay, Closes
  <1>2. ASSUME NEW r \in Requests, Operation(r)
        PROVE  Closes(request[o])'
    <2>1. \E q : q.wakes = {} /\ request' = [request EXCEPT ![r] = q]
      BY <1>2, OperationReads DEF Read
    <2>2. o # r /\ request'[o] = request[o]
      BY <2>1 DEF TasksTypeOK
    <2> QED
      BY <2>2 DEF WakersClose, UnderWay, Closes
  <1>3. ASSUME NEW r \in Requests, Write(r)
        PROVE  Closes(request[o])'
    <2>1. PICK q \in RequestRow : /\ q.wakes # {} => Closes(q)
                                  /\ request' = [request EXCEPT ![r] = q]
      BY <1>3, WriteMakes
    <2>2. request'[o] = IF o = r THEN q ELSE request[o]
      BY <2>1 DEF TasksTypeOK
    <2> QED
      BY <2>1, <2>2 DEF WakersClose, UnderWay, Closes
  <1>4. ASSUME NEW r \in Requests, Commit(r)
        PROVE  Closes(request[o])'
    <2>1. /\ UnderWay(o)
          /\ request'[o] = [request[o] EXCEPT !.crossed = TRUE]
      BY <1>4 DEF Commit, UnderWay, Idle
    <2>2. request[o] \in RequestRow
      BY <2>1, UnderWayTyped DEF UnderWay
    <2>3. /\ request'[o].wakes = request[o].wakes
          /\ request'[o].wanted = request[o].wanted /\ request'[o].seen = request[o].seen
      BY <2>1, <2>2 DEF RequestRow
    <2> QED
      BY <2>1, <2>3 DEF WakersClose, Closes
  <1>5. ASSUME NEW r \in Requests, Fail(r)
        PROVE  Closes(request[o])'
    <2>1. o # r /\ request'[o] = request[o]
      BY <1>5 DEF Fail, TasksTypeOK, UnderWay, Idle
    <2> QED
      BY <2>1 DEF WakersClose, UnderWay, Closes
  <1> QED
    BY <1>1, <1>2, <1>3, <1>4, <1>5, StepOfTasks DEF vars

\* A commit writes a status and its stage together, or neither.
LEMMA CommitLogs ==
    ASSUME TasksTypeOK, WakersClose, StagesLogged, NEW r \in Requests, Commit(r)
    PROVE  StagesLogged'
  <1> DEFINE q == request[r]
  <1>1. task' = Committed(q) /\ logged' = record_stage(q)
    BY DEF Commit
  <1>2. \A t \in Tasks : task[t] \in Row
    BY DEF TasksTypeOK
  <1> SUFFICES ASSUME NEW t \in Tasks, task'[t].status \in Statuses
               PROVE  logged'[t] = task'[t].status
    BY DEF StagesLogged, Existing
  <1>3. CASE t = q.task /\ q.wanted.status # q.seen.status
    BY <1>1, <1>3 DEF Committed, record_stage, Merged
  <1>4. CASE t # q.task /\ t \in q.wakes
    <2>1. [task[t] EXCEPT !.status = "READY"].status = "READY"
      BY <1>2 DEF Row
    <2> QED
      BY <1>1, <1>4, <2>1 DEF Committed, record_stage
  <1>5. CASE t # q.task /\ t \notin q.wakes
    <2>1. [task[t] EXCEPT !.depends_on = @ \ {q.task}].status = task[t].status
      BY <1>2 DEF Row
    <2>2. task'[t].status = task[t].status /\ logged'[t] = logged[t]
      BY <1>1, <1>5, <2>1 DEF Committed, record_stage
    <2> QED
      BY <2>2 DEF StagesLogged, Existing
  <1>6. CASE t = q.task /\ q.wanted.status = q.seen.status
    <2>1. q.wakes = {}
      BY <1>6 DEF WakersClose, Closes, Commit, UnderWay
    <2>2. task'[t].status = task[t].status /\ logged'[t] = logged[t]
      BY <1>1, <1>6, <2>1 DEF Committed, record_stage, Merged
    <2> QED
      BY <2>2 DEF StagesLogged, Existing
  <1> QED
    BY <1>3, <1>4, <1>5, <1>6

LEMMA StagesStep ==
    TasksTypeOK /\ WakersClose /\ StagesLogged /\ [TasksNext]_vars => StagesLogged'
  <1>1. ASSUME StagesLogged, UNCHANGED <<task, logged>>
        PROVE  StagesLogged'
    BY <1>1 DEF StagesLogged, Existing
  <1> QED
    BY <1>1, CommitLogs, OnlyCommitsShow, StepOfTasks DEF vars

\* The last stage in the journal is the status of the task, however many
\* requests overwrite it: the journal is written under the lock of the row.
THEOREM JournalNamesStatus == TasksSpec => []StagesLogged
  <1>1. TasksInit => StagesLogged
    BY DEF TasksInit, StagesLogged, Existing
  <1> QED
    BY <1>1, TypeInit, TypeStep, WakersInit, WakersStep, StagesStep, PTL DEF TasksSpec

------------------------------------------------------------------------------
(* The review.  Who is going to close a task of a block is its reviewer     *)
(* from the moment it was read.                                             *)

ReviewMeant ==
    \A r \in Requests : UnderWay(r) =>
       /\ request[r].step = "read" /\ request[r].op = "submit" =>
             request[r].wanted.status = "IN_REVIEW"
       /\ request[r].step = "read" /\ request[r].op = "delete" =>
             request[r].wanted.status = "deleted"
       /\ Closes(request[r]) /\ request[r].task \in BlockTasks =>
             request[r].by \in request[r].seen.reviewers \ request[r].seen.assignees

LEMMA ReviewInit == TasksInit => ReviewMeant
  BY DEF TasksInit, ReviewMeant, UnderWay, Idle

LEMMA ReviewStep == TasksTypeOK /\ ReviewMeant /\ [TasksNext]_vars => ReviewMeant'
  <1> DEFINE Good(q) ==
        /\ q.step = "read" /\ q.op = "submit" => q.wanted.status = "IN_REVIEW"
        /\ q.step = "read" /\ q.op = "delete" => q.wanted.status = "deleted"
        /\ Closes(q) /\ q.task \in BlockTasks =>
              q.by \in q.seen.reviewers \ q.seen.assignees
  <1> SUFFICES ASSUME TasksTypeOK, ReviewMeant, [TasksNext]_vars,
                      NEW o \in Requests, request'[o].step # "idle"
               PROVE  Good(request'[o])
    BY DEF ReviewMeant, UnderWay, Closes
  <1>0. request[o].step # "idle" => Good(request[o])
    BY DEF ReviewMeant, UnderWay
  <1>1. CASE request'[o] = request[o]
    BY <1>0, <1>1
  <1>2. ASSUME NEW r \in Requests, Operation(r)
        PROVE  Good(request'[o])
    <2>1. PICK op \in Operations, t \in Tasks, u \in People \cup {None} :
             \E row : Read(r, op, t, u, row) /\ Meant(op, t, u, row)
      BY <1>2, OperationReads
    <2>2. PICK row : Read(r, op, t, u, row) /\ Meant(op, t, u, row)
      BY <2>1
    <2> DEFINE q == [step |-> "read", op |-> op, task |-> t, by |-> u,
                     seen |-> task[t], wanted |-> row, wakes |-> {}, crossed |-> FALSE]
    <2>3. request'[o] = IF o = r THEN q ELSE request[o]
      BY <2>2 DEF Read, TasksTypeOK
    <2>4. Good(q)
      BY <2>2 DEF Meant, Closes
    <2> QED
      BY <2>3, <2>4, <1>1
  <1>3. ASSUME NEW r \in Requests, Write(r)
        PROVE  Good(request'[o])
    <2>1. PICK q \in RequestRow :
             /\ request[r] \in RequestRow /\ request[r].step = "read"
             /\ q.op = request[r].op /\ q.task = request[r].task /\ q.by = request[r].by
             /\ q.seen = Loaded(request[r]).seen /\ q.wanted = Loaded(request[r]).wanted
             /\ q.step = "written"
             /\ request' = [request EXCEPT ![r] = q]
      BY <1>3, WriteMakes
    <2>2. request'[o] = IF o = r THEN q ELSE request[o]
      BY <2>1 DEF TasksTypeOK
    <2>3. Good(request[r])
      BY <2>1 DEF ReviewMeant, UnderWay
    <2>4. CASE q.op = "submit"
      <3>1. q.task \in BlockTasks => q.wanted.status = "IN_REVIEW"
        BY <2>1, <2>3, <2>4, LoadedTyped
      <3>2. Good(q)
        BY <2>1, <3>1 DEF Closes
      <3> QED
        BY <2>2, <3>2, <1>1
    <2>5. CASE q.op = "delete"
      <3>1. q.wanted.status = "deleted"
        BY <2>1, <2>3, <2>5, LoadedTyped
      <3>2. Good(q)
        BY <2>1, <3>1 DEF Closes
      <3> QED
        BY <2>2, <3>2, <1>1
    <2>6. CASE q.op \notin {"submit", "delete"}
      <3>1. q.seen = request[r].seen /\ q.wanted = request[r].wanted
        BY <2>1, <2>6, LoadedTyped
      <3>2. Good(q)
        BY <2>1, <2>3, <3>1 DEF Closes
      <3> QED
        BY <2>2, <3>2, <1>1
    <2> QED
      BY <2>4, <2>5, <2>6
  <1>4. ASSUME NEW r \in Requests, Commit(r)
        PROVE  Good(request'[o])
    <2>1. /\ UnderWay(o)
          /\ request'[o] = [request[o] EXCEPT !.crossed = TRUE]
      BY <1>4 DEF Commit, UnderWay, Idle
    <2>2. request[o] \in RequestRow /\ Good(request[o])
      BY <2>1, <1>0, UnderWayTyped DEF UnderWay
    <2>3. /\ request'[o].step = request[o].step /\ request'[o].op = request[o].op
          /\ request'[o].task = request[o].task /\ request'[o].by = request[o].by
          /\ request'[o].wanted = request[o].wanted /\ request'[o].seen = request[o].seen
      BY <2>1, <2>2 DEF RequestRow
    <2> QED
      BY <2>2, <2>3 DEF Closes
  <1>5. ASSUME NEW r \in Requests, Fail(r)
        PROVE  Good(request'[o])
    <2>1. o # r /\ request'[o] = request[o]
      BY <1>5 DEF Fail, TasksTypeOK, Idle
    <2> QED
      BY <2>1, <1>1
  <1>6. CASE request' = request
    BY <1>6, <1>1
  <1> HIDE DEF Good
  <1> QED
    BY <1>2, <1>3, <1>4, <1>5, <1>6, StepOfTasks DEF vars

LEMMA ReviewedStep ==
    ASSUME TasksTypeOK, ReviewMeant, [TasksNext]_vars,
           NEW t \in BlockTasks \cap Existing,
           task[t].status # "DONE", task'[t].status = "DONE"
    PROVE  \E r \in Requests :
              /\ Commit(r) /\ request[r].task = t
              /\ request[r].by \in request[r].seen.reviewers \ request[r].seen.assignees
  <1>1. task' # task /\ t \in Tasks /\ task[t] \in Row
    BY DEF Existing, TasksTypeOK
  <1>2. PICK r \in Requests : Commit(r)
    BY <1>1, OnlyCommitsShow, StepOfTasks DEF vars
  <1> DEFINE q == request[r]
  <1>3. task' = Committed(q) /\ q.step = "written"
    BY <1>2 DEF Commit
  <1>4. /\ [task[t] EXCEPT !.status = "READY"].status = "READY"
        /\ [task[t] EXCEPT !.depends_on = @ \ {q.task}].status = task[t].status
    BY <1>1 DEF Row
  <1>5. t = q.task
    BY <1>1, <1>3, <1>4 DEF Committed
  <1>6. Closes(q)
    BY <1>1, <1>3, <1>5 DEF Committed, Merged, Closes
  <1> QED
    BY <1>2, <1>3, <1>5, <1>6 DEF ReviewMeant, UnderWay

\* A task of a production block is done only in the hands of a reviewer who
\* was not its assignee when they looked at it, whatever crosses.
THEOREM BlocksAreReviewed == TasksSpec => BlockTasksReviewed
  <1>1. TasksTypeOK /\ ReviewMeant /\ [TasksNext]_vars =>
          [\A t \in BlockTasks \cap Existing :
             task[t].status # "DONE" /\ task[t]'.status = "DONE" =>
               \E r \in Requests :
                  /\ Commit(r) /\ request[r].task = t
                  /\ request[r].by \in request[r].seen.reviewers
                                         \ request[r].seen.assignees]_vars
    BY ReviewedStep
  <1> QED
    BY <1>1, TypeInit, TypeStep, ReviewInit, ReviewStep, PTL
    DEF TasksSpec, BlockTasksReviewed

------------------------------------------------------------------------------
(* The cascade.  While nobody else commits, what a closing is going to wake *)
(* is what has nothing else to wait for.                                    *)

WakesAreCurrent ==
    \A r \in Requests :
       request[r].step = "written" /\ ~request[r].crossed /\ Closes(request[r]) =>
          request[r].wakes = cascade_readiness(request[r].task)

LEMMA WakesInit == TasksInit => WakesAreCurrent
  BY DEF TasksInit, WakesAreCurrent, Idle

LEMMA WakesStep == TasksTypeOK /\ WakesAreCurrent /\ [TasksNext]_vars => WakesAreCurrent'
  <1> DEFINE Current(q) ==
        q.step = "written" /\ ~q.crossed /\ Closes(q) =>
           q.wakes = cascade_readiness(q.task)
  <1>1. ASSUME TasksTypeOK, WakesAreCurrent, NEW r \in Requests,
               Operation(r) \/ Write(r) \/ Fail(r), NEW o \in Requests
        PROVE  Current(request'[o])
    <2>0. Current(request[o])
      BY <1>1 DEF WakesAreCurrent
    <2>1. CASE Operation(r)
      <3>1. PICK q : q.step = "read" /\ request' = [request EXCEPT ![r] = q]
        BY <1>1, <2>1, OperationReads DEF Read
      <3> QED
        BY <1>1, <2>0, <3>1 DEF TasksTypeOK
    <2>2. CASE Write(r)
      <3> DEFINE l == Loaded(request[r])
                 wakes == IF Closes(l) THEN cascade_readiness(l.task) ELSE {}
                 q == [l EXCEPT !.step = "written", !.wakes = wakes]
      <3>1. request' = [request EXCEPT ![r] = q]
        BY <2>2 DEF Write
      <3>2. l \in RequestRow
        BY <1>1, <2>2, UnderWayTyped, LoadedTyped DEF Write
      <3>3. q.wakes = wakes /\ q.wanted = l.wanted /\ q.seen = l.seen /\ q.task = l.task
        BY <3>2 DEF RequestRow
      <3>4. Current(q)
        BY <3>3 DEF Closes
      <3> HIDE DEF q, Current
      <3> QED
        BY <1>1, <2>0, <3>1, <3>4 DEF TasksTypeOK
    <2>3. CASE Fail(r)
      BY <1>1, <2>0, <2>3 DEF Fail, TasksTypeOK, Idle
    <2> QED
      BY <1>1, <2>1, <2>2, <2>3
  <1>2. ASSUME WakesAreCurrent, UNCHANGED <<task, request>>
        PROVE  WakesAreCurrent'
    BY <1>2 DEF WakesAreCurrent, Closes, cascade_readiness, dependents, Existing
  <1>3. ASSUME TasksTypeOK, WakesAreCurrent, NEW r \in Requests,
               Operation(r) \/ Write(r) \/ Fail(r)
        PROVE  WakesAreCurrent'
    <2>1. task' = task
      BY <1>3, OnlyCommitsShow
    <2>2. \A o \in Requests : Current(request'[o])
      BY <1>1, <1>3
    <2> QED
      BY <2>1, <2>2
      DEF WakesAreCurrent, Closes, cascade_readiness, dependents, Existing
  <1>4. ASSUME TasksTypeOK, NEW r \in Requests, Commit(r)
        PROVE  WakesAreCurrent'
    <2> SUFFICES ASSUME NEW o \in Requests, request'[o].step = "written"
                 PROVE  request'[o].crossed
      BY DEF WakesAreCurrent
    <2>1. UnderWay(o) /\ request'[o] = [request[o] EXCEPT !.crossed = TRUE]
      BY <1>4 DEF Commit, Idle, UnderWay
    <2>2. request[o] \in RequestRow
      BY <1>4, <2>1, UnderWayTyped DEF UnderWay
    <2> QED
      BY <2>1, <2>2 DEF RequestRow
  <1> QED
    BY <1>2, <1>3, <1>4, StepOfTasks DEF vars

LEMMA WakesAll ==
    ASSUME TasksTypeOK, WakesAreCurrent, NEW r \in Requests,
           CommitsAlone(r), Closes(request[r]),
           NEW d \in Tasks, task'[d].status = "NOT_READY",
           request[r].task \in task'[d].depends_on
    PROVE  \E p \in task'[d].depends_on : task'[p].status # "DONE"
  <1> DEFINE q == request[r]
  <1>1. /\ task' = Committed(q) /\ q \in RequestRow
        /\ q.wakes = cascade_readiness(q.task) /\ q.wanted.status = "DONE"
        /\ q.wanted.status # q.seen.status
    BY UnderWayTyped DEF CommitsAlone, Commit, WakesAreCurrent, Closes
  <1>2. \A t \in Tasks : task[t] \in Row /\ [task[t] EXCEPT !.status = "READY"].status = "READY"
    BY DEF TasksTypeOK, Row
  <1>3. task'[q.task].status = "DONE"
    BY <1>1 DEF Committed, Merged, RequestRow
  <1>4. d # q.task /\ d \notin q.wakes
    <2>1. d # q.task
      BY <1>3
    <2> QED
      BY <1>1, <1>2, <2>1 DEF Committed
  <1>5. task'[d] = task[d]
    BY <1>1, <1>4 DEF Committed, Deletes
  <1>6. d \in dependents(q.task) \ {q.task}
    BY <1>4, <1>5 DEF dependents, Existing, Statuses
  <1>7. PICK p \in task[d].depends_on \ {q.task} : task[p].status # "DONE"
    BY <1>1, <1>4, <1>5, <1>6 DEF cascade_readiness
  <1>8. p \in Tasks
    BY <1>2, <1>7 DEF Row
  <1>9. task'[p].status # "DONE"
    BY <1>1, <1>2, <1>7, <1>8 DEF Committed, Deletes
  <1> QED
    BY <1>5, <1>7, <1>9

\* A closing that no other commit crossed leaves no task waiting for it alone.
THEOREM ClosersWake == TasksSpec => CloserWakes
  <1>1. TasksTypeOK /\ WakesAreCurrent /\ [TasksNext]_vars =>
          [\A r \in Requests : CommitsAlone(r) /\ Closes(request[r]) =>
             \A d \in Existing' :
                request[r].task \in task[d]'.depends_on /\ task[d]'.status = "NOT_READY" =>
                   \E p \in task[d]'.depends_on : task[p]'.status # "DONE"]_vars
    BY WakesAll DEF Existing
  <1> QED
    BY <1>1, TypeInit, TypeStep, WakesInit, WakesStep, PTL DEF TasksSpec, CloserWakes

------------------------------------------------------------------------------
(* Readiness.  A request that nobody crossed has seen its task as it is, so *)
(* the dependencies it looked at are the ones it leaves behind; a task of   *)
(* another section has none when it is made, and never waits.               *)

\* What a request on t may want of the task it has seen
Allowed(old, row) ==
    /\ old.status = "DONE" => row.status \in {"DONE", "deleted"}
    /\ old.status = "NOT_READY" /\ row.status \notin {"NOT_READY", "deleted"} =>
          \A p \in row.depends_on : task[p].status = "DONE"

SeenAsItIs(q) ==
    /\ q.seen.status = task[q.task].status /\ q.seen.depends_on = task[q.task].depends_on
    /\ Allowed(q.seen, q.wanted)
    /\ q.op = "submit" => q.seen.status = "IN_PROGRESS"
    /\ q.step = "read" /\ q.op = "delete" => q.wanted.status = "deleted"

SeenUncrossed == \A r \in Requests : UnderWay(r) /\ ~request[r].crossed => SeenAsItIs(request[r])

LinkedNeverWait ==
    /\ \A t \in LinkedTasks : task[t].status # "NOT_READY"
    /\ \A r \in Requests :
          UnderWay(r) /\ request[r].task \in LinkedTasks => request[r].wanted.status # "NOT_READY"

LEMMA SeenInit == TasksInit => SeenUncrossed /\ LinkedNeverWait
  <1> SUFFICES ASSUME TasksInit PROVE SeenUncrossed /\ LinkedNeverWait
    OBVIOUS
  <1>1. \A r \in Requests : ~UnderWay(r)
    BY DEF TasksInit, UnderWay, Idle
  <1>2. \A t \in Tasks : task[t].status # "NOT_READY"
    BY DEF TasksInit, Vacant
  <1>3. LinkedTasks \subseteq Tasks
    BY TasksAssumption
  <1> QED  BY <1>1, <1>2, <1>3 DEF SeenUncrossed, LinkedNeverWait

\* What an operation on t wants of it
WantsOf(op, t, row) ==
    /\ Allowed(task[t], row)
    /\ op = "submit" => task[t].status = "IN_PROGRESS"
    /\ op = "delete" => row.status = "deleted"
    /\ t \in LinkedTasks => row.status # "NOT_READY"

LEMMA OperationWants ==
    ASSUME TasksTypeOK, \A t \in LinkedTasks : task[t].status # "NOT_READY", NEW r \in Requests, Operation(r)
    PROVE  \E op \in Operations, t \in Tasks, u \in People \cup {None} : \E row :
              Read(r, op, t, u, row) /\ WantsOf(op, t, row)
  <1> USE DEF Operations
  <1>0. \A t \in Tasks : task[t] \in Row
    BY DEF TasksTypeOK
  <1>s. \A t \in Tasks, s \in Statuses : [task[t] EXCEPT !.status = s].status = s
    BY <1>0 DEF Row
  <1>1. ASSUME NEW t \in Tasks, NEW team \in Teams, NEW ds \in SUBSET Tasks,
               create_task(r, t, team, ds)
        PROVE  \E row : Read(r, "create", t, None, row) /\ WantsOf("create", t, row)
    <2> DEFINE row == [status |-> initial_status(ds), assignees |-> team.assignees,
                       reviewers |-> team.reviewers, responsible |-> team.responsible,
                       depends_on |-> ds]
    <2>1. Read(r, "create", t, None, row)
      BY <1>1 DEF create_task
    <2>2. task[t].status = "absent" /\ (t \in LinkedTasks => ds = {})
      BY <1>1 DEF create_task
    <2>3. row.status = initial_status(ds) /\ (ds = {} => initial_status(ds) = "READY")
      BY DEF initial_status
    <2> HIDE DEF row
    <2> QED  BY <2>1, <2>2, <2>3 DEF WantsOf, Allowed
  <1>2. ASSUME NEW t \in Tasks, NEW u \in People, claim_task(r, t, u)
        PROVE  \E row : Read(r, "claim", t, u, row) /\ WantsOf("claim", t, row)
    <2>1. [task[t] EXCEPT !.assignees = {u}].status = task[t].status
      BY <1>0 DEF Row
    <2>2. task[t].status = "READY"
      BY <1>2 DEF claim_task
    <2> QED  BY <1>2, <2>1, <2>2 DEF claim_task, WantsOf, Allowed
  <1>3. ASSUME NEW t \in Tasks, NEW u \in People, start_task(r, t, u)
        PROVE  \E row : Read(r, "start", t, u, row) /\ WantsOf("start", t, row)
    BY <1>3, <1>s DEF start_task, WantsOf, Allowed, Statuses
  <1>4. ASSUME NEW t \in Tasks, NEW u \in People, submit_report(r, t, u)
        PROVE  \E row : Read(r, "submit", t, u, row) /\ WantsOf("submit", t, row)
    BY <1>4, <1>s DEF submit_report, WantsOf, Allowed, Statuses
  <1>5. ASSUME NEW t \in Tasks, NEW u \in People, return_task(r, t, u)
        PROVE  \E row : Read(r, "return", t, u, row) /\ WantsOf("return", t, row)
    BY <1>5, <1>s DEF return_task, WantsOf, Allowed, Statuses
  <1>6. ASSUME NEW t \in Tasks, NEW u \in People, accept_task(r, t, u)
        PROVE  \E row : Read(r, "accept", t, u, row) /\ WantsOf("accept", t, row)
    BY <1>6, <1>s DEF accept_task, WantsOf, Allowed, Statuses
  <1>7. ASSUME NEW t \in Tasks, close_task(r, t)
        PROVE  \E row : Read(r, "close", t, None, row) /\ WantsOf("close", t, row)
    BY <1>7, <1>s DEF close_task, WantsOf, Allowed, Statuses
  <1>8. ASSUME NEW t \in Tasks, delete_task(r, t)
        PROVE  \E row : Read(r, "delete", t, None, row) /\ WantsOf("delete", t, row)
    BY <1>8, VacantTyped DEF delete_task, WantsOf, Allowed
  <1>9. ASSUME NEW t \in Tasks, NEW team \in Teams, update_people(r, t, team)
        PROVE  \E row : Read(r, "update", t, None, row) /\ WantsOf("update", t, row)
    <2> DEFINE row == [task[t] EXCEPT !.assignees = team.assignees,
                         !.reviewers = team.reviewers,
                         !.responsible = IF team.responsible = None THEN @
                                         ELSE team.responsible]
    <2>1. ASSUME NEW old \in Row, NEW as, NEW rs, NEW w
          PROVE  [old EXCEPT !.assignees = as, !.reviewers = rs, !.responsible = w].status
                    = old.status
      BY DEF Row
    <2>2. row.status = task[t].status
      BY <1>0, <2>1
    <2>3. Read(r, "update", t, None, row)
      BY <1>9 DEF update_people
    <2> HIDE DEF row
    <2> QED  BY <2>2, <2>3 DEF WantsOf, Allowed
  <1>10. ASSUME NEW t \in Tasks, NEW ds \in SUBSET Tasks, update_dependencies(r, t, ds)
        PROVE  \E row : Read(r, "update", t, None, row) /\ WantsOf("update", t, row)
    <2> DEFINE s == IF task[t].status = "NOT_READY" THEN initial_status(ds)
                    ELSE task[t].status
               row == [task[t] EXCEPT !.depends_on = ds,
                         !.status = IF @ = "NOT_READY" THEN initial_status(ds) ELSE @]
    <2>1. ASSUME NEW old \in Row, NEW new
          PROVE  /\ [old EXCEPT !.depends_on = ds, !.status = new].status = new
                 /\ [old EXCEPT !.depends_on = ds, !.status = new].depends_on = ds
      BY DEF Row
    <2>2. row.status = s /\ row.depends_on = ds
      BY <1>0, <2>1
    <2>3. /\ task[t].status # "NOT_READY" => s = task[t].status
          /\ task[t].status = "NOT_READY" /\ s # "NOT_READY" => \A p \in ds : task[p].status = "DONE"
      BY DEF initial_status
    <2>4. Read(r, "update", t, None, row)
      BY <1>10 DEF update_dependencies
    <2> HIDE DEF s, row
    <2>5. WantsOf("update", t, row)
      BY <2>2, <2>3 DEF WantsOf, Allowed
    <2> QED  BY <2>4, <2>5
  <1> QED
    BY <1>1, <1>2, <1>3, <1>4, <1>5, <1>6, <1>7, <1>8, <1>9, <1>10 DEF Operation

\* What the flush loads leaves the status and the dependencies that were seen.
LEMMA StatusLoaded ==
    ASSUME TasksTypeOK, NEW q \in RequestRow
    PROVE  /\ q.op = "submit" => /\ Loaded(q).seen.status = q.seen.status
                                 /\ Loaded(q).seen.depends_on = q.seen.depends_on
                                 /\ Loaded(q).wanted.status \in {"DONE", q.wanted.status}
           /\ q.op = "delete" => Loaded(q).seen = task[q.task]
  <1> DEFINE now == task[q.task].reviewers
             mid == [q.wanted EXCEPT !.reviewers = now]
             old == [q.seen EXCEPT !.reviewers = now]
  <1>1. task[q.task] \in Row /\ now \in SUBSET People
    BY DEF TasksTypeOK, RequestRow, Row
  <1>2. q.wanted \in Row /\ q.seen \in Row
    BY DEF RequestRow
  <1>3. /\ mid \in Row /\ mid.status = q.wanted.status
        /\ old \in Row /\ old.status = q.seen.status /\ old.depends_on = q.seen.depends_on
    BY <1>1, <1>2 DEF Row
  <1> HIDE DEF mid, old
  <1>4. ASSUME NEW row \in Row PROVE Final(q, row).status \in {"DONE", row.status}
    <2>1. [row EXCEPT !.status = "DONE"].status = "DONE"
      BY DEF Row
    <2>2. [row EXCEPT !.reviewers = row.reviewers \cup {row.responsible}].status = row.status
      BY DEF Row
    <2> QED  BY <2>1, <2>2 DEF Final
  <1>5. Final(q, mid) \in Row
    BY <1>3, FinalTyped
  <1>6. ASSUME NEW a \in Row, NEW b \in Row
        PROVE  [q EXCEPT !.seen = a, !.wanted = b].seen = a /\ [q EXCEPT !.seen = a, !.wanted = b].wanted = b
    BY DEF RequestRow
  <1>7. ASSUME q.op = "submit" PROVE Loaded(q).seen = old /\ Loaded(q).wanted = Final(q, mid)
    <2>1. Loaded(q) = [q EXCEPT !.seen = old, !.wanted = Final(q, mid)]
      BY <1>7 DEF Loaded, old, mid
    <2> QED  BY <1>3, <1>5, <1>6, <2>1
  <1>8. ASSUME q.op = "delete" PROVE Loaded(q).seen = task[q.task]
    BY <1>8 DEF Loaded, RequestRow
  <1> QED  BY <1>3, <1>4, <1>7, <1>8

LEMMA SeenStep ==
    TasksTypeOK /\ SeenUncrossed /\ LinkedNeverWait /\ [TasksNext]_vars => SeenUncrossed' /\ LinkedNeverWait'
  <1> SUFFICES ASSUME TasksTypeOK, SeenUncrossed, LinkedNeverWait, [TasksNext]_vars
               PROVE  SeenUncrossed' /\ LinkedNeverWait'
    OBVIOUS
  <1> DEFINE Fine(q) == /\ ~q.crossed => SeenAsItIs(q)
                        /\ q.task \in LinkedTasks => q.wanted.status # "NOT_READY"
  <1>1. \A o \in Requests : request[o].step # "idle" => Fine(request[o])
    BY DEF SeenUncrossed, LinkedNeverWait, UnderWay
  <1>2. ASSUME task' = task, \A o \in Requests : request'[o].step # "idle" => Fine(request'[o])
        PROVE  SeenUncrossed' /\ LinkedNeverWait'
    BY <1>2 DEF SeenUncrossed, LinkedNeverWait, UnderWay, SeenAsItIs, Allowed
  <1>3. ASSUME NEW r \in Requests, NEW q, Fine(q), task' = task, request' = [request EXCEPT ![r] = q]
        PROVE  SeenUncrossed' /\ LinkedNeverWait'
    <2>1. \A o \in Requests : request'[o] = IF o = r THEN q ELSE request[o]
      BY <1>3 DEF TasksTypeOK
    <2> HIDE DEF Fine
    <2>2. \A o \in Requests : request'[o].step # "idle" => Fine(request'[o])
      BY <1>1, <1>3, <2>1
    <2> QED  BY <1>2, <1>3, <2>2
  <1>4. ASSUME NEW r \in Requests, Operation(r) PROVE SeenUncrossed' /\ LinkedNeverWait'
    <2>1. PICK op \in Operations, t \in Tasks, u \in People \cup {None} :
             \E row : Read(r, op, t, u, row) /\ WantsOf(op, t, row)
      BY <1>4, OperationWants DEF LinkedNeverWait
    <2>2. PICK row : Read(r, op, t, u, row) /\ WantsOf(op, t, row)
      BY <2>1
    <2>3. PICK q : q = [step |-> "read", op |-> op, task |-> t, by |-> u,
                        seen |-> task[t], wanted |-> row, wakes |-> {}, crossed |-> FALSE]
      OBVIOUS
    <2>4. q.op = op /\ q.task = t /\ q.seen = task[t] /\ q.wanted = row
      BY <2>3
    <2>5. Fine(q)
      BY <2>2, <2>4 DEF WantsOf, SeenAsItIs
    <2>6. task' = task /\ request' = [request EXCEPT ![r] = q]
      BY <2>2, <2>3 DEF Read
    <2> HIDE DEF Fine
    <2> QED  BY <1>3, <2>5, <2>6
  <1>5. ASSUME NEW r \in Requests, Write(r) PROVE SeenUncrossed' /\ LinkedNeverWait'
    <2>1. PICK q \in RequestRow :
             /\ request[r] \in RequestRow /\ request[r].step = "read"
             /\ q.op = request[r].op /\ q.task = request[r].task
             /\ q.seen = Loaded(request[r]).seen /\ q.wanted = Loaded(request[r]).wanted
             /\ q.step = "written"
             /\ request' = [request EXCEPT ![r] = q]
      BY <1>5, WriteMakes
    <2>2. task' = task
      BY <1>5, OnlyCommitsShow
    <2>3. q.crossed = request[r].crossed
      <3> DEFINE l == Loaded(request[r])
                 wakes == IF Closes(l) THEN cascade_readiness(l.task) ELSE {}
      <3>1. request' = [request EXCEPT ![r] = [l EXCEPT !.step = "written", !.wakes = wakes]]
        BY <1>5 DEF Write
      <3>2. q = [l EXCEPT !.step = "written", !.wakes = wakes]
        BY <2>1, <3>1 DEF TasksTypeOK
      <3>3. l \in RequestRow
        BY <2>1, LoadedTyped
      <3>4. l.crossed = request[r].crossed
        BY <2>1 DEF Loaded, RequestRow
      <3> HIDE DEF l, wakes
      <3> QED  BY <3>2, <3>3, <3>4 DEF RequestRow
    <2>4. PICK old \in RequestRow : old = request[r]
      BY <2>1
    <2>5. Fine(old)
      BY <1>1, <2>1, <2>4
    <2>6. Fine(q)
      <3>1. CASE q.op = "submit"
        <4>1. q.seen.status = old.seen.status /\ q.seen.depends_on = old.seen.depends_on
              /\ q.wanted.status \in {"DONE", old.wanted.status}
          BY <2>1, <2>4, <3>1, StatusLoaded
        <4>2. ~q.crossed => SeenAsItIs(q)
          BY <2>1, <2>3, <2>4, <2>5, <3>1, <4>1 DEF SeenAsItIs, Allowed
        <4> QED  BY <2>1, <2>4, <2>5, <4>1, <4>2
      <3>2. CASE q.op = "delete"
        <4>1. q.seen = task[q.task] /\ q.wanted = old.wanted
          <5>1. old.op = "delete" /\ old.task = q.task
            BY <2>1, <2>4, <3>2
          <5>2. Loaded(old).seen = task[old.task]
            BY <5>1, StatusLoaded
          <5>3. Loaded(old).wanted = old.wanted
            BY <5>1, LoadedTyped
          <5> QED  BY <2>1, <2>4, <5>1, <5>2, <5>3
        <4>2. ASSUME ~q.crossed PROVE SeenAsItIs(q)
          <5>1. SeenAsItIs(old) /\ old.step = "read" /\ old.op = "delete"
            BY <2>1, <2>3, <2>4, <2>5, <3>2, <4>2
          <5>2. q.wanted.status = "deleted"
            BY <4>1, <5>1 DEF SeenAsItIs
          <5>3. Allowed(q.seen, q.wanted)
            BY <5>2 DEF Allowed
          <5> QED  BY <2>1, <3>2, <4>1, <5>2, <5>3 DEF SeenAsItIs
        <4> QED  BY <2>1, <2>4, <2>5, <4>1, <4>2
      <3>3. CASE q.op \notin {"submit", "delete"}
        <4>1. q.seen = old.seen /\ q.wanted = old.wanted
          BY <2>1, <2>4, <3>3, LoadedTyped
        <4>2. ~q.crossed => SeenAsItIs(q)
          BY <2>1, <2>3, <2>4, <2>5, <3>3, <4>1 DEF SeenAsItIs, Allowed
        <4> QED  BY <2>1, <2>4, <2>5, <4>1, <4>2
      <3> QED  BY <3>1, <3>2, <3>3
    <2> HIDE DEF Fine
    <2> QED  BY <1>3, <2>1, <2>2, <2>6
  <1>6. ASSUME NEW r \in Requests, Fail(r) PROVE SeenUncrossed' /\ LinkedNeverWait'
    <2>1. task' = task /\ \A o \in Requests : request'[o] = IF o = r THEN Idle ELSE request[o]
      BY <1>6 DEF Fail, TasksTypeOK
    <2> HIDE DEF Fine
    <2>2. \A o \in Requests : request'[o].step # "idle" => Fine(request'[o])
      BY <1>1, <2>1 DEF Idle
    <2> QED  BY <1>2, <2>1, <2>2
  <1>7. ASSUME NEW r \in Requests, Commit(r) PROVE SeenUncrossed' /\ LinkedNeverWait'
    <2>1. ASSUME NEW o \in Requests, request'[o].step # "idle"
          PROVE  /\ request'[o].crossed /\ UnderWay(o)
                 /\ request'[o].task = request[o].task /\ request'[o].wanted = request[o].wanted
      <3>1. UnderWay(o) /\ request'[o] = [request[o] EXCEPT !.crossed = TRUE]
        BY <1>7, <2>1 DEF Commit, Idle, UnderWay
      <3>2. request[o] \in RequestRow
        BY <3>1, UnderWayTyped DEF UnderWay
      <3> QED  BY <3>1, <3>2 DEF RequestRow
    <2>2. SeenUncrossed'
      BY <2>1 DEF SeenUncrossed, UnderWay
    <2>3. ASSUME NEW t \in LinkedTasks PROVE task'[t].status # "NOT_READY"
      <3>1. PICK q \in RequestRow : q = request[r]
        BY <1>7, UnderWayTyped DEF Commit
      <3>2. t \in Tasks /\ task[t] \in Row /\ task[t].status # "NOT_READY"
        BY TasksAssumption DEF TasksTypeOK, LinkedNeverWait
      <3>3. task' = Committed(q) /\ (q.task = t => q.wanted.status # "NOT_READY")
        BY <1>7, <3>1 DEF Commit, LinkedNeverWait, UnderWay
      <3>4. CASE t = q.task
        <4>1. task'[t] = Merged(q, task[t])
          BY <3>2, <3>3, <3>4 DEF Committed
        <4>2. Merged(q, task[t]).status =
                 IF q.wanted.status # q.seen.status THEN q.wanted.status ELSE task[t].status
          BY DEF Merged
        <4> QED  BY <3>2, <3>3, <3>4, <4>1, <4>2
      <3>5. CASE t # q.task
        <4>1. [task[t] EXCEPT !.status = "READY"].status = "READY"
              /\ [task[t] EXCEPT !.depends_on = task[t].depends_on \ {q.task}].status = task[t].status
          BY <3>2 DEF Row
        <4> QED  BY <3>2, <3>3, <3>5, <4>1 DEF Committed
      <3> QED  BY <3>4, <3>5
    <2> QED  BY <2>1, <2>2, <2>3 DEF LinkedNeverWait, UnderWay
  <1>8. CASE UNCHANGED vars
    <2>1. task' = task /\ request' = request
      BY <1>8 DEF vars
    <2> HIDE DEF Fine
    <2> QED  BY <1>1, <1>2, <2>1
  <1> QED  BY <1>4, <1>5, <1>6, <1>7, <1>8, StepOfTasks

\* What a commit that nobody crossed does to a task that stays.
LEMMA AloneIsReady ==
    ASSUME TasksTypeOK, SeenUncrossed, WakersClose, WakesAreCurrent, NEW r \in Requests, CommitsAlone(r),
           NEW t \in Existing, task'[t].status \in Statuses
    PROVE  /\ task[t].status = "NOT_READY" /\ task'[t].status # "NOT_READY" =>
                 \A p \in task'[t].depends_on : task'[p].status = "DONE"
           /\ task[t].status = "DONE" => task'[t].status = "DONE"
  <1>1. PICK q \in RequestRow : q = request[r]
    BY UnderWayTyped DEF CommitsAlone, Commit
  <1>2. task' = Committed(q) /\ SeenAsItIs(q) /\ (q.wakes # {} => Closes(q))
        /\ (Closes(q) => q.wakes = cascade_readiness(q.task))
    BY <1>1 DEF CommitsAlone, Commit, SeenUncrossed, UnderWay, WakersClose, WakesAreCurrent
  <1>3. t \in Tasks /\ \A p \in Tasks : task[p] \in Row
    BY DEF Existing, TasksTypeOK
  <1>4. q.task \in Tasks /\ q.seen \in Row /\ q.wanted \in Row
    BY DEF RequestRow
  <1>5. task'[q.task] = Merged(q, task[q.task])
    BY <1>2, <1>4 DEF Committed
  <1>6. task'[q.task].status = q.wanted.status
    BY <1>2, <1>5 DEF Merged, SeenAsItIs
  <1>7. task'[q.task].depends_on = q.wanted.depends_on
    <2>1. task'[q.task].depends_on = (task[q.task].depends_on \ Removed(q, "depends_on")) \cup Added(q, "depends_on")
      BY <1>5 DEF Merged
    <2>2. Removed(q, "depends_on") = q.seen.depends_on \ q.wanted.depends_on
          /\ Added(q, "depends_on") = q.wanted.depends_on \ q.seen.depends_on
      BY DEF Removed, Added
    <2>3. task[q.task].depends_on = q.seen.depends_on
      BY <1>2 DEF SeenAsItIs
    <2> QED  BY <2>1, <2>2, <2>3
  <1>8. ASSUME NEW p \in Tasks, p # q.task, p \notin q.wakes PROVE task'[p].status = task[p].status
    <2>1. [task[p] EXCEPT !.depends_on = task[p].depends_on \ {q.task}].status = task[p].status
      BY <1>3 DEF Row
    <2> QED  BY <1>2, <1>8, <2>1 DEF Committed
  <1>9. \A p \in q.wakes : task[p].status = "NOT_READY"
    BY <1>2 DEF cascade_readiness
  <1>10. \A p \in Tasks : p # q.task /\ task[p].status = "DONE" => task'[p].status = "DONE"
    BY <1>8, <1>9
  <1>11. CASE t = q.task
    <2>1. task[t].status = "DONE" => task'[t].status = "DONE"
      BY <1>2, <1>6, <1>11 DEF SeenAsItIs, Allowed, Statuses
    <2>2. ASSUME task[t].status = "NOT_READY", task'[t].status # "NOT_READY", NEW p \in task'[t].depends_on
          PROVE  task'[p].status = "DONE"
      <3>1. p \in q.wanted.depends_on /\ p \in Tasks
        BY <1>4, <1>7, <1>11, <2>2 DEF Row
      <3>2. task[p].status = "DONE"
        BY <1>2, <1>6, <1>11, <2>2, <3>1 DEF SeenAsItIs, Allowed, Statuses
      <3> QED  BY <1>10, <1>11, <2>2, <3>1, <3>2
    <2> QED  BY <2>1, <2>2
  <1>12. CASE t # q.task /\ t \in q.wakes
    <2>1. Closes(q) /\ t \in cascade_readiness(q.task)
      BY <1>2, <1>12
    <2>2. task[t].status = "NOT_READY" /\ \A p \in task[t].depends_on \ {q.task} : task[p].status = "DONE"
      BY <2>1 DEF cascade_readiness
    <2>3. task'[t].depends_on = task[t].depends_on
      BY <1>2, <1>3, <1>12 DEF Committed, Row
    <2>4. task'[q.task].status = "DONE"
      BY <1>6, <2>1 DEF Closes
    <2>5. task[t].depends_on \subseteq Tasks
      BY <1>3 DEF Row
    <2> QED  BY <1>10, <2>2, <2>3, <2>4, <2>5
  <1>13. CASE t # q.task /\ t \notin q.wakes
    BY <1>3, <1>8, <1>13
  <1> QED  BY <1>11, <1>12, <1>13

\* A commit that no other crossed makes a task ready only with all it depends
\* on done, and leaves a done task done, with any number of tasks and people.
THEOREM ReadyMeansDone == TasksSpec => ReadyWhenDone
  <1>1. TasksTypeOK /\ WakersClose /\ WakesAreCurrent /\ SeenUncrossed /\ [TasksNext]_vars =>
          [\A r \in Requests : CommitsAlone(r) =>
             \A t \in Existing \cap Existing' :
                /\ task[t].status = "NOT_READY" /\ task[t]'.status # "NOT_READY" =>
                      \A p \in task[t]'.depends_on : task[p]'.status = "DONE"
                /\ task[t].status = "DONE" => task[t]'.status = "DONE"]_vars
    <2>1. \A t \in Existing' : task'[t].status \in Statuses
      BY DEF Existing
    <2> QED  BY <2>1, AloneIsReady
  <1> QED
    BY <1>1, TypeInit, TypeStep, WakersInit, WakersStep, WakesInit, WakesStep, SeenInit, SeenStep, PTL
    DEF TasksSpec, ReadyWhenDone

------------------------------------------------------------------------------
(* Salaries                                                                 *)

\* What a row claims of the work that came from the former system
Earned(row, m) ==
    \A t \in Carried :
        /\ t \in row.onTime => Kept(t, m)
        /\ t \in row.late => completions[t] # {}

JobsLogged ==
    /\ day \in Nat /\ DOMAIN jobs = Jobs /\ completions \in [Jobs -> SUBSET Nat] /\ deadlines \in [Jobs -> SUBSET Nat]
    /\ \A t \in Jobs :
          /\ DOMAIN jobs[t] = {"deadline", "done", "completed"}
          /\ jobs[t].deadline \in deadlines[t]
          /\ jobs[t].completed = Unknown \/ jobs[t].completed \in completions[t]

\* What a look has read of a month, counted and written is borne out by the log
LookIsTrue(look) ==
    /\ look.at = "read" =>
          \A t \in DOMAIN look.tasks :
              t \in Jobs /\ look.tasks[t].deadline \in deadlines[t]
              /\ _month_range(look.tasks[t].deadline) = look.month
    /\ look.at = "counted" => Earned(look.row, look.month)
    /\ look.at # "nowhere" => \A e \in DOMAIN look.written : Earned(look.written[e], look.month)

(***************************************************************************)
(* Why nothing is invented: the log only grows, so what a look has counted *)
(* of a month stays true until it is committed, however late that is.      *)
(***************************************************************************)
SalariesInv ==
    /\ JobsLogged
    /\ DOMAIN looks = Looks /\ \A v \in Looks : LookIsTrue(looks[v])
    /\ DOMAIN months = OnPayroll
    /\ \A e \in OnPayroll : DOMAIN months[e] = Months /\ \A m \in Months : Earned(months[e][m], m)

LEMMA SalariesBegin == SalariesInit => SalariesInv
  <1> SUFFICES ASSUME SalariesInit
               PROVE  SalariesInv
    OBVIOUS
  <1>1. PICK dates \in [Jobs -> Days] :
            jobs = [t \in Jobs |-> [deadline |-> dates[t], done |-> t \in Carried, completed |-> Unknown]]
    BY DEF SalariesInit
  <1>2. Days \subseteq Nat
    BY SalariesAssumption DEF Days
  <1>3. JobsLogged
    BY <1>1, <1>2 DEF SalariesInit, JobsLogged
  <1>4. \A v \in Looks : LookIsTrue(looks[v])
    BY DEF SalariesInit, NoLook, LookIsTrue
  <1>5. ASSUME NEW e \in OnPayroll
        PROVE  DOMAIN months[e] = Months /\ \A m \in Months : Earned(months[e][m], m)
    BY DEF SalariesInit, NoRow, Earned
  <1>6. DOMAIN looks = Looks /\ DOMAIN months = OnPayroll
    BY DEF SalariesInit
  <1> QED  BY <1>3, <1>4, <1>5, <1>6 DEF SalariesInv

\* The log grows.
LogGrows ==
    \A t \in Jobs : completions[t] \subseteq completions'[t] /\ deadlines[t] \subseteq deadlines'[t]

LEMMA EarnedStays ==
    ASSUME LogGrows, NEW row, NEW m, Earned(row, m)
    PROVE  Earned(row, m)'
  <1> SUFFICES ASSUME NEW t \in Carried
               PROVE  /\ t \in row.onTime => Kept(t, m)'
                      /\ t \in row.late => completions'[t] # {}
    BY DEF Earned
  <1>1. t \in Jobs
    BY SalariesAssumption
  <1>2. completions[t] \subseteq completions'[t] /\ deadlines[t] \subseteq deadlines'[t]
    BY <1>1 DEF LogGrows
  <1>3. Kept(t, m) => Kept(t, m)'
    BY <1>2 DEF Kept
  <1> QED  BY <1>2, <1>3 DEF Earned

LEMMA LookStays ==
    ASSUME LogGrows, NEW look, LookIsTrue(look)
    PROVE  LookIsTrue(look)'
  <1>1. look.at = "read" =>
            \A t \in DOMAIN look.tasks :
                t \in Jobs /\ look.tasks[t].deadline \in deadlines'[t]
                /\ _month_range(look.tasks[t].deadline) = look.month
    BY DEF LookIsTrue, LogGrows
  <1>2. ASSUME look.at = "counted" PROVE Earned(look.row, look.month)'
    <2>1. Earned(look.row, look.month)
      BY <1>2 DEF LookIsTrue
    <2> DEFINE row == look.row
               m == look.month
    <2>2. Earned(row, m)
      BY <2>1
    <2> HIDE DEF row, m
    <2>3. Earned(row, m)'
      BY <2>2, EarnedStays
    <2> QED  BY <2>3 DEF row, m
  <1>3. ASSUME look.at # "nowhere", NEW e \in DOMAIN look.written PROVE Earned(look.written[e], look.month)'
    <2> DEFINE row == look.written[e]
               m == look.month
    <2>1. Earned(row, m)
      BY <1>3 DEF LookIsTrue
    <2> HIDE DEF row, m
    <2>2. Earned(row, m)'
      BY <2>1, EarnedStays
    <2> QED  BY <2>2 DEF row, m
  <1> QED  BY <1>1, <1>2, <1>3 DEF LookIsTrue

\* What the tasks and the days do to the looks.
LEMMA LogKeeps ==
    ASSUME SalariesInv, LogGrows, JobsLogged', UNCHANGED <<months, looks>>
    PROVE  SalariesInv'
  <1>1. ASSUME NEW v \in Looks PROVE LookIsTrue(looks[v])'
    <2>1. PICK look : look = looks[v]
      OBVIOUS
    <2>2. LookIsTrue(look)
      BY <2>1 DEF SalariesInv
    <2>3. LookIsTrue(look)'
      BY <2>2, LookStays
    <2>4. looks'[v] = look
      BY <2>1
    <2> QED  BY <2>3, <2>4 DEF LookIsTrue, Earned, Kept
  <1>2. ASSUME NEW e \in OnPayroll, NEW m \in Months PROVE Earned(months[e][m], m)'
    <2>1. PICK row : row = months[e][m]
      OBVIOUS
    <2>2. Earned(row, m)
      BY <2>1 DEF SalariesInv
    <2>3. Earned(row, m)'
      BY <2>2, EarnedStays
    <2>4. months'[e][m] = row
      BY <2>1
    <2> QED  BY <2>3, <2>4 DEF Earned, Kept
  <1>3. DOMAIN looks' = Looks /\ DOMAIN months' = OnPayroll /\ \A e \in OnPayroll : DOMAIN months'[e] = Months
    BY DEF SalariesInv
  <1> QED  BY <1>1, <1>2, <1>3 DEF SalariesInv

LEMMA JobsKeep ==
    ASSUME SalariesInv, (\E t \in Jobs : JobIsDone(t) \/ JobIsReopened(t) \/ DeadlineMoves(t)) \/ NextDay
    PROVE  SalariesInv'
  <1>1. JobsLogged /\ Days \subseteq Nat /\ UNCHANGED <<months, looks>>
    <2>1. JobsLogged /\ Days \subseteq Nat
      BY SalariesAssumption DEF SalariesInv, Days
    <2>2. UNCHANGED <<months, looks>>
      BY DEF JobIsDone, JobIsReopened, DeadlineMoves, NextDay, JobChanged
    <2> QED  BY <2>1, <2>2
  <1>2. ASSUME NEW t \in Jobs, JobIsDone(t) PROVE JobsLogged' /\ LogGrows
    <2>1. jobs' = [jobs EXCEPT ![t].done = TRUE, ![t].completed = day]
          /\ completions' = [completions EXCEPT ![t] = completions[t] \union {day}]
          /\ deadlines' = deadlines /\ day' = day
      BY <1>2 DEF JobIsDone, JobChanged
    <2>2. LogGrows
      BY <1>1, <2>1 DEF JobsLogged, LogGrows
    <2>3. DOMAIN jobs' = Jobs /\ completions' \in [Jobs -> SUBSET Nat] /\ deadlines' \in [Jobs -> SUBSET Nat]
          /\ day' \in Nat /\ day \in completions'[t]
      BY <1>1, <2>1 DEF JobsLogged
    <2>4. ASSUME NEW s \in Jobs
          PROVE  /\ DOMAIN jobs'[s] = {"deadline", "done", "completed"} /\ jobs'[s].deadline \in deadlines'[s]
                 /\ jobs'[s].completed = Unknown \/ jobs'[s].completed \in completions'[s]
      <3>1. CASE s = t
        BY <1>1, <2>1, <2>3, <3>1 DEF JobsLogged
      <3>2. CASE s # t
        BY <1>1, <2>1, <3>2 DEF JobsLogged
      <3> QED  BY <3>1, <3>2
    <2> QED  BY <2>2, <2>3, <2>4 DEF JobsLogged
  <1>3. ASSUME NEW t \in Jobs, JobIsReopened(t) PROVE JobsLogged' /\ LogGrows
    <2>1. jobs' = [jobs EXCEPT ![t].done = FALSE, ![t].completed = Unknown]
          /\ completions' = completions /\ deadlines' = deadlines /\ day' = day
      BY <1>3 DEF JobIsReopened, JobChanged
    <2> QED  BY <1>1, <2>1 DEF JobsLogged, LogGrows
  <1>4. ASSUME NEW t \in Jobs, DeadlineMoves(t) PROVE JobsLogged' /\ LogGrows
    <2>1. PICK d \in Days : /\ jobs' = [jobs EXCEPT ![t].deadline = d]
                            /\ deadlines' = [deadlines EXCEPT ![t] = deadlines[t] \union {d}]
      BY <1>4 DEF DeadlineMoves
    <2>2. completions' = completions /\ day' = day
      BY <1>4 DEF DeadlineMoves, JobChanged
    <2> QED  BY <1>1, <2>1, <2>2 DEF JobsLogged, LogGrows, Unknown
  <1>5. CASE NextDay
    <2>1. day' = day + 1 /\ UNCHANGED <<jobs, completions, deadlines>>
      BY <1>5 DEF NextDay
    <2> QED  BY <1>1, <2>1, LogKeeps DEF JobsLogged, LogGrows, Unknown
  <1> QED  BY <1>1, <1>2, <1>3, <1>4, <1>5, LogKeeps

\* A look goes on with what is true, and commits rows that are.
LEMMA LookKeeps ==
    ASSUME SalariesInv, NEW v \in Looks, NEW look, LookGoes(v, look), LookIsTrue(look),
           \/ months' = months
           \/ /\ months' = [e \in OnPayroll |->
                    IF e \in DOMAIN looks[v].written
                    THEN [months[e] EXCEPT ![looks[v].month] = looks[v].written[e]] ELSE months[e]]
              /\ \A e \in DOMAIN looks[v].written : Earned(looks[v].written[e], looks[v].month)
    PROVE  SalariesInv'
  <1>1. looks' = [looks EXCEPT ![v] = look] /\ UNCHANGED <<day, jobs, completions, deadlines>>
    BY DEF LookGoes
  <1>2. JobsLogged' /\ \A row, m : Earned(row, m)' <=> Earned(row, m)
    BY <1>1 DEF SalariesInv, JobsLogged, Unknown, Earned, Kept
  <1>3. ASSUME NEW w \in Looks PROVE LookIsTrue(looks[w])'
    <2>1. looks'[w] = look \/ looks'[w] = looks[w]
      BY <1>1 DEF SalariesInv
    <2>2. LookIsTrue(looks'[w])
      BY <2>1 DEF SalariesInv
    <2> QED  BY <1>1, <2>2 DEF LookIsTrue, Earned, Kept
  <1>4. ASSUME NEW e \in OnPayroll
        PROVE  DOMAIN months'[e] = Months /\ \A m \in Months : Earned(months'[e][m], m)
    <2>1. DOMAIN months[e] = Months /\ \A m \in Months : Earned(months[e][m], m)
      BY DEF SalariesInv
    <2>2. CASE months'[e] = months[e]
      BY <2>1, <2>2
    <2>3. CASE months'[e] # months[e]
      <3> DEFINE row == looks[v].written[e]
      <3>1. e \in DOMAIN looks[v].written /\ Earned(row, looks[v].month)
            /\ months'[e] = [months[e] EXCEPT ![looks[v].month] = row]
        BY <2>3
      <3> HIDE DEF row
      <3> QED  BY <2>1, <3>1
    <2> QED  BY <2>2, <2>3
  <1>5. DOMAIN months' = OnPayroll /\ DOMAIN looks' = Looks
    BY <1>1 DEF SalariesInv
  <1>6. \A e \in OnPayroll : DOMAIN months'[e] = Months /\ \A m \in Months : Earned(months[e][m], m)'
    <2> SUFFICES ASSUME NEW e \in OnPayroll, NEW m \in Months PROVE Earned(months[e][m], m)'
      BY <1>4
    <2>1. Earned(months'[e][m], m)
      BY <1>4
    <2> QED  BY <1>1, <2>1 DEF Earned, Kept
  <1> QED  BY <1>2, <1>3, <1>5, <1>6 DEF SalariesInv

\* A row counts what the log bears out (_compute_kpi_for_period).
LEMMA ComputedIsEarned ==
    ASSUME JobsLogged, NEW m, NEW tasks,
           \A t \in DOMAIN tasks : t \in Jobs /\ tasks[t].deadline \in deadlines[t] /\ _month_range(tasks[t].deadline) = m
    PROVE  Earned(_compute_kpi_for_period(tasks), m)
  <1> DEFINE row == _compute_kpi_for_period(tasks)
  <1> SUFFICES ASSUME NEW t \in Carried
               PROVE  (t \in row.onTime => Kept(t, m)) /\ (t \in row.late => completions[t] # {})
    BY DEF Earned
  <1>1. ASSUME t \in row.onTime PROVE Kept(t, m)
    <2>1. t \in DOMAIN tasks /\ jobs[t].completed # Unknown /\ ~(jobs[t].completed > tasks[t].deadline)
      BY <1>1 DEF _compute_kpi_for_period
    <2>2. jobs[t].completed \in completions[t] /\ completions[t] \subseteq Nat /\ deadlines[t] \subseteq Nat
          /\ tasks[t].deadline \in deadlines[t]
      BY <2>1 DEF JobsLogged
    <2>3. jobs[t].completed <= tasks[t].deadline
      BY <2>1, <2>2
    <2> QED  BY <2>1, <2>2, <2>3 DEF Kept
  <1>2. ASSUME t \in row.late PROVE completions[t] # {}
    BY <1>2 DEF _compute_kpi_for_period, JobsLogged
  <1> QED  BY <1>1, <1>2

LEMMA LooksKeep ==
    ASSUME SalariesInv, NEW v \in Looks,
           \/ list_employee_salary_overview(v) \/ get_employee_kpi_history(v)
           \/ TasksAreRead(v) \/ RowIsLookedFor(v) \/ RowIsWritten(v) \/ LookCommits(v)
    PROVE  SalariesInv'
  <1> DEFINE l == looks[v]
  <1>1. LookIsTrue(l) /\ JobsLogged
    BY DEF SalariesInv
  <1>2. ASSUME NEW employees, LookBegins(v, employees) PROVE SalariesInv'
    <2> DEFINE look == [at |-> "begun", month |-> _month_range(day), left |-> employees, written |-> [e \in {} |-> NoRow]]
    <2>1. LookGoes(v, look) /\ months' = months
      BY <1>2 DEF LookBegins
    <2>2. LookIsTrue(look)
      BY DEF LookIsTrue
    <2> HIDE DEF look
    <2> QED  BY <2>1, <2>2, LookKeeps
  <1>3. CASE TasksAreRead(v)
    <2> DEFINE passed == {t \in Jobs : /\ Head(l.left) \in Assigned[t]
                                       /\ _month_range(jobs[t].deadline) = l.month /\ jobs[t].deadline < day}
               tasks == [t \in passed |-> [deadline |-> jobs[t].deadline, done |-> jobs[t].done]]
               look == [at |-> "read", month |-> l.month, left |-> l.left, written |-> l.written, tasks |-> tasks]
    <2>1. l.at = "begun" /\ LookGoes(v, look) /\ months' = months
      BY <1>3 DEF TasksAreRead
    <2>2. LookIsTrue(look)
      BY <1>1, <2>1 DEF LookIsTrue, JobsLogged
    <2> HIDE DEF look
    <2> QED  BY <2>1, <2>2, LookKeeps
  <1>4. CASE RowIsLookedFor(v)
    <2> DEFINE row == _compute_kpi_for_period(l.tasks)
               look == [at |-> "counted", month |-> l.month, left |-> l.left, written |-> l.written, row |-> row,
                        insert |-> ~months[Head(l.left)][l.month].counted]
    <2>1. l.at = "read" /\ LookGoes(v, look) /\ months' = months
      BY <1>4 DEF RowIsLookedFor
    <2>2. Earned(row, l.month)
      BY <1>1, <2>1, ComputedIsEarned DEF LookIsTrue
    <2> HIDE DEF row
    <2>3. LookIsTrue(look)
      BY <1>1, <2>1, <2>2 DEF LookIsTrue
    <2> HIDE DEF look
    <2> QED  BY <2>1, <2>3, LookKeeps
  <1>5. CASE RowIsWritten(v)
    <2> DEFINE e == Head(l.left)
               written == [x \in DOMAIN l.written \union {e} |-> IF x = e THEN l.row ELSE l.written[x]]
               look == [at |-> "begun", month |-> l.month, left |-> Tail(l.left), written |-> written]
    <2>1. l.at = "counted" /\ (LookGoes(v, NoLook) \/ LookGoes(v, look)) /\ months' = months
      BY <1>5 DEF RowIsWritten
    <2>2. LookIsTrue(look)
      BY <1>1, <2>1 DEF LookIsTrue
    <2>3. LookIsTrue(NoLook)
      BY DEF LookIsTrue, NoLook
    <2> HIDE DEF look
    <2> QED  BY <2>1, <2>2, <2>3, LookKeeps
  <1>6. CASE LookCommits(v)
    <2>1. l.at = "begun" /\ LookGoes(v, NoLook)
          /\ months' = [e \in OnPayroll |-> IF e \in DOMAIN l.written THEN [months[e] EXCEPT ![l.month] = l.written[e]] ELSE months[e]]
      BY <1>6 DEF LookCommits
    <2>2. LookIsTrue(NoLook)
      BY DEF LookIsTrue, NoLook
    <2>3. \A e \in DOMAIN l.written : Earned(l.written[e], l.month)
      BY <1>1, <2>1 DEF LookIsTrue
    <2> QED  BY <2>1, <2>2, <2>3, LookKeeps
  <1> QED  BY <1>2, <1>3, <1>4, <1>5, <1>6 DEF list_employee_salary_overview, get_employee_kpi_history

LEMMA SalariesStay == SalariesInv /\ [SalariesNext]_salaryVars => SalariesInv'
  <1> SUFFICES ASSUME SalariesInv, [SalariesNext]_salaryVars
               PROVE  SalariesInv'
    OBVIOUS
  <1>1. CASE UNCHANGED salaryVars
    BY <1>1 DEF salaryVars, SalariesInv, JobsLogged, Unknown, LookIsTrue, Earned, Kept
  <1>2. CASE (\E t \in Jobs : JobIsDone(t) \/ JobIsReopened(t) \/ DeadlineMoves(t)) \/ NextDay
    BY <1>2, JobsKeep
  <1> QED  BY <1>1, <1>2, LooksKeep DEF SalariesNext

(***************************************************************************)
(* Done in the former system is no evidence of when                        *)
(* (_compute_kpi_for_period): no month counts such a task as done without  *)
(* a completion that was logged, nor on time without one in its deadline.  *)
(***************************************************************************)
THEOREM SalariesAreEarned == SalariesSpec => []NothingIsInvented
  <1>1. SalariesInv => NothingIsInvented
    BY DEF SalariesInv, NothingIsInvented, Earned
  <1> QED  BY <1>1, SalariesBegin, SalariesStay, PTL DEF SalariesSpec

------------------------------------------------------------------------------
(* Content                                                                  *)

ContentStages == {"idea", "gathering", "editing", "release", "analysis"}
ContentRow == [stage : ContentStages, raw : BOOLEAN, locked : BOOLEAN, final : BOOLEAN,
               links : SUBSET Platforms, assigned : BOOLEAN]
EditRow == [step : {"read", "moved"}, does : {"raw", "final", "links", "basic", "move"}, saw : ContentRow,
            task : Nat]

(***************************************************************************)
(* Why moves are whole: whoever has read a stage after the gathering has   *)
(* read it locked, a lock is never taken off, and what is locked is there; *)
(* and there is one task at most.                                          *)
(***************************************************************************)
Stands(row) == Position(row.stage) > 2 => row.locked

ContentInv ==
    /\ content \in ContentRow
    /\ openEdits \in Seq(ContentStages) /\ Len(openEdits) <= 1
    /\ {disturbed, emptied} \subseteq BOOLEAN
    /\ editors \in [ContentEditors -> EditRow \cup {NoEdit}]
    /\ \A e \in ContentEditors : editors[e] # NoEdit => (Position(editors[e].saw.stage) > 2 => content.locked)
    /\ Stands(content)
    /\ emptied \/ (content.locked => content.raw)
    /\ disturbed \/ Between \/ OneTask

LEMMA StagePositions ==
    /\ Position("idea") = 1 /\ Position("gathering") = 2 /\ Position("editing") = 3
    /\ Position("release") = 4 /\ Position("analysis") = 5
  <1>1. DOMAIN CONTENT_STAGE_ORDER = 1..5
    BY DEF CONTENT_STAGE_ORDER
  <1>2. /\ CONTENT_STAGE_ORDER[1] = "idea" /\ CONTENT_STAGE_ORDER[2] = "gathering"
        /\ CONTENT_STAGE_ORDER[3] = "editing" /\ CONTENT_STAGE_ORDER[4] = "release"
        /\ CONTENT_STAGE_ORDER[5] = "analysis"
    BY DEF CONTENT_STAGE_ORDER
  <1>3. ASSUME NEW n \in 1..5, NEW stage, CONTENT_STAGE_ORDER[n] = stage PROVE Position(stage) = n
    <2>1. \A i \in DOMAIN CONTENT_STAGE_ORDER : CONTENT_STAGE_ORDER[i] = stage <=> i = n
      BY <1>1, <1>2, <1>3
    <2>2. n \in DOMAIN CONTENT_STAGE_ORDER
      BY <1>1
    <2> QED  BY <2>1, <2>2 DEF Position
  <1> QED  BY <1>2, <1>3

LEMMA NextOfStages ==
    /\ _next_stage("idea") = "gathering" /\ _next_stage("gathering") = "editing"
    /\ _next_stage("editing") = "release" /\ _next_stage("release") = "analysis"
  BY StagePositions DEF _next_stage, CONTENT_STAGE_ORDER

\* Of one task at most, closing leaves none.
LEMMA OneIsClosed ==
    ASSUME NEW tasks \in Seq(ContentStages), Len(tasks) <= 1
    PROVE  /\ \A i \in DOMAIN tasks : RemoveAt(tasks, i) = <<>>
           /\ \A rest \in Closed(tasks) : rest = <<>>
  <1>1. ASSUME NEW i \in DOMAIN tasks PROVE RemoveAt(tasks, i) = <<>>
    <2>1. Len(tasks) = 1 /\ i = 1
      BY <1>1
    <2>2. SubSeq(tasks, 1, 0) = <<>> /\ SubSeq(tasks, 2, 1) = <<>>
      BY <2>1
    <2>3. RemoveAt(tasks, i) = SubSeq(tasks, 1, 0) \o SubSeq(tasks, 2, 1)
      BY <2>1 DEF RemoveAt
    <2> QED  BY <2>2, <2>3
  <1> QED  BY <1>1 DEF Closed

LEMMA TaskedIsOne ==
    ASSUME NEW stage \in ContentStages
    PROVE  Tasked(<<>>, stage) \in Seq(ContentStages) /\ Len(Tasked(<<>>, stage)) <= 1
  BY DEF Tasked

LEMMA EditFields ==
    /\ NoEdit.step = "idle" /\ NoEdit \notin EditRow
    /\ \A q \in EditRow : q.step # "idle" /\ [q EXCEPT !.step = "moved"] \in EditRow
  <1>1. NoEdit.step = "idle"
    BY DEF NoEdit
  <1>2. ASSUME NEW q \in EditRow
        PROVE  q.step # "idle" /\ [q EXCEPT !.step = "moved"] \in EditRow
    BY DEF EditRow
  <1>3. NoEdit \notin EditRow
    BY <1>1, <1>2
  <1> QED  BY <1>1, <1>2, <1>3

LEMMA ContentBegins == ContentInit => ContentInv
  <1> SUFFICES ASSUME ContentInit
               PROVE  ContentInv
    OBVIOUS
  <1>1. PICK stage \in {"idea", "editing"}, assigned \in BOOLEAN :
            /\ content = [stage |-> stage, raw |-> stage = "editing", locked |-> stage = "editing",
                          final |-> FALSE, links |-> {}, assigned |-> assigned]
            /\ openEdits = <<stage>>
    BY DEF ContentInit
  <1>2. content \in ContentRow
    BY <1>1 DEF ContentRow, ContentStages
  <1>3. openEdits \in Seq(ContentStages) /\ Len(openEdits) <= 1
    BY <1>1 DEF ContentStages
  <1>4. OneTask
    BY <1>1 DEF OneTask, Tasked, LastStage
  <1>5. Stands(content) /\ (content.locked => content.raw)
    <2>1. content.stage = stage /\ content.raw = (stage = "editing") /\ content.locked = (stage = "editing")
      BY <1>1
    <2>2. CASE stage = "idea"
      BY <2>1, <2>2, StagePositions DEF Stands
    <2>3. CASE stage = "editing"
      BY <2>1, <2>3 DEF Stands
    <2> QED  BY <2>2, <2>3
  <1>6. disturbed = FALSE /\ emptied = FALSE /\ editors = [e \in ContentEditors |-> NoEdit]
    BY DEF ContentInit
  <1>7. editors \in [ContentEditors -> EditRow \cup {NoEdit}] /\ \A e \in ContentEditors : editors[e] = NoEdit
    BY <1>6
  <1> QED  BY <1>2, <1>3, <1>4, <1>5, <1>6, <1>7 DEF ContentInv

\* A request that writes.
LEMMA WroteAt ==
    ASSUME ContentInv, NEW e \in ContentEditors, NEW at \in {"idle", "moved"}, editors[e] # NoEdit, Wrote(e, at)
    PROVE  /\ editors' \in [ContentEditors -> EditRow \cup {NoEdit}]
           /\ editors'[e].step = at /\ (editors'[e] # NoEdit => editors'[e].saw = editors[e].saw)
           /\ \A f \in ContentEditors : f # e => editors'[f] = editors[f]
  <1> DEFINE next == IF at = "idle" THEN NoEdit ELSE [editors[e] EXCEPT !.step = at]
  <1>1. editors[e] \in EditRow
    BY DEF ContentInv
  <1>2. editors' = [editors EXCEPT ![e] = next]
    BY DEF Wrote
  <1>3. next \in EditRow \cup {NoEdit} /\ next.step = at /\ (next # NoEdit => next.saw = editors[e].saw)
    BY <1>1, EditFields DEF EditRow
  <1> HIDE DEF next
  <1> QED  BY <1>2, <1>3 DEF ContentInv

\* What is not disturbed stays so while the tasks and the stage do.
LEMMA TasksStay ==
    ASSUME ContentInv, NEW e \in ContentEditors, editors[e].step # "moved", openEdits' = openEdits,
           content'.stage = content.stage, \A f \in ContentEditors : f # e => editors'[f] = editors[f]
    PROVE  disturbed \/ Between' \/ OneTask'
  <1>1. Between => Between'
    BY DEF Between
  <1>2. OneTask => OneTask'
    BY DEF OneTask
  <1> QED  BY <1>1, <1>2 DEF ContentInv

\* A write that leaves the stage, its tasks and the lock.
LEMMA ColumnsKeep ==
    ASSUME ContentInv, NEW e \in ContentEditors, editors[e] # NoEdit, editors[e].step = "read",
           NEW new \in ContentRow, ContentWrites(e, new), new.stage = content.stage, new.locked = content.locked,
           emptied' \in BOOLEAN, emptied' \/ (new.locked => new.raw)
    PROVE  ContentInv'
  <1>1. content' = new /\ openEdits' = openEdits /\ disturbed' = disturbed /\ Wrote(e, "idle")
    BY DEF ContentWrites
  <1>2. /\ editors' \in [ContentEditors -> EditRow \cup {NoEdit}]
        /\ editors'[e] # NoEdit => editors'[e].saw = editors[e].saw
        /\ \A f \in ContentEditors : f # e => editors'[f] = editors[f]
    BY <1>1, WroteAt
  <1>3. disturbed' \/ Between' \/ OneTask'
    BY <1>1, <1>2, TasksStay
  <1>4. Stands(content') /\ (emptied' \/ (content'.locked => content'.raw))
    BY <1>1 DEF ContentInv, Stands
  <1>5. \A f \in ContentEditors : editors'[f] # NoEdit => (Position(editors'[f].saw.stage) > 2 => content'.locked)
    BY <1>1, <1>2 DEF ContentInv
  <1> QED  BY <1>1, <1>2, <1>3, <1>4, <1>5 DEF ContentInv

\* A request that begins, or is over without a write.
LEMMA NothingIsWritten ==
    ASSUME ContentInv, NEW e \in ContentEditors, NEW row \in EditRow \cup {NoEdit},
           editors' = [editors EXCEPT ![e] = row], UNCHANGED <<content, openEdits, emptied>>,
           row # NoEdit => row.saw = content,
           (disturbed' = disturbed /\ editors[e].step # "moved") \/ disturbed' = TRUE
    PROVE  ContentInv'
  <1>1. editors' \in [ContentEditors -> EditRow \cup {NoEdit}]
        /\ \A f \in ContentEditors : editors'[f] = IF f = e THEN row ELSE editors[f]
    BY DEF ContentInv
  <1>2. \A f \in ContentEditors : editors'[f] # NoEdit => (Position(editors'[f].saw.stage) > 2 => content'.locked)
    BY <1>1 DEF ContentInv, Stands
  <1>3. disturbed' \in BOOLEAN /\ (disturbed' \/ Between' \/ OneTask')
    <2>1. CASE disturbed' = TRUE
      BY <2>1
    <2>2. CASE disturbed' = disturbed /\ editors[e].step # "moved"
      BY <1>1, <2>2, TasksStay DEF ContentInv
    <2> QED  BY <2>1, <2>2
  <1> QED  BY <1>1, <1>2, <1>3 DEF ContentInv

LEMMA RefusedKeeps ==
    ASSUME ContentInv, NEW e \in ContentEditors, editors[e].step = "read", Refused(e)
    PROVE  ContentInv'
  <1>1. editors' = [editors EXCEPT ![e] = NoEdit] /\ UNCHANGED <<content, openEdits, emptied>> /\ disturbed' = disturbed
    BY DEF Refused
  <1> QED  BY <1>1, NothingIsWritten

LEMMA EditsBegin ==
    ASSUME ContentInv, NEW e \in ContentEditors, NEW does \in {"raw", "final", "links", "basic", "move"},
           NEW t \in Nat, Edits(e, does, t)
    PROVE  ContentInv'
  <1> DEFINE row == [step |-> "read", does |-> does, saw |-> content, task |-> t]
  <1>1. row \in EditRow /\ row.saw = content
    BY DEF ContentInv, EditRow
  <1>2. editors' = [editors EXCEPT ![e] = row] /\ UNCHANGED <<content, openEdits, disturbed, emptied>> /\ editors[e] = NoEdit
    BY DEF Edits
  <1>3. editors[e].step # "moved"
    BY <1>2, EditFields
  <1> HIDE DEF row
  <1> QED  BY <1>1, <1>2, <1>3, NothingIsWritten

LEMMA BreaksOffKeeps ==
    ASSUME ContentInv, NEW e \in ContentEditors, BreaksOff(e)
    PROVE  ContentInv'
  <1>1. editors' = [editors EXCEPT ![e] = NoEdit] /\ UNCHANGED <<content, openEdits, emptied>>
        /\ disturbed' = (disturbed \/ editors[e].step = "moved")
    BY DEF BreaksOff
  <1>2. (disturbed' = disturbed /\ editors[e].step # "moved") \/ disturbed' = TRUE
    BY <1>1 DEF ContentInv
  <1> QED  BY <1>1, <1>2, NothingIsWritten

\* The columns that requests write one at a time.
LEMMA WritesKeep ==
    ASSUME ContentInv, NEW e \in ContentEditors,
           update_raw(e) \/ update_final(e) \/ set_post_links(e) \/ update_basic_content(e)
    PROVE  ContentInv'
  <1>1. editors[e].step = "read" /\ editors[e] # NoEdit
    BY EditFields DEF update_raw, update_final, set_post_links, update_basic_content, ContentReady
  <1>2. content \in ContentRow /\ emptied \in BOOLEAN /\ (emptied \/ (content.locked => content.raw))
    BY DEF ContentInv
  <1>3. CASE update_raw(e) /\ editors[e].saw.locked
    <2>1. Refused(e)
      BY <1>3 DEF update_raw
    <2> QED  BY <1>1, <2>1, RefusedKeeps
  <1>4. CASE update_raw(e) /\ ~editors[e].saw.locked
    <2>1. PICK raw \in BOOLEAN : /\ ContentWrites(e, [content EXCEPT !.raw = raw])
                                 /\ emptied' = (emptied \/ (content.locked /\ ~raw))
      BY <1>4 DEF update_raw
    <2> DEFINE new == [content EXCEPT !.raw = raw]
    <2>2. new \in ContentRow /\ new.stage = content.stage /\ new.locked = content.locked /\ new.raw = raw
      BY <1>2 DEF ContentRow
    <2>3. ContentWrites(e, new)
      BY <2>1
    <2> HIDE DEF new
    <2>4. emptied' \in BOOLEAN /\ (emptied' \/ (new.locked => new.raw))
      BY <1>2, <2>1, <2>2
    <2> QED  BY <1>1, <2>2, <2>3, <2>4, ColumnsKeep
  <1>5. ASSUME NEW new \in ContentRow, ContentEdited(e, new), new.stage = content.stage,
               new.locked = content.locked, new.raw = content.raw
        PROVE  ContentInv'
    <2>1. ContentWrites(e, new) /\ emptied' = emptied
      BY <1>5 DEF ContentEdited
    <2> QED  BY <1>1, <1>2, <1>5, <2>1, ColumnsKeep
  <1>6. CASE update_final(e)
    <2>1. PICK final \in BOOLEAN : ContentEdited(e, [content EXCEPT !.final = final])
      BY <1>6 DEF update_final
    <2> DEFINE new == [content EXCEPT !.final = final]
    <2>2. new \in ContentRow /\ new.stage = content.stage /\ new.locked = content.locked /\ new.raw = content.raw
      BY <1>2 DEF ContentRow
    <2>3. ContentEdited(e, new)
      BY <2>1
    <2> HIDE DEF new
    <2> QED  BY <1>5, <2>2, <2>3
  <1>7. CASE set_post_links(e)
    <2>1. PICK urls \in SUBSET Platforms : ContentEdited(e, [content EXCEPT !.links = urls])
      BY <1>7 DEF set_post_links
    <2> DEFINE new == [content EXCEPT !.links = urls]
    <2>2. new \in ContentRow /\ new.stage = content.stage /\ new.locked = content.locked /\ new.raw = content.raw
      BY <1>2 DEF ContentRow
    <2>3. ContentEdited(e, new)
      BY <2>1
    <2> HIDE DEF new
    <2> QED  BY <1>5, <2>2, <2>3
  <1>8. CASE update_basic_content(e)
    <2>1. PICK assigned \in BOOLEAN : ContentEdited(e, [content EXCEPT !.assigned = assigned])
      BY <1>8 DEF update_basic_content
    <2> DEFINE new == [content EXCEPT !.assigned = assigned]
    <2>2. new \in ContentRow /\ new.stage = content.stage /\ new.locked = content.locked /\ new.raw = content.raw
      BY <1>2 DEF ContentRow
    <2>3. ContentEdited(e, new)
      BY <2>1
    <2> HIDE DEF new
    <2> QED  BY <1>5, <2>2, <2>3
  <1> QED  BY <1>3, <1>4, <1>6, <1>7, <1>8

\* A stage that may be left is followed by one of the order; after the gathering
\* the material has been there.
LEMMA LeavingGoesOn ==
    ASSUME NEW saw \in ContentRow, MayLeave(saw)
    PROVE  /\ _next_stage(saw.stage) \in ContentStages
           /\ Position(_next_stage(saw.stage)) > 2 =>
                  \/ saw.stage = "gathering" /\ saw.raw
                  \/ Position(saw.stage) > 2
  <1>1. saw.stage \in {"idea", "gathering", "editing", "release"}
    BY DEF MayLeave, ContentRow, ContentStages, LastStage
  <1>2. saw.stage = "gathering" => saw.raw
    BY DEF MayLeave
  <1>3. CASE saw.stage = "idea"
    BY <1>3, StagePositions, NextOfStages DEF ContentStages
  <1>4. CASE saw.stage = "gathering"
    BY <1>2, <1>4, StagePositions, NextOfStages DEF ContentStages
  <1>5. CASE saw.stage = "editing"
    BY <1>5, StagePositions, NextOfStages DEF ContentStages
  <1>6. CASE saw.stage = "release"
    BY <1>6, StagePositions, NextOfStages DEF ContentStages
  <1> QED  BY <1>1, <1>3, <1>4, <1>5, <1>6

LEMMA OthersAreOne ==
    ASSUME NEW tasks \in Seq(ContentStages), Len(tasks) <= 1, NEW t
    PROVE  WithoutItem(tasks, t) \in Seq(ContentStages) /\ Len(WithoutItem(tasks, t)) <= 1
  <1>1. CASE t \in DOMAIN tasks
    <2>1. WithoutItem(tasks, t) = <<>>
      BY <1>1, OneIsClosed DEF WithoutItem
    <2> QED  BY <2>1
  <1>2. CASE t \notin DOMAIN tasks
    BY <1>2 DEF WithoutItem
  <1> QED  BY <1>1, <1>2

\* The first transaction of a move, or the whole of it.
LEMMA TransitionKeeps ==
    ASSUME ContentInv, NEW e \in ContentEditors, transition_stage(e)
    PROVE  ContentInv'
  <1> DEFINE saw == editors[e].saw
             stage == _next_stage(saw.stage)
             others == WithoutItem(openEdits, editors[e].task)
  <1>1. editors[e].step = "read" /\ editors[e] # NoEdit
    BY EditFields DEF transition_stage, ContentReady
  <1>2. /\ content \in ContentRow /\ {disturbed, emptied} \subseteq BOOLEAN
        /\ openEdits \in Seq(ContentStages) /\ Len(openEdits) <= 1
        /\ editors[e] \in EditRow
    BY <1>1 DEF ContentInv
  <1>3. saw \in ContentRow
    BY <1>2 DEF EditRow
  <1>4. CASE ~MayLeave(saw)
    <2>1. Refused(e)
      BY <1>4 DEF transition_stage
    <2> QED  BY <1>1, <2>1, RefusedKeeps
  <1>5. CASE MayLeave(saw)
    <2>1. content' = [content EXCEPT !.stage = stage, !.locked = @ \/ saw.stage = "gathering"]
      BY <1>5 DEF transition_stage
    <2>2. PICK at \in {"idle", "moved"} :
              /\ Wrote(e, at)
              /\ at = "moved" => openEdits' = others
              /\ at = "idle" => \E tasks \in Closed(others) : openEdits' = Tasked(tasks, stage)
      <3>1. CASE saw.assigned
        BY <1>5, <3>1 DEF transition_stage
      <3>2. CASE ~saw.assigned
        BY <1>5, <3>2 DEF transition_stage
      <3> QED  BY <3>1, <3>2
    <2>3. stage \in ContentStages
      BY <1>3, <1>5, LeavingGoesOn
    <2>4. Position(stage) > 2 => (saw.stage = "gathering" /\ saw.raw) \/ Position(saw.stage) > 2
      BY <1>3, <1>5, LeavingGoesOn
    <2>5. others \in Seq(ContentStages) /\ Len(others) <= 1
      BY <1>2, OthersAreOne
    <2> HIDE DEF others, stage
    <2>6. /\ content' \in ContentRow /\ content'.stage = stage /\ content'.raw = content.raw
          /\ content'.locked = (content.locked \/ saw.stage = "gathering")
      BY <1>2, <2>1, <2>3 DEF ContentRow
    <2>7. at = "idle" => openEdits' = Tasked(<<>>, stage)
      BY <2>2, <2>5, OneIsClosed
    <2>8. openEdits' \in Seq(ContentStages) /\ Len(openEdits') <= 1
      BY <2>2, <2>3, <2>5, <2>7, TaskedIsOne
    <2>9. /\ editors' \in [ContentEditors -> EditRow \cup {NoEdit}]
          /\ editors'[e].step = at /\ (editors'[e] # NoEdit => editors'[e].saw = saw)
          /\ \A f \in ContentEditors : f # e => editors'[f] = editors[f]
      BY <1>1, <2>2, WroteAt
    <2>10. Between' \/ OneTask'
      <3>1. CASE at = "moved"
        BY <2>9, <3>1 DEF Between
      <3>2. CASE at = "idle"
        BY <2>6, <2>7, <3>2 DEF OneTask
      <3> QED  BY <3>1, <3>2
    <2>11. /\ disturbed' = (disturbed \/ saw.stage # content.stage \/ Between)
           /\ emptied' = (emptied \/ (saw.stage = "gathering" /\ ~content.raw))
      BY <1>5 DEF transition_stage
    <2>12. {disturbed', emptied'} \subseteq BOOLEAN
      BY <1>2, <2>11 DEF Between
    <2>13. Stands(content')
      <3>1. Position(saw.stage) > 2 => content.locked
        BY <1>1 DEF ContentInv
      <3> QED  BY <2>4, <2>6, <3>1 DEF Stands
    <2>14. emptied' \/ (content'.locked => content'.raw)
      <3>1. emptied \/ (content.locked => content.raw)
        BY DEF ContentInv
      <3> QED  BY <1>2, <2>6, <2>11, <3>1
    <2>15. \A f \in ContentEditors : editors'[f] # NoEdit => (Position(editors'[f].saw.stage) > 2 => content'.locked)
      <3>1. content.locked => content'.locked
        BY <2>6
      <3> QED  BY <1>1, <2>9, <3>1 DEF ContentInv
    <2> QED  BY <2>6, <2>8, <2>9, <2>10, <2>12, <2>13, <2>14, <2>15 DEF ContentInv
  <1> QED  BY <1>4, <1>5

\* Its second transaction.
LEMMA TransitionTaskKeeps ==
    ASSUME ContentInv, NEW e \in ContentEditors, _create_transition_task(e)
    PROVE  ContentInv'
  <1>1. editors[e].step = "moved" /\ editors[e] # NoEdit
    BY EditFields DEF _create_transition_task
  <1>2. content \in ContentRow /\ openEdits \in Seq(ContentStages) /\ Len(openEdits) <= 1
    BY DEF ContentInv
  <1>3. content.stage \in ContentStages
    BY <1>2 DEF ContentRow
  <1>4. UNCHANGED <<content, disturbed, emptied>> /\ Wrote(e, "idle")
    BY DEF _create_transition_task
  <1>5. openEdits' = Tasked(<<>>, content.stage)
    BY <1>2, OneIsClosed DEF _create_transition_task
  <1>6. openEdits' \in Seq(ContentStages) /\ Len(openEdits') <= 1
    BY <1>3, <1>5, TaskedIsOne
  <1>7. /\ editors' \in [ContentEditors -> EditRow \cup {NoEdit}]
        /\ editors'[e] # NoEdit => editors'[e].saw = editors[e].saw
        /\ \A f \in ContentEditors : f # e => editors'[f] = editors[f]
    BY <1>1, <1>4, WroteAt
  <1>8. OneTask'
    BY <1>4, <1>5 DEF OneTask
  <1>9. \A f \in ContentEditors : editors'[f] # NoEdit => (Position(editors'[f].saw.stage) > 2 => content'.locked)
    BY <1>1, <1>4, <1>7 DEF ContentInv
  <1> QED  BY <1>2, <1>4, <1>6, <1>7, <1>8, <1>9 DEF ContentInv, Stands

LEMMA ContentStays == ContentInv /\ [ContentNext]_contentVars => ContentInv'
  <1> SUFFICES ASSUME ContentInv, [ContentNext]_contentVars
               PROVE  ContentInv'
    OBVIOUS
  <1>1. CASE UNCHANGED contentVars
    BY <1>1 DEF contentVars, ContentInv, Stands, Between, OneTask
  <1>2. ASSUME NEW e \in ContentEditors, NEW does \in {"raw", "final", "links", "basic", "move"}, Edits(e, does, 0)
        PROVE  ContentInv'
    BY <1>2, EditsBegin
  <1>3. ASSUME NEW e \in ContentEditors, NEW t \in DOMAIN openEdits, Edits(e, "move", t)
        PROVE  ContentInv'
    <2>1. t \in Nat
      BY DEF ContentInv
    <2> QED  BY <1>3, <2>1, EditsBegin
  <1> QED  BY <1>1, <1>2, <1>3, WritesKeep, TransitionKeeps, TransitionTaskKeeps, BreaksOffKeeps DEF ContentNext

(***************************************************************************)
(* However moves and edits of a content cross (transition_stage), a stage   *)
(* has its one task, whichever way the task was closed, until a move writes *)
(* into another one or breaks off between its commits; and the material is  *)
(* locked from the editing on whatever crosses or breaks off, unless it was *)
(* cleared between the look at it and the lock.                             *)
(***************************************************************************)
THEOREM MovesStayWhole == ContentSpec => []MovesAreWhole
  <1>1. ContentInv => MovesAreWhole
    BY DEF ContentInv, Stands, MovesAreWhole, RawIsKept
  <1> QED  BY <1>1, ContentBegins, ContentStays, PTL DEF ContentSpec

------------------------------------------------------------------------------
(* Messages of agents, and shifts                                           *)

DecidingRow == [step : {"idle", "sending", "sent", "rejecting"}, on : Proposals \cup {"none"}]
CardRow == [status : {"none", "in_review", "done"}, report : {"none", "sent", "rejected"}]

\* A request that is past the messenger is on a card whose message went out.
OutboxInv ==
    /\ proposal \in [Proposals -> CardRow]
    /\ delivered \in [Proposals -> Nat]
    /\ deciding \in [Admins -> DecidingRow]
    /\ \A q \in Admins : deciding[q].step # "idle" => deciding[q].on \in Proposals
    /\ \A q \in Admins : deciding[q].step = "sent" => delivered[deciding[q].on] > 0
    /\ ReportsAreTrue

LEMMA OutboxBegins == OutboxInit => OutboxInv
  <1> SUFFICES ASSUME OutboxInit
               PROVE  OutboxInv
    OBVIOUS
  <1>1. Absent \in CardRow /\ Absent.report = "none" /\ Unoccupied \in DecidingRow /\ Unoccupied.step = "idle"
    BY DEF Absent, Unoccupied, CardRow, DecidingRow
  <1> QED  BY <1>1 DEF OutboxInit, OutboxInv, ReportsAreTrue

\* A request goes on, and nothing of the cards changes.
LEMMA DecidingGoes ==
    ASSUME OutboxInv, NEW q \in Admins, NEW row \in DecidingRow, deciding' = [deciding EXCEPT ![q] = row],
           row.step # "idle" => row.on \in Proposals,
           row.step = "sent" => delivered'[row.on] > 0,
           proposal' \in [Proposals -> CardRow], delivered' \in [Proposals -> Nat],
           \A p \in Proposals : delivered'[p] >= delivered[p],
           \A p \in Proposals : proposal'[p].report = "sent" => delivered'[p] > 0
    PROVE  OutboxInv'
  <1>1. deciding' \in [Admins -> DecidingRow] /\ deciding'[q] = row
        /\ \A a \in Admins \ {q} : deciding'[a] = deciding[a]
    BY DEF OutboxInv
  <1>2. ASSUME NEW a \in Admins
        PROVE  /\ deciding'[a].step # "idle" => deciding'[a].on \in Proposals
               /\ deciding'[a].step = "sent" => delivered'[deciding'[a].on] > 0
    <2>1. CASE a = q
      BY <1>1, <2>1
    <2>2. CASE a # q
      <3>1. deciding'[a] = deciding[a]
        BY <1>1, <2>2
      <3>2. /\ deciding[a].step # "idle" => deciding[a].on \in Proposals
            /\ deciding[a].step = "sent" => delivered[deciding[a].on] > 0
        BY DEF OutboxInv
      <3>3. \A p \in Proposals : delivered[p] \in Nat /\ delivered'[p] \in Nat
        BY DEF OutboxInv
      <3> QED  BY <3>1, <3>2, <3>3
    <2> QED  BY <2>1, <2>2
  <1> QED  BY <1>1, <1>2 DEF OutboxInv, ReportsAreTrue

LEMMA OutboxStays == OutboxInv /\ [OutboxNext]_outboxVars => OutboxInv'
  <1> SUFFICES ASSUME OutboxInv, [OutboxNext]_outboxVars
               PROVE  OutboxInv'
    OBVIOUS
  <1>1. /\ proposal \in [Proposals -> CardRow] /\ delivered \in [Proposals -> Nat]
        /\ deciding \in [Admins -> DecidingRow]
        /\ \A p \in Proposals : proposal[p].report = "sent" => delivered[p] > 0
        /\ \A p \in Proposals : delivered[p] >= delivered[p]
    BY DEF OutboxInv, ReportsAreTrue
  <1>2. Unoccupied \in DecidingRow /\ Unoccupied.step = "idle"
    BY DEF Unoccupied, DecidingRow
  <1>3. CASE UNCHANGED outboxVars
    BY <1>3 DEF outboxVars, OutboxInv, ReportsAreTrue
  <1>4. ASSUME NEW p \in Proposals, ProposeMessage(p) PROVE OutboxInv'
    <2>1. proposal' = [proposal EXCEPT ![p].status = "in_review"] /\ UNCHANGED <<delivered, deciding>>
      BY <1>4 DEF ProposeMessage
    <2>2. proposal' \in [Proposals -> CardRow] /\ \A o \in Proposals : proposal'[o].report = proposal[o].report
      BY <1>1, <2>1 DEF CardRow
    <2> QED  BY <2>1, <2>2 DEF OutboxInv, ReportsAreTrue
  <1>5. ASSUME NEW q \in Admins, NEW p \in Proposals, NEW phase \in {"sending", "rejecting"}, OpensCard(q, p, phase)
        PROVE  OutboxInv'
    <2>1. [step |-> phase, on |-> p] \in DecidingRow
      BY DEF DecidingRow
    <2>2. deciding' = [deciding EXCEPT ![q] = [step |-> phase, on |-> p]] /\ UNCHANGED <<proposal, delivered>>
      BY <1>5 DEF OpensCard
    <2> QED  BY <1>1, <2>1, <2>2, DecidingGoes
  <1>6. ASSUME NEW q \in Admins, Send(q) PROVE OutboxInv'
    <2>1. deciding[q] \in DecidingRow /\ deciding[q].on \in Proposals
      BY <1>6 DEF OutboxInv, Send
    <2>2. PICK row : row = [deciding[q] EXCEPT !.step = "sent"]
      OBVIOUS
    <2>3. row \in DecidingRow /\ row.on = deciding[q].on /\ row.step = "sent"
      BY <2>1, <2>2 DEF DecidingRow
    <2>4. deciding' = [deciding EXCEPT ![q] = row] /\ proposal' = proposal
          /\ delivered' = [delivered EXCEPT ![deciding[q].on] = @ + 1]
      BY <1>1, <1>6, <2>2 DEF Send
    <2>5. /\ delivered' \in [Proposals -> Nat] /\ \A p \in Proposals : delivered'[p] >= delivered[p]
          /\ delivered'[deciding[q].on] > 0
      BY <1>1, <2>1, <2>4
    <2>6. \A p \in Proposals : proposal'[p].report = "sent" => delivered'[p] > 0
      BY <1>1, <2>4, <2>5
    <2> QED  BY <1>1, <2>1, <2>3, <2>4, <2>5, <2>6, DecidingGoes
  <1>7. ASSUME NEW q \in Admins, SendFails(q) \/ Stops(q) PROVE OutboxInv'
    <2>1. deciding' = [deciding EXCEPT ![q] = Unoccupied] /\ UNCHANGED <<proposal, delivered>>
      BY <1>7 DEF SendFails, Stops
    <2> QED  BY <1>1, <1>2, <2>1, DecidingGoes
  <1>8. ASSUME NEW q \in Admins, NEW phase \in {"sent", "rejecting"}, NEW report \in {"sent", "rejected"},
              phase = "sent" \/ report = "rejected", CloseAs(q, phase, report)
        PROVE  OutboxInv'
    <2>1. deciding[q].on \in Proposals /\ (phase = "sent" => delivered[deciding[q].on] > 0)
      BY <1>8 DEF OutboxInv, CloseAs
    <2>2. /\ proposal' = [proposal EXCEPT ![deciding[q].on] = [status |-> "done", report |-> report]]
          /\ deciding' = [deciding EXCEPT ![q] = Unoccupied] /\ delivered' = delivered
      BY <1>8 DEF CloseAs
    <2>3. [status |-> "done", report |-> report] \in CardRow
      BY DEF CardRow
    <2>4. proposal' \in [Proposals -> CardRow]
      BY <1>1, <2>1, <2>2, <2>3
    <2>5. \A p \in Proposals : proposal'[p].report = "sent" => delivered'[p] > 0
      BY <1>1, <1>8, <2>1, <2>2
    <2> QED  BY <1>1, <1>2, <2>2, <2>4, <2>5, DecidingGoes
  <1> QED  BY <1>3, <1>4, <1>5, <1>6, <1>7, <1>8 DEF OutboxNext, approve_and_send, reject

\* The verdict of a shift is that of its queue.
ShiftsInv == \A s \in shifts : s.verdict = _verdict(_approvals(s.stances))

LEMMA ShiftsStay == (ShiftsInit => ShiftsInv) /\ (ShiftsInv /\ [ShiftsNext]_shiftVars => ShiftsInv')
  <1>1. ShiftsInit => ShiftsInv
    BY DEF ShiftsInit, ShiftsInv
  <1>2. ASSUME ShiftsInv, shifts' = shifts PROVE ShiftsInv'
    BY <1>2 DEF ShiftsInv
  <1>3. ASSUME ShiftsInv, NEW stances, create_shift(stances) PROVE ShiftsInv'
    <2>1. PICK id : shifts' = shifts \cup {[id |-> id, stances |-> stances, verdict |-> _verdict(_approvals(stances))]}
      BY <1>3 DEF create_shift
    <2> QED  BY <1>3, <2>1 DEF ShiftsInv
  <1>4. ASSUME ShiftsInv, [ShiftsNext]_shiftVars PROVE ShiftsInv'
    BY <1>2, <1>3, <1>4
    DEF ShiftsNext, shiftVars, maybe_tick_shift, IntervalPasses, create_run, decide_approval, DecisionSaved
  <1> QED  BY <1>1, <1>4

LEMMA QuietIsClean == ShiftsInv => QuietShiftsAreClean
  <1> SUFFICES ASSUME ShiftsInv, NEW s \in shifts, s.verdict = "allow", NEW r \in Roles
               PROVE  Questions[r] = "allow" /\ (Lawyer \in CROSS_REVIEWERS[r] => ~Stopped(s, r))
    BY DEF QuietShiftsAreClean
  <1> DEFINE queue == _approvals(s.stances)
  <1>1. _verdict(queue) = "allow"
    BY DEF ShiftsInv
  <1> HIDE DEF queue
  <1>2. queue = {} /\ Questions[r] = "allow"
    BY <1>1 DEF _verdict
  <1>3. ASSUME Lawyer \in CROSS_REVIEWERS[r], Stopped(s, r) PROVE FALSE
    <2>1. _review(r, Lawyer, s.stances[r]) = "checked_escalate"
      BY <1>3 DEF Stopped, _review
    <2>2. [role |-> r, kind |-> "legal"] \in queue
      BY <1>3, <2>1 DEF queue, _approvals
    <2> QED  BY <1>2, <2>2
  <1> QED  BY <1>2, <1>3

------------------------------------------------------------------------------
(* The board of directors                                                   *)

NodeRow == [there : BOOLEAN, text : Nat, summary : Nat]
Trees == [Nodes -> NodeRow]
Decisions == {"pending", "rejected", "accepted"}
ProposalRow == [node : Nodes \cup {"none"}, rounds : Seq(Decisions),
                status : {"none", "pending", "cancelled", "applied"}]
SittingRow == [step : {"waits"}, does : {"manual", "propose", "accept", "reject", "cancel", "actualize"},
               node : Nodes \cup {"none"}, saw : Trees, rounds : Seq(Decisions), stale : BOOLEAN]

\* What a request has read is so, if nobody wrote since.
IsSo(desk) ==
    /\ desk.does = "manual" => desk.node \in Nodes
    /\ desk.step = "waits" /\ ~desk.stale =>
        /\ desk.saw = tree /\ desk.rounds = boardProposal.rounds
        /\ desk.does \in {"accept", "reject", "cancel"} => boardProposal.status = "pending"
        /\ desk.does = "propose" => boardProposal = NoProposal

\* A proposal that is not settled was not applied, and only its last round is open.
Settled ==
    /\ SettledOnce
    /\ boardProposal.status # "applied" => applied = 0
    /\ boardProposal.status = "pending" => Len(boardProposal.rounds) > 0

BoardInv ==
    /\ tree \in Trees /\ texts \in Nat /\ applied \in Nat /\ overlapped \in BOOLEAN
    /\ boardProposal \in ProposalRow
    /\ boardDesks \in [Directors -> SittingRow \cup {NotWorking}]
    /\ \A u \in Directors : IsSo(boardDesks[u])
    /\ HistoryIsWhole
    /\ ~overlapped => DirectionsInRange /\ Settled

LEMMA DeskFields ==
    /\ NotWorking.step = "idle" /\ NotWorking.does # "manual" /\ NotWorking \notin SittingRow
    /\ \A s \in SittingRow : /\ s.step = "waits" /\ [s EXCEPT !.stale = TRUE] \in SittingRow
                             /\ [s EXCEPT !.stale = TRUE].stale
                             /\ [s EXCEPT !.stale = TRUE].does = s.does /\ [s EXCEPT !.stale = TRUE].node = s.node
  <1>1. NotWorking.step = "idle" /\ NotWorking.does # "manual"
    BY DEF NotWorking
  <1>2. ASSUME NEW s \in SittingRow
        PROVE  /\ s.step = "waits" /\ [s EXCEPT !.stale = TRUE] \in SittingRow /\ [s EXCEPT !.stale = TRUE].stale
               /\ [s EXCEPT !.stale = TRUE].does = s.does /\ [s EXCEPT !.stale = TRUE].node = s.node
    BY DEF SittingRow
  <1>3. NotWorking \notin SittingRow
    BY <1>1, <1>2
  <1> QED  BY <1>1, <1>2, <1>3

LEMMA NodesAre ==
    /\ Root \in Nodes /\ Directions \subseteq Nodes /\ Founding \subseteq Nodes
    /\ IsFiniteSet(Nodes)
    /\ \A t : Children(t, Root) = There(t) \ {Root} /\ There(t) \subseteq Nodes
  <1>1. IsFiniteSet(Nodes)
    BY BoardAssumption, FS_AddElement, FS_Singleton, FS_Union DEF Nodes
  <1> QED  BY <1>1, BoardAssumption DEF Nodes, Children, There

LEMMA BoardBegins == BoardInit => BoardInv
  <1> SUFFICES ASSUME BoardInit
               PROVE  BoardInv
    OBVIOUS
  <1>1. tree = [n \in Nodes |-> [Gone EXCEPT !.there = n = Root \/ n \in Founding]]
    BY DEF BoardInit
  <1>2. \A there \in BOOLEAN : [Gone EXCEPT !.there = there] \in NodeRow
            /\ [Gone EXCEPT !.there = there].text = Original /\ [Gone EXCEPT !.there = there].there = there
    BY DEF Gone, NodeRow, Original, NoSummary
  <1>3. \A n \in Nodes : tree[n] \in NodeRow /\ tree[n].text = Original /\ tree[n].there = (n = Root \/ n \in Founding)
    <2>1. ASSUME NEW n \in Nodes
          PROVE  tree[n] \in NodeRow /\ tree[n].text = Original /\ tree[n].there = (n = Root \/ n \in Founding)
      <3>1. PICK there \in BOOLEAN : there = (n = Root \/ n \in Founding)
        OBVIOUS
      <3>2. tree[n] = [Gone EXCEPT !.there = there]
        BY <1>1, <3>1
      <3> QED  BY <1>2, <3>1, <3>2
    <2> QED  BY <2>1
  <1>4. tree \in Trees
    BY <1>1, <1>3 DEF Trees
  <1>5. HistoryIsWhole
    <2>1. \A n \in Founding : n \in Nodes /\ tree[n].there
      BY <1>3, NodesAre
    <2> QED  BY <1>3, <2>1 DEF HistoryIsWhole, There
  <1>6. DirectionsInRange
    <2>1. There(tree) = {Root} \cup Founding
      BY <1>3, NodesAre DEF There
    <2>2. Children(tree, Root) = Founding
      BY <2>1, NodesAre, BoardAssumption
    <2> QED  BY <2>2, BoardAssumption DEF DirectionsInRange
  <1>7. boardProposal \in ProposalRow /\ boardProposal.rounds = <<>> /\ boardProposal.status = "none"
    BY DEF BoardInit, NoProposal, ProposalRow
  <1>8. Settled
    <2>1. applied = 0
      BY DEF BoardInit
    <2>2. Range(<<>>) = {} /\ DOMAIN <<>> = {}
      BY DEF Range
    <2> QED  BY <1>7, <2>1, <2>2 DEF Settled, SettledOnce
  <1>9. boardDesks \in [Directors -> SittingRow \cup {NotWorking}] /\ \A u \in Directors : IsSo(boardDesks[u])
    BY DeskFields DEF BoardInit, IsSo
  <1>10. texts \in Nat /\ applied \in Nat /\ overlapped \in BOOLEAN
    BY DEF BoardInit, Original
  <1> QED  BY <1>4, <1>5, <1>6, <1>7, <1>8, <1>9, <1>10 DEF BoardInv

\* A request leaves with something written: what the others have read is stale.
LEMMA WritesAreSeen ==
    ASSUME BoardInv, NEW u \in Directors, boardDesks[u].step = "waits", Leaves(u, TRUE),
           tree' \in Trees, boardProposal' \in ProposalRow, texts' \in Nat, applied' \in Nat,
           HistoryIsWhole',
           ~overlapped /\ ~boardDesks[u].stale => DirectionsInRange' /\ Settled'
    PROVE  BoardInv'
  <1>1. \A v \in Directors : boardDesks[v] \in SittingRow \cup {NotWorking}
    BY DEF BoardInv
  <1>2. boardDesks' = [v \in Directors |->
                    IF v = u THEN NotWorking
                    ELSE IF boardDesks[v] # NotWorking THEN [boardDesks[v] EXCEPT !.stale = TRUE] ELSE boardDesks[v]]
        /\ overlapped' = (overlapped \/ boardDesks[u].stale)
    BY DEF Leaves
  <1>3. ASSUME NEW v \in Directors
        PROVE  boardDesks'[v] \in SittingRow \cup {NotWorking} /\ IsSo(boardDesks[v])'
    <2>1. CASE boardDesks'[v] = NotWorking
      BY <2>1, DeskFields DEF IsSo
    <2>2. CASE boardDesks'[v] # NotWorking
      <3>1. boardDesks[v] \in SittingRow /\ boardDesks'[v] = [boardDesks[v] EXCEPT !.stale = TRUE]
        BY <1>1, <1>2, <2>2
      <3>2. boardDesks'[v] \in SittingRow /\ boardDesks'[v].stale
            /\ boardDesks'[v].does = boardDesks[v].does /\ boardDesks'[v].node = boardDesks[v].node
        BY <3>1, DeskFields
      <3>3. boardDesks[v].does = "manual" => boardDesks[v].node \in Nodes
        BY DEF BoardInv, IsSo
      <3> QED  BY <3>2, <3>3 DEF IsSo
    <2> QED  BY <2>1, <2>2
  <1>4. boardDesks' \in [Directors -> SittingRow \cup {NotWorking}]
    BY <1>2, <1>3
  <1>5. overlapped' \in BOOLEAN /\ (~overlapped' => ~overlapped /\ ~boardDesks[u].stale)
    <2>1. boardDesks[u] \in SittingRow
      BY <1>1, DeskFields
    <2> QED  BY <1>2, <2>1 DEF SittingRow, BoardInv
  <1> QED  BY <1>3, <1>4, <1>5 DEF BoardInv

\* A request begins, or leaves with nothing written.
LEMMA NothingOnBoard ==
    ASSUME BoardInv, UNCHANGED <<tree, texts, nodeHistory, boardProposal, applied, overlapped>>,
           NEW u \in Directors, NEW row \in SittingRow \cup {NotWorking}, IsSo(row),
           boardDesks' = [boardDesks EXCEPT ![u] = row]
    PROVE  BoardInv'
  <1>1. boardDesks' \in [Directors -> SittingRow \cup {NotWorking}] /\ boardDesks'[u] = row
        /\ \A v \in Directors \ {u} : boardDesks'[v] = boardDesks[v]
    BY DEF BoardInv
  <1>2. ASSUME NEW v \in Directors PROVE IsSo(boardDesks[v])'
    <2>1. CASE v = u
      BY <1>1, <2>1 DEF IsSo
    <2>2. CASE v # u
      <3>1. IsSo(boardDesks[v]) /\ boardDesks'[v] = boardDesks[v]
        BY <1>1, <2>2 DEF BoardInv
      <3> QED  BY <3>1 DEF IsSo
    <2> QED  BY <2>1, <2>2
  <1>3. HistoryIsWhole' /\ (DirectionsInRange => DirectionsInRange') /\ (Settled => Settled')
    BY DEF BoardInv, HistoryIsWhole, DirectionsInRange, Settled, SettledOnce
  <1> QED  BY <1>1, <1>2, <1>3 DEF BoardInv

LEMMA SitsKeeps ==
    ASSUME BoardInv, NEW u \in Directors, NEW n \in Nodes \cup {"none"},
           NEW does \in {"manual", "propose", "accept", "reject", "cancel", "actualize"}, Sits(u, does, n),
           does \in {"accept", "reject", "cancel"} => boardProposal.status = "pending",
           does = "propose" => boardProposal = NoProposal, does = "manual" => n \in Nodes
    PROVE  BoardInv'
  <1> DEFINE row == [step |-> "waits", does |-> does, node |-> n, saw |-> tree,
                     rounds |-> boardProposal.rounds, stale |-> FALSE]
  <1>1. boardProposal.rounds \in Seq(Decisions) /\ tree \in Trees
    BY DEF BoardInv, ProposalRow
  <1>2. row \in SittingRow
    BY <1>1 DEF SittingRow
  <1>3. IsSo(row)
    BY DEF IsSo
  <1>4. boardDesks' = [boardDesks EXCEPT ![u] = row]
        /\ UNCHANGED <<tree, texts, nodeHistory, boardProposal, applied, overlapped>>
    BY DEF Sits
  <1> HIDE DEF row
  <1> QED  BY <1>2, <1>3, <1>4, NothingOnBoard

LEMMA BoardFailsKeeps ==
    ASSUME BoardInv, NEW u \in Directors, BoardFails(u)
    PROVE  BoardInv'
  <1>1. boardDesks \in [Directors -> SittingRow \cup {NotWorking}] /\ overlapped \in BOOLEAN
    BY DEF BoardInv
  <1>2. boardDesks' = [boardDesks EXCEPT ![u] = NotWorking] /\ overlapped' = overlapped
    BY <1>1 DEF BoardFails, Leaves
  <1>3. IsSo(NotWorking)
    BY DeskFields DEF IsSo
  <1> QED  BY <1>2, <1>3, NothingOnBoard DEF BoardFails

LEMMA EditedIs ==
    ASSUME NEW t \in Trees, NEW n \in Nodes, NEW text \in Nat, NEW condensed
    PROVE  /\ Edited(t, n, text, condensed) \in Trees
           /\ Edited(t, n, text, condensed)[n].text = text
           /\ Edited(t, n, text, condensed)[n].there = t[n].there
           /\ \A m \in Nodes \ {n} : Edited(t, n, text, condensed)[m] = t[m]
  <1> DEFINE half == [t EXCEPT ![n].text = text]
  <1>1. half \in Trees /\ half[n].text = text /\ half[n].there = t[n].there
        /\ \A m \in Nodes \ {n} : half[m] = t[m]
    BY DEF Trees, NodeRow
  <1>2. Edited(t, n, text, condensed) = [half EXCEPT ![n].summary = IF condensed THEN text ELSE t[n].summary]
    BY DEF Edited, Trees
  <1>3. (IF condensed THEN text ELSE t[n].summary) \in Nat
    BY DEF Trees, NodeRow
  <1> HIDE DEF half
  <1> QED  BY <1>1, <1>2, <1>3 DEF Trees, NodeRow

\* A description that is written goes into the history.
LEMMA DescriptionKeeps ==
    ASSUME BoardInv, NEW n \in Nodes, tree[n].there, tree' \in Trees,
           tree'[n].there = tree[n].there, tree'[n].text = texts + 1,
           \A m \in Nodes \ {n} : tree'[m] = tree[m],
           nodeHistory' = nodeHistory \union {New("updated", n, texts + 1)}
    PROVE  HistoryIsWhole' /\ There(tree') = There(tree)
  <1>1. There(tree') = There(tree)
    BY DEF There
  <1>2. ASSUME NEW m \in There(tree')
        PROVE  tree'[m].text = Original \/ \E h \in nodeHistory' : h.node = m /\ h.text = tree'[m].text
    <2>1. CASE m = n
      <3>1. New("updated", n, texts + 1).node = n /\ New("updated", n, texts + 1).text = texts + 1
        BY DEF New
      <3> QED  BY <2>1, <3>1
    <2>2. CASE m # n
      <3>1. m \in Nodes /\ tree'[m] = tree[m] /\ m \in There(tree)
        BY <1>1, <2>2 DEF There
      <3> QED  BY <3>1 DEF BoardInv, HistoryIsWhole
    <2> QED  BY <2>1, <2>2
  <1>3. \A m \in Founding \ There(tree') : \E h \in nodeHistory' : h.node = m /\ h.kind = "deleted"
    BY <1>1 DEF BoardInv, HistoryIsWhole
  <1> QED  BY <1>1, <1>2, <1>3 DEF HistoryIsWhole

LEMMA DescriptionsKeep ==
    ASSUME BoardInv, NEW u \in Directors, update_node_manual(u) \/ actualize(u)
    PROVE  BoardInv'
  <1>1. boardDesks[u].step = "waits" /\ boardDesks[u] \in SittingRow
        /\ tree \in Trees /\ texts \in Nat
    BY DeskFields DEF BoardInv, update_node_manual, actualize, Busy
  <1>2. boardDesks[u].saw \in Trees /\ boardDesks[u].node \in Nodes \cup {"none"}
    BY <1>1 DEF SittingRow
  <1>3. /\ Leaves(u, TRUE) /\ texts' = texts + 1 /\ UNCHANGED <<boardProposal, applied>>
    BY DEF update_node_manual, actualize
  <1>4. \E n \in Nodes : /\ tree[n].there /\ tree' \in Trees
                         /\ tree'[n].there = tree[n].there /\ tree'[n].text = texts + 1
                         /\ \A m \in Nodes \ {n} : tree'[m] = tree[m]
                         /\ nodeHistory' = nodeHistory \union {New("updated", n, texts + 1)}
    <2>1. CASE actualize(u)
      <3>1. PICK n \in There(boardDesks[u].saw), condensed \in BOOLEAN :
                /\ tree[n].there /\ tree' = Edited(tree, n, texts + 1, condensed)
                /\ nodeHistory' = nodeHistory \union {New("updated", n, texts + 1)}
        BY <2>1 DEF actualize
      <3>2. n \in Nodes /\ texts + 1 \in Nat
        BY <1>1, <3>1, NodesAre
      <3> QED  BY <1>1, <3>1, <3>2, EditedIs
    <2>2. CASE update_node_manual(u)
      <3> DEFINE n == boardDesks[u].node
                 s == IF boardDesks[u].saw[n].summary # NoSummary THEN NoSummary ELSE tree[n].summary
                 half == [tree EXCEPT ![n].text = texts + 1]
      <3>1. CASE n \in Nodes
        <4>1. tree[n].there /\ nodeHistory' = nodeHistory \union {New("updated", n, texts + 1)}
          BY <2>2 DEF update_node_manual
        <4>2. s \in Nat
          BY <1>1, <3>1 DEF Trees, NodeRow, NoSummary
        <4>3. half \in Trees /\ half[n].text = texts + 1 /\ half[n].there = tree[n].there
              /\ \A m \in Nodes \ {n} : half[m] = tree[m]
          BY <1>1, <3>1 DEF Trees, NodeRow
        <4>4. tree' = [half EXCEPT ![n].summary = s]
          BY <1>1, <2>2, <3>1 DEF update_node_manual, Trees
        <4> HIDE DEF half, s
        <4>5. tree' \in Trees /\ tree'[n].text = texts + 1 /\ tree'[n].there = tree[n].there
              /\ \A m \in Nodes \ {n} : tree'[m] = tree[m]
          BY <3>1, <4>2, <4>3, <4>4 DEF Trees, NodeRow
        <4> QED  BY <3>1, <4>1, <4>5
      <3>2. n \in Nodes
        BY <2>2 DEF BoardInv, IsSo, update_node_manual, Busy
      <3> QED  BY <3>1, <3>2
    <2> QED  BY <2>1, <2>2
  <1>5. HistoryIsWhole' /\ There(tree') = There(tree) /\ tree' \in Trees
    BY <1>4, DescriptionKeeps
  <1>6. (DirectionsInRange => DirectionsInRange') /\ (Settled => Settled')
    BY <1>3, <1>5, NodesAre DEF DirectionsInRange, Settled, SettledOnce
  <1>7. boardProposal' \in ProposalRow /\ texts' \in Nat /\ applied' \in Nat
    BY <1>1, <1>3 DEF BoardInv
  <1>8. ~overlapped => DirectionsInRange' /\ Settled'
    BY <1>6 DEF BoardInv
  <1> QED  BY <1>1, <1>3, <1>5, <1>7, <1>8, WritesAreSeen

------------------------------------------------------------------------------
(* Proposals                                                                *)

LEMMA DecidedIs ==
    ASSUME NEW rounds \in Seq(Decisions), NEW chosen \in Decisions
    PROVE  /\ BoardDecided(rounds, chosen) \in Seq(Decisions)
           /\ Len(BoardDecided(rounds, chosen)) = Len(rounds)
           /\ \A i \in 1..Len(rounds) :
                  BoardDecided(rounds, chosen)[i] = IF i = Len(rounds) THEN chosen ELSE rounds[i]
  <1> DEFINE size == Len(rounds)
  <1>1. size \in Nat /\ rounds \in [1..size -> Decisions]
    OBVIOUS
  <1> HIDE DEF size
  <1>2. BoardDecided(rounds, chosen) = [rounds EXCEPT ![size] = chosen]
    BY DEF BoardDecided, size
  <1>3. /\ BoardDecided(rounds, chosen) \in [1..size -> Decisions]
        /\ \A i \in 1..size : BoardDecided(rounds, chosen)[i] = IF i = size THEN chosen ELSE rounds[i]
    BY <1>1, <1>2
  <1>4. BoardDecided(rounds, chosen) \in Seq(Decisions) /\ Len(BoardDecided(rounds, chosen)) = size
    BY <1>1, <1>3, SeqDef, LenProperties
  <1> QED  BY <1>3, <1>4 DEF size

\* Who writes undisturbed writes to what is there.
LEMMA Undisturbed ==
    ASSUME BoardInv, NEW u \in Directors, boardDesks[u].step = "waits"
    PROVE  /\ boardDesks[u] \in SittingRow /\ boardDesks[u].saw \in Trees
           /\ boardDesks[u].rounds \in Seq(Decisions)
           /\ ~overlapped /\ ~boardDesks[u].stale =>
                 /\ DirectionsInRange /\ Settled /\ boardDesks[u].saw = tree
                 /\ boardDesks[u].rounds = boardProposal.rounds
                 /\ boardDesks[u].does \in {"accept", "reject", "cancel"} => boardProposal.status = "pending"
                 /\ boardDesks[u].does = "propose" => boardProposal = NoProposal
  <1>1. boardDesks[u] \in SittingRow
    BY DeskFields DEF BoardInv
  <1> QED  BY <1>1 DEF BoardInv, IsSo, SittingRow

LEMMA TreeStays ==
    ASSUME BoardInv, UNCHANGED <<tree, nodeHistory>>
    PROVE  tree' \in Trees /\ HistoryIsWhole' /\ (DirectionsInRange => DirectionsInRange')
  BY DEF BoardInv, HistoryIsWhole, DirectionsInRange

LEMMA ProposeKeeps ==
    ASSUME BoardInv, NEW u \in Directors, propose_change(u)
    PROVE  BoardInv'
  <1>1. boardDesks[u].step = "waits" /\ boardDesks[u].does = "propose" /\ Leaves(u, TRUE)
        /\ UNCHANGED <<tree, texts, nodeHistory, applied>>
    BY DEF propose_change, Busy
  <1>2. PICK n \in Nodes \cup {"none"} : boardProposal' = [node |-> n, rounds |-> <<"pending">>, status |-> "pending"]
    BY <1>1, Undisturbed DEF propose_change, SittingRow
  <1>3. boardProposal'.rounds = <<"pending">> /\ boardProposal'.status = "pending"
    BY <1>2
  <1>4. boardProposal' \in ProposalRow
    BY <1>2 DEF ProposalRow, Decisions
  <1>5. ~overlapped /\ ~boardDesks[u].stale => Settled'
    <2> SUFFICES ASSUME ~overlapped, ~boardDesks[u].stale
                 PROVE  Settled'
      OBVIOUS
    <2>1. Settled /\ boardProposal = NoProposal
      BY <1>1, Undisturbed
    <2>2. applied' = 0
      BY <1>1, <2>1 DEF Settled, NoProposal
    <2>3. "accepted" \notin Range(<<"pending">>) /\ DOMAIN <<"pending">> = {1} /\ Len(<<"pending">>) = 1
      BY DEF Range
    <2> QED  BY <1>3, <2>2, <2>3 DEF Settled, SettledOnce
  <1>6. tree' \in Trees /\ HistoryIsWhole' /\ (DirectionsInRange => DirectionsInRange')
    BY <1>1, TreeStays
  <1>7. ~overlapped => DirectionsInRange'
    BY <1>6 DEF BoardInv
  <1> QED  BY <1>1, <1>4, <1>5, <1>6, <1>7, WritesAreSeen DEF BoardInv

LEMMA RoundKeeps ==
    ASSUME BoardInv, NEW u \in Directors, add_round(u)
    PROVE  BoardInv'
  <1> DEFINE decided == BoardDecided(boardDesks[u].rounds, "rejected")
             rounds == Append(decided, "pending")
  <1>1. boardDesks[u].step = "waits" /\ boardDesks[u].does = "reject" /\ Leaves(u, TRUE)
        /\ UNCHANGED <<tree, texts, nodeHistory, applied>>
        /\ boardProposal' = [boardProposal EXCEPT !.rounds = rounds]
    BY DEF add_round, Busy
  <1>2. boardDesks[u].rounds \in Seq(Decisions) /\ boardProposal \in ProposalRow
    BY <1>1, Undisturbed DEF BoardInv
  <1>3. /\ decided \in Seq(Decisions) /\ Len(decided) = Len(boardDesks[u].rounds)
        /\ \A i \in 1..Len(decided) : decided[i] = IF i = Len(decided) THEN "rejected" ELSE boardDesks[u].rounds[i]
    BY <1>2, DecidedIs DEF Decisions
  <1> HIDE DEF decided
  <1>4. /\ rounds \in Seq(Decisions) /\ Len(rounds) = Len(decided) + 1
        /\ rounds[Len(rounds)] = "pending" /\ \A i \in 1..Len(decided) : rounds[i] = decided[i]
    BY <1>3 DEF Decisions
  <1> HIDE DEF rounds
  <1>5. boardProposal' \in ProposalRow /\ boardProposal'.rounds = rounds /\ boardProposal'.status = boardProposal.status
    BY <1>1, <1>2, <1>4 DEF ProposalRow
  <1>6. ~overlapped /\ ~boardDesks[u].stale => Settled'
    <2> SUFFICES ASSUME ~overlapped, ~boardDesks[u].stale
                 PROVE  Settled'
      OBVIOUS
    <2>1. /\ Settled /\ boardProposal.status = "pending" /\ boardDesks[u].rounds = boardProposal.rounds
      BY <1>1, Undisturbed
    <2>2. \A i \in 1..Len(decided) : rounds[i] = "rejected"
      <3>1. \A i \in 1..Len(boardProposal.rounds) : boardProposal.rounds[i] # "rejected" => i = Len(boardProposal.rounds)
        BY <1>2, <2>1 DEF Settled, SettledOnce
      <3> QED  BY <1>3, <1>4, <2>1, <3>1
    <2>3. DOMAIN rounds = 1..Len(rounds) /\ Len(decided) \in Nat
      BY <1>3, <1>4
    <2>4. \A i \in DOMAIN rounds : rounds[i] # "rejected" => i = Len(rounds)
      BY <1>4, <2>2, <2>3
    <2>5. "accepted" \notin Range(rounds)
      <3>1. \A i \in DOMAIN rounds : rounds[i] \in {"rejected", "pending"}
        BY <1>4, <2>2, <2>3
      <3> QED  BY <3>1 DEF Range
    <2>6. applied' = 0
      BY <1>1, <2>1 DEF Settled
    <2> QED  BY <1>4, <1>5, <2>1, <2>3, <2>4, <2>5, <2>6 DEF Settled, SettledOnce
  <1>7. tree' \in Trees /\ HistoryIsWhole' /\ (DirectionsInRange => DirectionsInRange')
    BY <1>1, TreeStays
  <1>8. ~overlapped => DirectionsInRange'
    BY <1>7 DEF BoardInv
  <1> QED  BY <1>1, <1>5, <1>6, <1>7, <1>8, WritesAreSeen DEF BoardInv

LEMMA CancelKeeps ==
    ASSUME BoardInv, NEW u \in Directors, cancel_proposal(u)
    PROVE  BoardInv'
  <1>1. boardDesks[u].step = "waits" /\ boardDesks[u].does = "cancel" /\ Leaves(u, TRUE)
        /\ UNCHANGED <<tree, texts, nodeHistory, applied>>
        /\ boardProposal' = [boardProposal EXCEPT !.status = "cancelled"]
    BY DEF cancel_proposal, Busy
  <1>2. boardProposal' \in ProposalRow /\ boardProposal'.rounds = boardProposal.rounds
        /\ boardProposal'.status = "cancelled"
    BY <1>1 DEF BoardInv, ProposalRow
  <1>3. ~overlapped /\ ~boardDesks[u].stale => Settled'
    <2> SUFFICES ASSUME ~overlapped, ~boardDesks[u].stale
                 PROVE  Settled'
      OBVIOUS
    <2>1. Settled /\ boardProposal.status = "pending"
      BY <1>1, Undisturbed
    <2> QED  BY <1>1, <1>2, <2>1 DEF Settled, SettledOnce
  <1>4. tree' \in Trees /\ HistoryIsWhole' /\ (DirectionsInRange => DirectionsInRange')
    BY <1>1, TreeStays
  <1>5. ~overlapped => DirectionsInRange'
    BY <1>4 DEF BoardInv
  <1> QED  BY <1>1, <1>2, <1>3, <1>4, <1>5, WritesAreSeen DEF BoardInv

\* The choice that an accepted operation makes, in parts.
AcceptedOn(touched, dropped, added) ==
    (\A m \in touched \union dropped : tree[m].there) /\ (\A m \in added : ~tree[m].there)
NextTree(touched, dropped, added, condensed) ==
    tree' = [m \in Nodes |->
                 IF m \in dropped THEN Gone
                 ELSE IF m \in added THEN [there |-> TRUE, text |-> texts + 1, summary |-> texts + 1]
                 ELSE IF m \in touched THEN Edited(tree, m, texts + 1, condensed)[m]
                 ELSE tree[m]]
NextHistory(touched, dropped, added) ==
    nodeHistory' = nodeHistory \union {New("updated", m, texts + 1) : m \in touched}
                                \union {New("deleted", m, tree[m].text) : m \in dropped}
                                \union {New("created", m, texts + 1) : m \in added}
NextProposal(u, dropped) ==
    /\ boardProposal' = IF boardProposal.node \in dropped THEN NoProposal
                         ELSE [boardProposal EXCEPT !.rounds = BoardDecided(boardDesks[u].rounds, "accepted"),
                                               !.status = "applied"]
    /\ applied' = IF boardProposal.node \in dropped THEN 0 ELSE applied + 1
KeepsRange(saw, dropped, added) == (dropped = {} /\ added = {}) \/ apply_structural_ops(saw, Root, dropped, added)

LEMMA AcceptedIs ==
    ASSUME NEW u, apply_proposal(u)
    PROVE  \E touched \in SUBSET There(boardDesks[u].saw), dropped \in SUBSET Children(boardDesks[u].saw, Root),
             added \in SUBSET (Directions \ There(boardDesks[u].saw)), condensed \in BOOLEAN :
                /\ KeepsRange(boardDesks[u].saw, dropped, added) /\ AcceptedOn(touched, dropped, added)
                /\ NextTree(touched, dropped, added, condensed) /\ NextHistory(touched, dropped, added)
                /\ NextProposal(u, dropped)
  <1>1. PICK touched \in SUBSET There(boardDesks[u].saw), dropped \in SUBSET Children(boardDesks[u].saw, Root),
             added \in SUBSET (Directions \ There(boardDesks[u].saw)), condensed \in BOOLEAN :
          /\ touched \subseteq IF boardDesks[u].node = Root THEN There(boardDesks[u].saw) ELSE {Root, boardDesks[u].node}
          /\ boardDesks[u].node \in touched /\ Cardinality(touched) <= 2
          /\ (dropped = {} /\ added = {}) \/ apply_structural_ops(boardDesks[u].saw, Root, dropped, added)
          /\ \A m \in touched \union dropped : tree[m].there
          /\ \A m \in added : ~tree[m].there
          /\ tree' = [m \in Nodes |->
                 IF m \in dropped THEN Gone
                 ELSE IF m \in added THEN [there |-> TRUE, text |-> texts + 1, summary |-> texts + 1]
                 ELSE IF m \in touched THEN Edited(tree, m, texts + 1, condensed)[m]
                 ELSE tree[m]]
          /\ nodeHistory' = nodeHistory \union {New("updated", m, texts + 1) : m \in touched}
                                \union {New("deleted", m, tree[m].text) : m \in dropped}
                                \union {New("created", m, texts + 1) : m \in added}
          /\ boardProposal' = IF boardProposal.node \in dropped THEN NoProposal
                         ELSE [boardProposal EXCEPT !.rounds = BoardDecided(boardDesks[u].rounds, "accepted"),
                                               !.status = "applied"]
          /\ applied' = IF boardProposal.node \in dropped THEN 0 ELSE applied + 1
          /\ thread' = [thread EXCEPT !.pinned = IF @ \in dropped THEN "none" ELSE @]
    BY Zenon DEF apply_proposal
  <1>2. KeepsRange(boardDesks[u].saw, dropped, added)
    BY <1>1 DEF KeepsRange
  <1>3. AcceptedOn(touched, dropped, added)
    BY <1>1 DEF AcceptedOn
  <1>4. NextTree(touched, dropped, added, condensed)
    BY <1>1 DEF NextTree
  <1>5. NextHistory(touched, dropped, added)
    BY <1>1 DEF NextHistory
  <1>6. NextProposal(u, dropped)
    BY <1>1 DEF NextProposal
  <1> QED  BY <1>2, <1>3, <1>4, <1>5, <1>6

LEMMA GrowsHistory ==
    ASSUME NEW touched, NEW dropped, NEW added, NextHistory(touched, dropped, added)
    PROVE  /\ nodeHistory \subseteq nodeHistory'
           /\ \A m \in touched : New("updated", m, texts + 1) \in nodeHistory'
           /\ \A m \in dropped : New("deleted", m, tree[m].text) \in nodeHistory'
           /\ \A m \in added : New("created", m, texts + 1) \in nodeHistory'
  BY DEF NextHistory

LEMMA TouchedRow ==
    ASSUME BoardInv, NEW m \in Nodes, tree[m].there, NEW condensed
    PROVE  LET e == Edited(tree, m, texts + 1, condensed)[m]
           IN  e \in NodeRow /\ e.there /\ e.text = texts + 1
  <1> DEFINE e == Edited(tree, m, texts + 1, condensed)
  <1>1. tree \in Trees /\ texts + 1 \in Nat
    BY DEF BoardInv
  <1>0. PICK text \in Nat : text = texts + 1
    BY <1>1
  <1>2. e \in Trees /\ e[m].text = texts + 1 /\ e[m].there = tree[m].there
    <2>1. Edited(tree, m, text, condensed) \in Trees
      BY <1>1, EditedIs
    <2>2. Edited(tree, m, text, condensed)[m].text = text
      BY <1>1, EditedIs
    <2>3. Edited(tree, m, text, condensed)[m].there = tree[m].there
      BY <1>1, EditedIs
    <2> QED  BY <1>0, <2>1, <2>2, <2>3
  <1> HIDE DEF e
  <1>3. e[m] \in NodeRow
    BY <1>2 DEF Trees
  <1> QED  BY <1>2, <1>3 DEF e

\* What an accepted operation leaves of the tree: every node that it touches,
\* drops or makes is in the history.
LEMMA AcceptedTree ==
    ASSUME BoardInv, NEW touched \in SUBSET Nodes, NEW dropped \in SUBSET (Nodes \ {Root}),
           NEW added \in SUBSET Directions, NEW condensed \in BOOLEAN,
           AcceptedOn(touched, dropped, added), NextTree(touched, dropped, added, condensed),
           NextHistory(touched, dropped, added)
    PROVE  tree' \in Trees /\ HistoryIsWhole' /\ There(tree') = (There(tree) \ dropped) \cup added
  <1>1. tree \in Trees /\ texts \in Nat /\ texts + 1 \in Nat
    BY DEF BoardInv
  <1>h. /\ nodeHistory \subseteq nodeHistory'
        /\ \A m \in touched : New("updated", m, texts + 1) \in nodeHistory'
        /\ \A m \in dropped : New("deleted", m, tree[m].text) \in nodeHistory'
        /\ \A m \in added : New("created", m, texts + 1) \in nodeHistory'
    BY GrowsHistory
  <1>2. Gone \in NodeRow /\ ~Gone.there
    BY DEF Gone, NodeRow, Original, NoSummary
  <1> DEFINE Grown == [there |-> TRUE, text |-> texts + 1, summary |-> texts + 1]
  <1>3. Grown \in NodeRow /\ Grown.there /\ Grown.text = texts + 1
    BY <1>1 DEF NodeRow
  <1>4. ASSUME NEW m \in touched
        PROVE  LET e == Edited(tree, m, texts + 1, condensed)[m]
               IN  e \in NodeRow /\ e.there /\ e.text = texts + 1
    <2>1. m \in Nodes /\ tree[m].there
      BY DEF AcceptedOn
    <2> QED  BY <2>1, TouchedRow
  <1> DEFINE Touched(m) == Edited(tree, m, texts + 1, condensed)[m]
  <1>5. \A m \in touched : Touched(m) \in NodeRow /\ Touched(m).there /\ Touched(m).text = texts + 1
    BY <1>4
  <1>6. tree' = [m \in Nodes |-> IF m \in dropped THEN Gone ELSE IF m \in added THEN Grown
                                ELSE IF m \in touched THEN Touched(m) ELSE tree[m]]
    BY DEF NextTree
  <1> HIDE DEF Grown, Touched
  <1>7. \A m \in Nodes : tree[m] \in NodeRow
    BY <1>1 DEF Trees
  <1>8. ASSUME NEW m \in Nodes
        PROVE  /\ tree'[m] \in NodeRow
               /\ m \in dropped => ~tree'[m].there
               /\ m \in added \ dropped => tree'[m].there /\ tree'[m].text = texts + 1
               /\ m \in touched \ dropped => tree'[m].there /\ tree'[m].text = texts + 1
               /\ m \notin touched \cup added \cup dropped => tree'[m] = tree[m]
    <2>1. tree'[m] = IF m \in dropped THEN Gone ELSE IF m \in added THEN Grown
                     ELSE IF m \in touched THEN Touched(m) ELSE tree[m]
      BY <1>6
    <2> QED  BY <1>2, <1>3, <1>5, <1>7, <2>1
  <1>9. tree' \in Trees
    BY <1>6, <1>8 DEF Trees
  <1>10. added \cap dropped = {} /\ added \subseteq Nodes /\ (\A m \in touched : tree[m].there)
    BY NodesAre DEF AcceptedOn
  <1>11. There(tree') = (There(tree) \ dropped) \cup added
    <2>1. ASSUME NEW m \in Nodes
          PROVE  tree'[m].there <=> ((tree[m].there /\ m \notin dropped) \/ m \in added)
      BY <1>8, <1>10
    <2> QED  BY <2>1, <1>10 DEF There
  <1>12. ASSUME NEW m \in There(tree')
         PROVE  tree'[m].text = Original \/ \E h \in nodeHistory' : h.node = m /\ h.text = tree'[m].text
    <2>1. m \in Nodes /\ m \notin dropped
      BY <1>8 DEF There
    <2>2. CASE m \in added
      <3>1. New("created", m, texts + 1).node = m /\ New("created", m, texts + 1).text = texts + 1
        BY DEF New
      <3>2. New("created", m, texts + 1) \in nodeHistory'
        BY <1>h, <2>2
      <3> QED  BY <1>8, <2>1, <2>2, <3>1, <3>2
    <2>3. CASE m \in touched
      <3>1. New("updated", m, texts + 1).node = m /\ New("updated", m, texts + 1).text = texts + 1
        BY DEF New
      <3>2. New("updated", m, texts + 1) \in nodeHistory'
        BY <1>h, <2>3
      <3> QED  BY <1>8, <2>1, <2>3, <3>1, <3>2
    <2>4. CASE m \notin touched \cup added
      <3>1. tree'[m] = tree[m] /\ m \in There(tree)
        BY <1>8, <1>11, <2>1, <2>4
      <3>2. tree[m].text = Original \/ \E h \in nodeHistory : h.node = m /\ h.text = tree[m].text
        BY <3>1 DEF BoardInv, HistoryIsWhole
      <3> QED  BY <1>h, <3>1, <3>2
    <2> QED  BY <2>2, <2>3, <2>4
  <1>13. ASSUME NEW m \in Founding \ There(tree')
         PROVE  \E h \in nodeHistory' : h.node = m /\ h.kind = "deleted"
    <2>1. CASE m \in dropped
      <3>1. New("deleted", m, tree[m].text).node = m /\ New("deleted", m, tree[m].text).kind = "deleted"
        BY DEF New
      <3>2. New("deleted", m, tree[m].text) \in nodeHistory'
        BY <1>h, <2>1
      <3> QED  BY <3>1, <3>2
    <2>2. CASE m \notin dropped
      <3>1. m \in Founding \ There(tree)
        BY <1>11, <2>2
      <3>2. \E h \in nodeHistory : h.node = m /\ h.kind = "deleted"
        BY <3>1 DEF BoardInv, HistoryIsWhole
      <3> QED  BY <1>h, <3>2
    <2> QED  BY <2>1, <2>2
  <1> QED  BY <1>9, <1>11, <1>12, <1>13 DEF HistoryIsWhole

\* As many directions as were counted are left, when the tree was as it was read.
LEMMA ResultingIs ==
    ASSUME NEW dropped, dropped \subseteq Children(tree, Root), DirectionsInRange,
           NEW added, added \subseteq Directions \ There(tree),
           KeepsRange(tree, dropped, added), There(tree') = (There(tree) \ dropped) \cup added
    PROVE  DirectionsInRange'
  <1> DEFINE now == Children(tree, Root)
  <1>1. now = There(tree) \ {Root} /\ Children(tree', Root) = There(tree') \ {Root} /\ IsFiniteSet(Nodes)
        /\ There(tree) \subseteq Nodes /\ Directions \subseteq Nodes
    BY NodesAre
  <1>2. Children(tree', Root) = (now \ dropped) \cup added /\ added \cap now = {}
    BY <1>1, BoardAssumption
  <1>3. IsFiniteSet(now) /\ IsFiniteSet(dropped) /\ IsFiniteSet(added) /\ dropped \in SUBSET now
    BY <1>1, FS_Subset
  <1> HIDE DEF now
  <1>4. CASE dropped = {} /\ added = {}
    <2>1. Children(tree', Root) = now
      BY <1>2, <1>4
    <2> QED  BY <2>1 DEF DirectionsInRange, now
  <1>5. CASE apply_structural_ops(tree, Root, dropped, added)
    <2>1. Cardinality(now) - Cardinality(dropped) + Cardinality(added) \in DIRECTION_MIN..DIRECTION_MAX
      BY <1>5 DEF apply_structural_ops, Resulting, now
    <2>2. IsFiniteSet(now \ dropped) /\ Cardinality(now \ dropped) = Cardinality(now) - Cardinality(now \cap dropped)
      BY <1>3, FS_Difference
    <2>3. now \cap dropped = dropped /\ (now \ dropped) \cap added = {}
      BY <1>2, <1>3
    <2>4. Cardinality((now \ dropped) \cup added)
            = Cardinality(now \ dropped) + Cardinality(added) - Cardinality((now \ dropped) \cap added)
      BY <1>3, <2>2, FS_Union
    <2>5. /\ Cardinality(now) \in Nat /\ Cardinality(dropped) \in Nat /\ Cardinality(added) \in Nat
          /\ Cardinality({}) = 0
      BY <1>3, FS_CardinalityType, FS_EmptySet
    <2>6. Cardinality((now \ dropped) \cup added) = Cardinality(now) - Cardinality(dropped) + Cardinality(added)
      <3>1. Cardinality(now \ dropped) = Cardinality(now) - Cardinality(dropped)
        BY <2>2, <2>3
      <3>2. Cardinality((now \ dropped) \cup added) = Cardinality(now \ dropped) + Cardinality(added) - 0
        BY <2>3, <2>4, <2>5
      <3> QED  BY ONLY <2>5, <3>1, <3>2
    <2> QED  BY <1>2, <2>1, <2>6 DEF DirectionsInRange
  <1> QED  BY <1>4, <1>5 DEF KeepsRange

LEMMA NoProposalIs == NoProposal \in ProposalRow /\ NoProposal.rounds = <<>> /\ NoProposal.status = "none"
  BY DEF NoProposal, ProposalRow

\* A proposal that is accepted is settled, or goes with its node.
LEMMA AcceptedSettles ==
    ASSUME BoardInv, NEW u \in Directors, boardDesks[u].rounds \in Seq(Decisions), NEW dropped,
           NextProposal(u, dropped)
    PROVE  /\ boardProposal' \in ProposalRow /\ applied' \in Nat
           /\ Settled /\ boardProposal.status = "pending" /\ boardDesks[u].rounds = boardProposal.rounds => Settled'
  <1> DEFINE rounds == BoardDecided(boardDesks[u].rounds, "accepted")
             size == Len(boardDesks[u].rounds)
  <1>1. /\ rounds \in Seq(Decisions) /\ Len(rounds) = size
        /\ \A i \in 1..size : rounds[i] = IF i = size THEN "accepted" ELSE boardDesks[u].rounds[i]
    BY DecidedIs DEF Decisions
  <1>2. size \in Nat /\ DOMAIN rounds = 1..size
    BY <1>1
  <1>3. boardProposal \in ProposalRow /\ applied \in Nat
    BY DEF BoardInv
  <1>4. CASE boardProposal.node \in dropped
    <2>1. boardProposal' = NoProposal /\ applied' = 0
      BY <1>4 DEF NextProposal
    <2>2. boardProposal' \in ProposalRow /\ boardProposal'.rounds = <<>> /\ boardProposal'.status = "none"
      BY <2>1, NoProposalIs
    <2>3. Range(<<>>) = {} /\ DOMAIN <<>> = {}
      BY DEF Range
    <2> QED  BY <2>1, <2>2, <2>3 DEF Settled, SettledOnce
  <1>5. CASE boardProposal.node \notin dropped
    <2>1. boardProposal' = [boardProposal EXCEPT !.rounds = rounds, !.status = "applied"] /\ applied' = applied + 1
      BY <1>5 DEF NextProposal
    <2> HIDE DEF rounds
    <2>2. boardProposal' \in ProposalRow /\ boardProposal'.rounds = rounds /\ boardProposal'.status = "applied"
      BY <1>1, <1>3, <2>1 DEF ProposalRow
    <2>3. ASSUME Settled, boardProposal.status = "pending", boardDesks[u].rounds = boardProposal.rounds
          PROVE  Settled'
      <3>1. applied' = 1 /\ size > 0
        BY <1>3, <2>1, <2>3 DEF Settled
      <3>2. "accepted" \in Range(rounds)
        <4>1. size \in DOMAIN rounds /\ rounds[size] = "accepted"
          BY <1>1, <1>2, <3>1
        <4> QED  BY <4>1 DEF Range
      <3>3. \A i \in 1..size : boardDesks[u].rounds[i] # "rejected" => i = size
        <4>1. DOMAIN boardProposal.rounds = 1..size
          BY <2>3
        <4> QED  BY <2>3, <4>1 DEF Settled, SettledOnce
      <3>4. \A i \in DOMAIN rounds : rounds[i] # "rejected" => i = Len(rounds)
        BY <1>1, <1>2, <3>3
      <3> QED  BY <2>2, <3>1, <3>2, <3>4 DEF Settled, SettledOnce
    <2> QED  BY <1>3, <2>1, <2>2, <2>3
  <1> QED  BY <1>4, <1>5

LEMMA ApplyKeeps ==
    ASSUME BoardInv, NEW u \in Directors, apply_proposal(u)
    PROVE  BoardInv'
  <1>1. boardDesks[u].step = "waits" /\ boardDesks[u].does = "accept" /\ Leaves(u, TRUE) /\ texts' = texts + 1
    BY DEF apply_proposal, Busy
  <1> DEFINE saw == boardDesks[u].saw
             n == boardDesks[u].node
  <1>2. PICK touched \in SUBSET There(saw), dropped \in SUBSET Children(saw, Root),
             added \in SUBSET (Directions \ There(saw)), condensed \in BOOLEAN :
                /\ KeepsRange(saw, dropped, added) /\ AcceptedOn(touched, dropped, added)
                /\ NextTree(touched, dropped, added, condensed) /\ NextHistory(touched, dropped, added)
                /\ NextProposal(u, dropped)
    BY AcceptedIs
  <1>3. touched \in SUBSET Nodes /\ dropped \in SUBSET (Nodes \ {Root}) /\ added \in SUBSET Directions
    BY NodesAre
  <1>4. tree' \in Trees /\ HistoryIsWhole' /\ There(tree') = (There(tree) \ dropped) \cup added
    BY <1>2, <1>3, AcceptedTree
  <1>5. boardDesks[u].rounds \in Seq(Decisions)
    BY <1>1, Undisturbed
  <1>6. /\ boardProposal' \in ProposalRow /\ applied' \in Nat
        /\ Settled /\ boardProposal.status = "pending" /\ boardDesks[u].rounds = boardProposal.rounds => Settled'
    BY <1>2, <1>5, AcceptedSettles
  <1>7. ASSUME ~overlapped, ~boardDesks[u].stale PROVE DirectionsInRange' /\ Settled'
    <2>1. DirectionsInRange /\ Settled /\ saw = tree /\ boardDesks[u].rounds = boardProposal.rounds
          /\ boardProposal.status = "pending"
      BY <1>1, <1>7, Undisturbed
    <2>2. DirectionsInRange'
      <3>1. dropped \subseteq Children(tree, Root) /\ added \subseteq Directions \ There(tree)
        BY <2>1
      <3>2. KeepsRange(tree, dropped, added)
        BY <1>2, <2>1
      <3> QED  BY <1>4, <2>1, <3>1, <3>2, ResultingIs
    <2> QED  BY <1>6, <2>1, <2>2
  <1>8. texts' \in Nat
    BY <1>1 DEF BoardInv
  <1> QED  BY <1>1, <1>4, <1>6, <1>7, <1>8, WritesAreSeen

------------------------------------------------------------------------------
LEMMA BoardStays == BoardInv /\ [BoardNext]_boardVars => BoardInv'
  <1> SUFFICES ASSUME BoardInv, [BoardNext]_boardVars
               PROVE  BoardInv'
    OBVIOUS
  <1>1. ASSUME UNCHANGED <<tree, texts, nodeHistory, boardProposal, boardDesks, applied, overlapped>>
        PROVE  BoardInv'
    <2>1. \A u \in Directors : IsSo(boardDesks[u])'
      BY <1>1 DEF BoardInv, IsSo
    <2>2. HistoryIsWhole' /\ (DirectionsInRange => DirectionsInRange') /\ (Settled => Settled')
      BY <1>1 DEF BoardInv, HistoryIsWhole, DirectionsInRange, Settled, SettledOnce
    <2> QED  BY <1>1, <2>1, <2>2 DEF BoardInv
  <1>2. CASE UNCHANGED boardVars
    BY <1>1, <1>2 DEF boardVars
  <1>3. CASE _answer
    BY <1>1, <1>3 DEF _answer
  <1>4. ASSUME NEW u \in Directors, NEW n \in Nodes, update_node(u, n)
        PROVE  BoardInv'
    BY <1>4, SitsKeeps DEF update_node
  <1>5. ASSUME NEW u \in Directors, NEW n \in Nodes, propose(u, n)
        PROVE  BoardInv'
    BY <1>5, SitsKeeps DEF propose
  <1>6. ASSUME NEW u \in Directors, NEW n \in Nodes, post_message(u, n)
        PROVE  BoardInv'
    BY <1>1, <1>6 DEF post_message
  <1>7. ASSUME NEW u \in Directors, NEW does \in {"accept", "reject", "cancel"}, Responds(u, does)
        PROVE  BoardInv'
    <2>1. boardProposal.node \in Nodes \cup {"none"}
      BY DEF BoardInv, ProposalRow
    <2> QED  BY <1>7, <2>1, SitsKeeps DEF Responds
  <1>8. ASSUME NEW u \in Directors, actualize_tree(u)
        PROVE  BoardInv'
    BY <1>8, SitsKeeps, NodesAre DEF actualize_tree
  <1>9. CASE BoardNext
    BY <1>3, <1>4, <1>5, <1>6, <1>7, <1>8, <1>9, BoardFailsKeeps, DescriptionsKeep, ProposeKeeps,
       RoundKeeps, CancelKeeps, ApplyKeeps DEF BoardNext
  <1> QED  BY <1>2, <1>9

LEMMA BoardIsWhole == BoardInv => HistoryIsWhole /\ OnlyOverlapsBreak
  BY DEF BoardInv, OnlyOverlapsBreak, Settled

------------------------------------------------------------------------------
(* Wishes and complaints                                                    *)

Pending(r) == readers[r].step = "commit"
Changing(r) == Pending(r) /\ readers[r].event.kind = "status"
TopState(e) == e \in FeedStates /\ \A f \in FeedStates : f.id <= e.id

\* Numbers are drawn in order; one change of status waits for its commit at a
\* time, with a number above those of the feed; the status is that of the last.
FeedInv ==
    /\ readers = [r \in Readers |-> readers[r]] /\ drawn \in Nat
    /\ \A r \in Readers : Pending(r) => readers[r].event.id \in 1..drawn
    /\ \A e \in feed : e.id \in 1..drawn
    /\ \A r \in Readers : Changing(r) => /\ \A f \in FeedStates : f.id < readers[r].event.id
                                         /\ \A q \in Readers \ {r} : ~Changing(q)
    /\ \A e, f \in FeedStates : e.id = f.id => e = f
    /\ FeedStates = {} => status = "new"
    /\ FeedStates # {} => \E e \in FeedStates : TopState(e) /\ e.to = status

LEMMA FeedBegins == FeedbackInit => FeedInv
  <1>1. NotReading.step = "idle"
    BY DEF NotReading
  <1> QED  BY <1>1 DEF FeedbackInit, FeedInv, FeedStates, Pending, Changing

\* A request reads, or ends with nothing inserted.
LEMMA ReaderGoes ==
    ASSUME FeedInv, UNCHANGED <<status, feed, drawn>>, NEW r \in Readers, NEW row, row.step # "commit",
           readers' = [readers EXCEPT ![r] = row]
    PROVE  FeedInv'
  <1>1. readers' = [q \in Readers |-> readers'[q]] /\ readers'[r] = row
        /\ \A q \in Readers \ {r} : readers'[q] = readers[q]
    BY DEF FeedInv
  <1>2. \A q \in Readers : Pending(q)' => Pending(q) /\ readers'[q] = readers[q]
    BY <1>1 DEF Pending
  <1>3. \A q \in Readers : Changing(q)' => Changing(q) /\ readers'[q] = readers[q]
    BY <1>2 DEF Changing
  <1>4. FeedStates' = FeedStates
    BY DEF FeedStates
  <1>5. \A e : TopState(e)' <=> TopState(e)
    BY <1>4 DEF TopState
  <1> QED  BY <1>1, <1>2, <1>3, <1>4, <1>5 DEF FeedInv

LEMMA FeedReadsKeeps ==
    ASSUME FeedInv, NEW r \in Readers, NEW phase \in {"status", "comment", "seen"}, NEW to, FeedReads(r, phase, to)
    PROVE  FeedInv'
  <1> DEFINE saw == IF phase = "status" THEN status ELSE NotReading.saw
             last == IF phase = "seen" THEN Max(FeedIds(feed)) ELSE NotReading.last
             row == [NotReading EXCEPT !.step = phase, !.to = to, !.saw = saw, !.last = last]
  <1>1. row.step = phase
    <2> HIDE DEF saw, last
    <2> QED  BY DEF NotReading
  <1>2. readers' = [readers EXCEPT ![r] = row] /\ UNCHANGED <<status, feed, drawn>>
    BY DEF FeedReads
  <1> HIDE DEF row
  <1> QED  BY <1>1, <1>2, ReaderGoes

\* A row is inserted with the next number.
LEMMA InsertsKeeps ==
    ASSUME FeedInv, NEW r \in Readers, NEW kind, Inserts(r, kind), UNCHANGED <<status, feed>>,
           kind = "status" => ~FeedLocked(r)
    PROVE  FeedInv'
  <1> DEFINE event == [id |-> drawn + 1, kind |-> kind, to |-> readers[r].to]
             row == [NotReading EXCEPT !.step = "commit", !.event = event]
  <1>1. event.id = drawn + 1 /\ event.kind = kind
    OBVIOUS
  <1>2. row.step = "commit" /\ row.event = event
    <2> HIDE DEF event
    <2> QED  BY DEF NotReading
  <1>3. readers' = [readers EXCEPT ![r] = row] /\ drawn' = drawn + 1
    BY DEF Inserts
  <1> HIDE DEF event, row
  <1>4. readers' = [q \in Readers |-> readers'[q]] /\ readers'[r] = row
        /\ \A q \in Readers \ {r} : readers'[q] = readers[q]
    BY <1>3 DEF FeedInv
  <1>5. drawn \in Nat /\ drawn' \in Nat /\ 1..drawn \subseteq 1..drawn' /\ drawn + 1 \in 1..drawn'
    BY <1>3 DEF FeedInv
  <1>6. \A q \in Readers : Pending(q)' => readers'[q].event.id \in 1..drawn'
    <2>1. ASSUME NEW q \in Readers, Pending(q)' PROVE readers'[q].event.id \in 1..drawn'
      <3>1. CASE q = r
        BY <1>1, <1>2, <1>4, <1>5, <3>1
      <3>2. CASE q # r
        <4>1. Pending(q) /\ readers'[q] = readers[q]
          BY <1>4, <2>1, <3>2 DEF Pending
        <4> QED  BY <1>5, <4>1 DEF FeedInv
      <3> QED  BY <3>1, <3>2
    <2> QED  BY <2>1
  <1>7. \A e \in feed' : e.id \in 1..drawn'
    BY <1>5 DEF FeedInv
  <1>8. FeedStates' = FeedStates /\ FeedStates \subseteq feed
    BY DEF FeedStates
  <1>9. ASSUME NEW q \in Readers, Changing(q)'
        PROVE  /\ \A f \in FeedStates' : f.id < readers'[q].event.id
               /\ \A p \in Readers \ {q} : ~Changing(p)'
    <2>1. \A p \in Readers \ {r} : Changing(p)' => Changing(p)
      BY <1>4 DEF Changing, Pending
    <2>2. Changing(r)' => kind = "status"
      BY <1>1, <1>2, <1>4 DEF Changing
    <2>3. kind = "status" => \A p \in Readers \ {r} : ~Changing(p)
      BY DEF FeedLocked, Changing, Pending
    <2>4. CASE q = r
      <3>1. readers'[q].event.id = drawn + 1
        BY <1>1, <1>2, <1>4, <2>4
      <3>2. \A f \in FeedStates : f.id \in 1..drawn
        BY <1>8 DEF FeedInv
      <3>3. \A f \in FeedStates' : f.id < readers'[q].event.id
        BY <1>5, <1>8, <3>1, <3>2
      <3> QED  BY <1>9, <2>1, <2>2, <2>3, <2>4, <3>3
    <2>5. CASE q # r
      <3>1. Changing(q) /\ readers'[q] = readers[q]
        BY <1>4, <1>9, <2>1, <2>5
      <3>2. \A f \in FeedStates' : f.id < readers'[q].event.id
        BY <1>8, <3>1 DEF FeedInv
      <3>3. \A p \in Readers \ {q} : ~Changing(p)
        BY <3>1 DEF FeedInv
      <3> QED  BY <2>1, <2>2, <2>3, <2>5, <3>1, <3>2, <3>3
    <2> QED  BY <2>4, <2>5
  <1>10. \A e : TopState(e)' <=> TopState(e)
    BY <1>8 DEF TopState
  <1> QED  BY <1>4, <1>5, <1>6, <1>7, <1>8, <1>9, <1>10 DEF FeedInv

LEMMA FeedCommitsKeeps ==
    ASSUME FeedInv, NEW r \in Readers, FeedCommits(r)
    PROVE  FeedInv'
  <1>0. PICK e : e = readers[r].event
    OBVIOUS
  <1>1. Pending(r) /\ feed' = feed \cup {e} /\ status' = (IF e.kind = "status" THEN e.to ELSE status)
        /\ readers' = [readers EXCEPT ![r] = NotReading] /\ drawn' = drawn
    BY <1>0 DEF FeedCommits, Pending
  <1>2. readers' = [q \in Readers |-> readers'[q]] /\ readers'[r] = NotReading /\ NotReading.step = "idle"
        /\ \A q \in Readers \ {r} : readers'[q] = readers[q]
    BY <1>1 DEF FeedInv, NotReading
  <1>3. \A q \in Readers : Pending(q)' => q # r /\ Pending(q) /\ readers'[q] = readers[q]
    BY <1>2 DEF Pending
  <1>4. \A q \in Readers : Changing(q)' => q # r /\ Changing(q) /\ readers'[q] = readers[q]
    BY <1>3 DEF Changing
  <1>5. e.id \in 1..drawn /\ drawn \in Nat
    BY <1>0, <1>1 DEF FeedInv
  <1>6. (\A q \in Readers : Pending(q)' => readers'[q].event.id \in 1..drawn') /\ (\A f \in feed' : f.id \in 1..drawn')
    BY <1>1, <1>3, <1>5 DEF FeedInv
  <1>7. CASE e.kind = "status"
    <2>1. FeedStates' = FeedStates \cup {e} /\ e \in FeedStates'
      BY <1>1, <1>7 DEF FeedStates
    <2>2. Changing(r)
      BY <1>0, <1>1, <1>7 DEF Changing
    <2>3. (\A f \in FeedStates : f.id < e.id) /\ (\A q \in Readers \ {r} : ~Changing(q))
      BY <1>0, <2>2 DEF FeedInv
    <2>4. \A q \in Readers : ~Changing(q)'
      BY <1>4, <2>3
    <2>5. \A f \in FeedStates : f.id \in 1..drawn
      BY DEF FeedInv, FeedStates
    <2>6. \A f \in FeedStates' : f.id <= e.id
      BY <1>5, <2>1, <2>3, <2>5
    <2>7. TopState(e)' /\ e.to = status'
      BY <1>1, <1>7, <2>1, <2>6 DEF TopState
    <2>8. \A f, g \in FeedStates' : f.id = g.id => f = g
      <3>1. \A f, g \in FeedStates : f.id = g.id => f = g
        BY DEF FeedInv
      <3> QED  BY <1>5, <2>1, <2>3, <2>5, <3>1
    <2> QED  BY <1>1, <1>2, <1>5, <1>6, <2>1, <2>4, <2>7, <2>8 DEF FeedInv
  <1>8. CASE e.kind # "status"
    <2>1. FeedStates' = FeedStates /\ status' = status
      BY <1>1, <1>8 DEF FeedStates
    <2>2. \A f : TopState(f)' <=> TopState(f)
      BY <2>1 DEF TopState
    <2>3. ASSUME NEW q \in Readers, Changing(q)'
          PROVE  /\ \A f \in FeedStates' : f.id < readers'[q].event.id
                 /\ \A p \in Readers \ {q} : ~Changing(p)'
      BY <1>4, <2>1, <2>3 DEF FeedInv
    <2> QED  BY <1>1, <1>2, <1>5, <1>6, <2>1, <2>2, <2>3 DEF FeedInv
  <1> QED  BY <1>7, <1>8

LEMMA FeedStays == FeedInv /\ [FeedbackNext]_feedbackVars => FeedInv'
  <1> SUFFICES ASSUME FeedInv, [FeedbackNext]_feedbackVars
               PROVE  FeedInv'
    OBVIOUS
  <1>1. CASE UNCHANGED feedbackVars
    <2>1. FeedStates' = FeedStates /\ status' = status /\ feed' = feed /\ drawn' = drawn /\ readers' = readers
      BY <1>1 DEF feedbackVars, FeedStates
    <2>2. \A e : TopState(e)' <=> TopState(e)
      BY <2>1 DEF TopState
    <2>3. \A r \in Readers : (Changing(r)' <=> Changing(r)) /\ (Pending(r)' <=> Pending(r))
      BY <2>1 DEF Changing, Pending
    <2> QED  BY <2>1, <2>2, <2>3 DEF FeedInv
  <1>2. ASSUME NEW r \in Readers,
               \/ \E s \in FeedbackStatus : update_feedback_status(r, s)
               \/ add_feedback_event(r) \/ mark_feedback_seen(r)
        PROVE  FeedInv'
    BY <1>2, FeedReadsKeeps DEF update_feedback_status, add_feedback_event, mark_feedback_seen
  <1>3. ASSUME NEW r \in Readers, SameStatus(r) \/ Aborts(r) \/ mark_seen(r)
        PROVE  FeedInv'
    <2>1. readers' = [readers EXCEPT ![r] = NotReading] /\ UNCHANGED <<status, feed, drawn>>
      BY <1>3 DEF SameStatus, Aborts, mark_seen
    <2>2. NotReading.step # "commit"
      BY DEF NotReading
    <2> QED  BY <2>1, <2>2, ReaderGoes
  <1>4. ASSUME NEW r \in Readers, set_status(r) PROVE FeedInv'
    BY <1>4, InsertsKeeps DEF set_status
  <1>5. ASSUME NEW r \in Readers, add_event(r) PROVE FeedInv'
    BY <1>5, InsertsKeeps DEF add_event
  <1>6. ASSUME NEW r \in Readers, FeedCommits(r) PROVE FeedInv'
    BY <1>6, FeedCommitsKeeps
  <1> QED  BY <1>1, <1>2, <1>3, <1>4, <1>5, <1>6 DEF FeedbackNext

LEMMA FeedIsHistory == FeedInv => StatusFollowsFeed
  <1> SUFFICES ASSUME FeedInv, FeedStates # {}
               PROVE  status = (CHOOSE e \in FeedStates : \A f \in FeedStates : f.id <= e.id).to
    BY DEF FeedInv, StatusFollowsFeed
  <1>1. PICK top \in FeedStates : TopState(top) /\ top.to = status
    BY DEF FeedInv
  <1> DEFINE last == CHOOSE e \in FeedStates : \A f \in FeedStates : f.id <= e.id
  <1>2. last \in FeedStates /\ \A f \in FeedStates : f.id <= last.id
    BY <1>1 DEF TopState
  <1> HIDE DEF last
  <1>3. top.id <= last.id /\ last.id <= top.id /\ top.id \in Int /\ last.id \in Int
    BY <1>1, <1>2 DEF TopState, FeedInv, FeedStates
  <1>4. last = top
    BY <1>1, <1>2, <1>3 DEF FeedInv
  <1> QED  BY <1>1, <1>4 DEF last

------------------------------------------------------------------------------
(* Price lists: a column for every size of a batch                          *)

ColumnRank(priced, c) == Cardinality({d \in priced : d <= c})
NthPriced(priced, n) == CHOOSE c \in priced : ColumnRank(priced, c) = n
ColumnTier(c) == Tier(Columns[c], IF c = Len(Columns) THEN NoLimit ELSE Columns[c + 1], c)
Fitting(tier, q) == q >= tier.min /\ (tier.max = NoLimit \/ q <= tier.max)

\* Columns with a price are counted from the first one on.
LEMMA RanksCount ==
    ASSUME NEW size \in Nat, NEW priced \in SUBSET (1..size)
    PROVE  /\ IsFiniteSet(priced) /\ Cardinality(priced) \in Nat
           /\ \A c \in priced : ColumnRank(priced, c) \in 1..Cardinality(priced)
           /\ \A c, d \in priced : c < d => ColumnRank(priced, c) < ColumnRank(priced, d)
           /\ \A n \in 1..Cardinality(priced) : NthPriced(priced, n) \in priced /\ ColumnRank(priced, NthPriced(priced, n)) = n
           /\ \A c \in priced : NthPriced(priced, ColumnRank(priced, c)) = c
  <1> DEFINE count == Cardinality(priced)
             Upto(c) == {d \in priced : d <= c}
  <1>1. IsFiniteSet(1..size)
    BY FS_Interval
  <1>2. IsFiniteSet(priced) /\ count \in Nat
    BY <1>1, FS_Subset, FS_CardinalityType
  <1>3. \A S \in SUBSET priced : IsFiniteSet(S) /\ Cardinality(S) \in Nat /\ Cardinality(S) <= count
    BY <1>2, FS_Subset, FS_CardinalityType
  <1>4. \A c \in priced : ColumnRank(priced, c) \in 1..count
    <2>1. ASSUME NEW c \in priced PROVE ColumnRank(priced, c) \in 1..count
      <3>1. Upto(c) \in SUBSET priced /\ c \in Upto(c) /\ ColumnRank(priced, c) = Cardinality(Upto(c))
        BY DEF ColumnRank
      <3> HIDE DEF Upto
      <3>2. Cardinality(Upto(c)) # 0
        BY <1>3, <3>1, FS_EmptySet
      <3> HIDE DEF count
      <3>3. Cardinality(Upto(c)) \in Nat /\ Cardinality(Upto(c)) <= count
        BY <1>3, <3>1
      <3> QED  BY <1>2, <3>1, <3>2, <3>3
    <2> QED  BY <2>1
  <1>5. \A c, d \in priced : c < d => ColumnRank(priced, c) < ColumnRank(priced, d)
    <2>1. ASSUME NEW c \in priced, NEW d \in priced, c < d PROVE ColumnRank(priced, c) < ColumnRank(priced, d)
      <3>1. Upto(c) \in SUBSET Upto(d) /\ Upto(d) \in SUBSET priced /\ d \in Upto(d) /\ d \notin Upto(c)
        <4>1. \A e \in priced : e \in Int
          OBVIOUS
        <4>2. \A e \in priced : e <= c => e <= d
          BY <2>1, <4>1
        <4>3. d <= d /\ ~(d <= c)
          BY <2>1, <4>1
        <4>4. Upto(c) \in SUBSET Upto(d)
          BY <4>2
        <4>5. Upto(d) \in SUBSET priced
          OBVIOUS
        <4> QED  BY <4>3, <4>4, <4>5
      <3>2. ColumnRank(priced, c) = Cardinality(Upto(c)) /\ ColumnRank(priced, d) = Cardinality(Upto(d))
        BY DEF ColumnRank
      <3> HIDE DEF Upto, count
      <3>3. IsFiniteSet(Upto(d)) /\ Cardinality(Upto(c)) \in Nat /\ Cardinality(Upto(d)) \in Nat
        BY <1>3, <3>1
      <3>4. Cardinality(Upto(c)) <= Cardinality(Upto(d)) /\ (Cardinality(Upto(d)) = Cardinality(Upto(c)) => Upto(d) = Upto(c))
        BY <3>1, <3>3, FS_Subset
      <3>5. Cardinality(Upto(d)) # Cardinality(Upto(c))
        BY <3>1, <3>4
      <3> QED  BY <3>2, <3>3, <3>4, <3>5
    <2> QED  BY <2>1
  <1>6. \A c, d \in priced : ColumnRank(priced, c) = ColumnRank(priced, d) => c = d
    <2>1. ASSUME NEW c \in priced, NEW d \in priced, ColumnRank(priced, c) = ColumnRank(priced, d) PROVE c = d
      <3>1. ColumnRank(priced, c) \in Int /\ c \in Int /\ d \in Int
        BY <1>4
      <3>2. ~(c < d) /\ ~(d < c)
        BY <1>5, <2>1, <3>1
      <3> QED  BY <3>1, <3>2
    <2> QED  BY <2>1
  <1>7. ASSUME NEW n \in 1..count PROVE \E c \in priced : ColumnRank(priced, c) = n
    <2> DEFINE f == [c \in priced |-> ColumnRank(priced, c)]
    <2>1. f \in [priced -> 1..count]
      BY <1>4
    <2>2. f \in Injection(priced, 1..count)
      BY <1>6, <2>1 DEF Injection, IsInjective
    <2> HIDE DEF count
    <2>3. IsFiniteSet(1..count) /\ Cardinality(1..count) = count
      BY <1>2, FS_Interval
    <2> HIDE DEF f
    <2>4. f \in Surjection(priced, 1..count)
      BY <2>2, <2>3, FS_Injection DEF count
    <2>5. \E c \in priced : f[c] = n
      BY <1>7, <2>4 DEF Surjection
    <2> QED  BY <2>5 DEF f
  <1>8. ASSUME NEW n \in 1..count PROVE NthPriced(priced, n) \in priced /\ ColumnRank(priced, NthPriced(priced, n)) = n
    BY <1>7 DEF NthPriced
  <1>9. ASSUME NEW c \in priced PROVE NthPriced(priced, ColumnRank(priced, c)) = c
    BY <1>4, <1>6, <1>8
  <1> QED  BY <1>2, <1>4, <1>5, <1>8, <1>9

LEMMA TiersAre ==
    ASSUME NEW priced \in SUBSET DOMAIN Columns
    PROVE  /\ DOMAIN build_price_rows(priced) = 1..Cardinality(priced)
           /\ \A n \in 1..Cardinality(priced) : build_price_rows(priced)[n] = ColumnTier(NthPriced(priced, n))
  BY DEF build_price_rows, ColumnTier, NthPriced, ColumnRank

LEMMA ColumnsAre ==
    /\ MaxQty \in Nat /\ Len(Columns) \in Nat /\ DOMAIN Columns = 1..Len(Columns)
    /\ \A c \in DOMAIN Columns : Columns[c] \in 0..MaxQty
    /\ \A c, d \in DOMAIN Columns : c < d => Columns[c] < Columns[d]
  BY ColumnsAssumption

LEMMA ColumnFits ==
    ASSUME NEW c \in DOMAIN Columns, NEW q \in 0..MaxQty
    PROVE  /\ ColumnTier(c).price = c
           /\ Fitting(ColumnTier(c), q) <=> Columns[c] <= q /\ (c = Len(Columns) \/ q <= Columns[c + 1])
  <1> DEFINE top == IF c = Len(Columns) THEN NoLimit ELSE Columns[c + 1]
  <1>1. ColumnTier(c).min = Columns[c] /\ ColumnTier(c).max = top /\ ColumnTier(c).price = c
    BY DEF ColumnTier, Tier
  <1>2. c # Len(Columns) => c + 1 \in DOMAIN Columns /\ Columns[c + 1] \in 0..MaxQty
    BY ColumnsAre
  <1>3. Columns[c] \in Int /\ q \in Int /\ MaxQty \in Nat
    BY ColumnsAre
  <1>4. CASE c = Len(Columns)
    BY <1>1, <1>3, <1>4 DEF Fitting
  <1>5. CASE c # Len(Columns)
    <2>1. top = Columns[c + 1] /\ Columns[c + 1] \in 0..MaxQty
      BY <1>2, <1>5
    <2>2. top # NoLimit
      BY <1>3, <2>1 DEF NoLimit
    <2> QED  BY <1>1, <1>3, <1>5, <2>1, <2>2 DEF Fitting
  <1> QED  BY <1>4, <1>5

\* The first tier that fits gives the price.
LEMMA FirstFit ==
    ASSUME NEW tiers, NEW q, DOMAIN tiers \subseteq Nat, NEW n \in DOMAIN tiers, Fitting(tiers[n], q),
           \A m \in DOMAIN tiers : Fitting(tiers[m], q) => n <= m
    PROVE  price_for_qty(tiers, q) = tiers[n].price
  <1> DEFINE fitting == {m \in DOMAIN tiers : q >= tiers[m].min /\ (tiers[m].max = NoLimit \/ q <= tiers[m].max)}
  <1>1. n \in fitting /\ \A m \in fitting : n <= m
    BY DEF Fitting
  <1>2. fitting \subseteq Nat
    OBVIOUS
  <1>3. price_for_qty(tiers, q) = IF fitting = {} THEN NoPrice ELSE tiers[Min(fitting)].price
    BY DEF price_for_qty
  <1> HIDE DEF fitting
  <1>4. Min(fitting) \in fitting /\ \A m \in fitting : Min(fitting) <= m
    BY <1>1 DEF Min
  <1>5. Min(fitting) = n
    <2>1. Min(fitting) <= n /\ n <= Min(fitting) /\ n \in Nat /\ Min(fitting) \in Nat
      BY <1>1, <1>2, <1>4
    <2> QED  BY <2>1
  <1> QED  BY <1>1, <1>3, <1>5

LEMMA NoFit ==
    ASSUME NEW tiers, NEW q, \A m \in DOMAIN tiers : ~Fitting(tiers[m], q)
    PROVE  price_for_qty(tiers, q) = NoPrice
  BY DEF price_for_qty, Fitting

\* The nearest column below a quantity.
LEMMA NearestBelow ==
    ASSUME NEW q \in 0..MaxQty, {c \in DOMAIN Columns : Columns[c] < q} # {}
    PROVE  LET b == Max({c \in DOMAIN Columns : Columns[c] < q})
           IN  b \in DOMAIN Columns /\ Columns[b] < q /\ \A c \in DOMAIN Columns : Columns[c] < q => c <= b
  <1> DEFINE below == {c \in DOMAIN Columns : Columns[c] < q}
             size == Len(Columns)
             b == Cardinality(below)
  <1>1. size \in Nat /\ DOMAIN Columns = 1..size
    BY ColumnsAre
  <1>2. below \subseteq 1..size /\ below # {}
    BY <1>1
  <1>3. ASSUME NEW c \in below, NEW d \in 1..c PROVE d \in below
    <2>1. d \in DOMAIN Columns /\ c \in DOMAIN Columns /\ Columns[c] < q /\ (d = c \/ d < c)
      BY <1>1
    <2> QED  BY <2>1, ColumnsAre
  <1> HIDE DEF below, size
  <1>4. IsFiniteSet(below) /\ b \in Nat /\ b # 0
    <2>1. IsFiniteSet(1..size)
      BY <1>1, FS_Interval
    <2>2. IsFiniteSet(below)
      BY <1>2, <2>1, FS_Subset
    <2>3. b \in Nat
      BY <2>2, FS_CardinalityType
    <2>4. b # 0
      BY <1>2, <2>2, FS_EmptySet
    <2> QED  BY <2>2, <2>3, <2>4
  <1>5. ASSUME NEW c \in below PROVE c <= b
    <2>1. c \in 1..size /\ (1..c) \in SUBSET below
      BY <1>2, <1>3
    <2>2. Cardinality(1..c) = c
      BY <1>1, <2>1, FS_Interval
    <2> QED  BY <1>4, <2>1, <2>2, FS_Subset
  <1>6. b \in below
    <2> SUFFICES ASSUME b \notin below PROVE FALSE
      OBVIOUS
    <2>1. ASSUME NEW c \in below PROVE c \in 1..(b - 1)
      <3>1. c <= b /\ c # b /\ c \in 1..size
        BY <1>2, <1>5
      <3> QED  BY <1>1, <1>4, <3>1
    <2>2. below \in SUBSET (1..(b - 1))
      BY <2>1
    <2>3. IsFiniteSet(1..(b - 1)) /\ Cardinality(1..(b - 1)) = b - 1
      <3> HIDE DEF b
      <3>1. 1 \in Int /\ b - 1 \in Int
        BY <1>4
      <3>2. IsFiniteSet(1..(b - 1)) /\ Cardinality(1..(b - 1)) = IF 1 > b - 1 THEN 0 ELSE (b - 1) - 1 + 1
        BY <3>1, FS_Interval
      <3> QED  BY <1>4, <3>2
    <2>4. b <= b - 1
      BY <2>2, <2>3, FS_Subset
    <2> QED  BY <1>4, <2>4
  <1> HIDE DEF b
  <1>7. Max(below) \in below /\ \A c \in below : Max(below) >= c
    BY <1>4, <1>5, <1>6 DEF Max
  <1>8. Max(below) \in Int /\ below \subseteq Int
    <2>1. below \subseteq Int
      BY <1>2
    <2> QED  BY <1>7, <2>1
  <1> QED  BY <1>7, <1>8 DEF below

\* A row of the table quotes what its columns say: of any columns and any quantity.
LEMMA ColumnsQuote ==
    ASSUME NEW priced \in SUBSET DOMAIN Columns, NEW q \in 0..MaxQty
    PROVE  price_for_qty(build_price_rows(priced), q) = Quoted(priced, q)
  <1> DEFINE tiers == build_price_rows(priced)
             count == Cardinality(priced)
             below == {c \in DOMAIN Columns : Columns[c] < q}
             own == {c \in priced : Columns[c] = q}
  <1>1. /\ DOMAIN tiers = 1..count /\ count \in Nat
        /\ \A n \in 1..count : tiers[n] = ColumnTier(NthPriced(priced, n)) /\ NthPriced(priced, n) \in priced
                               /\ ColumnRank(priced, NthPriced(priced, n)) = n
        /\ \A c \in priced : ColumnRank(priced, c) \in 1..count /\ NthPriced(priced, ColumnRank(priced, c)) = c
        /\ \A c, d \in priced : c < d => ColumnRank(priced, c) < ColumnRank(priced, d)
    BY TiersAre, RanksCount, ColumnsAre
  <1>2. \A c \in priced : c \in DOMAIN Columns /\ c \in 1..Len(Columns) /\ Columns[c] \in 0..MaxQty
    BY ColumnsAre
  <1>3. \A n \in 1..count : tiers[n].price = NthPriced(priced, n)
    BY <1>1, <1>2, ColumnFits
  <1> HIDE DEF tiers, count
  <1>4. Quoted(priced, q) = IF below # {} /\ Max(below) \in priced THEN Max(below)
                            ELSE IF own # {} THEN Min(own) ELSE NoPrice
    BY DEF Quoted
  \* what a fitting column is
  <1>5. ASSUME NEW c \in priced, Fitting(ColumnTier(c), q)
        PROVE  Columns[c] = q \/ (below # {} /\ c = Max(below))
    <2>1. Columns[c] <= q /\ (c = Len(Columns) \/ q <= Columns[c + 1])
      BY <1>2, <1>5, ColumnFits
    <2>2. CASE Columns[c] = q
      BY <2>2
    <2>3. CASE Columns[c] # q
      <3>1. Columns[c] < q /\ c \in below
        BY <1>2, <2>1, <2>3
      <3>2. LET b == Max(below) IN b \in DOMAIN Columns /\ Columns[b] < q /\ c <= b
        BY <1>2, <3>1, NearestBelow
      <3> DEFINE b == Max(below)
      <3> HIDE DEF b
      <3>3. b \in DOMAIN Columns /\ Columns[b] < q /\ c <= b
        BY <3>2 DEF b
      <3>4. ~(c < b)
        <4>1. SUFFICES ASSUME c < b PROVE FALSE
          OBVIOUS
        <4>2. c # Len(Columns) /\ c + 1 <= b /\ c + 1 \in DOMAIN Columns
          BY <1>2, <3>3, <4>1, ColumnsAre
        <4>3. Columns[c + 1] <= Columns[b]
          BY <3>3, <4>2, ColumnsAre
        <4> QED  BY <2>1, <3>3, <4>2, <4>3, ColumnsAre
      <3>5. c = b
        BY <1>2, <3>3, <3>4, ColumnsAre
      <3> QED  BY <3>1, <3>5 DEF b
    <2> QED  BY <2>2, <2>3
  <1>6. CASE below # {} /\ Max(below) \in priced
    <2>1. PICK b : b = Max(below)
      OBVIOUS
    <2>2. b \in priced /\ Columns[b] < q /\ \A c \in DOMAIN Columns : Columns[c] < q => c <= b
      BY <1>6, <2>1, NearestBelow
    <2>3. Fitting(ColumnTier(b), q)
      <3>1. b = Len(Columns) \/ q <= Columns[b + 1]
        <4>1. SUFFICES ASSUME b # Len(Columns), ~(q <= Columns[b + 1]) PROVE FALSE
          OBVIOUS
        <4>2. b + 1 \in DOMAIN Columns /\ Columns[b + 1] \in 0..MaxQty
          BY <1>2, <2>2, <4>1, ColumnsAre
        <4>3. Columns[b + 1] < q
          BY <4>1, <4>2
        <4> QED  BY <1>2, <2>2, <4>2, <4>3
      <3> QED  BY <1>2, <2>2, <3>1, ColumnFits
    <2> DEFINE n == ColumnRank(priced, b)
    <2>4. n \in 1..count /\ tiers[n] = ColumnTier(b) /\ tiers[n].price = b
      BY <1>1, <1>3, <2>2
    <2>5. ASSUME NEW m \in 1..count, Fitting(tiers[m], q) PROVE n <= m
      <3>1. PICK c \in priced : c = NthPriced(priced, m) /\ m = ColumnRank(priced, c) /\ Fitting(ColumnTier(c), q)
        BY <1>1, <2>5
      <3>2. c = b \/ Columns[c] = q
        BY <1>5, <2>1, <3>1
      <3>3. ~(c < b)
        BY <1>2, <2>2, <3>2, ColumnsAre
      <3>4. c = b \/ b < c
        BY <1>2, <2>2, <3>3
      <3> QED  BY <1>1, <2>2, <2>4, <3>1, <3>4
    <2> HIDE DEF n
    <2>6. price_for_qty(tiers, q) = b
      BY <1>1, <2>3, <2>4, <2>5, FirstFit
    <2> QED  BY <1>4, <1>6, <2>1, <2>6 DEF tiers
  <1>7. CASE ~(below # {} /\ Max(below) \in priced) /\ own # {}
    <2>1. PICK o \in own : TRUE
      BY <1>7
    <2>2. o \in priced /\ Columns[o] = q
      OBVIOUS
    <2>3. \A c \in own : c = o
      BY <1>2, <2>2, ColumnsAre
    <2>4. Min(own) = o
      <3>1. o \in own /\ \A c \in own : o <= c
        BY <1>2, <2>2, <2>3, ColumnsAre
      <3>2. Min(own) \in own
        BY <3>1 DEF Min
      <3> QED  BY <2>3, <3>2
    <2>5. Fitting(ColumnTier(o), q)
      <3>1. o # Len(Columns) => o + 1 \in DOMAIN Columns /\ Columns[o] < Columns[o + 1] /\ Columns[o + 1] \in 0..MaxQty
        BY <1>2, <2>2, ColumnsAre
      <3>2. q <= Columns[o] /\ Columns[o] <= q /\ (o = Len(Columns) \/ q <= Columns[o + 1])
        BY <1>2, <2>2, <3>1
      <3> QED  BY <1>2, <2>2, <3>2, ColumnFits
    <2> DEFINE n == ColumnRank(priced, o)
    <2>6. n \in 1..count /\ tiers[n] = ColumnTier(o) /\ tiers[n].price = o
      BY <1>1, <1>3, <2>2
    <2>7. ASSUME NEW m \in 1..count, Fitting(tiers[m], q) PROVE n <= m
      <3>1. PICK c \in priced : c = NthPriced(priced, m) /\ m = ColumnRank(priced, c) /\ Fitting(ColumnTier(c), q)
        BY <1>1, <2>7
      <3>2. Columns[c] = q
        BY <1>5, <1>7, <3>1
      <3>3. c = o
        BY <2>3, <3>1, <3>2
      <3> QED  BY <2>6, <3>1, <3>3
    <2> HIDE DEF n
    <2>8. price_for_qty(tiers, q) = o
      BY <1>1, <2>5, <2>6, <2>7, FirstFit
    <2> QED  BY <1>4, <1>7, <2>4, <2>8 DEF tiers
  <1>8. CASE ~(below # {} /\ Max(below) \in priced) /\ own = {}
    <2>1. ASSUME NEW m \in 1..count, Fitting(tiers[m], q) PROVE FALSE
      <3>1. PICK c \in priced : Fitting(ColumnTier(c), q)
        BY <1>1, <2>1
      <3>2. Columns[c] = q
        BY <1>5, <1>8, <3>1
      <3> QED  BY <1>8, <3>1, <3>2
    <2>2. price_for_qty(tiers, q) = NoPrice
      BY <1>1, <2>1, NoFit
    <2> QED  BY <1>4, <1>8, <2>2 DEF tiers
  <1> QED  BY <1>6, <1>7, <1>8

AllTiers == {build_price_rows(priced) : priced \in SUBSET DOMAIN Columns} \cup ByHand
PriceRows == [tiers : AllTiers, category : {NoCategory, "imported", "chosen", "guessed"}, lead : BOOLEAN,
              priced : SUBSET DOMAIN Columns]

\* A row that was not made by hand since is as it was built.
AsBuilt(row) ==
    /\ _validate_price_item(row.tiers)
    /\ row.priced # {} => row.tiers = build_price_rows(row.priced)

PricesKept ==
    /\ items = [i \in DOMAIN items |-> items[i]]
    /\ \A i \in DOMAIN items : items[i] \in PriceRows /\ AsBuilt(items[i])

LEMMA BuiltIsPriced ==
    ASSUME NEW priced \in SUBSET DOMAIN Columns, priced # {}
    PROVE  _validate_price_item(build_price_rows(priced))
  <1> DEFINE tiers == build_price_rows(priced)
             c == NthPriced(priced, 1)
  <1>1. DOMAIN tiers = 1..Cardinality(priced) /\ \A n \in 1..Cardinality(priced) : tiers[n] = ColumnTier(NthPriced(priced, n))
    BY TiersAre
  <1>2. /\ IsFiniteSet(priced) /\ Cardinality(priced) \in Nat
        /\ \A n \in 1..Cardinality(priced) : NthPriced(priced, n) \in priced
    BY RanksCount, ColumnsAre
  <1>3. Cardinality(priced) # 0
    BY <1>2, FS_EmptySet
  <1>4. 1 \in 1..Cardinality(priced)
    BY <1>2, <1>3
  <1>5. tiers[1] = ColumnTier(c) /\ c \in DOMAIN Columns /\ c \in 1..Len(Columns)
    BY <1>1, <1>2, <1>4, ColumnsAre
  <1>6. ColumnTier(c).price = c
    BY DEF ColumnTier, Tier
  <1> HIDE DEF tiers, c
  <1>7. 1 \in DOMAIN tiers /\ tiers[1].price # NoPrice
    BY <1>1, <1>4, <1>5, <1>6 DEF NoPrice
  <1> QED  BY <1>7 DEF _validate_price_item, tiers

LEMMA AddsKeeps ==
    ASSUME PricesKept, NEW row \in PriceRows, AsBuilt(row), Adds(row)
    PROVE  PricesKept'
  <1>1. items' = [i \in DOMAIN items \cup {rowsMade + 1} |-> IF i \in DOMAIN items THEN items[i] ELSE row]
    BY DEF Adds
  <1>2. \A i \in DOMAIN items' : items'[i] = row \/ (i \in DOMAIN items /\ items'[i] = items[i])
    BY <1>1
  <1>3. items' = [i \in DOMAIN items' |-> items'[i]]
    BY <1>1
  <1>4. \A i \in DOMAIN items' : items'[i] \in PriceRows /\ AsBuilt(items'[i])
    BY <1>2 DEF PricesKept
  <1>5. \A i \in DOMAIN items' : AsBuilt(items[i])'
    BY <1>4 DEF AsBuilt
  <1> QED  BY <1>3, <1>4, <1>5 DEF PricesKept

\* Rows of which some go and the others change in their category or lead alone.
LEMMA SomeChange ==
    ASSUME PricesKept, items' = [i \in DOMAIN items' |-> items'[i]], DOMAIN items' \subseteq DOMAIN items,
           \A i \in DOMAIN items' : /\ items'[i] \in PriceRows
                                    /\ items'[i].tiers = items[i].tiers /\ items'[i].priced = items[i].priced
    PROVE  PricesKept'
  BY DEF PricesKept, AsBuilt

LEMMA ByHandIs == ByHand \subseteq AllTiers /\ Single \in ByHand /\ _validate_price_item(Single)
  <1>1. Single[1].price = 1 /\ 1 \in DOMAIN Single
    BY DEF Single, Tier
  <1> QED  BY <1>1 DEF AllTiers, ByHand, _validate_price_item, NoPrice

LEMMA UpdateKeeps ==
    ASSUME PricesKept, NEW i \in DOMAIN items, update_price_item(i)
    PROVE  PricesKept'
  <1>1. items[i] \in PriceRows
    BY DEF PricesKept
  <1>2. CASE \E tiers \in ByHand : _validate_price_item(tiers)
                /\ items' = [items EXCEPT ![i].tiers = tiers, ![i].priced = {}]
    <2>1. PICK tiers \in ByHand : _validate_price_item(tiers)
                /\ items' = [items EXCEPT ![i].tiers = tiers, ![i].priced = {}]
      BY <1>2
    <2> DEFINE half == [items[i] EXCEPT !.tiers = tiers]
               row == [half EXCEPT !.priced = {}]
    <2>2. half \in PriceRows /\ half.tiers = tiers
      BY <1>1, ByHandIs DEF PriceRows
    <2> HIDE DEF half
    <2>3. row \in PriceRows /\ row.tiers = tiers /\ row.priced = {}
      BY <2>2 DEF PriceRows
    <2>4. items' = [items EXCEPT ![i] = row]
      BY <2>1 DEF half, PricesKept
    <2>5. AsBuilt(row)
      BY <2>1, <2>3 DEF AsBuilt
    <2> HIDE DEF row
    <2>6. items' = [j \in DOMAIN items' |-> items'[j]] /\ DOMAIN items' = DOMAIN items
          /\ \A j \in DOMAIN items : items'[j] = row \/ items'[j] = items[j]
      BY <2>4 DEF PricesKept
    <2>7. \A j \in DOMAIN items' : items'[j] \in PriceRows /\ AsBuilt(items'[j])
      BY <2>3, <2>5, <2>6 DEF PricesKept
    <2>8. \A j \in DOMAIN items' : AsBuilt(items[j])'
      BY <2>7 DEF AsBuilt
    <2> QED  BY <2>6, <2>7, <2>8 DEF PricesKept
  <1>3. ASSUME NEW row \in PriceRows, items' = [items EXCEPT ![i] = row],
               row.tiers = items[i].tiers, row.priced = items[i].priced
        PROVE  PricesKept'
    <2>1. items' = [j \in DOMAIN items' |-> items'[j]] /\ DOMAIN items' = DOMAIN items
          /\ items'[i] = row /\ \A j \in DOMAIN items \ {i} : items'[j] = items[j]
      BY <1>3 DEF PricesKept
    <2>2. \A j \in DOMAIN items' : /\ items'[j] \in PriceRows
                                   /\ items'[j].tiers = items[j].tiers /\ items'[j].priced = items[j].priced
      BY <1>3, <2>1 DEF PricesKept
    <2> QED  BY <2>1, <2>2, SomeChange
  <1>4. CASE \E category \in {NoCategory, "chosen"} : items' = [items EXCEPT ![i].category = category]
    <2>1. PICK category \in {NoCategory, "chosen"} : items' = [items EXCEPT ![i].category = category]
      BY <1>4
    <2> DEFINE row == [items[i] EXCEPT !.category = category]
    <2>2. row \in PriceRows /\ row.tiers = items[i].tiers /\ row.priced = items[i].priced
      BY <1>1 DEF PriceRows
    <2>3. items' = [items EXCEPT ![i] = row]
      BY <2>1
    <2> HIDE DEF row
    <2> QED  BY <1>3, <2>2, <2>3
  <1>5. CASE \E lead \in BOOLEAN : items' = [items EXCEPT ![i].lead = lead]
    <2>1. PICK lead \in BOOLEAN : items' = [items EXCEPT ![i].lead = lead]
      BY <1>5
    <2> DEFINE row == [items[i] EXCEPT !.lead = lead]
    <2>2. row \in PriceRows /\ row.tiers = items[i].tiers /\ row.priced = items[i].priced
      BY <1>1 DEF PriceRows
    <2>3. items' = [items EXCEPT ![i] = row]
      BY <2>1
    <2> HIDE DEF row
    <2> QED  BY <1>3, <2>2, <2>3
  <1> QED  BY <1>2, <1>4, <1>5 DEF update_price_item

LEMMA AssignKeeps ==
    ASSUME PricesKept, NEW f \in Fillers, ai_assign_categories(f)
    PROVE  PricesKept'
  <1>1. PICK sure :
        items' = IF sure \subseteq DOMAIN items
                 THEN [i \in DOMAIN items |-> IF i \in sure THEN [items[i] EXCEPT !.category = "guessed"] ELSE items[i]]
                 ELSE items
    BY DEF ai_assign_categories
  <1>2. \A row \in PriceRows : LET new == [row EXCEPT !.category = "guessed"]
                               IN  new \in PriceRows /\ new.tiers = row.tiers /\ new.priced = row.priced
    BY DEF PriceRows
  <1>3. items' = [i \in DOMAIN items' |-> items'[i]] /\ DOMAIN items' = DOMAIN items
    BY <1>1 DEF PricesKept
  <1>4. \A i \in DOMAIN items : items'[i] = items[i] \/ items'[i] = [items[i] EXCEPT !.category = "guessed"]
    BY <1>1
  <1>5. \A i \in DOMAIN items' : /\ items'[i] \in PriceRows
                                 /\ items'[i].tiers = items[i].tiers /\ items'[i].priced = items[i].priced
    BY <1>2, <1>3, <1>4 DEF PricesKept
  <1> QED  BY <1>3, <1>5, SomeChange

LEMMA ImportKeeps ==
    ASSUME PricesKept, import_price_list \/ add_price_item
    PROVE  PricesKept'
  <1>1. ASSUME NEW tiers \in AllTiers, NEW category \in {NoCategory, "imported"}, NEW lead \in BOOLEAN,
               NEW priced \in SUBSET DOMAIN Columns, _validate_price_item(tiers),
               priced # {} => tiers = build_price_rows(priced), Adds(PriceRow(tiers, category, lead, priced))
        PROVE  PricesKept'
    <2>1. PriceRow(tiers, category, lead, priced) \in PriceRows
      BY DEF PriceRow, PriceRows
    <2>2. AsBuilt(PriceRow(tiers, category, lead, priced))
      BY <1>1 DEF AsBuilt, PriceRow
    <2> QED  BY <1>1, <2>1, <2>2, AddsKeeps
  <1>2. CASE add_price_item
    <2>1. PICK tiers \in ByHand : _validate_price_item(tiers) /\ Adds(PriceRow(tiers, NoCategory, FALSE, {}))
      BY <1>2 DEF add_price_item
    <2>2. tiers \in AllTiers /\ _validate_price_item(tiers)
      BY <2>1, ByHandIs
    <2>3. {} \in SUBSET DOMAIN Columns /\ NoCategory \in {NoCategory, "imported"} /\ FALSE \in BOOLEAN
      OBVIOUS
    <2>4. Adds(PriceRow(tiers, NoCategory, FALSE, {}))
      BY <2>1
    <2>5. PriceRow(tiers, NoCategory, FALSE, {}) \in PriceRows
      BY <2>2 DEF PriceRow, PriceRows
    <2>6. AsBuilt(PriceRow(tiers, NoCategory, FALSE, {}))
      BY <2>2 DEF AsBuilt, PriceRow
    <2> QED  BY <2>4, <2>5, <2>6, AddsKeeps
  <1>3. CASE import_price_list
    <2>1. PICK lead \in BOOLEAN, category \in {NoCategory, "imported"} :
              \/ \E priced \in SUBSET DOMAIN Columns :
                    IF priced = {} THEN UNCHANGED <<items, rowsMade>>
                    ELSE Adds(PriceRow(build_price_rows(priced), category, lead, priced))
              \/ Adds(PriceRow(Single, category, lead, {}))
      BY <1>3 DEF import_price_list
    <2>2. CASE Adds(PriceRow(Single, category, lead, {}))
      <3>1. Single \in AllTiers /\ _validate_price_item(Single)
        BY ByHandIs
      <3> QED  BY <1>1, <2>2, <3>1
    <2>3. ASSUME NEW priced \in SUBSET DOMAIN Columns,
                 IF priced = {} THEN UNCHANGED <<items, rowsMade>>
                 ELSE Adds(PriceRow(build_price_rows(priced), category, lead, priced))
          PROVE  PricesKept'
      <3>1. CASE priced = {}
        BY <2>3, <3>1, SomeChange DEF PricesKept
      <3>2. CASE priced # {}
        <4>1. build_price_rows(priced) \in AllTiers /\ _validate_price_item(build_price_rows(priced))
          BY <3>2, BuiltIsPriced DEF AllTiers
        <4> QED  BY <1>1, <2>3, <3>2, <4>1
      <3> QED  BY <3>1, <3>2
    <2> QED  BY <2>1, <2>2, <2>3
  <1> QED  BY <1>2, <1>3

LEMMA PricesStay == PricesKept /\ [PricesNext]_priceVars => PricesKept'
  <1> SUFFICES ASSUME PricesKept, [PricesNext]_priceVars
               PROVE  PricesKept'
    OBVIOUS
  <1>1. ASSUME items' = items PROVE PricesKept'
    BY <1>1, SomeChange DEF PricesKept
  <1>2. ASSUME items' = [i \in {} |-> NoCategory] PROVE PricesKept'
    BY <1>2 DEF PricesKept
  <1>3. CASE UNCHANGED priceVars
    BY <1>1, <1>3 DEF priceVars
  <1>4. CASE create_backfill_task \/ link_max_chat \/ OrderIsWritten \/ delete_supplier
             \/ \E f \in Fillers : ai_fill_categories(f)
    BY <1>1, <1>4 DEF create_backfill_task, link_max_chat, OrderIsWritten, delete_supplier, ai_fill_categories
  <1>5. CASE SupplierGoes
    BY <1>1, <1>2, <1>5 DEF SupplierGoes
  <1>6. ASSUME NEW i \in DOMAIN items, delete_price_item(i) PROVE PricesKept'
    <2>1. items' = [j \in DOMAIN items \ {i} |-> items[j]]
      BY <1>6 DEF delete_price_item, WithoutRow
    <2>2. items' = [j \in DOMAIN items' |-> items'[j]] /\ DOMAIN items' \subseteq DOMAIN items
          /\ \A j \in DOMAIN items' : items'[j] = items[j]
      BY <2>1
    <2>3. \A j \in DOMAIN items' : items'[j] \in PriceRows
      BY <2>2 DEF PricesKept
    <2> QED  BY <2>2, <2>3, SomeChange
  <1> QED  BY <1>3, <1>4, <1>5, <1>6, UpdateKeeps, AssignKeeps, ImportKeeps DEF PricesNext

LEMMA KeptPricesQuote == PricesKept => RowsQuoteTheirColumns
  <1> SUFFICES ASSUME PricesKept, NEW i \in DOMAIN items
               PROVE  /\ _validate_price_item(items[i].tiers)
                      /\ items[i].priced # {} =>
                            \A q \in 0..MaxQty : price_for_qty(items[i].tiers, q) = Quoted(items[i].priced, q)
    BY DEF RowsQuoteTheirColumns
  <1>1. items[i].priced \in SUBSET DOMAIN Columns /\ AsBuilt(items[i])
    BY DEF PricesKept, PriceRows
  <1> QED  BY <1>1, ColumnsQuote DEF AsBuilt

(***************************************************************************)
(* Every row of a price list has a price, and a row that came from a table *)
(* quotes for every quantity what its columns say, of any table and        *)
(* whatever people and the model do to the rows meanwhile                  *)
(* (warehouse/price_import.py, warehouse/service.py).                      *)
(***************************************************************************)
THEOREM RowsStayAsBuilt == PricesSpec => []RowsQuoteTheirColumns
  <1>1. PricesInit => PricesKept
    BY DEF PricesInit, PricesKept
  <1> QED  BY <1>1, PricesStay, KeptPricesQuote, PTL DEF PricesSpec

------------------------------------------------------------------------------
(* Plans of stages                                                          *)

TemplateRow == [status : {"draft", "reviewed", "confirmed"}, waits : Graph,
                norm : {"none", "model", "person"}, edits : Nat, confirmed : Nat]

\* A house that is whole, or could not be
BuiltHouse ==
    {h \in [built : {"empty", "blocks", "failed"}, waits : Graph, of : Graph] :
        /\ h.built = "blocks" => h.waits = h.of
        /\ h.built = "failed" => Circle(h.of)}

PlansInv == template \in Seq(TemplateRow) /\ house \in Seq(BuiltHouse)

\* A stage that is built no later than one it waits for is in a circle: in its
\* round nobody was ready.
LEMMA BuiltInOrder ==
    ASSUME NEW waits, waits \subseteq Stages \X Stages, NEW round \in Rounds(waits),
           NEW s \in Stages, NEW t \in Stages, <<s, t>> \in waits, ~BuiltBefore(round, t, s)
    PROVE  Circle(waits)
  <1> DEFINE n == round[s]
             left == {u \in Stages : round[u] >= n}
             ready == {u \in left : \A v \in left : <<u, v>> \notin waits}
  <1>1. /\ round \in [Stages -> 1..Cardinality(Stages)]
        /\ {u \in Stages : round[u] = n} = IF ready = {} THEN left ELSE ready
    BY DEF Rounds
  <1>2. Cardinality(Stages) \in Nat
    BY StagePlanAssumption, FS_CardinalityType
  <1>3. \A u \in Stages : round[u] \in Int
    BY <1>1, <1>2
  <1>4. s \in left /\ t \in left
    BY <1>3 DEF BuiltBefore
  <1>5. ready = {}
    <2>1. s \in {u \in Stages : round[u] = n}
      OBVIOUS
    <2>2. s \notin ready
      BY <1>4
    <2> HIDE DEF n, left, ready
    <2> QED  BY <1>1, <2>1, <2>2
  <1>6. left \in SUBSET Stages /\ \A u \in left : \E v \in left : <<u, v>> \in waits
    BY <1>5
  <1> HIDE DEF left
  <1> QED  BY <1>4, <1>6 DEF Circle

LEMMA HouseIsBuilt ==
    ASSUME NEW t \in TemplateRow, NEW round \in Rounds(t.waits)
    PROVE  instantiate_stage_plan(t, round) \in BuiltHouse
  <1> DEFINE pairs == {e \in t.waits : BuiltBefore(round, e[2], e[1])}
             new == [built |-> IF pairs = t.waits THEN "blocks" ELSE "failed", waits |-> pairs, of |-> t.waits]
  <1>1. t.waits \in Graph /\ t.waits \subseteq Stages \X Stages /\ pairs \in Graph
    BY DEF TemplateRow, Graph
  <1>2. ASSUME pairs # t.waits PROVE Circle(t.waits)
    <2>1. PICK e \in t.waits : ~BuiltBefore(round, e[2], e[1])
      BY <1>2
    <2>2. e[1] \in Stages /\ e[2] \in Stages /\ <<e[1], e[2]>> \in t.waits
      BY <1>1, <2>1
    <2> QED  BY <1>1, <2>1, <2>2, BuiltInOrder
  <1>3. new = instantiate_stage_plan(t, round)
    BY DEF instantiate_stage_plan
  <1> HIDE DEF pairs
  <1>4. new \in BuiltHouse
    BY <1>1, <1>2 DEF BuiltHouse
  <1> QED  BY <1>3, <1>4

LEMMA PlansBegin == PlanInit => PlansInv
  BY DEF PlanInit, PlansInv

\* A row of a template that is assigned some columns keeps what it waits for.
LEMMA TemplatesKeep ==
    ASSUME template \in Seq(TemplateRow), NEW i, NEW row \in TemplateRow, i \in DOMAIN template,
           template' = [template EXCEPT ![i] = row]
    PROVE  template' \in Seq(TemplateRow)
  OBVIOUS

\* The rows a correction and a confirmation write.
LEMMA RowsOfTemplates ==
    ASSUME NEW t \in TemplateRow, NEW norm \in {t.norm, "none", "person"}, NEW st \in {"reviewed", t.status}
    PROVE  /\ [t EXCEPT !.edits = @ + 1, !.norm = norm, !.status = st] \in TemplateRow
           /\ [t EXCEPT !.status = "confirmed", !.confirmed = t.edits + 1] \in TemplateRow
           /\ [t EXCEPT !.norm = "model"] \in TemplateRow
  <1>1. [t EXCEPT !.edits = @ + 1, !.norm = norm, !.status = st] \in TemplateRow
    <2>1. t.edits + 1 \in Nat /\ norm \in {"none", "model", "person"} /\ st \in {"draft", "reviewed", "confirmed"}
      BY DEF TemplateRow
    <2> QED  BY <2>1 DEF TemplateRow
  <1>2. [t EXCEPT !.status = "confirmed", !.confirmed = t.edits + 1] \in TemplateRow
    <2>1. t.edits + 1 \in Nat
      BY DEF TemplateRow
    <2> QED  BY <2>1 DEF TemplateRow
  <1>3. [t EXCEPT !.norm = "model"] \in TemplateRow
    BY DEF TemplateRow
  <1> QED  BY <1>1, <1>2, <1>3

LEMMA PlansStay == PlansInv /\ [PlanNext]_planVars => PlansInv'
  <1> SUFFICES ASSUME PlansInv, [PlanNext]_planVars PROVE PlansInv'
    OBVIOUS
  <1>1. \A i \in DOMAIN template : template[i] \in TemplateRow
    BY DEF PlansInv
  <1>2. CASE UNCHANGED <<template, house>>
    BY <1>2 DEF PlansInv
  <1>3. CASE HouseBegins
    <2>1. template' = template
      BY <1>3 DEF HouseBegins
    <2>2. ASSUME NEW h \in BuiltHouse, house' = Append(house, h) PROVE PlansInv'
      BY <2>1, <2>2 DEF PlansInv
    <2>3. [built |-> "empty", waits |-> {}, of |-> {}] \in BuiltHouse
      BY DEF BuiltHouse, Graph
    <2>4. Newest # 0 => template[Newest] \in TemplateRow
      BY DEF Newest, PlansInv
    <2> QED  BY <1>3, <2>2, <2>3, <2>4, HouseIsBuilt DEF HouseBegins
  <1>4. ASSUME NEW e \in Engineers, _persist_draft(e) PROVE PlansInv'
    <2>1. ASSUME NEW waits \in Graph, NEW norm \in {"none", "model"}
          PROVE NewDraft(waits, norm) \in TemplateRow
      BY DEF NewDraft, NoTemplate, TemplateRow
    <2>2. house' = house /\ (template' = template \/ \E row \in TemplateRow : template' = Append(template, row))
      BY <1>4, <2>1 DEF _persist_draft
    <2> QED  BY <2>2 DEF PlansInv
  <1>5. ASSUME NEW e \in Engineers, Corrected(e) \/ Confirmed(e) \/ Filled(e) PROVE PlansInv'
    <2> DEFINE i == engineer[e].on
    <2>1. house' = house
      BY <1>5 DEF Corrected, Confirmed, Filled
    <2>2. CASE i \notin DOMAIN template
      BY <1>5, <2>1, <2>2 DEF Corrected, Confirmed, Filled, PlansInv
    <2>3. CASE i \in DOMAIN template
      <3>1. template[i] \in TemplateRow
        BY <1>1, <2>3
      <3>2. ASSUME Corrected(e)
            PROVE  \E row \in TemplateRow : template' = [template EXCEPT ![i] = row]
        <4> DEFINE st == IF engineer[e].saw = "draft" THEN "reviewed" ELSE template[i].status
                   NewRow(norm) == [template[i] EXCEPT !.edits = @ + 1, !.norm = norm, !.status = st]
        <4>1. \E norm \in {template[i].norm, "none", "person"} : template' = [template EXCEPT ![i] = NewRow(norm)]
          BY <3>2, Zenon DEF Corrected
        <4>2. st \in {"reviewed", template[i].status}
          OBVIOUS
        <4> HIDE DEF st
        <4>3. \A norm \in {template[i].norm, "none", "person"} : NewRow(norm) \in TemplateRow
          BY <3>1, <4>2, RowsOfTemplates
        <4> HIDE DEF NewRow
        <4> QED  BY <4>1, <4>3
      <3>3. ASSUME Confirmed(e)
            PROVE  \E row \in TemplateRow : template' = [template EXCEPT ![i] = row]
        <4> DEFINE row == [template[i] EXCEPT !.status = "confirmed", !.confirmed = template[i].edits + 1]
        <4>1. template' = [template EXCEPT ![i] = row]
          BY <3>3 DEF Confirmed
        <4>2. row \in TemplateRow
          BY <3>1, RowsOfTemplates
        <4> HIDE DEF row
        <4> QED  BY <4>1, <4>2
      <3>4. ASSUME Filled(e)
            PROVE  \E row \in TemplateRow : template' = [template EXCEPT ![i] = row]
        <4> DEFINE row == [template[i] EXCEPT !.norm = "model"]
        <4>1. template' = template \/ template' = [template EXCEPT ![i] = row]
          BY <3>4 DEF Filled
        <4>2. template = [template EXCEPT ![i] = template[i]]
          BY DEF PlansInv
        <4>3. row \in TemplateRow
          BY <3>1, RowsOfTemplates
        <4> HIDE DEF row
        <4> QED  BY <3>1, <4>1, <4>2, <4>3
      <3> HIDE DEF i
      <3> QED  BY <1>5, <2>1, <2>3, <3>2, <3>3, <3>4, TemplatesKeep DEF PlansInv
    <2> QED  BY <2>2, <2>3
  <1>6. PlanNext \/ UNCHANGED planVars
    OBVIOUS
  <1> QED
    BY <1>2, <1>3, <1>4, <1>5, <1>6
    DEF PlanNext, planVars, run_kr_extraction, generate_or_reuse_template, Corrects, confirm_template,
        fill_quantities_from_kr, PlanBegins

(***************************************************************************)
(* A house built from a template has all its stages, each waiting for what *)
(* the template says, or could not be built because stages wait for each   *)
(* other in a circle, for any graph of stages (production/stage_plan.py).  *)
(***************************************************************************)
THEOREM PlansStayWhole == PlanSpec => []PlansAreWhole
  <1>1. PlansInv => PlansAreWhole
    <2> SUFFICES ASSUME PlansInv, NEW i \in 1..Len(house)
                 PROVE  /\ house[i].built = "blocks" => house[i].waits = house[i].of
                        /\ house[i].built = "failed" => Circle(house[i].of)
      BY DEF PlansAreWhole
    <2>1. house[i] \in BuiltHouse
      BY DEF PlansInv
    <2> QED  BY <2>1 DEF BuiltHouse
  <1> QED  BY <1>1, PlansBegin, PlansStay, PTL DEF PlanSpec

------------------------------------------------------------------------------
(* All the parts at once                                                    *)

AgentsInv == OutboxInv /\ ShiftsInv
RecordedInv == BoardInv /\ FeedInv
ClientsInv == CrmInv /\ LinkedOnce /\ RecordsInv
BooksInv == MaterialsInv /\ RecipesInv /\ HistoryInv

\* A step of the office is one of a part, and no step of the others.
LEMMA OfficePartsStep ==
    [OfficeNext]_officeVars =>
        /\ [OutboxNext]_outboxVars /\ [ShiftsNext]_shiftVars
        /\ [BoardNext]_boardVars /\ [FeedbackNext]_feedbackVars
        /\ [CrmNext]_crmVars /\ [CardNext]_cardVars /\ [RecordsNext]_recordVars
        /\ [CardsNext]_materialVars /\ [RecipesNext]_recipeVars /\ [HistoryNext]_historyVars
        /\ [PaymentsNext]_paymentVars
  <1>1. CASE UNCHANGED officeVars
    BY <1>1 DEF officeVars
  <1>2. CASE OfficeNext
    <2>1. (part = "outbox" /\ OutboxNext) \/ outboxVars' = outboxVars
      BY <1>2 DEF OfficeNext, Stays
    <2>2. (part = "shifts" /\ ShiftsNext) \/ shiftVars' = shiftVars
      BY <1>2 DEF OfficeNext, Stays
    <2>3. (part = "board" /\ BoardNext) \/ boardVars' = boardVars
      BY <1>2 DEF OfficeNext, Stays
    <2>4. (part = "feedback" /\ FeedbackNext) \/ feedbackVars' = feedbackVars
      BY <1>2 DEF OfficeNext, Stays
    <2>5. (part = "crm" /\ CrmNext) \/ crmVars' = crmVars
      BY <1>2 DEF OfficeNext, Stays
    <2>6. (part = "card" /\ CardNext) \/ cardVars' = cardVars
      BY <1>2 DEF OfficeNext, Stays
    <2>7. (part = "records" /\ RecordsNext) \/ recordVars' = recordVars
      BY <1>2 DEF OfficeNext, Stays
    <2>8. (part = "materials" /\ CardsNext) \/ materialVars' = materialVars
      BY <1>2 DEF OfficeNext, Stays
    <2>9. (part = "recipes" /\ RecipesNext) \/ recipeVars' = recipeVars
      BY <1>2 DEF OfficeNext, Stays
    <2>10. (part = "history" /\ HistoryNext) \/ historyVars' = historyVars
      BY <1>2 DEF OfficeNext, Stays
    <2>11. (part = "payments" /\ PaymentsNext) \/ paymentVars' = paymentVars
      BY <1>2 DEF OfficeNext, Stays
    <2> QED  BY <2>1, <2>2, <2>3, <2>4, <2>5, <2>6, <2>7, <2>8, <2>9, <2>10, <2>11
  <1> QED  BY <1>1, <1>2

(***************************************************************************)
(* What agents report is so: a card says that a message was sent only when *)
(* it was delivered, and a shift that passed quietly had nothing to stop   *)
(* it, with any number of administrators and proposals (agents/autonomy/   *)
(* outbox.py, agents/shift.py).                                            *)
(***************************************************************************)
THEOREM AgentsReportOnlyFacts == OfficeSpec => []AgentsReportTruly
  <1>1. OfficeInit => AgentsInv
    BY OutboxBegins, ShiftsStay DEF OfficeInit, AgentsInv
  <1>2. AgentsInv /\ [OfficeNext]_officeVars => AgentsInv'
    BY OfficePartsStep, OutboxStays, ShiftsStay DEF AgentsInv
  <1>3. AgentsInv => AgentsReportTruly
    BY QuietIsClean DEF AgentsInv, OutboxInv, AgentsReportTruly
  <1> QED  BY <1>1, <1>2, <1>3, PTL DEF OfficeSpec

(***************************************************************************)
(* Histories tell all that happened: every description of a node of the    *)
(* board is in its audit trail and a node that is gone left its row there, *)
(* requests that do not overlap keep the number of directions and settle a *)
(* proposal once, and the status of a wish is the one its feed ends with   *)
(* (board/service.py, board/council.py, feedback/service.py).              *)
(***************************************************************************)
THEOREM HistoriesStayWhole == OfficeSpec => []HistoriesAreWhole
  <1>1. OfficeInit => RecordedInv
    BY BoardBegins, FeedBegins DEF OfficeInit, RecordedInv
  <1>2. RecordedInv /\ [OfficeNext]_officeVars => RecordedInv'
    BY OfficePartsStep, BoardStays, FeedStays DEF RecordedInv
  <1>3. RecordedInv => HistoriesAreWhole
    BY BoardIsWhole, FeedIsHistory DEF RecordedInv, HistoriesAreWhole
  <1> QED  BY <1>1, <1>2, <1>3, PTL DEF OfficeSpec

(***************************************************************************)
(* Deals, clients, partners and their records tell the same of each other, *)
(* with any number of sellers, managers and cards: the board mirrors the   *)
(* tasks of an inquiry, an inquiry becomes one deal at most, a client and  *)
(* a partner are linked once, and a card that is still written was opened  *)
(* on what the deal says now (crm/service.py, clients/service.py).         *)
(***************************************************************************)
THEOREM ClientRecordsStayTrue == OfficeSpec => []ClientRecordsAgree
  <1>1. OfficeInit => ClientsInv
    BY CrmBegins, CardBegins, RecordsBegin DEF OfficeInit, ClientsInv
  <1>2. ClientsInv /\ [OfficeNext]_officeVars => ClientsInv'
    BY OfficePartsStep, CrmStays, CardStays, RecordsStay DEF ClientsInv
  <1>3. ClientsInv => ClientRecordsAgree
    BY CrmAgrees, LinkedHolds, CardsSaw DEF ClientsInv, ClientRecordsAgree
  <1> QED  BY <1>1, <1>2, <1>3, PTL DEF OfficeSpec

(***************************************************************************)
(* The books of the warehouse are true of any number of materials, recipes *)
(* and orders: lines and holds keep to the card they name, a run of a      *)
(* recipe changed the stock by what the recipe said then, and what the     *)
(* former system shipped is neither shipped nor promised again; when the   *)
(* script that takes its orders over runs beside people at work, what is   *)
(* given and promised beyond an order is no more than what the requests it *)
(* overtook took (warehouse/service.py, moysklad/recipes.py,               *)
(* sales/importer.py).                                                     *)
(***************************************************************************)
THEOREM StockBooksStayTrue == OfficeSpec => []StockBooksAgree
  <1>1. OfficeInit => BooksInv
    BY MaterialsBegin, RecipesBegin, HistoryBegins DEF OfficeInit, BooksInv
  <1>2. BooksInv /\ [OfficeNext]_officeVars => BooksInv'
    BY OfficePartsStep, MaterialsStay, RecipesStay, HistoryStays DEF BooksInv
  <1>3. BooksInv => StockBooksAgree
    BY MaterialsAgree, RecipesAreTrue, HistoryFits DEF BooksInv, StockBooksAgree
  <1> QED  BY <1>1, <1>2, <1>3, PTL DEF OfficeSpec

(***************************************************************************)
(* A request id pays once and every draft that somebody made has its open  *)
(* approval task unless the board closed it: whoever the task is given to  *)
(* may submit it, and it is done while its payment waits (tasks/           *)
(* service.py:313-317).  With any number of clerks, payments and accounts, *)
(* whatever stops on the way (accounting/service.py).                      *)
(***************************************************************************)
THEOREM PaymentsStayApproved == OfficeSpec => [](OnePaymentPerRequest /\ ApprovalsFollowDrafts)
  <1>1. OfficeInit => PaymentsInv
    BY PaymentsBegin DEF OfficeInit
  <1>2. PaymentsInv /\ [OfficeNext]_officeVars => PaymentsInv'
    BY OfficePartsStep, PaymentsStay
  <1>3. PaymentsInv => OnePaymentPerRequest /\ ApprovalsFollowDrafts
    BY DEF PaymentsInv
  <1> QED  BY <1>1, <1>2, <1>3, PTL DEF OfficeSpec
=============================================================================
