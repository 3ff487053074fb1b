------------------------------ MODULE Payments ------------------------------
(***************************************************************************)
(* Payments of the books other than what they settle with suppliers        *)
(* (accounting/service.py, payment_import.py): a payment and the task that *)
(* asks to approve it, bank statements, the kinds a language model gives   *)
(* to imported payments, the accounts of an organization and the directory *)
(* of counterparties.                                                      *)
(*                                                                         *)
(* A request that reads before it writes takes two steps, what it read is  *)
(* in job[c]; a request under a row lock takes one.  Sums, dates and texts *)
(* are left out: no property tells them apart.                             *)
(*                                                                         *)
(* After them, what the salaries show of employees.                        *)
(***************************************************************************)
EXTENDS Integers, FiniteSets, Sequences

CONSTANTS Clerks, Employees, Accounts, Parties, Lines, RequestIds, NoOne,
          MaxPayments, MaxRequests, MaxStops

ASSUME PaymentBounds ==
  /\ {MaxPayments, MaxRequests, MaxStops} \subseteq Nat
  /\ NoOne \notin Employees \cup RequestIds \cup Lines

VARIABLES payments,   \* the rows of money_movements, by id
          made,       \* ids given out
          approvals,  \* payments whose approval task is open
          submitted,  \* history: those whose task was submitted on the board
          accounts,   \* bank accounts of the one organization
          directory,  \* how many rows the directory has of a party
          job,        \* what a clerk's request has read and not yet written
          started, stops

paymentVars == <<payments, made, approvals, submitted, accounts, directory, job, started, stops>>

RequiredSource ==
  [sale_income |-> "client", salary_payout |-> "employee", tax |-> "none", other_expense |-> "none"]

Subkinds == DOMAIN RequiredSource
OpenStatuses == {"draft", "approved"}

AllowedTransitions ==
  [draft |-> {"approved", "cancelled"}, approved |-> {"posted", "cancelled"},
   posted |-> {"cancelled"}, cancelled |-> {}]

Unasked == [op |-> "idle"]

Movement(subkind, source, employee, request, line, account) ==
  [subkind |-> subkind, source |-> source, employee |-> employee, status |-> "draft",
   request |-> request, line |-> line, account |-> account]

PaymentsInit ==
  /\ payments = <<>>
  /\ made = 0
  /\ approvals = {}
  /\ submitted = {}
  /\ \E a \in Accounts :
       accounts = [x \in Accounts |-> [open |-> x = a, default |-> x = a, active |-> x = a]]
  /\ directory = [p \in Parties |-> 0]
  /\ job = [c \in Clerks |-> Unasked]
  /\ started = 0
  /\ stops = 0

Begin(c) == job[c] = Unasked /\ started < MaxRequests /\ started' = started + 1
Remember(c, what) == job' = [job EXCEPT ![c] = what]
Finish(c) == Remember(c, Unasked)

(***************************************************************************)
(* A payment made by hand, or by the payment of a client                   *)
(***************************************************************************)
assert_no_open_salary_payout(employee) ==
  ~\E p \in DOMAIN payments :
      /\ payments[p].subkind = "salary_payout"
      /\ payments[p].employee = employee
      /\ payments[p].status \in OpenStatuses

\* The account of a payment: the given one if it is active, or the default
\* one for a payment the program makes itself.
resolve_account(account, given) ==
  /\ accounts[account].active
  /\ given \/ accounts[account].default

\* Deviation: no advisory lock of the request id
HeldByNobody(request) == FALSE

Held(request) == \E c \in Clerks : job[c].op = "create" /\ job[c].row.request = request

\* The request id is locked until the commit; a payment it made is returned.
CreateAsked(c) ==
  \E s \in Subkinds, e \in Employees, q \in RequestIds \cup {NoOne}, a \in Accounts, given \in BOOLEAN :
    /\ Begin(c)
    /\ q = NoOne \/ (~Held(q) /\ ~\E p \in DOMAIN payments : payments[p].request = q)
    /\ resolve_account(a, given)
    /\ s = "salary_payout" => assert_no_open_salary_payout(e)
    /\ Remember(c, [op |-> "create",
                    row |-> Movement(s, RequiredSource[s],
                                     IF s = "salary_payout" THEN e ELSE NoOne, q, NoOne, a)])
    /\ UNCHANGED <<payments, made, approvals, submitted, accounts, directory, stops>>

Insert(row) ==
  /\ made < MaxPayments
  /\ made' = made + 1
  /\ payments' = [p \in DOMAIN payments \cup {made'} |-> IF p = made' THEN row ELSE payments[p]]

create_money_movement(c) ==
  /\ job[c].op = "create"
  /\ Insert(job[c].row)
  /\ approvals' = approvals \cup {made'}
  /\ Finish(c)
  /\ UNCHANGED <<submitted, accounts, directory, started, stops>>

\* Under the lock of the payment; the kind may become any, with its source.
update_money_movement(c) ==
  \E p \in DOMAIN payments, s \in Subkinds, e \in Employees :
    /\ Begin(c)
    /\ payments[p].status \in OpenStatuses
    /\ LET row == payments[p] IN
       payments' = [payments EXCEPT ![p] = [row EXCEPT !.subkind = s, !.source = RequiredSource[s],
                                              !.employee = IF s = "salary_payout" THEN e ELSE NoOne]]
    /\ UNCHANGED <<made, approvals, submitted, accounts, directory, job, stops>>

delete_money_movement(c) ==
  \E p \in DOMAIN payments :
    /\ Begin(c)
    /\ payments[p].status = "draft"
    /\ payments' = [x \in DOMAIN payments \ {p} |-> payments[x]]
    /\ UNCHANGED <<made, approvals, submitted, accounts, directory, job, stops>>

\* The status changes in one transaction, the approval task closes in a later one.
change_status(c) ==
  \E p \in DOMAIN payments : \E to \in AllowedTransitions[payments[p].status] :
    /\ Begin(c)
    /\ payments' = [payments EXCEPT ![p].status = to]
    /\ Remember(c, IF payments[p].status = "draft" THEN [op |-> "close", payment |-> p] ELSE Unasked)
    /\ UNCHANGED <<made, approvals, submitted, accounts, directory, stops>>

close_open_link_task(c) ==
  /\ job[c].op = "close"
  /\ approvals' = approvals \ {job[c].payment}
  /\ Finish(c)
  /\ UNCHANGED <<payments, made, submitted, accounts, directory, started, stops>>

\* On the board an assignee submits the task; nobody reviews it, it is done and
\* nothing is done about the payment, which may be a draft yet (task_sync)
SubmitsApprovalTask(c) ==
  \E p \in approvals :
    /\ Begin(c)
    /\ approvals' = approvals \ {p}
    /\ submitted' = submitted \cup {p}
    /\ UNCHANGED <<payments, made, accounts, directory, job, stops>>

(***************************************************************************)
(* Bank statements                                                         *)
(***************************************************************************)
duplicate_movement_exists(line, account) ==
  \E p \in DOMAIN payments : payments[p].line = line /\ payments[p].account = account

\* A line names its kind or gets a preliminary one; a known client makes its
\* payment the client's.  The party is looked for and made if it is new.
ImportAsked(c) ==
  \E l \in Lines, a \in Accounts, s \in Subkinds, client \in BOOLEAN, party \in Parties :
    /\ Begin(c)
    /\ resolve_account(a, TRUE)
    /\ ~duplicate_movement_exists(l, a)
    /\ Remember(c, [op |-> "import", party |-> party, known |-> directory[party] > 0,
                    row |-> Movement(s, IF client THEN "client" ELSE "none", NoOne, NoOne, l, a)])
    /\ UNCHANGED <<payments, made, approvals, submitted, accounts, directory, stops>>

import_payments(c) ==
  /\ job[c].op = "import"
  /\ Insert(job[c].row)
  /\ directory' = IF job[c].known THEN directory ELSE [directory EXCEPT ![job[c].party] = @ + 1]
  /\ Finish(c)
  /\ UNCHANGED <<approvals, submitted, accounts, started, stops>>

\* The drafts are read, the model is asked, what it says is written to the
\* rows as they were read: only a changed kind is written.
FillAsked(c) ==
  \E p \in DOMAIN payments :
    /\ Begin(c)
    /\ payments[p].status = "draft"
    /\ Remember(c, [op |-> "fill", payment |-> p, subkind |-> payments[p].subkind,
                    source |-> payments[p].source])
    /\ UNCHANGED <<payments, made, approvals, submitted, accounts, directory, stops>>

ai_fill_subkinds(c) ==
  /\ job[c].op = "fill"
  /\ LET p == job[c].payment
     IN \/ payments' = payments
        \/ \E s \in Subkinds \ {job[c].subkind} :
             /\ RequiredSource[s] \in {"none", job[c].source}
             /\ p \in DOMAIN payments
             /\ payments' = [payments EXCEPT ![p].subkind = s]
  /\ Finish(c)
  /\ UNCHANGED <<made, approvals, submitted, accounts, directory, started, stops>>

(***************************************************************************)
(* Counterparties and accounts                                             *)
(***************************************************************************)
assert_inn_free(party) == directory[party] = 0

CounterpartyAsked(c) ==
  \E party \in Parties :
    /\ Begin(c)
    /\ assert_inn_free(party)
    /\ Remember(c, [op |-> "party", party |-> party])
    /\ UNCHANGED <<payments, made, approvals, submitted, accounts, directory, stops>>

create_counterparty(c) ==
  /\ job[c].op = "party"
  /\ directory' = [directory EXCEPT ![job[c].party] = @ + 1]
  /\ Finish(c)
  /\ UNCHANGED <<payments, made, approvals, submitted, accounts, started, stops>>

clear_other_defaults(account) == {x \in Accounts \ {account} : accounts[x].default}

\* What update_account writes: the session saves only the fields it changed.
AccountWrites(account) ==
  {[default |-> TRUE, active |-> accounts[account].active],
   [default |-> FALSE, active |-> accounts[account].active],
   [default |-> accounts[account].default, active |-> TRUE],
   [default |-> FALSE, active |-> FALSE]}

AccountAsked(c) ==
  \E a \in Accounts, default \in BOOLEAN :
    /\ Begin(c)
    /\ \/ /\ ~accounts[a].open
          /\ LET first == ~\E x \in Accounts : accounts[x].default /\ accounts[x].active
                 row   == [open |-> TRUE, default |-> default \/ first, active |-> TRUE]
             IN Remember(c, [op |-> "account", account |-> a, was |-> accounts[a], row |-> row,
                             clear |-> IF row.default THEN clear_other_defaults(a) ELSE {}])
       \/ /\ accounts[a].open
          /\ \E w \in AccountWrites(a) :
               Remember(c, [op |-> "account", account |-> a, was |-> accounts[a],
                            row |-> [open |-> TRUE, default |-> w.default, active |-> w.active],
                            clear |-> IF w.default THEN clear_other_defaults(a) ELSE {}])
    /\ UNCHANGED <<payments, made, approvals, submitted, accounts, directory, stops>>

AccountSaved(c) ==
  /\ job[c].op = "account"
  /\ LET j == job[c]
         Saved(f) == IF j.row[f] = j.was[f] THEN accounts[j.account][f] ELSE j.row[f]
     IN accounts' = [x \in Accounts |->
          IF x = j.account THEN [f \in {"open", "default", "active"} |-> Saved(f)]
          ELSE IF x \in j.clear THEN [accounts[x] EXCEPT !.default = FALSE]
          ELSE accounts[x]]
  /\ Finish(c)
  /\ UNCHANGED <<payments, made, approvals, submitted, directory, started, stops>>

\* The process stops, or the request fails after its last commit.
PaymentStop(c) ==
  /\ stops < MaxStops
  /\ job[c] # Unasked
  /\ stops' = stops + 1
  /\ Finish(c)
  /\ UNCHANGED <<payments, made, approvals, submitted, accounts, directory, started>>

Answers(c) ==
  \/ create_money_movement(c) \/ close_open_link_task(c) \/ import_payments(c)
  \/ ai_fill_subkinds(c) \/ create_counterparty(c) \/ AccountSaved(c)

PaymentsNext ==
  \E c \in Clerks :
    \/ CreateAsked(c) \/ update_money_movement(c) \/ delete_money_movement(c) \/ change_status(c)
    \/ SubmitsApprovalTask(c)
    \/ ImportAsked(c) \/ FillAsked(c) \/ CounterpartyAsked(c) \/ AccountAsked(c)
    \/ Answers(c) \/ PaymentStop(c)

PaymentsSpec == PaymentsInit /\ [][PaymentsNext]_paymentVars

-----------------------------------------------------------------------------
(* A request id pays once, however often and however concurrently it is    *)
(* sent (create_money_movement).                                           *)
OnePaymentPerRequest ==
  \A p, r \in DOMAIN payments :
    payments[p].request = payments[r].request => p = r \/ payments[p].request = NoOne

(* A draft somebody made has an open approval task, unless an assignee     *)
(* submitted that on the board, which decides nothing; the task of a       *)
(* payment that is no draft is being closed, unless a process stopped on   *)
(* the way (change_status).                                                *)
ApprovalsFollowDrafts ==
  \A p \in DOMAIN payments :
    IF payments[p].status = "draft"
    THEN payments[p].line = NoOne => p \in approvals \cup submitted
    ELSE p \in approvals => stops > 0 \/ \E c \in Clerks : job[c] = [op |-> "close", payment |-> p]

(* A posted or a cancelled payment keeps its kind: only a draft gets one   *)
(* from the model (ai_fill_subkinds), and posted ones are not edited.      *)
PostedKeepTheirKind ==
  [][\A p \in DOMAIN payments \cap DOMAIN payments' :
       payments[p].status \notin OpenStatuses => payments'[p].subkind = payments[p].subkind]_paymentVars

(* One open salary payment of an employee (_assert_no_open_salary_payout). *)
OneOpenSalary ==
  \A e \in Employees :
    Cardinality({p \in DOMAIN payments :
      payments[p].subkind = "salary_payout" /\ payments[p].employee = e
        /\ payments[p].status \in OpenStatuses}) <= 1
-----------------------------------------------------------------------------
(***************************************************************************)
(* How well employees keep their deadlines, month by month                 *)
(* (app/accounting/service.py): the current month is counted again at      *)
(* every look at the overview of salaries or at someone's history, a       *)
(* finished month stays as it was last counted.  A look counts one person  *)
(* after another in one transaction; for each it reads the tasks, then the *)
(* log of their work, then the row of the month, and locks none of them.   *)
(* A row of the model keeps which tasks it counts; the code keeps their    *)
(* numbers.                                                                *)
(***************************************************************************)

CONSTANTS
    Payroll,        \* employees in the order of their names
    Jobs,           \* tasks
    Assigned,       \* by task: whose it is
    Carried,        \* those that came from the former system
    Looks,          \* requests that look at the overview
    MonthLength,    \* days of a month
    MaxDay,         \* bound: the last day
    MaxJobChanges,     \* bound: changes of tasks
    MaxLooks        \* bound: looks that begin

ASSUME SalariesAssumption ==
    Carried \subseteq Jobs /\ DOMAIN Assigned = Jobs /\ MonthLength \in Nat \ {0} /\ {MaxDay, MaxJobChanges, MaxLooks} \subseteq Nat

VARIABLES
    day,            \* today
    jobs,           \* by task: its deadline, whether it is done, when the log says so
    months,         \* by employee and month: the row that was counted, if there is one
    looks,          \* by request: who is left, what was read, the rows it has written
    completions,    \* by task: days on which the log has had it completed
    deadlines,      \* by task: deadlines it has had
    jobChanges, looked  \* counters of the bounds

salaryVars == <<day, jobs, months, looks, completions, deadlines, jobChanges, looked>>

Days == 0..MaxDay
Unknown == MaxDay + 1
_month_range(d) == d \div MonthLength
OnPayroll == {Payroll[i] : i \in DOMAIN Payroll}
Months == {_month_range(d) : d \in Days}

NoRow == [counted |-> FALSE, onTime |-> {}, late |-> {}, overdue |-> {}]
NoLook == [at |-> "nowhere"]

\* What came from the former system may be done without anyone knowing when
SalariesInit ==
    /\ day = 0
    /\ \E due \in [Jobs -> Days] :
          jobs = [t \in Jobs |-> [deadline |-> due[t], done |-> t \in Carried, completed |-> Unknown]]
    /\ months = [e \in OnPayroll |-> [m \in Months |-> NoRow]]
    /\ looks = [v \in Looks |-> NoLook]
    /\ completions = [t \in Jobs |-> {}]
    /\ deadlines = [t \in Jobs |-> {jobs[t].deadline}]
    /\ jobChanges = 0 /\ looked = 0

-----------------------------------------------------------------------------
(* The tasks meanwhile (app/tasks) *)

JobChanged == jobChanges < MaxJobChanges /\ jobChanges' = jobChanges + 1 /\ UNCHANGED <<day, months, looks, looked>>

\* The log of the work follows the status in the same commit
JobIsDone(t) ==
    /\ JobChanged /\ ~jobs[t].done
    /\ jobs' = [jobs EXCEPT ![t].done = TRUE, ![t].completed = day]
    /\ completions' = [completions EXCEPT ![t] = @ \union {day}]
    /\ UNCHANGED deadlines

JobIsReopened(t) ==
    /\ JobChanged /\ jobs[t].done
    /\ jobs' = [jobs EXCEPT ![t].done = FALSE, ![t].completed = Unknown]
    /\ UNCHANGED <<completions, deadlines>>

DeadlineMoves(t) ==
    /\ JobChanged
    /\ \E d \in Days :
        /\ jobs' = [jobs EXCEPT ![t].deadline = d]
        /\ deadlines' = [deadlines EXCEPT ![t] = @ \union {d}]
    /\ UNCHANGED completions

NextDay == day < MaxDay /\ day' = day + 1 /\ UNCHANGED <<jobs, months, looks, completions, deadlines, jobChanges, looked>>

-----------------------------------------------------------------------------
(* A look *)

LookGoes(v, look) ==
    looks' = [looks EXCEPT ![v] = look] /\ UNCHANGED <<day, jobs, completions, deadlines, jobChanges>>

LookBegins(v, employees) ==
    /\ looks[v] = NoLook
    /\ looked < MaxLooks /\ looked' = looked + 1
    /\ LookGoes(v, [at |-> "begun", month |-> _month_range(day), left |-> employees, written |-> [e \in {} |-> NoRow]])
    /\ UNCHANGED months

\* Everyone's month, or one person's
list_employee_salary_overview(v) == LookBegins(v, Payroll)
get_employee_kpi_history(v) == \E e \in OnPayroll : Payroll # <<e>> /\ LookBegins(v, <<e>>)

\* His tasks of the month whose deadline has passed
TasksAreRead(v) ==
    LET e == Head(looks[v].left)
        due == {t \in Jobs : /\ e \in Assigned[t]
                             /\ _month_range(jobs[t].deadline) = looks[v].month /\ jobs[t].deadline < day}
    IN
    /\ looks[v].at = "begun" /\ looks[v].left # <<>>
    /\ LookGoes(v, [at |-> "read", month |-> looks[v].month, left |-> looks[v].left, written |-> looks[v].written,
                tasks |-> [t \in due |-> [deadline |-> jobs[t].deadline, done |-> jobs[t].done]]])
    /\ UNCHANGED <<months, looked>>

\* Deviation: work without a date is on time, wherever it came from
_compute_with_imported(tasks) ==
    LET done == {t \in DOMAIN tasks : tasks[t].done}
        late == {t \in done : jobs[t].completed # Unknown /\ jobs[t].completed > tasks[t].deadline}
    IN [counted |-> TRUE, onTime |-> done \ late, late |-> late, overdue |-> DOMAIN tasks \ done]

\* By the tasks as they were read and the log as it is now: what is done without a
\* date is taken to be on time, unless it came done from the former system
_compute_kpi_for_period(tasks) ==
    LET Dated(t) == jobs[t].completed # Unknown
        done == {t \in DOMAIN tasks : tasks[t].done}
        left_out == {t \in done \intersect Carried : ~Dated(t)}
        late == {t \in done : Dated(t) /\ jobs[t].completed > tasks[t].deadline}
    IN [counted |-> TRUE, onTime |-> (done \ left_out) \ late, late |-> late, overdue |-> DOMAIN tasks \ done]

RowIsLookedFor(v) ==
    LET e == Head(looks[v].left) IN
    /\ looks[v].at = "read"
    /\ LookGoes(v, [at |-> "counted", month |-> looks[v].month, left |-> looks[v].left, written |-> looks[v].written,
                row |-> _compute_kpi_for_period(looks[v].tasks), insert |-> ~months[e][looks[v].month].counted])
    /\ UNCHANGED <<months, looked>>

\* A row another look has written and not committed is waited for; of two new rows of
\* a month the second fails, and what its look wrote for others is lost with it
RowIsWritten(v) ==
    LET e == Head(looks[v].left)
        m == looks[v].month
        Holds(w) == looks[w].at # "nowhere" /\ looks[w].month = m /\ e \in DOMAIN looks[w].written
        written == [x \in DOMAIN looks[v].written \union {e} |-> IF x = e THEN looks[v].row ELSE looks[v].written[x]]
    IN
    /\ looks[v].at = "counted"
    /\ \A w \in Looks \ {v} : ~Holds(w)
    /\ LookGoes(v, IF looks[v].insert /\ months[e][m].counted THEN NoLook
               ELSE [at |-> "begun", month |-> m, left |-> Tail(looks[v].left), written |-> written])
    /\ UNCHANGED <<months, looked>>

LookCommits(v) ==
    LET m == looks[v].month IN
    /\ looks[v].at = "begun" /\ looks[v].left = <<>>
    /\ months' = [e \in OnPayroll |->
          IF e \in DOMAIN looks[v].written THEN [months[e] EXCEPT ![m] = looks[v].written[e]] ELSE months[e]]
    /\ LookGoes(v, NoLook)
    /\ UNCHANGED looked

SalariesNext ==
    \/ \E t \in Jobs : JobIsDone(t) \/ JobIsReopened(t) \/ DeadlineMoves(t)
    \/ NextDay
    \/ \E v \in Looks :
        \/ list_employee_salary_overview(v) \/ get_employee_kpi_history(v)
        \/ TasksAreRead(v) \/ RowIsLookedFor(v) \/ RowIsWritten(v) \/ LookCommits(v)

SalariesSpec == SalariesInit /\ [][SalariesNext]_salaryVars

-----------------------------------------------------------------------------
\* Whether the log has ever had the task completed within a deadline of the month
Kept(t, m) == \E c \in completions[t], d \in deadlines[t] : c <= d /\ _month_range(d) = m

\* Done in the former system is no evidence of when (_compute_kpi_for_period): such a
\* task counts as done only by a completion that was logged here, on time only by one
\* within its deadline, however the task is closed, reopened and moved between the reads
NothingIsInvented ==
    \A e \in OnPayroll, m \in Months, t \in Carried :
        /\ t \in months[e][m].onTime => Kept(t, m)
        /\ t \in months[e][m].late => completions[t] # {}

\* What a task that is reopened between the reads refutes, not among the runs: late
\* work is taken to be on time
OnTimeIsEarned == \A e \in OnPayroll, m \in Months : \A t \in months[e][m].onTime : Kept(t, m)

\* What a look that began before midnight refutes, not among the runs: a finished
\* month is frozen (models.py, EmployeeKpi)
FinishedIsFrozen ==
    [][\A e \in OnPayroll, m \in Months : m < _month_range(day) => months'[e][m] = months[e][m]]_salaryVars

\* What a moved deadline refutes, not among the runs: a task counts in one month
CountedOnce ==
    LET Counts(e, m) == months[e][m].onTime \union months[e][m].late \union months[e][m].overdue
    IN \A e \in OnPayroll, m, n \in Months : m # n => Counts(e, m) \intersect Counts(e, n) = {}
=============================================================================
