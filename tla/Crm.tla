--------------------------------- MODULE Crm ---------------------------------
(***************************************************************************)
(* Sales (app/crm): an inquiry becomes a deal, next steps are tasks of the *)
(* CRM, and each is mirrored by a task of the common board.  Both sides    *)
(* write the other one in their own transaction, under row locks taken one *)
(* after the other: the board takes the CRM row first, and so does a card  *)
(* that is saved; accepting an inquiry and closing a deal read the tasks   *)
(* without a lock and take the task of the board first.                    *)
(***************************************************************************)
EXTENDS Integers, Sequences, FiniteSets

CONSTANTS
    Sellers,        \* requests of sales people served at the same time
    MaxSteps,       \* bound: tasks of the CRM
    MaxDeeds        \* bound: what the sales people do

ASSUME CrmAssumption == MaxSteps \in Nat \ {0} /\ MaxDeeds \in Nat

Steps == 1..MaxSteps

VARIABLES
    inquiry,        \* "none", "open", "archived", "accepted"
    deals,          \* how many deals this inquiry has become
    deal,           \* the stage of the deal: "open", "closed"
    step,           \* [Steps -> a task of the CRM]
    mirror,         \* [Steps -> the status of its task on the board]
    seller,         \* what each request is doing
    deeds

crmVars == <<inquiry, deals, deal, step, mirror, seller, deeds>>

NoStep == [of |-> "none", control |-> FALSE, completed |-> FALSE, archived |-> FALSE, version |-> 0]
NotSelling == [op |-> "none", on |-> {}, rows |-> <<>>, want |-> <<>>, held |-> {}]

CrmInit ==
    /\ inquiry = "none" /\ deals = 0 /\ deal = "open"
    /\ step = [t \in Steps |-> NoStep]
    /\ mirror = [t \in Steps |-> "none"]
    /\ seller = [s \in Sellers |-> NotSelling]
    /\ deeds = MaxDeeds

------------------------------------------------------------------------------
(* Rows and their locks                                                    *)

CrmRow(t)   == <<"crm", t>>
BoardRow(t) == <<"board", t>>
Parent(of)  == <<of, 0>>

FreeFor(s, row) == \A o \in Sellers \ {s} : row \notin seller[o].held

\* A request reads what it will work on and goes for its locks
Begins(s, op, on, want, held) ==
    /\ seller[s] = NotSelling /\ deeds > 0
    /\ \A row \in held : FreeFor(s, row)
    /\ seller' = [seller EXCEPT ![s] =
         [op |-> op, on |-> on, rows |-> [t \in on |-> step[t]], want |-> want, held |-> held]]
    /\ deeds' = deeds - 1
    /\ UNCHANGED <<inquiry, deals, deal, step, mirror>>

Acquire(s) ==
    /\ seller[s].want # <<>> /\ FreeFor(s, Head(seller[s].want))
    /\ seller' = [seller EXCEPT ![s].held = @ \cup {Head(seller[s].want)}, ![s].want = Tail(@)]
    /\ UNCHANGED <<inquiry, deals, deal, step, mirror, deeds>>

Awaits(s, o) == seller[s].want # <<>> /\ Head(seller[s].want) \in seller[o].held

\* PostgreSQL ends one of two transactions that wait for each other
DeadlockDetected(s) ==
    /\ \E o \in Sellers \ {s} : Awaits(s, o) /\ Awaits(o, s)
    /\ seller' = [seller EXCEPT ![s] = NotSelling]
    /\ UNCHANGED <<inquiry, deals, deal, step, mirror, deeds>>

Ready(s, op) == seller[s].op = op /\ seller[s].want = <<>>

Done(s) == seller' = [seller EXCEPT ![s] = NotSelling] /\ UNCHANGED deeds

------------------------------------------------------------------------------
(* sync_to_board: the task of the board follows the task of the CRM, but   *)
(* work under way stays under way                                          *)

sync_to_board(row, status) ==
    LET target == IF row.archived \/ row.completed THEN "done" ELSE "ready"
    IN  IF status \in {"none", "done"} \/ target = "done" THEN target ELSE status

NewStep(of, control) ==
    [of |-> of, control |-> control, completed |-> FALSE, archived |-> FALSE, version |-> 1]

Unused == {t \in Steps : step[t] = NoStep /\ \A u \in Steps : u < t => step[u] # NoStep}

Creates(of, control) ==
    \E t \in Unused :
        /\ step' = [step EXCEPT ![t] = NewStep(of, control)]
        /\ mirror' = [mirror EXCEPT ![t] = sync_to_board(NewStep(of, control), "none")]

\* Not archived and about this inquiry or deal
OpenSteps(of) == {t \in Steps : step[t].of = of /\ ~step[t].archived /\ ~step[t].completed}

\* The board first, then the row that the flush writes: task after task
BoardFirst(on) ==
    LET order == CHOOSE q \in [1..Cardinality(on) -> on] :
                    \A i, j \in 1..Cardinality(on) : i < j => q[i] < q[j]
    IN  [i \in 1..(2 * Cardinality(on)) |->
            IF i % 2 = 1 THEN BoardRow(order[(i + 1) \div 2]) ELSE CrmRow(order[i \div 2])]

\* The row as this session has it: the deal's, open or completed
AsWritten(s, t, completed) ==
    [seller[s].rows[t] EXCEPT !.of = "deal", !.completed = completed, !.version = @ + 1]

\* A column that was not assigned keeps what others have written to it
Rewritten(s, completed) ==
    [t \in Steps |->
        IF t \in seller[s].on THEN [AsWritten(s, t, completed) EXCEPT !.archived = step[t].archived]
        ELSE step[t]]

\* The mirror is set by the row as this session sees it
Mirrored(s, completed) ==
    [t \in Steps |->
        IF t \in seller[s].on THEN sync_to_board(AsWritten(s, t, completed), mirror[t])
        ELSE mirror[t]]

------------------------------------------------------------------------------
(* The inquiry                                                             *)

\* One transaction with the request of the client; a control task goes along
register_client_request ==
    /\ inquiry = "none" /\ inquiry' = "open"
    /\ Creates("inquiry", TRUE)
    /\ UNCHANGED <<deals, deal, seller, deeds>>

\* Read again under the lock: an inquiry accepted meanwhile is not accepted twice
accept_inquiry(s) ==
    /\ inquiry = "open"
    /\ Begins(s, "accept", OpenSteps("inquiry"), BoardFirst(OpenSteps("inquiry")), {Parent("inquiry")})

\* Its tasks go over to the deal; a deal without any gets a control task
Accepted(s) ==
    /\ Ready(s, "accept")
    /\ inquiry' = "accepted" /\ deals' = deals + 1
    /\ \/ /\ {t \in Steps : step[t].of = "inquiry" /\ ~step[t].archived} = {}
          /\ seller[s].on = {} /\ Creates("deal", TRUE)
       \/ /\ {t \in Steps : step[t].of = "inquiry" /\ ~step[t].archived} \cup seller[s].on # {}
          /\ step' = Rewritten(s, FALSE)
          /\ mirror' = Mirrored(s, FALSE)
    /\ Done(s) /\ UNCHANGED deal

\* A saved card of the inquiry may put it away
ArchiveInquiry ==
    /\ deeds > 0 /\ inquiry = "open" /\ \A s \in Sellers : FreeFor(s, Parent("inquiry"))
    /\ \A s \in Sellers : Parent("inquiry") \notin seller[s].held
    /\ inquiry' = "archived" /\ deeds' = deeds - 1
    /\ UNCHANGED <<deals, deal, step, mirror, seller>>

------------------------------------------------------------------------------
(* The deal                                                                *)

\* The deal is saved with a stage that wins or loses it: control tasks close
close_terminal_followups(s) ==
    LET control == {t \in OpenSteps("deal") : step[t].control} IN
    /\ deals > 0 /\ deal = "open"
    /\ Begins(s, "close", control, BoardFirst(control), {Parent("deal")})

ClosedDeal(s) ==
    /\ Ready(s, "close") /\ deal' = "closed"
    /\ step' = Rewritten(s, TRUE)
    /\ mirror' = Mirrored(s, TRUE)
    /\ Done(s) /\ UNCHANGED <<inquiry, deals>>

\* ... or with one that opens it again
ReopenDeal(s) ==
    /\ deeds > 0 /\ deal = "closed" /\ FreeFor(s, Parent("deal"))
    /\ deal' = "open" /\ deeds' = deeds - 1
    /\ UNCHANGED <<inquiry, deals, step, mirror, seller>>

\* schedule_followup: under the lock of the deal or inquiry, unless it has a step
schedule_followup(s, of) ==
    /\ seller[s] = NotSelling /\ deeds > 0 /\ FreeFor(s, Parent(of))
    /\ \/ of = "inquiry" /\ inquiry = "open"
       \/ of = "deal" /\ deals > 0 /\ deal = "open"
    /\ OpenSteps(of) = {}
    /\ Creates(of, FALSE) /\ deeds' = deeds - 1
    /\ UNCHANGED <<inquiry, deals, deal, seller>>

------------------------------------------------------------------------------
(* A task                                                                  *)

Changed(row) ==
    {[row EXCEPT !.version = @ + 1, !.completed = done] : done \in BOOLEAN} \cup
    {[row EXCEPT !.version = @ + 1, !.archived = away] : away \in BOOLEAN}

\* patch: the row as the card showed it, then UPDATE ... WHERE version
patch(s, t) ==
    /\ step[t] # NoStep
    /\ Begins(s, "patch", {t}, <<CrmRow(t), BoardRow(t)>>, {})

Patched(s) ==
    /\ Ready(s, "patch")
    /\ LET t == CHOOSE t \in seller[s].on : TRUE IN
       \/ step[t].version # seller[s].rows[t].version /\ UNCHANGED <<step, mirror>>    \* 409
       \/ /\ step[t].version = seller[s].rows[t].version
          /\ \E row \in Changed(step[t]) :
               /\ step' = [step EXCEPT ![t] = row]
               /\ mirror' = [mirror EXCEPT ![t] = sync_to_board(row, @)]
    /\ Done(s) /\ UNCHANGED <<inquiry, deals, deal>>

\* lock_for_board reads both rows anew under their locks
lock_for_board(s, t) ==
    /\ mirror[t] \notin {"none", "done"}
    /\ Begins(s, "board", {t}, <<CrmRow(t), BoardRow(t)>>, {})

\* Deviation: the task is moved on the board, and the CRM is not told
sync_no_one(s) ==
    /\ Ready(s, "board")
    /\ \E t \in seller[s].on : \E status \in {"in_progress", "done"} :
         /\ ~step[t].archived /\ (status = "done" => mirror[t] = "in_progress")
         /\ mirror' = [mirror EXCEPT ![t] = status]
    /\ Done(s) /\ UNCHANGED <<inquiry, deals, deal, step>>

\* The task is moved by the rules of the board, and the CRM follows
sync_from_board(s) ==
    /\ Ready(s, "board")
    /\ LET t == CHOOSE t \in seller[s].on : TRUE IN
       \/ (step[t].archived \/ mirror[t] = "done") /\ UNCHANGED <<step, mirror>>       \* 409
       \/ /\ ~step[t].archived /\ mirror[t] # "done"
          /\ \E status \in {"in_progress", "done"} :
               /\ status = "done" => mirror[t] = "in_progress"
               /\ mirror' = [mirror EXCEPT ![t] = status]
               /\ step' = IF step[t].completed = (status = "done") THEN step
                          ELSE [step EXCEPT ![t] = [step[t] EXCEPT !.completed = (status = "done"), !.version = @ + 1]]
    /\ Done(s) /\ UNCHANGED <<inquiry, deals, deal>>

CrmNext ==
    \/ register_client_request \/ ArchiveInquiry
    \/ \E s \in Sellers :
         \/ Acquire(s) \/ DeadlockDetected(s)
         \/ accept_inquiry(s) \/ Accepted(s)
         \/ close_terminal_followups(s) \/ ClosedDeal(s) \/ ReopenDeal(s)
         \/ \E of \in {"inquiry", "deal"} : schedule_followup(s, of)
         \/ \E t \in Steps : patch(s, t) \/ lock_for_board(s, t)
         \/ Patched(s) \/ sync_from_board(s)

CrmSpec == CrmInit /\ [][CrmNext]_crmVars

------------------------------------------------------------------------------
(***************************************************************************)
(* A task of sales that is not put away is done on the board exactly when  *)
(* it is done in the CRM, whichever of the four writers came last and on   *)
(* whatever it had read.                                                   *)
(***************************************************************************)
MirrorAgrees ==
    \A t \in Steps : step[t] # NoStep /\ ~step[t].archived =>
        (mirror[t] = "done" <=> step[t].completed)

(***************************************************************************)
(* An inquiry becomes one deal however many people accept it at once.      *)
(***************************************************************************)
OneDealPerInquiry == deals <= 1

(***************************************************************************)
(* crm/tasks.py: writers lock CRMEntity before Task, so that no two of     *)
(* them wait for each other.                                               *)
(***************************************************************************)
WritersNeverDeadlock ==
    \A s, o \in Sellers : s # o => ~(Awaits(s, o) /\ Awaits(o, s))

(***************************************************************************)
(* A task of sales that was put away is closed on the board as well.       *)
(***************************************************************************)
ArchivedIsDone == \A t \in Steps : step[t].archived => mirror[t] = "done"
=============================================================================
