------------------------------ MODULE ClientPath ------------------------------
(***************************************************************************)
(* The path of a client from the first call to the accepted house          *)
(* (app/clients/service.py), with what a move drags along: the task "move  *)
(* to the next stage" on the board, the houses of the cycle, the           *)
(* installation, and the hourly reconciliation of the tasks.               *)
(*                                                                         *)
(* No row is locked before it is written.  A move reads the client, writes *)
(* the stage and - when there is a manager to tell - is committed by       *)
(* notify in the middle; houses and tasks follow in a second transaction   *)
(* that may never come.                                                    *)
(***************************************************************************)
EXTENDS Integers, Sequences, FiniteSets

CONSTANTS
    Managers,       \* requests served at the same time
    Loop,           \* the thread of the reconciliation
    MaxTasks,       \* bound: stage tasks open, or held by a session, at once
    HousesCounts,   \* clients.houses_count
    MaxActs,        \* bound: what people start
    MaxStops,       \* bound: sessions that die half-way
    Starts,         \* stages the client may be at in the beginning
    PaymentPlans           \* payment plans he may have

CLIENT_STAGE_ORDER ==
    <<"lead", "discussion", "site_visit", "approval", "payment",
      "postpayment", "acceptance", "completed">>

MANUAL_TRANSITION_STAGES == {CLIENT_STAGE_ORDER[i] : i \in 1..5}

At(stage) == CHOOSE i \in 1..Len(CLIENT_STAGE_ORDER) : CLIENT_STAGE_ORDER[i] = stage

_next_stage(stage) == CLIENT_STAGE_ORDER[At(stage) + 1]

needs_stage_task(stage) == stage \in MANUAL_TRANSITION_STAGES

ASSUME ClientPathAssumption ==
    /\ MaxTasks \in Nat /\ MaxActs \in Nat /\ MaxStops \in Nat
    /\ Loop \notin Managers
    /\ HousesCounts \subseteq Nat \ {0}
    /\ Starts \subseteq MANUAL_TRANSITION_STAGES \cup {"postpayment"}
    /\ PaymentPlans \subseteq {"full_prepayment", "advance_then_balance", "post_payment"}

VARIABLES
    client,         \* the row of clients
    cycle,          \* cycles.status
    productions,    \* how many houses the cycle has
    installation,   \* its stage, or "none"
    stageTask,      \* [Slots -> stage in link_meta of an open task, or "none"]
    balanceTasks,   \* open tasks "accept the balance"
    blocker,        \* a blocking follow-up task is open
    path,           \* what each session is doing
    acts, stops     \* how much there may still be of either

pathVars == <<client, cycle, productions, installation, stageTask, balanceTasks,
              blocker, path, acts, stops>>

Slots    == 1..MaxTasks
Sessions == Managers \cup {Loop}
NotMoving  == [step |-> "idle", op |-> "none", seen |-> "none", task |-> 0, open |-> {}]

\* A client in the base with his one open task and what he has passed locked,
\* or one whose house is being put up
StandsAt(stage, plan, told) ==
    LET built == stage = "postpayment" IN
    /\ client = [stage |-> stage, plan |-> plan, told |-> told,
                 docs |-> At(stage) > 4, documents_locked |-> At(stage) > 4,
                 is_paid |-> built /\ plan # "post_payment", payment_locked |-> built,
                 unlocked |-> FALSE, balance_paid |-> built /\ plan = "full_prepayment",
                 movements |-> built /\ plan # "post_payment"]
    /\ stageTask = [i \in Slots |-> IF i = 1 /\ needs_stage_task(stage) THEN stage ELSE "none"]
    /\ cycle = IF built THEN "installation" ELSE "client"
    /\ productions = IF built THEN 1 ELSE 0
    /\ installation = IF built THEN "installation" ELSE "none"
    /\ balanceTasks = IF built /\ plan # "full_prepayment" THEN 1 ELSE 0

PathInit ==
    /\ \E stage \in Starts, plan \in PaymentPlans, told \in BOOLEAN : StandsAt(stage, plan, told)
    /\ blocker = FALSE
    /\ path = [s \in Sessions |-> NotMoving]
    /\ acts = MaxActs /\ stops = MaxStops

Present == client.stage # "gone"

_open_stage_tasks == {i \in Slots : stageTask[i] # "none"}

\* The next task of the board goes under the first identifier nobody holds
FreeSlot(i) == stageTask[i] = "none" /\ \A s \in Sessions : i # path[s].task /\ i \notin path[s].open
NewTasks == {i \in Slots : FreeSlot(i) /\ \A j \in 1..(i - 1) : ~FreeSlot(j)}

\* force_close of some, and a new one under a stage if it wants one
Retasked(close, stage, create) ==
    \E i \in NewTasks :
        stageTask' = [j \in Slots |->
            IF j = i /\ create /\ needs_stage_task(stage) THEN stage
            ELSE IF j \in close THEN "none" ELSE stageTask[j]]

Starting(s, session) ==
    /\ path[s] = NotMoving /\ acts > 0 /\ Present
    /\ path' = [path EXCEPT ![s] = session]
    /\ acts' = acts - 1

Ends(s) == path' = [path EXCEPT ![s] = NotMoving]

\* What a session that has read the client goes to write
ReadsClient(op) == [NotMoving EXCEPT !.step = "read", !.op = op, !.seen = client.stage]

------------------------------------------------------------------------------
(* A move is begun: by hand, by the installation that reaches its last     *)
(* stage, by the end of the installation                                   *)

\* The gates of transition_stage
Passes ==
    /\ needs_stage_task(client.stage) /\ ~blocker
    /\ client.stage = "approval" => client.docs
    /\ client.stage = "payment" => client.plan = "post_payment" \/ client.is_paid

transition_stage(s) ==
    /\ Passes
    /\ Starting(s, ReadsClient("move"))
    /\ UNCHANGED <<client, cycle, productions, installation, stageTask, balanceTasks, blocker, stops>>

\* The board: whatever stage the task was made for
_on_client_task_closed(s) ==
    /\ Passes
    /\ \E i \in _open_stage_tasks :
         Starting(s, [ReadsClient("move") EXCEPT !.task = i])
    /\ UNCHANGED <<client, cycle, productions, installation, stageTask, balanceTasks, blocker, stops>>

start_installation ==
    /\ acts > 0 /\ productions > 0 /\ installation = "none"
    /\ installation' = "delivery" /\ cycle' = "installation" /\ acts' = acts - 1
    /\ UNCHANGED <<client, productions, stageTask, balanceTasks, blocker, path, stops>>

\* The last stage of the installation leads on to the client: after a commit
\* of notify that shows it to all, or in one transaction with him
transition_installation(s) ==
    /\ \/ /\ installation = "delivery" /\ installation' = "installation"
          /\ path[s] = NotMoving /\ acts > 0 /\ acts' = acts - 1 /\ UNCHANGED path
       \/ /\ installation = "installation" /\ client.told /\ installation' = "followup"
          /\ Starting(s, [NotMoving EXCEPT !.step = "look", !.op = "acceptance"])
       \/ /\ installation = "installation" /\ ~client.told /\ UNCHANGED installation
          /\ Starting(s, ReadsClient("acceptance"))
    /\ UNCHANGED <<client, cycle, productions, stageTask, balanceTasks, blocker, stops>>

complete_installation(s) ==
    /\ installation = "followup"
    /\ client.plan = "full_prepayment" \/ client.balance_paid
    /\ Starting(s, ReadsClient("completed"))
    /\ UNCHANGED <<client, cycle, productions, installation, stageTask, balanceTasks, blocker, stops>>

------------------------------------------------------------------------------
(* The move is written                                                     *)

Target(s) == IF path[s].op = "move" THEN _next_stage(path[s].seen) ELSE path[s].op

\* Only forward: a client who is there or further is not touched
Ahead(s) == At(path[s].seen) < At(Target(s))

\* The columns the session has changed
Moved(s) ==
    IF ~Ahead(s) THEN client
    ELSE [client EXCEPT !.stage = Target(s),
                        !.documents_locked = @ \/ path[s].seen = "approval",
                        !.payment_locked = @ \/ path[s].seen = "payment",
                        !.balance_paid = @ \/ (path[s].seen = "payment" /\ client.plan = "full_prepayment")]

\* advance_stage_automatically reads the client when it is called
Advance(s) ==
    /\ path[s].step = "look" /\ path[s].op = "acceptance" /\ Present
    /\ path' = [path EXCEPT ![s].step = "read", ![s].seen = client.stage]
    /\ UNCHANGED <<client, cycle, productions, installation, stageTask, balanceTasks, blocker, acts, stops>>

IntoProduction(s) == path[s].op = "move" /\ Target(s) = "postpayment"

\* Deviation: the cycle is in production before its houses are
CompletingEarly(s) ==
    IF path[s].op = "completed" THEN "completed"
    ELSE IF path[s].op = "move" /\ Target(s) = "postpayment" THEN "production" ELSE cycle

\* What is written along with the stage, before anybody is told
Completing(s) == IF path[s].op = "completed" THEN "completed" ELSE cycle
Installed(s)  == IF path[s].op = "acceptance" THEN "followup" ELSE installation

\* What follows when the client went into production
Producing(s) == IF IntoProduction(s) THEN "production" ELSE cycle

BuildHouses(s) ==
    IF IntoProduction(s)
    THEN /\ \E houses \in HousesCounts : productions' = productions + houses
         /\ balanceTasks' = IF client.plan = "full_prepayment" THEN balanceTasks ELSE balanceTasks + 1
    ELSE UNCHANGED <<productions, balanceTasks>>

\* The client already stands there: nothing but the cycle is written
StandsThere(s) ==
    /\ path[s].step = "read" /\ Present /\ ~Ahead(s)
    /\ cycle' = Completing(s) /\ installation' = Installed(s) /\ Ends(s)
    /\ UNCHANGED <<client, productions, stageTask, balanceTasks, blocker, acts, stops>>

\* notify commits the stage, what was locked with it, the closed task
MoveAndTell(s) ==
    /\ path[s].step = "read" /\ Present /\ Ahead(s) /\ client.told
    /\ client' = Moved(s) /\ cycle' = Completing(s) /\ installation' = Installed(s)
    /\ stageTask' = [i \in Slots |-> IF i = path[s].task THEN "none" ELSE stageTask[i]]
    /\ path' = [path EXCEPT ![s].step = "moved", ![s].task = 0]
    /\ UNCHANGED <<productions, balanceTasks, blocker, acts, stops>>

\* Nobody is told: one transaction, which others wait for on the client's row
MoveAtOnce(s) ==
    /\ path[s].step = "read" /\ Present /\ Ahead(s) /\ ~client.told
    /\ client' = Moved(s) /\ installation' = Installed(s)
    /\ cycle' = IF IntoProduction(s) THEN Producing(s) ELSE Completing(s)
    /\ BuildHouses(s)
    /\ Retasked(_open_stage_tasks, Target(s), TRUE)
    /\ Ends(s)
    /\ UNCHANGED <<blocker, acts, stops>>

\* _reset_stage_tasks reads the client again, and the open tasks
_reset_stage_tasks(s) ==
    /\ path[s].step = "moved" /\ Present
    /\ path' = [path EXCEPT ![s].step = "settle", ![s].open = _open_stage_tasks,
                            ![s].task = 0]
    /\ UNCHANGED <<client, cycle, productions, installation, stageTask, balanceTasks, blocker, acts, stops>>

\* A task of the right stage that another session made in between will do
ensure_stage_transition_task(s, stage) ==
    \E i \in _open_stage_tasks \ path[s].open : stageTask[i] = stage

Settle(s) ==
    /\ path[s].step = "settle" /\ path[s].op # "reconcile" /\ Present
    /\ BuildHouses(s) /\ cycle' = Producing(s)
    /\ \E create \in {TRUE} \cup {~ensure_stage_transition_task(s, client.stage)} :
         Retasked(path[s].open, client.stage, create)
    /\ Ends(s)
    /\ UNCHANGED <<client, installation, blocker, acts, stops>>

\* The client was deleted meanwhile: the statement fails
Refused(s) == path[s].step # "idle" /\ ~Present /\ Ends(s)

\* Outside the guards of _apply_stage_plan: an error of the language model
GenerationFails(s) ==
    path[s].step = "moved" /\ path[s].op = "move" /\ Target(s) = "postpayment" /\ Ends(s)

Fails(s) ==
    /\ Refused(s) \/ GenerationFails(s)
    /\ UNCHANGED <<client, cycle, productions, installation, stageTask, balanceTasks, blocker, acts, stops>>

Stops(s) ==
    /\ path[s].step # "idle" /\ stops > 0 /\ Ends(s) /\ stops' = stops - 1
    /\ UNCHANGED <<client, cycle, productions, installation, stageTask, balanceTasks, blocker, acts>>

------------------------------------------------------------------------------
(* The reconciliation: the loop's every hour, and one asked for            *)

Reconciling(s) ==
    path' = [path EXCEPT ![s] = [step |-> "settle", op |-> "reconcile", seen |-> client.stage,
                                 task |-> 0, open |-> _open_stage_tasks]]

reconcile_client_stage_tasks(s) ==
    /\ path[s] = NotMoving /\ Present
    /\ \/ s = Loop /\ UNCHANGED acts
       \/ s # Loop /\ acts > 0 /\ acts' = acts - 1
    /\ Reconciling(s)
    /\ UNCHANGED <<client, cycle, productions, installation, stageTask, balanceTasks, blocker, stops>>

\* Of the tasks of the stage as it was read the newest stays
Keep(s) == {i \in path[s].open : stageTask[i] = path[s].seen}

Reconciled(s) ==
    /\ path[s].step = "settle" /\ path[s].op = "reconcile"
    /\ \/ /\ ~needs_stage_task(path[s].seen) \/ Keep(s) = {}
          /\ Retasked(path[s].open, path[s].seen, TRUE)
       \/ /\ needs_stage_task(path[s].seen) /\ Keep(s) # {}
          /\ \E newest \in Keep(s) : Retasked(path[s].open \ {newest}, path[s].seen, FALSE)
    /\ Ends(s)
    /\ UNCHANGED <<client, cycle, productions, installation, balanceTasks, blocker, acts, stops>>

------------------------------------------------------------------------------
(* The card of the client                                                  *)

CardChanges(card) ==
    /\ acts > 0 /\ Present
    /\ client' = card /\ acts' = acts - 1
    /\ UNCHANGED <<cycle, productions, installation, stageTask, blocker, path, stops>>

\* Documents, plan and files, until they are locked
update_documents ==
    ~client.documents_locked /\ CardChanges([client EXCEPT !.docs = ~@]) /\ UNCHANGED balanceTasks

update_payment ==
    /\ ~client.payment_locked \/ client.unlocked
    /\ CardChanges([client EXCEPT !.is_paid = ~@,
                                  !.movements = @ \/ (~client.is_paid /\ client.plan # "post_payment")])
    /\ UNCHANGED balanceTasks

set_payment_edit_unlocked == CardChanges([client EXCEPT !.unlocked = ~@]) /\ UNCHANGED balanceTasks

update_manager == CardChanges([client EXCEPT !.told = ~@]) /\ UNCHANGED balanceTasks

\* The balance is marked paid, which closes its task, or unpaid again
MayPayBalance == client.plan # "full_prepayment" /\ client.stage \in {"postpayment", "acceptance"}

Closing(n) == IF balanceTasks < n THEN 0 ELSE balanceTasks - n

record_balance_payment(paid) ==
    /\ MayPayBalance /\ client.balance_paid # paid
    /\ CardChanges([client EXCEPT !.balance_paid = paid, !.movements = @ \/ paid])
    /\ balanceTasks' = IF paid THEN Closing(1) ELSE balanceTasks

\* Closing the task on the board marks it too, if it is not marked yet
_on_balance_payment_task_closed ==
    /\ balanceTasks > 0
    /\ \/ /\ ~client.balance_paid /\ MayPayBalance
          /\ CardChanges([client EXCEPT !.balance_paid = TRUE]) /\ balanceTasks' = Closing(2)
       \/ /\ client.balance_paid
          /\ CardChanges([client EXCEPT !.balance_paid = TRUE]) /\ balanceTasks' = Closing(1)

\* create_followup_task and close_followup_task, of a blocking one
FollowUp ==
    /\ acts > 0 /\ Present /\ blocker' = ~blocker /\ acts' = acts - 1
    /\ UNCHANGED <<client, cycle, productions, installation, stageTask, balanceTasks, path, stops>>

\* Before production or after the end; the empty cycle goes with the client
delete_client ==
    /\ acts > 0 /\ Present /\ cycle \in {"client", "completed"}
    /\ balanceTasks = 0 /\ ~blocker /\ ~client.movements
    /\ client' = [client EXCEPT !.stage = "gone"]
    /\ stageTask' = [i \in Slots |-> "none"]
    /\ cycle' = IF cycle = "client" /\ productions = 0 THEN "none" ELSE cycle
    /\ acts' = acts - 1
    /\ UNCHANGED <<productions, installation, balanceTasks, blocker, path, stops>>

------------------------------------------------------------------------------
People ==
    \/ start_installation \/ update_documents \/ update_payment
    \/ set_payment_edit_unlocked \/ update_manager \/ FollowUp \/ delete_client
    \/ \E paid \in BOOLEAN : record_balance_payment(paid)
    \/ _on_balance_payment_task_closed
    \/ \E s \in Managers : \/ transition_stage(s) \/ _on_client_task_closed(s)
                          \/ transition_installation(s) \/ complete_installation(s)

Serves(s) ==
    \/ Advance(s) \/ StandsThere(s) \/ MoveAndTell(s) \/ MoveAtOnce(s)
    \/ _reset_stage_tasks(s) \/ Settle(s) \/ Reconciled(s) \/ Fails(s)

PathNext ==
    \/ People
    \/ \E s \in Sessions : Serves(s) \/ Stops(s) \/ reconcile_client_stage_tasks(s)

\* Sessions end, the thread of the reconciliation wakes every hour
PathFairness ==
    /\ \A s \in Sessions : WF_pathVars(Serves(s))
    /\ WF_pathVars(reconcile_client_stage_tasks(Loop))

PathSpec == PathInit /\ [][PathNext]_pathVars /\ PathFairness

------------------------------------------------------------------------------
(***************************************************************************)
(* A cycle is in production or at the installation only with houses, even  *)
(* while a move is half-way: its status is written along with them.        *)
(***************************************************************************)
CycleHasHouses == cycle \in {"production", "installation"} => productions > 0

(***************************************************************************)
(* No house is begun before the documents and the payment of its client    *)
(* were locked, whatever is changed on the card during the move.           *)
(***************************************************************************)
HousesFollowContract ==
    productions > 0 => client.documents_locked /\ client.payment_locked

(***************************************************************************)
(* _apply_stage_plan, Completing: the houses of a client, his cycle and    *)
(* his contract agree at every commit of a move.                           *)
(***************************************************************************)
HousesAgree == CycleHasHouses /\ HousesFollowContract

(***************************************************************************)
(* reconcile.py: a client somebody has to move has one open task, and it   *)
(* is about the stage he is at; a client at another stage has none.        *)
(***************************************************************************)
StageTasksAgree ==
    IF needs_stage_task(client.stage)
    THEN \E i \in Slots : _open_stage_tasks = {i} /\ stageTask[i] = client.stage
    ELSE _open_stage_tasks = {}

(***************************************************************************)
(* Whatever moves, deaths of sessions and reconciliations crossed, once    *)
(* people leave a client alone the tasks of his stage agree for good.      *)
(***************************************************************************)
StageTasksRestored == <>[](Present => StageTasksAgree)

(***************************************************************************)
(* _apply_stage_plan: a failure of the generation does not stop the move,  *)
(* the houses are there without blocks.                                    *)
(***************************************************************************)
HousesUnderWay ==
    client.stage = "postpayment" /\ (\A s \in Managers : path[s] = NotMoving) => productions > 0

(***************************************************************************)
(* record_balance_payment: a cycle cannot be closed with an unpaid balance. *)
(***************************************************************************)
ClosedIsPaid ==
    [][cycle' = "completed" /\ cycle # "completed" => client.balance_paid]_pathVars

(***************************************************************************)
(* advance_stage_automatically moves a client only forward.                *)
(***************************************************************************)
OnlyForward ==
    [][client'.stage # "gone" => At(client'.stage) >= At(client.stage)]_pathVars
=============================================================================
