----------------------------- MODULE HouseBlocks -----------------------------
(***************************************************************************)
(* The blocks of a house in production (app/production): the order they    *)
(* wait for each other in, the norms of their materials and the requests   *)
(* for them, whether the house is provided for, and the answer of the      *)
(* language model about its bottleneck, kept for six hours unless a fact   *)
(* it rests on changes.                                                    *)
(*                                                                         *)
(* A norm is locked before it is changed.  Dependencies, deletions and the *)
(* answer of the model are read, decided and written without a lock, and a *)
(* decision on a request that is announced commits before it closes the    *)
(* task of the request.                                                    *)
(***************************************************************************)
EXTENDS Integers, FiniteSets

CONSTANTS
    Blocks,         \* blocks a house may have
    Desks,          \* requests served at the same time
    MaxChanges      \* bound: facts people and time change

ASSUME HouseBlocksAssumption == MaxChanges \in Nat /\ IsFiniteSet(Blocks)

VARIABLES
    blocks,         \* blocks in the base
    depends,        \* block_dependencies: <<b, d>> when b waits for d
    needs,          \* blocks with requires_materials
    blockNorm,      \* [Blocks -> the quantities of a material, or NoNorm]
    jobs,           \* [Blocks -> what tasks the block has]
    asks,           \* material_requests, each with its task on the board
    answer,         \* the entry of ai_cache for this house
    desk,           \* what each request is doing
    changes

blockVars == <<blocks, depends, needs, blockNorm, jobs, asks, answer, desk, changes>>

NoNorm   == [material |-> FALSE, required |-> FALSE, requested |-> FALSE, provided |-> FALSE]
NormWith(required) == [NoNorm EXCEPT !.material = TRUE, !.required = required]
NoJobs   == [open |-> FALSE, done |-> FALSE, matching |-> FALSE, late |-> FALSE]
NoAnswer == [there |-> FALSE, fresh |-> FALSE, signals |-> {}]
AtRest   == [op |-> "none", block |-> {}, other |-> {}, ask |-> 0, signals |-> {}, had |-> FALSE]

\* A request is a change, so there are no more of them.  Its row is none, pending, decided,
\* or gone with the block; its task is none, open, closed by the decision, submitted on
\* the board, or left open by a decision that was cut off.
AskNumbers  == 1 .. MaxChanges
NoAsk == [block |-> {}, status |-> "none", task |-> "none"]

\* As the plan of the house, or the hand of an engineer, has made the blocks
BlocksInit ==
    /\ blocks = Blocks /\ depends = {} /\ asks = [r \in AskNumbers |-> NoAsk]
    /\ needs \in {Blocks, {}}
    /\ \/ /\ \E required \in BOOLEAN : blockNorm = [b \in Blocks |-> NormWith(required)]
          /\ \E matching \in BOOLEAN : jobs = [b \in Blocks |-> [NoJobs EXCEPT !.open = TRUE, !.matching = matching]]
       \/ /\ \E norm \in {NoNorm, NormWith(TRUE)} : blockNorm = [b \in Blocks |-> norm]
          /\ jobs = [b \in Blocks |-> NoJobs]
    /\ answer = NoAnswer
    /\ desk = [d \in Desks |-> AtRest]
    /\ changes = MaxChanges

------------------------------------------------------------------------------
(* Whether the house is provided for: readiness.py                         *)

\* From the worst to the best
MaterialsState ==
    <<"insufficient_data", "needs_reconciliation", "shortfall", "provided", "not_required">>

_assess_block(b) ==
    LET n == blockNorm[b] IN
    CASE b \notin needs -> "not_required"
      [] b \in needs /\ (~n.material \/ ~(n.required \/ n.requested \/ n.provided)) -> "insufficient_data"
      [] b \in needs /\ (n.required \/ n.requested \/ n.provided) /\ jobs[b].matching -> "needs_reconciliation"
      [] b \in needs /\ (n.required \/ n.requested) /\ ~jobs[b].matching -> "shortfall"
      [] OTHER -> "provided"

worst_state(states) ==
    MaterialsState[CHOOSE i \in 1..5 : MaterialsState[i] \in states
                                       /\ \A j \in 1..(i - 1) : MaterialsState[j] \notin states]

assess_production ==
    IF blocks = {} THEN "insufficient_data" ELSE worst_state({_assess_block(b) : b \in blocks})

\* A block without tasks is not closed
Closed(b) == LET j == jobs[b] IN j.done /\ ~j.open /\ ~j.matching

admitted(b) == \A d \in blocks : <<b, d>> \in depends => Closed(d)

\* The facts the bottleneck is chosen from
collect_deadline_signals ==
    {<<b, "overdue">>  : b \in {c \in blocks : jobs[c].open /\ jobs[c].late}} \cup
    {<<b, "pending">>  : b \in {c \in blocks : blockNorm[c].requested}} \cup
    {<<b, "matching">> : b \in {c \in blocks \cap needs : jobs[c].matching}} \cup
    {<<b, "shortfall">> : b \in {c \in blocks \cap needs : blockNorm[c].required /\ ~blockNorm[c].requested}}

\* Nothing is asked of the model without data, or without a bottleneck
Signals == IF assess_production = "insufficient_data" THEN {} ELSE collect_deadline_signals

------------------------------------------------------------------------------
(* The answer of the model                                                 *)

invalidate_production_caches == answer' = NoAnswer

\* generate_deadline_insight: an entry that is still young is the answer
generate_deadline_insight(d) ==
    /\ desk[d] = AtRest /\ ~answer.fresh /\ Signals # {}
    /\ desk' = [desk EXCEPT ![d] = [AtRest EXCEPT !.op = "insight", !.signals = Signals,
                                                  !.had = answer.there]]
    /\ UNCHANGED <<blocks, depends, needs, blockNorm, jobs, asks, answer, changes>>

\* The model has answered: the entry is written, unless the session holds one
\* that was deleted meanwhile, or the model did not answer
InsightEnds(d) ==
    /\ desk[d].op = "insight"
    /\ desk' = [desk EXCEPT ![d] = AtRest]
    /\ \/ UNCHANGED answer
       \/ /\ desk[d].had => answer.there
          /\ answer' = [there |-> TRUE, fresh |-> TRUE, signals |-> desk[d].signals]
    /\ UNCHANGED <<blocks, depends, needs, blockNorm, jobs, asks, changes>>

\* CACHE_TTL
AnswerAges ==
    /\ answer.fresh /\ answer' = [answer EXCEPT !.fresh = FALSE]
    /\ UNCHANGED <<blocks, depends, needs, blockNorm, jobs, asks, desk, changes>>

------------------------------------------------------------------------------
(* Norms and requests                                                      *)

Changing == changes > 0 /\ changes' = changes - 1 /\ UNCHANGED desk

NormBecomes(b, norm) == blockNorm' = [blockNorm EXCEPT ![b] = norm]

add_block_material(b) ==
    /\ Changing /\ b \in blocks /\ ~blockNorm[b].material
    /\ \E required \in BOOLEAN : NormBecomes(b, NormWith(required))
    /\ invalidate_production_caches
    /\ UNCHANGED <<blocks, depends, needs, jobs, asks>>

update_required_quantity(b, required) ==
    /\ Changing /\ b \in blocks /\ blockNorm[b].material
    /\ NormBecomes(b, [blockNorm[b] EXCEPT !.required = required]) /\ invalidate_production_caches
    /\ UNCHANGED <<blocks, depends, needs, jobs, asks>>

\* The next row gets the next number
NextAsk(r) == asks[r] = NoAsk /\ \A s \in AskNumbers : s < r => asks[s] # NoAsk

\* All that is required, or a part of it
request_material(r, b) ==
    /\ Changing /\ b \in blocks /\ blockNorm[b].required /\ NextAsk(r)
    /\ \E rest \in BOOLEAN : NormBecomes(b, [blockNorm[b] EXCEPT !.required = rest, !.requested = TRUE])
    /\ asks' = [asks EXCEPT ![r] = [block |-> {b}, status |-> "pending", task |-> "open"]]
    /\ invalidate_production_caches
    /\ UNCHANGED <<blocks, depends, needs, jobs>>

AskWaits(r, b) == asks[r].status = "pending" /\ asks[r].block = {b}

OthersWait(r, b) == \E s \in AskNumbers \ {r} : AskWaits(s, b)

\* force_close
Closes(r) == [asks[r] EXCEPT !.task = IF @ \in {"open", "left"} THEN "closed" ELSE @]

\* A decision closes the task of its request in its own transaction, or, when the task has
\* somebody to tell (_notify_material_request), commits first and then goes on
Decides(r) ==
    /\ changes > 0 /\ changes' = changes - 1
    /\ \/ asks' = [asks EXCEPT ![r] = [Closes(r) EXCEPT !.status = "decided"]] /\ UNCHANGED desk
       \/ \E d \in Desks :
            /\ desk[d] = AtRest
            /\ desk' = [desk EXCEPT ![d] = [AtRest EXCEPT !.op = "close", !.ask = r]]
            /\ asks' = [asks EXCEPT ![r].status = "decided"]

\* Deviation: the task of a request that was issued stays on the board
approve_and_forget(r, b, whole) ==
    /\ Changing /\ AskWaits(r, b)
    /\ NormBecomes(b, [blockNorm[b] EXCEPT !.requested = ~whole \/ OthersWait(r, b), !.provided = TRUE])
    /\ asks' = IF whole THEN [asks EXCEPT ![r].status = "decided"] ELSE asks
    /\ invalidate_production_caches
    /\ UNCHANGED <<blocks, depends, needs, jobs>>

\* The task of a request issued in part stays
approve_request(r, b, whole) ==
    /\ AskWaits(r, b)
    /\ NormBecomes(b, [blockNorm[b] EXCEPT !.requested = ~whole \/ OthersWait(r, b), !.provided = TRUE])
    /\ IF whole THEN Decides(r) ELSE Changing /\ UNCHANGED asks
    /\ invalidate_production_caches
    /\ UNCHANGED <<blocks, depends, needs, jobs>>

reject_request(r, b) ==
    /\ AskWaits(r, b)
    /\ NormBecomes(b, [blockNorm[b] EXCEPT !.requested = OthersWait(r, b), !.required = TRUE])
    /\ Decides(r)
    /\ invalidate_production_caches
    /\ UNCHANGED <<blocks, depends, needs, jobs>>

\* Whoever has the task may submit it, whatever became of the request: nobody reviews it
\* and no handler is told (tasks/service.py, _finalize_status)
SubmitsRequestTask(r) ==
    /\ asks[r].task \in {"open", "left"}
    /\ asks' = [asks EXCEPT ![r].task = "submitted"]
    /\ UNCHANGED <<blocks, depends, needs, blockNorm, jobs, answer, desk, changes>>

\* What is still required of the whole house
issue_by_techcard ==
    /\ Changing /\ \E b \in blocks : blockNorm[b].required
    /\ blockNorm' = [b \in Blocks |-> IF blockNorm[b].required
                                      THEN [blockNorm[b] EXCEPT !.required = FALSE, !.provided = TRUE]
                                      ELSE blockNorm[b]]
    /\ invalidate_production_caches
    /\ UNCHANGED <<blocks, depends, needs, jobs, asks>>

------------------------------------------------------------------------------
(* Blocks and their tasks                                                  *)

create_block(b) ==
    /\ Changing /\ b \notin blocks /\ \A d \in Desks : b \notin desk[d].block
    /\ blocks' = blocks \cup {b} /\ blockNorm' = [blockNorm EXCEPT ![b] = NoNorm]
    /\ needs' \in {needs \cup {b}, needs \ {b}}
    /\ jobs' = [jobs EXCEPT ![b] = NoJobs]
    /\ invalidate_production_caches
    /\ UNCHANGED <<depends, asks>>

update_block(b) ==
    /\ Changing /\ b \in blocks
    /\ needs' = (needs \cup {b}) \ (needs \cap {b}) /\ invalidate_production_caches
    /\ UNCHANGED <<blocks, depends, blockNorm, jobs, asks>>

\* A task for the block, or a term that has passed: no entry is dropped
create_task(b) ==
    /\ Changing /\ b \in blocks /\ jobs' = [jobs EXCEPT ![b].open = TRUE]
    /\ UNCHANGED <<blocks, depends, needs, blockNorm, asks, answer>>

DeadlinePasses(b) ==
    /\ Changing /\ b \in blocks /\ jobs[b].open /\ ~jobs[b].late
    /\ jobs' = [jobs EXCEPT ![b].late = TRUE]
    /\ UNCHANGED <<blocks, depends, needs, blockNorm, asks, answer>>

\* _cascade_readiness
TaskCloses(b) ==
    /\ Changing /\ b \in blocks
    /\ \/ jobs[b].open /\ jobs' = [jobs EXCEPT ![b] = [@ EXCEPT !.open = FALSE, !.done = TRUE, !.late = FALSE]]
       \/ jobs[b].matching /\ jobs' = [jobs EXCEPT ![b] = [@ EXCEPT !.matching = FALSE, !.done = TRUE]]
    /\ invalidate_production_caches
    /\ UNCHANGED <<blocks, depends, needs, blockNorm, asks>>

------------------------------------------------------------------------------
(* Dependencies and deletions: looked at, then written                     *)

Looks(d, op, b, other) ==
    /\ desk[d] = AtRest /\ changes > 0 /\ changes' = changes - 1
    /\ desk' = [desk EXCEPT ![d] = [AtRest EXCEPT !.op = op, !.block = b, !.other = other]]
    /\ UNCHANGED <<blocks, depends, needs, blockNorm, jobs, asks, answer>>

DeskWrites(d, op) == desk[d].op = op /\ desk' = [desk EXCEPT ![d] = AtRest] /\ UNCHANGED changes

\* The decision is announced: the request is read again, and its task is closed ...
TaskClosedLate(d) ==
    LET r == desk[d].ask IN
    /\ DeskWrites(d, "close") /\ asks[r].status = "decided"
    /\ asks' = [asks EXCEPT ![r] = Closes(r)]
    /\ UNCHANGED <<blocks, depends, needs, blockNorm, jobs, answer>>

\* ... unless the push fails, the server stops, or the request went with its block
TaskIsLeft(d) ==
    /\ DeskWrites(d, "close")
    /\ asks' = [asks EXCEPT ![desk[d].ask].task = IF @ = "open" THEN "left" ELSE @]
    /\ UNCHANGED <<blocks, depends, needs, blockNorm, jobs, answer>>

\* The search of _depends_transitively_on
_depends_transitively_on(b, target) ==
    \A visited \in SUBSET blocks :
        (b \in visited /\ \A e \in depends : e[1] \in visited => e[2] \in visited) => target \in visited

add_block_dependency(d, b, on) ==
    /\ {b, on} \subseteq blocks /\ b # on /\ <<b, on>> \notin depends
    /\ ~_depends_transitively_on(on, b)
    /\ Looks(d, "depend", {b}, {on})

\* The foreign keys refuse an edge of a block that is gone
DependencyAdded(d) ==
    /\ DeskWrites(d, "depend")
    /\ depends' = IF desk[d].block \cup desk[d].other \subseteq blocks
                  THEN depends \cup (desk[d].block \X desk[d].other) ELSE depends
    /\ UNCHANGED <<blocks, needs, blockNorm, jobs, asks, answer>>

remove_block_dependency(b, on) ==
    /\ Changing /\ <<b, on>> \in depends /\ depends' = depends \ {<<b, on>>}
    /\ UNCHANGED <<blocks, needs, blockNorm, jobs, asks, answer>>

\* Nothing was issued to the block, nothing is pending, no task is open ...
delete_block(d, b) ==
    /\ b \in blocks /\ ~blockNorm[b].provided /\ ~blockNorm[b].requested
    /\ ~jobs[b].open /\ ~jobs[b].matching
    /\ Looks(d, "delete", {b}, {})

\* ... and the cascade takes what has come since
BlockDeleted(d) ==
    /\ DeskWrites(d, "delete")
    /\ blocks' = blocks \ desk[d].block
    /\ depends' = {e \in depends : e[1] \notin desk[d].block /\ e[2] \notin desk[d].block}
    /\ blockNorm' = [b \in Blocks |-> IF b \in desk[d].block THEN NoNorm ELSE blockNorm[b]]
    /\ jobs' = [b \in Blocks |-> IF b \in desk[d].block THEN NoJobs ELSE jobs[b]]
    /\ asks' = [r \in AskNumbers |-> IF asks[r].block \cap desk[d].block # {}
                               THEN [asks[r] EXCEPT !.status = "gone", !.block = {}] ELSE asks[r]]
    /\ invalidate_production_caches
    /\ UNCHANGED needs

BlocksNext ==
    \/ AnswerAges \/ issue_by_techcard
    \/ \E b \in Blocks :
         \/ add_block_material(b)
         \/ \E r \in AskNumbers : request_material(r, b) \/ reject_request(r, b)
         \/ create_block(b) \/ update_block(b)
         \/ create_task(b) \/ DeadlinePasses(b) \/ TaskCloses(b)
         \/ \E required \in BOOLEAN : update_required_quantity(b, required)
         \/ \E r \in AskNumbers, whole \in BOOLEAN : approve_request(r, b, whole)
         \/ \E on \in Blocks : remove_block_dependency(b, on)
    \/ \E r \in AskNumbers : SubmitsRequestTask(r)
    \/ \E d \in Desks :
         \/ generate_deadline_insight(d) \/ InsightEnds(d)
         \/ TaskClosedLate(d) \/ TaskIsLeft(d)
         \/ DependencyAdded(d) \/ BlockDeleted(d)
         \/ \E b \in Blocks : delete_block(d, b) \/ \E on \in Blocks : add_block_dependency(d, b, on)

\* Requests end, and time passes
BlocksFairness ==
    /\ WF_blockVars(AnswerAges)
    /\ \A d \in Desks : WF_blockVars(InsightEnds(d))

BlocksSpec == BlocksInit /\ [][BlocksNext]_blockVars /\ BlocksFairness

------------------------------------------------------------------------------
(***************************************************************************)
(* An answer of the model computed before a fact changed may be written    *)
(* after it, and some facts drop no entry; but once the facts of a house   *)
(* stay, what is shown as its bottleneck is drawn from them for good.      *)
(***************************************************************************)
InsightsSettle == <>[](answer.fresh => answer.signals = Signals)

(***************************************************************************)
(* A task "request for a material" that stands open on the board is about  *)
(* a request that waits, or one whose decision has still to close it: only *)
(* a decision that was cut off, or a block deleted under the request,      *)
(* leaves its task to people.                                              *)
(***************************************************************************)
TasksHaveRequests ==
    \A r \in AskNumbers : asks[r].task = "open" =>
        \/ asks[r].status \in {"pending", "gone"}
        \/ \E d \in Desks : desk[d].op = "close" /\ desk[d].ask = r

(***************************************************************************)
(* A request that waits can be seen on the board, unless somebody submits  *)
(* its task: no decision, whatever it was about and however late it goes   *)
(* on, takes it from there.                                                *)
(***************************************************************************)
RequestsHaveTasks == \A r \in AskNumbers : asks[r].status = "pending" => asks[r].task \in {"open", "submitted"}

(***************************************************************************)
(* The norm of a block shows something requested as long as a request for  *)
(* it waits, and no longer.                                                *)
(***************************************************************************)
NormsShowRequests == \A b \in blocks : blockNorm[b].requested <=> \E r \in AskNumbers : AskWaits(r, b)

(***************************************************************************)
(* request_material, approve_request, reject_request, delete_block: the    *)
(* board, the requests and the norms tell the same, whoever comes between  *)
(* a decision and the closing of its task.                                 *)
(***************************************************************************)
TasksMatchRequests == TasksHaveRequests /\ RequestsHaveTasks /\ NormsShowRequests

(***************************************************************************)
(* delete_block: a pending request forbids the deletion of its block, it   *)
(* does not go with it silently.                                           *)
(***************************************************************************)
RequestsSurvive ==
    [][\A r \in AskNumbers : asks[r].status = "pending" => asks'[r].status # "gone"]_blockVars

(***************************************************************************)
(* _depends_transitively_on: dependencies are not allowed to close a       *)
(* circle, so work can always go on somewhere: of the blocks that are not  *)
(* closed one at least waits for no other.                                 *)
(***************************************************************************)
SomeBlockIsAdmitted ==
    LET unfinished == {b \in blocks : ~Closed(b)}
    IN  unfinished # {} => \E b \in unfinished : admitted(b)
=============================================================================
