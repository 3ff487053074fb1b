------------------------------ MODULE StagePlan ------------------------------
(***************************************************************************)
(* Where the blocks of a house come from (app/production): the language    *)
(* model reads the drawings of a client page by page and proposes stages,  *)
(* which of them wait for which, and norms of material; engineers correct  *)
(* and confirm the template; every house of the model is built from it.    *)
(*                                                                         *)
(* Templates are read, thought about - for minutes, when it is the model   *)
(* that thinks - and written without a lock.                               *)
(***************************************************************************)
EXTENDS Integers, Sequences, FiniteSets

CONSTANTS
    Stages,         \* the numbers (sequence) of the stages of a template
    MaxTemplates,   \* bound: templates ever made for the model of the house
    Engineers,      \* requests served at the same time
    MaxHouses,      \* bound: houses put into production
    MaxPlans        \* bound: what engineers begin

ASSUME StagePlanAssumption ==
    /\ Stages \subseteq Nat /\ IsFiniteSet(Stages)
    /\ {MaxTemplates, MaxHouses, MaxPlans} \subseteq Nat

VARIABLES
    extraction,     \* the drawings of the client were read (kr_extractions)
    template,       \* production_stage_templates, in the order of their ids
    house,          \* how each house was built, in the order they were
    engineer,       \* what each request is doing
    plans

planVars == <<extraction, template, house, engineer, plans>>

Graph == SUBSET {e \in Stages \X Stages : e[1] # e[2]}

\* norm: of one material, "none", or given by the model, or by a person
NoTemplate == [status |-> "none", waits |-> {}, norm |-> "none", edits |-> 0, confirmed |-> 0]
Thinking   == [op |-> "none", on |-> 0, saw |-> "none"]

PlanInit ==
    /\ extraction = FALSE /\ template = <<>> /\ house = <<>>
    /\ engineer = [e \in Engineers |-> Thinking]
    /\ plans = MaxPlans

PlanBegins(e, op, on) ==
    /\ engineer[e] = Thinking /\ plans > 0 /\ plans' = plans - 1
    /\ engineer' = [engineer EXCEPT ![e] =
         [op |-> op, on |-> on, saw |-> IF on = 0 THEN "none" ELSE template[on].status]]
    /\ UNCHANGED <<extraction, template, house>>

PlanEnds(e, op) == engineer[e].op = op /\ engineer' = [engineer EXCEPT ![e] = Thinking] /\ UNCHANGED plans

------------------------------------------------------------------------------
(* The template                                                            *)

\* One record of a client, written anew when the drawings are read again
run_kr_extraction ==
    /\ plans > 0 /\ plans' = plans - 1 /\ extraction' = TRUE
    /\ UNCHANGED <<template, house, engineer>>

\* _find_existing_template: the newest of the model, whatever its status
Newest == Len(template)

generate_or_reuse_template(e) == Newest = 0 /\ extraction /\ PlanBegins(e, "generate", 0)

NewDraft(waits, norm) == [NoTemplate EXCEPT !.status = "draft", !.waits = waits, !.norm = norm]

\* Whatever stages the model says wait for each other; or it does not answer
_persist_draft(e) ==
    /\ PlanEnds(e, "generate")
    /\ \/ UNCHANGED template
       \/ /\ Len(template) < MaxTemplates
          /\ \E waits \in Graph, norm \in {"none", "model"} :
               template' = Append(template, NewDraft(waits, norm))
    /\ UNCHANGED <<extraction, house>>

\* A block, a task or a material of the template is corrected
Corrects(e, i) == template[i].status # "confirmed" /\ PlanBegins(e, "correct", i)

\* Columns as they were assigned: the status only by who saw a draft
Corrected(e) ==
    LET i   == engineer[e].on
        row == template[i]
    IN
    /\ PlanEnds(e, "correct")
    /\ \E norm \in {row.norm, "none", "person"} :
         template' = [template EXCEPT ![i] =
            [row EXCEPT !.edits = @ + 1, !.norm = norm,
                        !.status = IF engineer[e].saw = "draft" THEN "reviewed" ELSE @]]
    /\ UNCHANGED <<extraction, house>>

confirm_template(e, i) == template[i].status # "confirmed" /\ PlanBegins(e, "confirm", i)

Confirmed(e) ==
    LET i == engineer[e].on IN
    /\ PlanEnds(e, "confirm")
    /\ template' = [template EXCEPT ![i] = [template[i] EXCEPT !.status = "confirmed", !.confirmed = template[i].edits + 1]]
    /\ UNCHANGED <<extraction, house>>

\* Only norms that are missing, of a confirmed template too
fill_quantities_from_kr(e, i) == template[i].norm = "none" /\ extraction /\ PlanBegins(e, "fill", i)

Filled(e) ==
    LET i == engineer[e].on IN
    /\ PlanEnds(e, "fill")
    /\ template' \in {template, [template EXCEPT ![i].norm = "model"]}
    /\ UNCHANGED <<extraction, house>>

------------------------------------------------------------------------------
(* A house                                                                 *)

\* _topological_order goes round by round: those come that wait for nothing
\* that is left, or, where all that is left waits, all of it; the rounds of a
\* plan are what this makes of them
Rounds(waits) ==
    {round \in [Stages -> 1..Cardinality(Stages)] :
        \A n \in 1..Cardinality(Stages) :
            LET left  == {s \in Stages : round[s] >= n}
                ready == {s \in left : \A u \in left : <<s, u>> \notin waits}
            IN  {s \in Stages : round[s] = n} = IF ready = {} THEN left ELSE ready}

\* Deviation: blocks are built by the numbers of their stages alone
BuiltByNumber(round, s, t) == s < t

\* Stages of one round come in the order of their numbers
BuiltBefore(round, s, t) ==
    \/ round[s] < round[t]
    \/ round[s] = round[t] /\ s < t

\* A block looks its dependencies up among those built before it, and its
\* tasks wait for theirs
instantiate_stage_plan(t, round) ==
    LET found == {e \in t.waits : BuiltBefore(round, e[2], e[1])}
    IN  [built |-> IF found = t.waits THEN "blocks" ELSE "failed", waits |-> found, of |-> t.waits]

\* _apply_stage_plan, when a template is there: only a confirmed one
HouseBegins ==
    /\ Len(house) < MaxHouses
    /\ IF Newest = 0 \/ template[Newest].status # "confirmed"
       THEN house' = Append(house, [built |-> "empty", waits |-> {}, of |-> {}])
       ELSE \E round \in Rounds(template[Newest].waits) :
               house' = Append(house, instantiate_stage_plan(template[Newest], round))
    /\ UNCHANGED <<extraction, template, engineer, plans>>

PlanNext ==
    \/ run_kr_extraction \/ HouseBegins
    \/ \E e \in Engineers :
         \/ generate_or_reuse_template(e) \/ _persist_draft(e)
         \/ Corrected(e) \/ Confirmed(e) \/ Filled(e)
         \/ \E i \in 1..Len(template) :
              Corrects(e, i) \/ confirm_template(e, i) \/ fill_quantities_from_kr(e, i)

PlanSpec == PlanInit /\ [][PlanNext]_planVars

------------------------------------------------------------------------------
Circle(waits) ==
    \E ring \in SUBSET Stages : ring # {} /\ \A s \in ring : \E t \in ring : <<s, t>> \in waits

(***************************************************************************)
(* stage_plan.py: a house built from a template has all the stages, every  *)
(* task waits for what the template says, whatever the numbers of the      *)
(* stages are; it fails only where stages wait for each other in a circle. *)
(***************************************************************************)
PlansAreWhole ==
    \A i \in 1..Len(house) : /\ house[i].built = "blocks" => house[i].waits = house[i].of
                             /\ house[i].built = "failed" => Circle(house[i].of)

(***************************************************************************)
(* _topological_order: a circle in the data of a template does not stop    *)
(* the building, the rest is built by the numbers of the stages.           *)
(***************************************************************************)
CirclesAreBuilt == \A i \in 1..Len(house) : house[i].built # "failed"

(***************************************************************************)
(* _require_editable: a confirmed template is not corrected any more.      *)
(***************************************************************************)
ConfirmedStays ==
    [][\A i \in 1..Len(template) : template[i].status = "confirmed" => template'[i].status = "confirmed"]_planVars

(***************************************************************************)
(* fill_quantities_from_kr: the norm is given only to materials that have  *)
(* none; what an engineer has entered meanwhile stays.                     *)
(***************************************************************************)
NormsOfPeopleStay ==
    [][\A i \in 1..Len(template) : template[i].norm = "person" => template'[i].norm # "model"]_planVars
=============================================================================
