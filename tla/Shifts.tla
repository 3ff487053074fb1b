------------------------------- MODULE Shifts -------------------------------
(***************************************************************************)
(* The shift of the company (app/agents): every role answers its question  *)
(* of the day, others review the answer, and what the filter of the lawyer *)
(* stops is put to a person.  A single request (create_run) goes through   *)
(* the same filter.  After it, the messages to MAX that agents proposed.   *)
(***************************************************************************)
EXTENDS Integers, FiniteSets

CONSTANTS
    Roles,              \* AgentId
    Lawyer,
    CROSS_REVIEWERS,    \* [Roles -> SUBSET Roles]: who reads whose draft
    Questions,          \* [Roles -> Verdicts]: what the filter says of DAILY_QUESTIONS
    Administrators,     \* administrators that decide
    MaxShifts           \* bound

Verdicts == {"allow", "escalate_human", "block"}

ASSUME ShiftsAssumption ==
    /\ Lawyer \in Roles
    /\ CROSS_REVIEWERS \in [Roles -> SUBSET Roles]
    /\ Questions \in [Roles -> Verdicts]
    /\ MaxShifts \in Nat

VARIABLES
    shifts,         \* Seq-like: [1..number of shifts -> the shift]
    approval,       \* agent_approvals, by shift, role and kind
    due,            \* agent_shift_interval_seconds have passed
    released,       \* what create_run let out: the verdict, or none
    decision        \* what each person's request is doing

shiftVars == <<shifts, approval, due, released, decision>>

Kinds == {"legal", "pricing"}
Approvals == [shift : 1..MaxShifts, role : Roles, kind : Kinds]

NotThere == [status |-> "none", by |-> "none"]
Waiting  == [step |-> "idle", on |-> "none"]

ShiftsInit ==
    /\ shifts = {} /\ due = TRUE /\ released = "none"
    /\ approval = [a \in Approvals |-> NotThere]
    /\ decision = [p \in Administrators |-> Waiting]

------------------------------------------------------------------------------
(* run_shift                                                               *)

(***************************************************************************)
(* What a role had to say: an excerpt of the live base, else what the      *)
(* model answered without facts, else an honest nothing; and what the      *)
(* filter makes of those words.                                            *)
(***************************************************************************)
Stances ==
    {s \in [source : {"live", "llm_without_facts", "none"}, words : Verdicts] :
        s.source = "none" => s.words = "allow"}

\* scan: the worst of what the rules found
Rank(v) == CASE v = "allow" -> 0 [] v = "escalate_human" -> 2 [] v = "block" -> 3

Worst(vs) == CHOOSE v \in vs : \A w \in vs : Rank(w) <= Rank(v)

\* Only the lawyer checks anything; the filter sees the question and the words
_review(role, reviewer, stance) ==
    IF reviewer # Lawyer THEN "not_checked"
    ELSE IF Worst({Questions[role], stance.words}) # "allow" THEN "checked_escalate"
    ELSE "checked_ok"

\* One item of the queue for every kind and role
_approvals(stances) ==
    {[role |-> r, kind |-> IF Questions[r] = "block" THEN "legal" ELSE "pricing"] :
        r \in {x \in Roles : Questions[x] # "allow"}}
    \cup {[role |-> r, kind |-> "legal"] :
        r \in {x \in Roles : \E v \in CROSS_REVIEWERS[x] :
                   _review(x, v, stances[x]) = "checked_escalate"}}

_verdict(queue) ==
    IF \E r \in Roles : Questions[r] = "block" THEN "block"
    ELSE IF queue # {} \/ \E r \in Roles : Questions[r] # "allow" THEN "escalate_human"
    ELSE "allow"

LastShift == Cardinality(shifts)

\* The shift, its items and its queue are written in one transaction
create_shift(stances) ==
    LET id == LastShift + 1
        queue == _approvals(stances)
    IN  /\ id <= MaxShifts
        /\ shifts' = shifts \cup {[id |-> id, stances |-> stances, verdict |-> _verdict(queue)]}
        /\ approval' = [a \in Approvals |->
              IF a.shift = id /\ [role |-> a.role, kind |-> a.kind] \in queue
              THEN [status |-> "pending", by |-> "none"] ELSE approval[a]]
        /\ due' = FALSE
        /\ UNCHANGED <<released, decision>>

\* The loop asks only for the age of the last shift
maybe_tick_shift(stances) == due /\ create_shift(stances)

IntervalPasses == ~due /\ due' = TRUE /\ UNCHANGED <<shifts, approval, released, decision>>

\* A person asks the coordinator: blocked, kept for a person, or let out
create_run(v) ==
    /\ released' = IF v = "allow" THEN "released" ELSE v
    /\ UNCHANGED <<shifts, approval, due, decision>>

------------------------------------------------------------------------------
(* decide_approval: the card is read, checked against the hash the person  *)
(* saw - the snapshot never changes - and written.                         *)

decide_approval(p, a) ==
    /\ decision[p].step = "idle" /\ approval[a].status = "pending"
    /\ decision' = [decision EXCEPT ![p] = [step |-> "deciding", on |-> a]]
    /\ UNCHANGED <<shifts, approval, due, released>>

DecisionSaved(p, status) ==
    /\ decision[p].step = "deciding"
    /\ approval' = [approval EXCEPT ![decision[p].on] = [status |-> status, by |-> p]]
    /\ decision' = [decision EXCEPT ![p] = Waiting]
    /\ UNCHANGED <<shifts, due, released>>

ShiftsNext ==
    \/ \E stances \in [Roles -> Stances] : create_shift(stances) \/ maybe_tick_shift(stances)
    \/ IntervalPasses
    \/ \E v \in Verdicts : create_run(v)
    \/ \E p \in Administrators :
         \/ \E a \in Approvals : decide_approval(p, a)
         \/ \E status \in {"approved", "rejected"} : DecisionSaved(p, status)

ShiftsSpec == ShiftsInit /\ [][ShiftsNext]_shiftVars

------------------------------------------------------------------------------
Stopped(s, r) == Worst({Questions[r], s.stances[r].words}) # "allow"

InQueue(s, r) == \E k \in Kinds : approval[[shift |-> s.id, role |-> r, kind |-> k]].status # "none"

(***************************************************************************)
(* ids.py: the lawyer sees everyone.  Whatever role's answer the filter    *)
(* would stop is put to a person.                                          *)
(***************************************************************************)
LawyerSeesEveryone ==
    \A s \in shifts, r \in Roles : Stopped(s, r) => InQueue(s, r)

(***************************************************************************)
(* A shift that says nothing is needed of anybody hides no answer that the *)
(* lawyer was given and the filter stops, and no question it stops.        *)
(***************************************************************************)
QuietShiftsAreClean ==
    \A s \in shifts :
        s.verdict = "allow" =>
            \A r \in Roles : /\ Questions[r] = "allow"
                             /\ Lawyer \in CROSS_REVIEWERS[r] => ~Stopped(s, r)
-----------------------------------------------------------------------------
(***************************************************************************)
(* Messages to MAX that an agent proposed (app/agents/autonomy/outbox.py). *)
(* An administrator approves or rejects the card; approval calls the       *)
(* messenger between the look at the card and the closing of it, and no    *)
(* handler locks the card.  It shares no state with the shift.             *)
(***************************************************************************)

CONSTANTS
    Proposals,      \* tasks.id of the cards
    Admins,         \* requests of administrators served at the same time
    MaxSends        \* bound: how often one message may leave

ASSUME OutboxAssumption == MaxSends \in Nat

VARIABLES
    proposal,       \* the card: its status, and what the last report on it says
    delivered,      \* [Proposals -> Nat]: how often the message reached MAX
    deciding        \* what each request is doing

outboxVars == <<proposal, delivered, deciding>>

Absent == [status |-> "none", report |-> "none"]
Unoccupied   == [step |-> "idle", on |-> "none"]

OutboxInit ==
    /\ proposal = [p \in Proposals |-> Absent]
    /\ delivered = [p \in Proposals |-> 0]
    /\ deciding = [q \in Admins |-> Unoccupied]

\* The card is created and put to review in one transaction
ProposeMessage(p) ==
    /\ proposal[p] = Absent
    /\ proposal' = [proposal EXCEPT ![p].status = "in_review"]
    /\ UNCHANGED <<delivered, deciding>>

\* db.get and the guards of approve_and_send and of reject
OpensCard(q, p, step) ==
    /\ deciding[q] = Unoccupied /\ proposal[p].status = "in_review"
    /\ deciding' = [deciding EXCEPT ![q] = [step |-> step, on |-> p]]
    /\ UNCHANGED <<proposal, delivered>>

approve_and_send(q, p) == OpensCard(q, p, "sending")
reject(q, p)           == OpensCard(q, p, "rejecting")

\* sender(chat_id, text): the message leaves, or MAX answers with an error
Send(q) ==
    /\ deciding[q].step = "sending" /\ delivered[deciding[q].on] < MaxSends
    /\ delivered' = [delivered EXCEPT ![deciding[q].on] = @ + 1]
    /\ deciding' = [deciding EXCEPT ![q].step = "sent"]
    /\ UNCHANGED proposal

\* Deviation: an error of MAX is taken for an answer
SendFailsUnnoticed(q) ==
    /\ deciding[q].step = "sending"
    /\ deciding' = [deciding EXCEPT ![q].step = "sent"]
    /\ UNCHANGED <<proposal, delivered>>

SendFails(q) ==
    /\ deciding[q].step = "sending"
    /\ deciding' = [deciding EXCEPT ![q] = Unoccupied]
    /\ UNCHANGED <<proposal, delivered>>

\* close_with_resolution goes by the status this session has read, and commits
CloseAs(q, step, report) ==
    /\ deciding[q].step = step
    /\ proposal' = [proposal EXCEPT ![deciding[q].on] = [status |-> "done", report |-> report]]
    /\ deciding' = [deciding EXCEPT ![q] = Unoccupied]
    /\ UNCHANGED delivered

\* The server stops between two statements
Stops(q) ==
    /\ deciding[q] # Unoccupied
    /\ deciding' = [deciding EXCEPT ![q] = Unoccupied]
    /\ UNCHANGED <<proposal, delivered>>

OutboxNext ==
    \/ \E p \in Proposals : ProposeMessage(p)
    \/ \E q \in Admins :
         \/ \E p \in Proposals : approve_and_send(q, p) \/ reject(q, p)
         \/ Send(q) \/ SendFails(q) \/ Stops(q)
         \/ CloseAs(q, "sent", "sent") \/ CloseAs(q, "rejecting", "rejected")

OutboxSpec == OutboxInit /\ [][OutboxNext]_outboxVars

------------------------------------------------------------------------------
(***************************************************************************)
(* A card whose last report says that the message was sent is the card of  *)
(* a message that was sent, whatever crosses, fails or stops.              *)
(***************************************************************************)
ReportsAreTrue ==
    \A p \in Proposals : proposal[p].report = "sent" => delivered[p] > 0

(***************************************************************************)
(* outbox.py: only from a card that waits for a deciding, and once.        *)
(***************************************************************************)
SentFromOpenCardOnce ==
    [][\A p \in Proposals : delivered'[p] # delivered[p] =>
          delivered[p] = 0 /\ proposal[p].status = "in_review"]_outboxVars
=============================================================================
