------------------------------ MODULE Autonomy ------------------------------
(***************************************************************************)
(* The autonomous agent (app/agents/autonomy).  A run scans the sections   *)
(* with detectors, keeps a watch on everything they find, and reminds      *)
(* people (level A) or puts up a card that waits for a decision (level B). *)
(* What becomes of a card with a message to MAX is in the module Shifts.   *)
(*                                                                         *)
(* A run is one session, but notify commits it: what is committed, what a  *)
(* run has written since its last commit (mine) and what it only holds in  *)
(* memory are kept apart, for a detector that fails rolls the session back *)
(* and the run goes on.                                                    *)
(***************************************************************************)
EXTENDS Integers, FiniteSets

CONSTANTS
    Keys,           \* finding.key: what is wrong with what
    Scenarios,      \* the detectors
    ScenarioOf,     \* [Keys -> Scenarios]
    External,       \* scenarios that would write to someone outside
    Messages,       \* keys whose card is a message to MAX
    Says,           \* [Keys -> SUBSET {"A", "B"}]: the levels a detector proposes
    Escalating,     \* keys with a term after which they are escalated
    Runs,           \* sessions that may be in run_once: the loop's, manual ones
    Daemon,           \* the run of the daemon thread
    MaxCards,       \* bound: proposals ever made
    REPEAT_LIMIT, MAX_OPEN_PROPOSALS, MAX_NEW_CARDS_PER_SCENARIO,
    Faults,         \* bound: detectors that fail, sessions that die
    Unset

ASSUME AutonomyAssumption ==
    /\ ScenarioOf \in [Keys -> Scenarios]
    /\ Says \in [Keys -> SUBSET {"A", "B"}]
    /\ External \subseteq Scenarios
    /\ Messages \cup Escalating \subseteq Keys
    /\ Daemon \in Runs
    /\ Unset \notin Keys
    /\ {REPEAT_LIMIT, MAX_OPEN_PROPOSALS, MAX_NEW_CARDS_PER_SCENARIO, Faults, MaxCards} \subseteq Nat

Cards == 1..MaxCards      \* tasks.id

VARIABLES
    found,      \* [Keys -> {"no", "A", "B"}]: what a detector would say now
    watch,      \* agent_watchlist
    repeats,    \* agent_action_counters.repeats
    people,     \* [Scenarios -> ...]: a notification unread, or a reaction that
                \* came after the last one the counter knows of
    card,       \* the proposals on the board
    recent,     \* the last run in the journal is younger than MIN_GAP
    run,        \* what each session is doing
    faults      \* faults there may still be

autonomyVars == <<found, watch, repeats, people, card, recent,
                  run, faults>>

\* A watch that is not there and one that is resolved are treated alike
NotWatched == [status |-> "closed", level |-> Unset, acted |-> FALSE, due |-> FALSE]
NoCard  == [status |-> "none", key |-> Unset]

\* Written by a session since its last commit
Unwritten == [watch |-> <<>>, repeats |-> <<>>, answered |-> {}, cards |-> <<>>, row |-> FALSE]

NotRunning == [step |-> "idle", todo |-> {}, queue |-> {}, looked |-> Unset, seen |-> {},
               scanned |-> {}, answered |-> {}, asks |-> <<>>, counted |-> {}, made |-> <<>>, open |-> Unset,
               locked |-> {}, mine |-> Unwritten]

AutonomyInit ==
    /\ found = [k \in Keys |-> "no"]
    /\ watch = [k \in Keys |-> NotWatched]
    /\ repeats = [s \in Scenarios |-> 0]
    /\ people = [s \in Scenarios |-> "quiet"]
    /\ card = [c \in Cards |-> NoCard]
    /\ recent = FALSE
    /\ run = [r \in Runs |-> NotRunning]
    /\ faults = Faults

------------------------------------------------------------------------------
(* What a session sees: its own writes over what is committed              *)

Over(new, old) == [x \in DOMAIN new \cup DOMAIN old |-> IF x \in DOMAIN new THEN new[x] ELSE old[x]]
Put(x, value, old) == Over([y \in {x} |-> value], old)

Watched(m, k) == IF k \in DOMAIN m.watch THEN Over(m.watch[k], watch[k]) ELSE watch[k]

Repeats(m, s) == IF s \in DOMAIN m.repeats THEN m.repeats[s] ELSE repeats[s]

BoardOf(m) == Over(m.cards, card)

count_open_proposals(m) == Cardinality({c \in Cards : BoardOf(m)[c].status = "review"})

find_open_proposal(m, k) == \E c \in Cards : BoardOf(m)[c] = [status |-> "review", key |-> k]

\* Identifiers are given in order, those of sessions under way included
IdTaken(m, c) == BoardOf(m)[c].status # "none" \/ \E r \in Runs : c \in DOMAIN run[r].mine.cards

NextCard(m) == {c \in Cards : ~IdTaken(m, c) /\ \A d \in Cards : d < c => IdTaken(m, d)}

must_ask_human(m, s) == Repeats(m, s) >= REPEAT_LIMIT

\* Columns of a watch changed in memory or by a flush
WriteWatch(m, k, columns) ==
    [m EXCEPT !.watch = Put(k, IF k \in DOMAIN m.watch THEN Over(columns, m.watch[k]) ELSE columns, @)]

\* register_reaction was called for these; others may still read what they got
Registered(scenarios) ==
    [s \in Scenarios |-> IF s \in scenarios /\ people[s] = "heard" THEN "told" ELSE people[s]]

CommitRun(m) ==
    /\ watch' = [k \in Keys |-> Watched(m, k)]
    /\ repeats' = Over(m.repeats, repeats)
    /\ card' = BoardOf(m)
    /\ recent' = (recent \/ m.row)

------------------------------------------------------------------------------
(* The run                                                                 *)

\* After MIN_GAP a task that was moved is enough, and any may have been
should_run == ~recent

\* sync_reactions: a reaction resets the counter of its scenario
sync_reactions(m) ==
    LET reacted == {s \in Scenarios : repeats[s] > 0 /\ people[s] = "heard"} IN
    [m EXCEPT !.repeats = [s \in reacted |-> 0], !.answered = reacted]

BeginRun(r) ==
    /\ run[r].step = "idle"
    /\ r = Daemon => should_run
    /\ run' = [run EXCEPT ![r] =
         [NotRunning EXCEPT !.step = "scan", !.todo = Scenarios,
                            !.mine = sync_reactions([Unwritten EXCEPT !.row = TRUE])]]
    /\ UNCHANGED <<found, watch, repeats, people, card, recent, faults>>

\* The next detector, in the order of the weights of the sections
Scan(r, s) ==
    LET n == run[r]
        findings == {k \in Keys : ScenarioOf[k] = s /\ found[k] # "no"}
    IN  /\ n.step = "scan" /\ n.queue = {} /\ s \in n.todo
        /\ run' = [run EXCEPT ![r] =
             [n EXCEPT !.todo = @ \ {s}, !.scanned = @ \cup {s}, !.answered = @ \cup {s}, !.seen = @ \cup findings,
                       !.queue = {[key |-> k, level |-> found[k]] : k \in findings}]]
        /\ UNCHANGED <<found, watch, repeats, people, card, recent, faults>>

(***************************************************************************)
(* The snapshot of a section or its detector fails: the session is rolled  *)
(* back, with the row of the run if that was not committed yet, and the    *)
(* scan goes on.  A detector was entered under scanned_scenarios before it *)
(* failed, a section that has no snapshot skips its detectors.             *)
(***************************************************************************)
ScanFails(r, s) ==
    LET n == run[r] IN
    /\ n.step = "scan" /\ n.queue = {} /\ s \in n.todo /\ faults > 0
    /\ \E entered \in {{}, {s}} :
         run' = [run EXCEPT ![r] = [n EXCEPT !.todo = @ \ {s}, !.scanned = @ \cup entered,
                                             !.locked = {}, !.mine = Unwritten]]
    /\ faults' = faults - 1
    /\ UNCHANGED <<found, watch, repeats, people, card, recent>>

------------------------------------------------------------------------------
(* handle_finding.  First get_watch reads the row; it is written once      *)
(* nobody else holds it.                                                   *)

Look(r, f) ==
    LET n == run[r] IN
    /\ n.looked = Unset /\ f \in n.queue
    /\ run' = [run EXCEPT ![r].looked =
         [key |-> f.key, level |-> f.level, row |-> Watched(n.mine, f.key)]]
    /\ UNCHANGED <<found, watch, repeats, people, card, recent, faults>>

\* touch_watch: a new watch, one that opens again, one seen once more
Touched(row) ==
    IF row.status = "closed" THEN [NotWatched EXCEPT !.status = "open"] ELSE <<>>

Now(n) == Over(Touched(n.looked.row), n.looked.row)

Flushed(n) == WriteWatch(n.mine, n.looked.key, Touched(n.looked.row))

due_for_escalation(n) == Now(n).status = "open" /\ Now(n).due

\* New, due, a reminder that is a day old, or worse than it was
MustAct(n) ==
    \/ n.looked.row.status = "closed"
    \/ due_for_escalation(n)
    \/ Now(n).status = "open" /\ n.looked.level = "A" /\ ~Now(n).acted
    \/ Now(n).status = "open" /\ n.looked.level = "B" /\ Now(n).level # "B"

Scenario(n) == ScenarioOf[n.looked.key]

\* Whether the scenario must ask is settled once in a run
Asks(n) == IF Scenario(n) \in DOMAIN n.asks THEN n.asks[Scenario(n)]
           ELSE must_ask_human(n.mine, Scenario(n))

resolve_level(n) ==
    IF due_for_escalation(n) \/ Scenario(n) \in External \/ n.looked.level # "A" \/ Asks(n)
    THEN "B" ELSE "A"

OpenCards(n) == IF n.open = Unset THEN count_open_proposals(n.mine) ELSE n.open
CardsMade(n) == IF Scenario(n) \in DOMAIN n.made THEN n.made[Scenario(n)] ELSE 0
Full(n) == CardsMade(n) >= MAX_NEW_CARDS_PER_SCENARIO \/ OpenCards(n) >= MAX_OPEN_PROPOSALS

\* The session goes on to the next finding
NextFinding(n) == [n EXCEPT !.queue = @ \ {[key |-> n.looked.key, level |-> n.looked.level]},
                      !.looked = Unset]
Asked(n) == [NextFinding(n) EXCEPT !.asks = Put(Scenario(n), Asks(n), @)]
Counted(n) == [Asked(n) EXCEPT !.open = OpenCards(n)]
OneMore(n) == [Counted(n) EXCEPT !.open = @ + 1, !.made = Put(Scenario(n), CardsMade(n) + 1, @)]

\* The marks of the watch, in memory until the next flush
Marked(n, m) ==
    WriteWatch(m, n.looked.key,
               Over([acted |-> TRUE, level |-> resolve_level(n)],
                    IF due_for_escalation(n) THEN [status |-> "escalated", due |-> FALSE] ELSE <<>>))

register_action(n, m) ==
    IF Scenario(n) \in n.counted THEN m
    ELSE [m EXCEPT !.repeats = Put(Scenario(n), Repeats(n.mine, Scenario(n)) + 1, @)]

\* Nobody is told and nothing committed: the session n1 goes on with m unsaved
Quietly(r, n1, m) ==
    /\ run' = [run EXCEPT ![r] = [n1 EXCEPT !.mine = m, !.locked = @ \cup {run[r].looked.key}]]
    /\ UNCHANGED <<watch, repeats, people, card, recent>>

\* notify commits what is written so far; m is what is only marked after it
Telling(r, n1, written, m) ==
    /\ CommitRun(written)
    /\ people' = [Registered(written.answered) EXCEPT ![Scenario(run[r])] =
                     IF @ = "quiet" THEN "told" ELSE @]
    /\ run' = [run EXCEPT ![r] = [n1 EXCEPT !.mine = m, !.locked = {}]]

publish_level_a(r) ==
    LET n == run[r]
        n1 == [Asked(n) EXCEPT !.counted = @ \cup {Scenario(n)}]
    IN  /\ MustAct(n) /\ resolve_level(n) = "A"
        /\ \/ Telling(r, n1, Flushed(n), Marked(n, register_action(n, Unwritten)))
           \/ Quietly(r, n1, Marked(n, register_action(n, Flushed(n))))     \* all muted it

\* Deviation: nobody looks for a card that waits already
CardIsNew(n) == FALSE

\* Only an escalation asks again whether there is a card
CardIsThere(n) == find_open_proposal(n.mine, n.looked.key)

publish_level_b(r) ==
    LET n == run[r] IN
    /\ MustAct(n) /\ resolve_level(n) = "B" /\ ~Full(n)
    /\ \/ /\ CardIsThere(n) /\ due_for_escalation(n)
          /\ Quietly(r, OneMore(n), Marked(n, Flushed(n)))
       \/ /\ ~CardIsThere(n)
          /\ \E c \in NextCard(n.mine) :
               LET put == [Flushed(n) EXCEPT !.cards = Put(c, [status |-> "review", key |-> n.looked.key], @)]
               IN  \/ /\ n.looked.key \notin Messages     \* propose_message tells nobody
                      /\ Telling(r, OneMore(n), put, Marked(n, Unwritten))
                   \/ Quietly(r, OneMore(n), Marked(n, put))

\* The card waits already, or there are too many: the watch stays for the next run
Waits(r) ==
    LET n == run[r] IN
    /\ MustAct(n) /\ resolve_level(n) = "B"
    /\ \/ CardIsThere(n) /\ ~due_for_escalation(n) /\ Quietly(r, Asked(n), Flushed(n))
       \/ (CardIsThere(n) => due_for_escalation(n)) /\ Full(n) /\ Quietly(r, Counted(n), Flushed(n))

Handle(r) ==
    /\ run[r].looked # Unset
    /\ \A o \in Runs \ {r} : run[r].looked.key \notin run[o].locked
    /\ \/ ~MustAct(run[r]) /\ Quietly(r, NextFinding(run[r]), Flushed(run[r]))
       \/ publish_level_a(r)
       \/ publish_level_b(r)
       \/ Waits(r)
    /\ UNCHANGED <<found, faults>>

\* resolve_cleared and the commit that ends the run
Finish(r) ==
    LET n == run[r]
        cleared == {k \in Keys : /\ Watched(n.mine, k).status # "closed"
                                 /\ ScenarioOf[k] \in n.scanned
                                 /\ k \notin n.seen}
        m == [n.mine EXCEPT !.watch =
                [k \in cleared \cup DOMAIN @ |->
                   IF k \in cleared THEN NotWatched ELSE @[k]]]
    IN  /\ n.step = "scan" /\ n.todo = {} /\ n.queue = {}
        /\ \A o \in Runs \ {r} : DOMAIN m.watch \cap run[o].locked = {}
        /\ CommitRun(m)
        /\ people' = Registered(m.answered)
        /\ run' = [run EXCEPT ![r] = NotRunning]
        /\ UNCHANGED <<found, faults>>

\* An exception nobody catches, or a restart: the session is gone
Dies(r) ==
    /\ run[r].step # "idle" /\ faults > 0
    /\ run' = [run EXCEPT ![r] = NotRunning]
    /\ faults' = faults - 1
    /\ UNCHANGED <<found, watch, repeats, people, card, recent>>

------------------------------------------------------------------------------
(* People                                                                  *)

\* read_at is later than the last reaction the counter has; a reading during
\* a run is one before or after it
ReadNotification(s) ==
    /\ people[s] = "told" /\ \A r \in Runs : run[r].step = "idle"
    /\ people' = [people EXCEPT ![s] = "heard"]
    /\ UNCHANGED <<found, watch, repeats, card, recent, run, faults>>

\* A message card has a scenario of its own, which no counter counts
CardScenario(c) == IF card[c].key \in Keys \ Messages THEN {ScenarioOf[card[c].key]} ELSE {}

\* A reviewer decides the card on the board
Decide(c) ==
    /\ card[c].status = "review"
    /\ card' = [card EXCEPT ![c].status = "done"]
    /\ people' = [s \in Scenarios |-> IF s \in CardScenario(c) THEN "heard" ELSE people[s]]
    /\ run' = [r \in Runs |-> [run[r] EXCEPT !.mine.answered = @ \ CardScenario(c)]]
    /\ UNCHANGED <<found, watch, repeats, recent, faults>>

\* An administrator's own proposal of a message; it takes a place as well
propose_message(c) ==
    /\ c \in NextCard(Unwritten)
    /\ card' = [card EXCEPT ![c] = [status |-> "review", key |-> Unset]]
    /\ UNCHANGED <<found, watch, repeats, people, recent, run, faults>>

close_proposals ==
    LET closed == {c \in Cards : card[c].status = "review"}
        scenarios == UNION {CardScenario(c) : c \in closed}
    IN  /\ closed # {}
        /\ card' = [c \in Cards |-> IF c \in closed THEN [card[c] EXCEPT !.status = "done"] ELSE card[c]]
        /\ repeats' = [s \in Scenarios |-> IF s \in scenarios THEN 0 ELSE repeats[s]]
        /\ people' = Registered(scenarios)
        /\ UNCHANGED <<found, watch, recent, run, faults>>

resolve_watch(k) ==
    /\ watch[k].status # "closed" /\ \A r \in Runs : k \notin run[r].locked
    /\ watch' = [watch EXCEPT ![k] = NotWatched]
    /\ repeats' = [repeats EXCEPT ![ScenarioOf[k]] = 0]
    /\ people' = Registered({ScenarioOf[k]})
    /\ UNCHANGED <<found, card, recent, run, faults>>

------------------------------------------------------------------------------
(* The company and the clock                                               *)

Changes(k, what) ==
    /\ found[k] # what /\ \A r \in Runs : run[r].step = "idle"
    /\ found' = [found EXCEPT ![k] = what]
    /\ UNCHANGED <<watch, repeats, people, card, recent, run, faults>>

\* Hours pass: the journal ages, reminders are a day old, terms run out
TimePasses ==
    /\ \A r \in Runs : run[r].step = "idle"
    /\ recent' = FALSE
    /\ \/ recent /\ UNCHANGED watch
       \/ ~recent /\ watch' = [k \in Keys |-> [watch[k] EXCEPT
                                 !.acted = FALSE,
                                 !.due = k \in Escalating /\ watch[k].status = "open"]]
    /\ <<recent, watch>>' # <<recent, watch>>
    /\ UNCHANGED <<found, repeats, people, card, run, faults>>

RunStep(r) ==
    \/ BeginRun(r)
    \/ \E s \in Scenarios : Scan(r, s)
    \/ \E f \in run[r].queue : Look(r, f)
    \/ Handle(r)
    \/ Finish(r)

RunBreaks(r) == Dies(r) \/ \E s \in Scenarios : ScanFails(r, s)

PeopleStep ==
    \/ \E s \in Scenarios : ReadNotification(s)
    \/ \E c \in Cards : Decide(c) \/ propose_message(c)
    \/ close_proposals
    \/ \E k \in Keys : resolve_watch(k)

AutonomyNext ==
    \/ \E r \in Runs : RunStep(r) \/ RunBreaks(r)
    \/ PeopleStep
    \/ \E k \in Keys : \E what \in Says[k] \cup {"no"} : Changes(k, what)
    \/ TimePasses

\* The daemon thread polls, a session is not left halfway, and hours pass
AutonomyFairness ==
    /\ \A r \in Runs : WF_autonomyVars(run[r].step # "idle" /\ RunStep(r))
    /\ WF_autonomyVars(BeginRun(Daemon))
    /\ WF_autonomyVars(TimePasses)

AutonomySpec == AutonomyInit /\ [][AutonomyNext]_autonomyVars /\ AutonomyFairness

------------------------------------------------------------------------------
(* Properties                                                              *)

(***************************************************************************)
(* However runs cross and escalate, no finding has two cards waiting for a *)
(* decision (find_open_proposal): the row of its watch, which a run writes *)
(* first, keeps a second run out until the card of the first can be seen.  *)
(***************************************************************************)
OneCardPerFinding ==
    \A c, d \in Cards :
        card[c].status = "review" /\ card[d] = card[c] /\ card[c].key # Unset => c = d

(***************************************************************************)
(* A watch is escalated only when the people have got, or had, a card for  *)
(* it (mark_escalated after publish_level_b), whatever is rolled back.     *)
(***************************************************************************)
EscalationsHaveCards ==
    \A k \in Keys : watch[k].status = "escalated" => \E c \in Cards : card[c].key = k

(***************************************************************************)
(* What the agent found and what it asked the people agree: a finding has  *)
(* one open card, and one that is escalated has, or had, its card.         *)
(***************************************************************************)
CardsMatchFindings == OneCardPerFinding /\ EscalationsHaveCards

HasRoom == /\ Cardinality({c \in Cards : card[c].status = "review"}) < MAX_OPEN_PROPOSALS
           /\ NextCard(Unwritten) # {}          \* the bound, not the code

(***************************************************************************)
(* What is put off because too many cards wait (deferred) is taken up by a *)
(* later run: a finding that stays gets a reminder or a card if the people *)
(* keep a place free.                                                      *)
(***************************************************************************)
FindingsHandled ==
    \A k \in Keys :
        (<>[](found[k] # "no") /\ <>[]HasRoom) =>
            <>(watch[k].level # Unset \/ \E c \in Cards : card[c].key = k)

(***************************************************************************)
(* workspace.py: what was not checked in this run is not touched when what *)
(* is gone is cleared.                                                     *)
(***************************************************************************)
OnlyCheckedAreCleared ==
    [][\A r \in Runs, k \in Keys :
         /\ run[r].step = "scan" /\ run'[r].step = "idle"
         /\ watch[k].status # "closed" /\ watch'[k].status = "closed"
         => ScenarioOf[k] \in run[r].answered]_autonomyVars

=============================================================================
