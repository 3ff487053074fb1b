---------------------------- MODULE CachedAnswers ----------------------------
(***************************************************************************)
(* Answers that are kept for a while (app/ai/cache.py): a person's plan of *)
(* the day and his first tasks (ai/daily_plan.py, ai/priorities.py), the   *)
(* light of a section (ai/analytics.py), its signal and the news on the    *)
(* first page (dashboard/overview.py, dashboard/aktualnoe.py).  A request  *)
(* looks into the cache, asks the model for a while if there is nothing    *)
(* fresh, and writes what it learnt; the world goes on meanwhile.          *)
(***************************************************************************)
EXTENDS Integers, FiniteSets

CONSTANTS
    Chores,         \* tasks the person may have open
    Visits,         \* requests that may run at once
    MaxPriorities,  \* first tasks that are shown at most
    MaxHour,        \* bound: the last hour (four hours are one here)
    MaxNews,        \* bound: changes of the world
    MaxVisits       \* bound: requests that begin

ASSUME CachedAssumption ==
    {MaxPriorities, MaxHour, MaxNews, MaxVisits} \subseteq Nat /\ IsFiniteSet(Chores)

VARIABLES
    hour,
    openChores,           \* the person's open tasks
    worst,          \* the best light the facts of the section allow
    entries,        \* by kind: what is kept
    visits,         \* by request: how far it has come
    shown,          \* what was answered last, and what it stood on
    news, visited     \* counters of the bounds

cacheVars == <<hour, openChores, worst, entries, visits, shown, news, visited>>

Red == 0
Green == 2
Unrated == 3
Lights == Red..Green

AnswerKinds == {"plan", "priorities", "analytics", "signal", "news"}
Picking == {"plan", "priorities"}

\* Hours an answer is good for; a plan is looked for under its day
TTL(kind) == CASE kind = "plan" -> 5 [] kind = "news" -> 3 [] kind = "signal" -> 2 [] OTHER -> 1
DayLength == 6
DayOf(h) == h \div DayLength

NoEntry == [there |-> FALSE, generated |-> 0, picks |-> {}, light |-> Unrated, floor |-> Unrated]
Entry(generated, picks, light, floor) ==
    [there |-> TRUE, generated |-> generated, picks |-> picks, light |-> light, floor |-> floor]
NoVisit == [at |-> "away"]
NothingShown == [kind |-> "none", own |-> {}, picks |-> {}, light |-> Unrated, floor |-> Unrated]

\* It is the end of a day
CachedInit ==
    /\ hour = DayLength - 1
    /\ openChores = Chores
    /\ worst = Green
    /\ entries = [k \in AnswerKinds |-> NoEntry]
    /\ visits = [v \in Visits |-> NoVisit]
    /\ shown = NothingShown
    /\ news = 0 /\ visited = 0

World == news < MaxNews /\ news' = news + 1 /\ UNCHANGED <<hour, entries, visits, shown, visited>>

\* Tasks are done or come; the state of the materials gets better or worse
ChoreChanges ==
    /\ World
    /\ \E c \in Chores : openChores' = (openChores \ {c}) \union ({c} \ openChores)
    /\ UNCHANGED worst

FactsChange == World /\ worst' \in Lights \ {worst} /\ UNCHANGED openChores

HourPasses == hour < MaxHour /\ hour' = hour + 1 /\ UNCHANGED <<openChores, worst, entries, visits, shown, news, visited>>

-----------------------------------------------------------------------------
(* The cache *)

\* Under a plan's key there is nothing on another day
get(kind, force) ==
    LET e == entries[kind] IN
    IF force \/ ~e.there \/ hour - e.generated > TTL(kind) \/ (kind = "plan" /\ DayOf(e.generated) # DayOf(hour))
    THEN NoEntry ELSE e

Shows(kind, own, e) == shown' = [kind |-> kind, own |-> own, picks |-> e.picks, light |-> e.light, floor |-> e.floor]

Left(v, visit) == visits' = [visits EXCEPT ![v] = visit]

-----------------------------------------------------------------------------
(* A request *)

AsksModel(v, kind, own, floor) ==
    Left(v, [at |-> "asking", kind |-> kind, own |-> own, floor |-> floor, asked |-> hour])

\* Deviation: a kept answer is shown as it was kept
OfKeptTasks(v, kind, force) ==
    LET e == get(kind, force) IN
    IF e.there THEN Shows(kind, openChores, e) /\ UNCHANGED visits
    ELSE IF openChores = {} THEN Shows(kind, openChores, Entry(hour, {}, Unrated, Unrated)) /\ UNCHANGED visits
    ELSE AsksModel(v, kind, openChores, Unrated) /\ UNCHANGED shown

\* The tasks are read again at every look, and what is kept of others left out;
\* without tasks there is nothing to ask
OfTasks(v, kind, force) ==
    LET e == get(kind, force) IN
    IF e.there THEN Shows(kind, openChores, [e EXCEPT !.picks = @ \intersect openChores]) /\ UNCHANGED visits
    ELSE IF openChores = {} THEN Shows(kind, openChores, Entry(hour, {}, Unrated, Unrated)) /\ UNCHANGED visits
    ELSE AsksModel(v, kind, openChores, Unrated) /\ UNCHANGED shown

generate_daily_plan(v, force) == OfTasks(v, "plan", force)
generate_task_priorities(v, force) == OfTasks(v, "priorities", force)

\* What is kept of a section is shown as it was; the facts are read only to ask anew
OfFacts(v, kind, force) ==
    LET e == get(kind, force) IN
    IF e.there THEN Shows(kind, {}, e) /\ UNCHANGED visits
    ELSE AsksModel(v, kind, {}, worst) /\ UNCHANGED shown

generate_section_analytics(v, force) == OfFacts(v, "analytics", force)
_generate_section_signal(v, force) == OfFacts(v, "signal", force)
generate_aktualnoe(v, force) == OfFacts(v, "news", force)

Visit(v) ==
    /\ visits[v] = NoVisit
    /\ visited < MaxVisits /\ visited' = visited + 1
    /\ \E force \in BOOLEAN :
        \/ generate_daily_plan(v, force)
        \/ generate_task_priorities(v, force)
        \/ generate_section_analytics(v, force)
        \/ _generate_section_signal(v, force)
        \/ generate_aktualnoe(v, force)
    /\ UNCHANGED <<hour, openChores, worst, entries, news>>

\* Whether a row is there is looked up before it is written
AnswerReady(v, answer) ==
    LET visit == visits[v]
        kept == entries[visit.kind]
        old == visit.kind = "plan" /\ DayOf(kept.generated) # DayOf(visit.asked)
    IN /\ Left(v, [at |-> "answered", kind |-> visit.kind, own |-> visit.own, answer |-> answer,
                   insert |-> ~kept.there \/ old])
       /\ UNCHANGED <<hour, openChores, worst, entries, shown, news, visited>>

Asking(v, kind) == visits[v].at = "asking" /\ visits[v].kind = kind

\* The model may name what it was not given: only what was sent is taken
DayPlanned(v) ==
    /\ Asking(v, "plan")
    /\ \E named \in SUBSET Chores : AnswerReady(v, Entry(visits[v].asked, named \intersect visits[v].own, Unrated, Unrated))

\* And no more than fit are
Preferred(v) ==
    /\ Asking(v, "priorities")
    /\ \E named \in SUBSET Chores :
        /\ Cardinality(named \intersect visits[v].own) <= MaxPriorities
        /\ AnswerReady(v, Entry(visits[v].asked, named \intersect visits[v].own, Unrated, Unrated))

\* It may give any light, and the facts lower it; a light is dated when it is given
_ask_model(v) ==
    LET Lowered(light) == IF light > visits[v].floor THEN visits[v].floor ELSE light IN
    /\ Asking(v, "analytics")
    /\ \E light \in Lights : AnswerReady(v, Entry(hour, {}, Lowered(light), visits[v].floor))

\* A signal and the news say what the facts are
Signalled(v) ==
    /\ Asking(v, "signal") \/ Asking(v, "news")
    /\ AnswerReady(v, Entry(visits[v].asked, {}, visits[v].floor, visits[v].floor))

\* The model cannot be reached: tasks are refused, a section is rated by the facts
\* alone and the news are shown without its words; nothing of it is kept
_rules_result(v) ==
    LET visit == visits[v] IN
    /\ visit.at = "asking" /\ visit.kind # "signal"
    /\ Left(v, NoVisit)
    /\ IF visit.kind \in Picking THEN UNCHANGED shown
       ELSE Shows(visit.kind, {}, Entry(visit.asked, {}, visit.floor, visit.floor))
    /\ UNCHANGED <<hour, openChores, worst, entries, news, visited>>

\* One row for a key: of two who found none, the second fails after it has asked
set(v) ==
    LET visit == visits[v]
        k == visit.kind
        taken == visit.insert /\ entries[k].there
                 /\ (k = "plan" => DayOf(entries[k].generated) = DayOf(visit.answer.generated))
    IN
    /\ visit.at = "answered"
    /\ Left(v, NoVisit)
    /\ IF taken THEN UNCHANGED <<entries, shown>>
       ELSE /\ entries' = [entries EXCEPT ![k] = visit.answer]
            /\ Shows(k, visit.own, visit.answer)
    /\ UNCHANGED <<hour, openChores, worst, news, visited>>

CachedNext ==
    \/ ChoreChanges \/ FactsChange \/ HourPasses
    \/ \E v \in Visits :
        \/ Visit(v) \/ DayPlanned(v) \/ Preferred(v) \/ _ask_model(v) \/ Signalled(v)
        \/ _rules_result(v) \/ set(v)

CachedSpec == CachedInit /\ [][CachedNext]_cacheVars

-----------------------------------------------------------------------------
\* A person is shown only what was open and his own when his request began, though it
\* was kept from before or named by the model; a light is never better than the facts
\* it was made of (ai/analytics.py, "the model's status cannot be greener than the
\* facts"), and no more first tasks are shown than fit
AnswersStandOnFacts ==
    /\ shown.picks \subseteq shown.own
    /\ shown.floor # Unrated => shown.light <= shown.floor
    /\ shown.kind = "priorities" => Cardinality(shown.picks) <= MaxPriorities

\* What facts that get worse refute, not among the runs: the light that is shown is no
\* better than the facts of the moment
LightsFollowFacts == [][shown' # shown /\ shown'.kind = "analytics" => shown'.light <= worst]_cacheVars

\* What a slow answer refutes, not among the runs: an answer is replaced by a younger one
CacheNeverGoesBack == [][\A k \in AnswerKinds : entries'[k].generated >= entries[k].generated]_cacheVars
=============================================================================
