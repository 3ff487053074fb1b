------------------------------ MODULE Content ------------------------------
(***************************************************************************)
(* A unit of content (app/marketing/service.py) on its way from an idea to *)
(* the analysis.  Each stage but the last has a task on the board; moving  *)
(* on, by hand or by closing the task, closes it and makes the next.  A    *)
(* content somebody is assigned to is moved in two transactions, because   *)
(* notify commits in the middle of it.                                     *)
(***************************************************************************)
EXTENDS Naturals, Sequences, FiniteSets, SequencesExt

CONSTANTS
    ContentEditors,        \* requests that may run at once
    Platforms,      \* where the content is to be released
    MaxMoves,       \* bound: moves and edits that begin
    MaxDeaths       \* bound: requests that break off

VARIABLES
    content,    \* the row: stage, material, links, whether anybody is assigned
    openEdits,       \* open tasks of the content: the stage each was made for, by number
    editors,    \* what each request is doing, and the content as it has read it
    moves, deaths,
    disturbed,  \* history: a move broke off half-way, or wrote into another one
    emptied     \* history: the raw material was cleared between the look at it and the lock

contentVars == <<content, openEdits, editors, moves, deaths, disturbed, emptied>>

CONTENT_STAGE_ORDER == <<"idea", "gathering", "editing", "release", "analysis">>
Position(stage) == CHOOSE i \in DOMAIN CONTENT_STAGE_ORDER : CONTENT_STAGE_ORDER[i] = stage
LastStage == "analysis"
_next_stage(stage) == CONTENT_STAGE_ORDER[Position(stage) + 1]

NoEdit == [step |-> "idle", does |-> "none", saw |-> "none", task |-> 0]

\* A content with its first task, as create_content makes it, or one in editing
ContentInit ==
    /\ \E stage \in {"idea", "editing"}, assigned \in BOOLEAN :
        /\ content = [stage |-> stage, raw |-> stage = "editing", locked |-> stage = "editing", final |-> FALSE,
                      links |-> {}, assigned |-> assigned]
        /\ openEdits = <<stage>>
    /\ editors = [e \in ContentEditors |-> NoEdit]
    /\ moves = 0
    /\ deaths = 0
    /\ disturbed = FALSE
    /\ emptied = FALSE

\* The content is read, with its texts, files and links
Edits(e, does, task) ==
    /\ editors[e] = NoEdit /\ moves < MaxMoves
    /\ moves' = moves + 1
    /\ editors' = [editors EXCEPT ![e] = [step |-> "read", does |-> does, saw |-> content, task |-> task]]
    /\ UNCHANGED <<content, openEdits, deaths, disturbed, emptied>>

Wrote(e, step) == editors' = [editors EXCEPT ![e] = IF step = "idle" THEN NoEdit ELSE [@ EXCEPT !.step = step]]

Refused(e) ==
    /\ editors' = [editors EXCEPT ![e] = NoEdit]
    /\ UNCHANGED <<content, openEdits, moves, deaths, disturbed, emptied>>

ContentReady(e, does) == editors[e].step = "read" /\ editors[e].does = does

ContentWrites(e, new) ==
    /\ content' = new
    /\ Wrote(e, "idle")
    /\ UNCHANGED <<openEdits, moves, deaths, disturbed>>

\* Texts may be cleared again; 400 once they are locked
update_raw(e) ==
    /\ ContentReady(e, "raw")
    /\ IF editors[e].saw.locked THEN Refused(e)
       ELSE \E raw \in BOOLEAN :
              /\ ContentWrites(e, [content EXCEPT !.raw = raw])
              /\ emptied' = (emptied \/ (content.locked /\ ~raw))

ContentEdited(e, new) == ContentWrites(e, new) /\ UNCHANGED emptied

update_final(e) == ContentReady(e, "final") /\ \E final \in BOOLEAN : ContentEdited(e, [content EXCEPT !.final = final])
set_post_links(e) == ContentReady(e, "links") /\ \E links \in SUBSET Platforms : ContentEdited(e, [content EXCEPT !.links = links])
update_basic_content(e) == ContentReady(e, "basic") /\ \E assigned \in BOOLEAN : ContentEdited(e, [content EXCEPT !.assigned = assigned])

-----------------------------------------------------------------------------
(* A move *)

\* What a stage asks for before it is left
MayLeave(saw) ==
    /\ saw.stage # LastStage
    /\ saw.stage = "gathering" => saw.raw
    /\ saw.stage = "editing" => saw.final
    /\ saw.stage = "release" => saw.links = Platforms

\* _create_transition_task: the last stage has none
Tasked(tasks, stage) == IF stage = LastStage THEN tasks ELSE Append(tasks, stage)

\* Deviation: a move leaves the task of the stage before open
ClosedNone(tasks) == {tasks}

\* close_open_link_task takes one of the open tasks
Closed(tasks) == IF tasks = <<>> THEN {<<>>} ELSE {RemoveAt(tasks, i) : i \in DOMAIN tasks}

\* The task that is being closed from the board is done with the stage
WithoutItem(tasks, t) == IF t \in DOMAIN tasks THEN RemoveAt(tasks, t) ELSE tasks

\* A request is between the two commits of a move
Between == \E e \in ContentEditors : editors[e].step = "moved"

transition_stage(e) ==
    /\ ContentReady(e, "move")
    /\ LET saw == editors[e].saw
           stage == _next_stage(saw.stage)
           others == WithoutItem(openEdits, editors[e].task)
       IN IF ~MayLeave(saw) THEN Refused(e)
          ELSE /\ content' = [content EXCEPT !.stage = stage, !.locked = @ \/ saw.stage = "gathering"]
               /\ IF saw.assigned
                  THEN openEdits' = others /\ Wrote(e, "moved")
                  ELSE (\E tasks \in Closed(others) : openEdits' = Tasked(tasks, stage)) /\ Wrote(e, "idle")
               /\ disturbed' = (disturbed \/ saw.stage # content.stage \/ Between)
               /\ emptied' = (emptied \/ (saw.stage = "gathering" /\ ~content.raw))
               /\ UNCHANGED <<moves, deaths>>

\* After the commit of notify the stage is read again
_create_transition_task(e) ==
    /\ editors[e].step = "moved"
    /\ \E tasks \in Closed(openEdits) : openEdits' = Tasked(tasks, content.stage)
    /\ Wrote(e, "idle")
    /\ UNCHANGED <<content, moves, deaths, disturbed, emptied>>

\* The process dies, or the push of a notification fails, between the two commits
BreaksOff(e) ==
    /\ editors[e].step # "idle" /\ deaths < MaxDeaths
    /\ deaths' = deaths + 1
    /\ editors' = [editors EXCEPT ![e] = NoEdit]
    /\ disturbed' = (disturbed \/ editors[e].step = "moved")
    /\ UNCHANGED <<content, openEdits, moves, emptied>>

ContentNext == \E e \in ContentEditors :
    \/ \E does \in {"raw", "final", "links", "basic", "move"} : Edits(e, does, 0)
    \/ \E t \in DOMAIN openEdits : Edits(e, "move", t)
    \/ update_raw(e) \/ update_final(e) \/ set_post_links(e) \/ update_basic_content(e)
    \/ transition_stage(e) \/ _create_transition_task(e) \/ BreaksOff(e)

ContentSpec == ContentInit /\ [][ContentNext]_contentVars

-----------------------------------------------------------------------------
\* A stage somebody has to leave has one task, of that stage
OneTask == openEdits = Tasked(<<>>, content.stage)

\* The raw material is there from the editing on, and locked (models.py, "required
\* before EDITING, then locked")
RawIsKept == Position(content.stage) > 2 => content.locked /\ content.raw

\* However moves and edits cross, a stage has its one task, through either door,
\* until a move writes into another one or breaks off between its two commits;
\* and from the editing on the material is there and locked, whatever crosses or
\* breaks off, unless it was cleared in the very moment between the look at it
\* and the lock.  Neither is mended by anything
MovesAreWhole == (disturbed \/ Between \/ OneTask) /\ (emptied \/ RawIsKept)
=============================================================================
