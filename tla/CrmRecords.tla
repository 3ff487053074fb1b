----------------------------- MODULE CrmRecords -----------------------------
(***************************************************************************)
(* The records of sales (crm/service.py, schemas.py, router.py) and where  *)
(* they come from: the export of the former CRM, loaded as often as one    *)
(* likes (crm/importer.py).  Records are edited under a version: a card is *)
(* opened, its data are merged and checked against the records they name,  *)
(* and the row is written if the version is still the one of the card.     *)
(* The acceptance of an inquiry about a deal rewrites the deal as well.    *)
(* Texts, sums and people are left out: what a record says is a number,    *)
(* new at every write.                                                     *)
(***************************************************************************)
EXTENDS Naturals, FiniteSets

CONSTANTS
    Leads,          \* deals of the former CRM
    Pipelines, LeadStages,
    Managers,       \* people who work with the records
    NoStage,        \* the stage of a deal nothing is known of
    MaxWrites       \* bound: writes, and exports

ASSUME RecordsAssumption == MaxWrites \in Nat /\ NoStage \notin LeadStages

VARIABLES
    former,         \* by lead: what the former CRM has of it
    unsorted,       \* by lead: the inquiry it came with
    leadDeal,           \* by lead: the deal made here
    board,          \* by stage: its pipeline, whether it is archived
    retired,        \* archived pipelines
    card,           \* by person: the card that is open, the request about it
    writes          \* counter of the bound, and what was written last

recordVars == <<former, unsorted, leadDeal, board, retired, card, writes>>

NotHere == [there |-> FALSE, archived |-> FALSE, version |-> 0, data |-> 0, stage |-> NoStage, pipeline |-> NoStage]
NoCard == [op |-> "none"]

RecordsInit ==
    /\ former = [l \in Leads |-> "none"]
    /\ unsorted = [l \in Leads |-> "none"]
    /\ leadDeal = [l \in Leads |-> NotHere]
    /\ \E p \in Pipelines : board = [s \in LeadStages |-> [pipeline |-> p, archived |-> FALSE]]
    /\ retired = {}
    /\ card = [u \in Managers |-> NoCard]
    /\ writes = 0

Recorded == writes < MaxWrites /\ writes' = writes + 1

-----------------------------------------------------------------------------
(* The export *)

\* A lead appears, with or without an inquiry, is deleted, is restored
FormerChanges(l) ==
    /\ \/ /\ former[l] = "none"
          /\ former' = [former EXCEPT ![l] = "live"]
       \/ /\ former[l] # "none"
          /\ former' = [former EXCEPT ![l] = IF @ = "live" THEN "deleted" ELSE "live"]
    /\ Recorded
    /\ UNCHANGED <<unsorted, leadDeal, board, retired, card>>

\* A record that is here stays as it is
add(l, row) == IF leadDeal[l].there THEN leadDeal[l] ELSE row

Live(l, s) == [there |-> TRUE, archived |-> FALSE, version |-> 1, data |-> writes',
               stage |-> s, pipeline |-> board[s].pipeline]
Tombstone == [there |-> TRUE, archived |-> TRUE, version |-> 1, data |-> 0, stage |-> NoStage, pipeline |-> NoStage]

\* An inquiry that came with a lead is made once; afterwards it is only looked at
Unsorted(asked) == [l \in Leads |-> IF unsorted[l] = "none" /\ l \in asked THEN "open" ELSE unsorted[l]]

\* What was deleted there is archived here, and its version stays
import_export ==
    /\ Recorded
    /\ \E s \in LeadStages, asked \in SUBSET {l \in Leads : former[l] = "live"} :
        /\ leadDeal' = [l \in Leads |->
              CASE former[l] = "live" -> add(l, Live(l, s))
                [] former[l] = "deleted" -> [add(l, Tombstone) EXCEPT !.archived = TRUE]
                [] OTHER -> leadDeal[l]]
        /\ unsorted' = Unsorted(asked)
    /\ UNCHANGED <<former, board, retired, card>>

-----------------------------------------------------------------------------
(* Cards *)

\* The pipeline and the stage of a deal are in use, and belong together
validate(s, p) == p \notin retired /\ ~board[s].archived /\ board[s].pipeline = p

RecordTurns(u, what) == card' = [card EXCEPT ![u] = what]

entry(u, l) ==
    /\ card[u] = NoCard
    /\ leadDeal[l].there
    /\ RecordTurns(u, [op |-> "read", deal |-> l, version |-> leadDeal[l].version, saw |-> leadDeal[l].data])
    /\ UNCHANGED <<former, unsorted, leadDeal, board, retired, writes>>

\* The row is read: another version is refused, the data are merged and checked.
\* A card that only archives the deal, or brings it back, checks nothing.
patch_record(u) ==
    /\ card[u].op = "read"
    /\ LET l == card[u].deal IN
       \/ /\ leadDeal[l].version # card[u].version
          /\ RecordTurns(u, NoCard)
       \/ /\ leadDeal[l].version = card[u].version
          /\ \/ \E s \in LeadStages : \E p \in Pipelines : validate(s, p)
                   /\ RecordTurns(u, [op |-> "merged", deal |-> l, version |-> card[u].version, saw |-> card[u].saw,
                                stage |-> s, pipeline |-> p, archived |-> leadDeal[l].archived])
             \/ RecordTurns(u, [op |-> "archive", deal |-> l, version |-> card[u].version, saw |-> card[u].saw,
                          archived |-> ~leadDeal[l].archived])
    /\ UNCHANGED <<former, unsorted, leadDeal, board, retired, writes>>

\* The update names the version in its condition
patched(u) ==
    /\ card[u].op \in {"merged", "archive"}
    /\ Recorded
    /\ LET l == card[u].deal   row == leadDeal[l] IN
       leadDeal' = IF row.version # card[u].version THEN leadDeal
               ELSE [leadDeal EXCEPT ![l] =
                     IF card[u].op = "archive"
                     THEN [row EXCEPT !.archived = card[u].archived, !.version = row.version + 1]
                     ELSE [row EXCEPT !.data = writes', !.version = row.version + 1,
                                      !.stage = card[u].stage, !.pipeline = card[u].pipeline]]
    /\ RecordTurns(u, NoCard)
    /\ UNCHANGED <<former, unsorted, board, retired>>

\* The inquiry is locked and the deal it names is read; it is not locked
accept_inquiry_of(u, l) ==
    /\ card[u] = NoCard
    /\ unsorted[l] = "open" /\ leadDeal[l].there
    /\ \A v \in Managers : ~(card[v].op = "accept" /\ card[v].deal = l)
    /\ \E s \in LeadStages : \E p \in Pipelines : validate(s, p)
        /\ RecordTurns(u, [op |-> "accept", deal |-> l, version |-> leadDeal[l].version, saw |-> leadDeal[l].data,
                     stage |-> s, pipeline |-> p])
    /\ UNCHANGED <<former, unsorted, leadDeal, board, retired, writes>>

accepted(u) ==
    /\ card[u].op = "accept"
    /\ Recorded
    /\ LET l == card[u].deal   row == leadDeal[l] IN
       /\ leadDeal' = [leadDeal EXCEPT ![l] =
                     [row EXCEPT !.data = writes', !.version = card[u].version + 1,
                                 !.stage = card[u].stage, !.pipeline = card[u].pipeline]]
       /\ unsorted' = [unsorted EXCEPT ![l] = "accepted"]
    /\ RecordTurns(u, NoCard)
    /\ UNCHANGED <<former, board, retired>>

\* A stage may go to another pipeline in use, be archived, come back; its deals stay
patch_stage(s) ==
    /\ Recorded
    /\ \/ \E p \in Pipelines \ (retired \union {board[s].pipeline}) : board' = [board EXCEPT ![s].pipeline = p]
       \/ board' = [board EXCEPT ![s].archived = ~@]
    /\ UNCHANGED <<former, unsorted, leadDeal, retired, card>>

patch_pipeline(p) ==
    /\ Recorded
    /\ retired' = IF p \in retired THEN retired \ {p} ELSE retired \union {p}
    /\ UNCHANGED <<former, unsorted, leadDeal, board, card>>

RecordsNext ==
    \/ import_export
    \/ \E l \in Leads : FormerChanges(l)
    \/ \E s \in LeadStages : patch_stage(s)
    \/ \E p \in Pipelines : patch_pipeline(p)
    \/ \E u \in Managers :
        \/ patch_record(u) \/ patched(u) \/ accepted(u)
        \/ \E l \in Leads : entry(u, l) \/ accept_inquiry_of(u, l)

RecordsSpec == RecordsInit /\ [][RecordsNext]_recordVars

-----------------------------------------------------------------------------
(* A card that would still be written was opened on what the deal says now *)
(* (patch: "Запись уже изменена. Обновите карточку."), however people and  *)
(* exports interleave -- unless an inquiry about the deal was accepted:    *)
(* that one gives out a version a card may have taken in the meantime.     *)
CardsSawTheDeal ==
    \A u \in Managers :
        card[u].op \in {"merged", "archive"} =>
            LET d == leadDeal[card[u].deal] IN
            d.version = card[u].version => d.data = card[u].saw \/ unsorted[card[u].deal] = "accepted"

(* Not so without the exception.                                           *)
CardsAlwaysSawTheDeal ==
    \A u \in Managers :
        card[u].op \in {"merged", "archive"} =>
            (leadDeal[card[u].deal].version = card[u].version => leadDeal[card[u].deal].data = card[u].saw)

(* Not so: a deal in work has a stage of its pipeline that is in use.      *)
DealsHaveTheirStage ==
    \A l \in Leads : leadDeal[l].there /\ ~leadDeal[l].archived =>
        leadDeal[l].stage # NoStage /\ board[leadDeal[l].stage].pipeline = leadDeal[l].pipeline
=============================================================================
