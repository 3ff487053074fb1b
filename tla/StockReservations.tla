-------------------------- MODULE StockReservations --------------------------
(***************************************************************************)
(* The warehouse: what lies on the shelves, what of it is promised         *)
(* (reserved), and what the houses under construction still need.          *)
(*                                                                         *)
(* An action is one HTTP handler, from its first query to its commit.      *)
(* Every handler that writes a material's stock or its holds first takes   *)
(* the material's row lock (warehouse/service.py, _lock_materials), and    *)
(* every handler that writes a norm first takes the norm's row lock        *)
(* (production/locks.py), so two handlers on the same rows run one after   *)
(* the other and each sees what the other committed.                       *)
(***************************************************************************)
EXTENDS Quantities

CONSTANTS
    Materials,       \* rows of warehouse_materials
    Houses,          \* productions that are not completed
    SalesLines,      \* lines of customer orders, targets of holds in SalesOrders
    Null,            \* the SQL NULL
    BlockMaterials,  \* rows of block_materials: naturals, in the order of the stages
    HouseOf,         \* BlockMaterials -> Houses
    MaterialOf,      \* BlockMaterials -> Materials
    InitialRequired, \* BlockMaterials -> the norm the house starts with
    InitialStock,    \* balances an import may leave, negative ones included
    Threshold,       \* Materials -> the balance below which supply is needed
    Storekeepers,    \* those with access to the warehouse, who get the tasks of shortages
    RequestIds,      \* the UUIDs that clients put on their requests
    MaxHolds, MaxRequests, MaxQuantity, MaxStock, MaxNorm, MaxVersion,   \* bounds
    MaxLate          \* bound: decisions on requests that are announced and not done

ASSUME TablesAssumption ==
    /\ IsFiniteSet(Materials) /\ IsFiniteSet(Houses) /\ IsFiniteSet(SalesLines)
    /\ IsFiniteSet(RequestIds)
    /\ BlockMaterials \subseteq Nat /\ IsFiniteSet(BlockMaterials)
    /\ HouseOf \in [BlockMaterials -> Houses]
    /\ MaterialOf \in [BlockMaterials -> Materials]
    /\ Null \notin Materials \cup Houses \cup SalesLines
    /\ Houses \cap SalesLines = {}

ASSUME QuantitiesAssumption ==
    /\ InitialRequired \in [BlockMaterials -> Nat]
    /\ InitialStock \subseteq Int
    /\ Threshold \in [Materials -> Nat]
    /\ {MaxHolds, MaxRequests, MaxQuantity, MaxStock, MaxNorm, MaxVersion, MaxLate} \subseteq Nat

VARIABLES
    stock,      \* warehouse_materials.quantity_in_stock
    hold,       \* stock_reservations
    event,      \* what each client request did to a hold: reservation_events
    norm,       \* block_materials
    request,    \* material_requests
    shortage,   \* the materials with an open WAREHOUSE_SHORTAGE task
    unsynced    \* what decisions on requests, once announced, have left to do for the
                \* tasks of their materials

vars == <<stock, hold, event, norm, request, shortage, unsynced>>

HoldIds == 1 .. MaxHolds
MaterialRequests == 1 .. MaxRequests
Amounts == 1 .. MaxQuantity

\* Whom a hold is for: a free purpose, a house, or a line of a customer order.
Targets == {Null} \cup Houses \cup SalesLines

\* A row with version 0 has not been inserted yet.
NoHold == [material |-> Null, target |-> Null, quantity |-> 0, released |-> 0,
           consumed |-> 0, version |-> 0, archived |-> FALSE]

NewHold(m, t, q) == [material |-> m, target |-> t, quantity |-> q, released |-> 0,
                     consumed |-> 0, version |-> 1, archived |-> FALSE]

NoRequest == [block |-> 0, quantity |-> 0, status |-> "none"]

NoEvent == [kind |-> "none", hold |-> 0, quantity |-> 0]

------------------------------------------------------------------------------
(* Holds and what is free of them.  The operators take the tables they read, *)
(* so that an action can say which version of a table a query saw.           *)

\* remaining(row)
Left(row) == row.quantity - row.released - row.consumed

\* row.version += 1, which every handler does to a hold it changed
NextVersion(row) == [row EXCEPT !.version = @ + 1]

\* What the holds on material m for the targets T still keep, row by row.
LeftOn(hd, m, T) ==
    [h \in HoldIds |-> IF hd[h].material = m /\ hd[h].target \in T THEN Left(hd[h]) ELSE 0]

\* allocations(db, [m]): what is held of m for the targets T
Held(hd, m, T) == Total(LeftOn(hd, m, T), HoldIds)

\* available(db, m)
Available(st, hd, m) == st[m] - Held(hd, m, Targets)

\* Deviation: only the balance is looked at, not what is promised of it.
EnoughOnTheShelf(q, own) == \A m \in DOMAIN q : q[m] <= stock[m]

\* assert_available(db, lines, production_id): the recipient may use its own holds.
EnoughFor(q, own) ==
    \A m \in DOMAIN q : q[m] <= Available(stock, hold, m) + Held(hold, m, own)

\* A document lists some materials, each once and with a positive quantity.
Documents == UNION {[S -> Amounts] : S \in (SUBSET Materials) \ {{}}}

Added(st, q, sign) ==
    [m \in Materials |-> IF m \in DOMAIN q THEN st[m] + sign * q[m] ELSE st[m]]

\* What block_materials rows of house p still need of material m.
NormOf(m, p, column) ==
    [b \in BlockMaterials |->
        IF MaterialOf[b] = m /\ HouseOf[b] = p THEN norm[b][column] ELSE 0]

\* What a house has asked the warehouse for and not been answered.
PendingOf(rq, m, p) ==
    Total([r \in MaterialRequests |->
              IF /\ rq[r].status = "pending"
                 /\ MaterialOf[rq[r].block] = m /\ HouseOf[rq[r].block] = p
              THEN rq[r].quantity ELSE 0],
          MaterialRequests)

\* demand_with_holds: a house's hold covers its own request.
Demand(hd, rq, m) ==
    Held(hd, m, Targets)
      + Total([p \in Houses |->
                  AtLeast(0, PendingOf(rq, m, p) - Held(hd, m, {p}))],
              Houses)

NeedsSupply(st, hd, rq, m) == st[m] - Demand(hd, rq, m) < Threshold[m]

\* sync_shortage_task for the materials ms, with the tables its queries see, in the
\* transaction of the handler.
SyncShortage(ms, st, hd, rq) ==
    /\ shortage' = (shortage \ ms) \cup {m \in ms : NeedsSupply(st, hd, rq, m)}
    /\ UNCHANGED unsynced

------------------------------------------------------------------------------
Init ==
    /\ stock \in [Materials -> InitialStock]
    /\ hold = [h \in HoldIds |-> NoHold]
    /\ event = [u \in RequestIds |-> NoEvent]
    /\ norm = [b \in BlockMaterials |->
                 [required |-> InitialRequired[b], requested |-> 0, provided |-> 0]]
    /\ request = [r \in MaterialRequests |-> NoRequest]
    /\ shortage = {m \in Materials : NeedsSupply(stock, hold, request, m)}
    /\ unsynced = {}

\* The row the next INSERT gets: serial numbers grow.
NextHold(h) ==
    /\ hold[h].version = 0
    /\ \A g \in HoldIds : g < h => hold[g].version > 0

\* Common to every creation: answer a repeated request from the table, hold only
\* what is free, insert the row, and look at the shortage with the row in place.
InsertHold(u, h, m, t, q) ==
    /\ event[u] = NoEvent
    /\ NextHold(h)
    /\ q <= Available(stock, hold, m)
    /\ hold' = [hold EXCEPT ![h] = NewHold(m, t, q)]
    /\ event' = [event EXCEPT ![u] = [kind |-> "created", hold |-> h, quantity |-> q]]
    /\ SyncShortage({m}, stock, hold', request)

\* A hold for a purpose that is only named.
ReserveForPurpose(u, h, m, q) ==
    /\ InsertHold(u, h, m, Null, q)
    /\ UNCHANGED <<stock, norm, request>>

\* Deviation: the norm bounds each hold, not the holds together.
ReserveForHouseAlone(u, h, m, p, q) ==
    /\ q <= Total(NormOf(m, p, "required"), BlockMaterials)
              + Total(NormOf(m, p, "requested"), BlockMaterials)
    /\ InsertHold(u, h, m, p, q)
    /\ UNCHANGED <<stock, norm, request>>

\* A hold for a house, within what its norm has not been given yet.
ReserveForHouse(u, h, m, p, q) ==
    /\ q <= Total(NormOf(m, p, "required"), BlockMaterials)
              + Total(NormOf(m, p, "requested"), BlockMaterials) - Held(hold, m, {p})
    /\ InsertHold(u, h, m, p, q)
    /\ UNCHANGED <<stock, norm, request>>

\* Deviation: a repeated request is carried out again.
MayChangeAgain(u, h, seen, q) ==
    /\ hold[h].version > 0 /\ ~hold[h].archived
    /\ hold[h].version = seen
    /\ seen < MaxVersion
    /\ q <= Left(hold[h])

\* locked_change: a request not seen before, the version the client saw, and no
\* more than what is left.
MayChange(u, h, seen, q) ==
    /\ event[u] = NoEvent
    /\ hold[h].version > 0 /\ ~hold[h].archived
    /\ hold[h].version = seen
    /\ seen < MaxVersion
    /\ q <= Left(hold[h])

\* The session does not flush before a query (db/session.py), so the shortage is
\* looked at with the hold as it was.
Release(u, h, seen, q) ==
    /\ MayChange(u, h, seen, q)
    /\ hold' = [hold EXCEPT ![h] = NextVersion([hold[h] EXCEPT !.released = @ + q])]
    /\ event' = [event EXCEPT ![u] = [kind |-> "released", hold |-> h, quantity |-> q]]
    /\ SyncShortage({hold[h].material}, stock, hold, request)
    /\ UNCHANGED <<stock, norm, request>>

\* Goods leave by a hold without a house or a customer order.  The movement is
\* flushed before the shortage is looked at, the hold is not.
Issue(u, h, seen, q) ==
    LET m == hold[h].material IN
    /\ MayChange(u, h, seen, q)
    /\ hold[h].target = Null
    /\ q <= Available(stock, hold, m) + Left(hold[h])
    /\ stock' = [stock EXCEPT ![m] = @ - q]
    /\ hold' = [hold EXCEPT ![h] = NextVersion([hold[h] EXCEPT !.consumed = @ + q])]
    /\ event' = [event EXCEPT ![u] = [kind |-> "issued", hold |-> h, quantity |-> q]]
    /\ SyncShortage({m}, stock', hold, request)
    /\ UNCHANGED <<norm, request>>

\* Put a closed hold away, or take it out again.
Archive(h, seen, flag) ==
    /\ hold[h].version > 0 /\ hold[h].version = seen /\ seen < MaxVersion
    /\ Left(hold[h]) <= 0
    /\ hold' = [hold EXCEPT ![h] = NextVersion([hold[h] EXCEPT !.archived = flag])]
    /\ UNCHANGED <<stock, event, norm, request, shortage, unsynced>>

------------------------------------------------------------------------------
(* Documents that move goods.                                                *)

\* A receipt, a supply or an imported supply.
Receive(q) ==
    /\ \A m \in DOMAIN q : stock[m] + q[m] <= MaxStock
    /\ stock' = Added(stock, q, 1)
    /\ SyncShortage(DOMAIN q, stock', hold, request)
    /\ UNCHANGED <<hold, event, norm, request>>

\* Deviation: nobody looks whether the goods run short.
WriteOffUnnoticed(q) ==
    /\ EnoughFor(q, {})
    /\ stock' = Added(stock, q, -1)
    /\ UNCHANGED <<hold, event, norm, request, shortage, unsynced>>

\* A write-off or a manual issue: only what is free.
WriteOff(q) ==
    /\ EnoughFor(q, {})
    /\ stock' = Added(stock, q, -1)
    /\ SyncShortage(DOMAIN q, stock', hold, request)
    /\ UNCHANGED <<hold, event, norm, request>>

\* What house p is given is taken from its own holds on the material, oldest first;
\* left[h] is what hold h still keeps afterwards.
TakeFromHolds(p, q, left) ==
    /\ \A m \in DOMAIN q :
         TakenInOrder(LeftOn(hold, m, {p}),
                      [h \in HoldIds |->
                          IF hold[h].material = m /\ hold[h].target = p THEN left[h] ELSE 0],
                      HoldIds, q[m])
    /\ \A h \in HoldIds :
         ~(hold[h].target = p /\ hold[h].material \in DOMAIN q) => left[h] = Left(hold[h])
    /\ hold' = [h \in HoldIds |->
                  IF left[h] = Left(hold[h]) THEN hold[h]
                  ELSE NextVersion([hold[h] EXCEPT !.consumed = @ + (Left(hold[h]) - left[h])])]

\* Deviation: the house is served past its own holds.
ConsumeNothing(p, q) == UNCHANGED hold

\* consume_for_production
ConsumeHolds(p, q) == \E left \in [HoldIds -> 0 .. MaxQuantity] : TakeFromHolds(p, q, left)

\* issue_by_techcard: at most what the norm still requires of each material, and
\* the norm rows are paid off in the order of the stages.
IssueByTechcard(p, q) ==
    /\ \A m \in DOMAIN q : q[m] <= Total(NormOf(m, p, "required"), BlockMaterials)
    /\ EnoughFor(q, {p})
    /\ stock' = Added(stock, q, -1)
    /\ ConsumeHolds(p, q)
    /\ \E required \in [BlockMaterials -> 0 .. MaxNorm] :
          /\ \A m \in DOMAIN q :
               TakenInOrder(NormOf(m, p, "required"),
                            [b \in BlockMaterials |->
                                IF MaterialOf[b] = m /\ HouseOf[b] = p
                                THEN required[b] ELSE 0],
                            BlockMaterials, q[m])
          /\ \A b \in BlockMaterials :
               ~(HouseOf[b] = p /\ MaterialOf[b] \in DOMAIN q)
                 => required[b] = norm[b].required
          /\ norm' = [b \in BlockMaterials |->
                        [norm[b] EXCEPT !.required = required[b],
                                        !.provided = @ + norm[b].required - required[b]]]
    /\ SyncShortage(DOMAIN q, stock', hold', request)
    /\ UNCHANGED <<event, request>>

------------------------------------------------------------------------------
(* What a house asks of the warehouse.                                       *)

NextRequest(r) ==
    /\ request[r].status = "none"
    /\ \A s \in MaterialRequests : s < r => request[s].status # "none"

\* request_material
RequestMaterial(r, b, q) ==
    /\ NextRequest(r)
    /\ q <= norm[b].required
    /\ norm' = [norm EXCEPT ![b].required = @ - q, ![b].requested = @ + q]
    /\ request' = [request EXCEPT ![r] =
                     [block |-> b, quantity |-> q, status |-> "pending"]]
    /\ UNCHANGED <<stock, hold, event, shortage, unsynced>>

\* _notify_material_request: when the task of the request has somebody to tell who has
\* not muted it, notify commits what was decided and drops the locks.  The task of the
\* material is left to a transaction of its own; s is the row the decision is filed in.
Announced(s, m) ==
    /\ Cardinality(unsynced) < MaxLate
    /\ unsynced' = unsynced \cup {[decision |-> s, material |-> m, step |-> "announced"]}
    /\ UNCHANGED shortage

\* approve_request: the whole quantity closes the request, a part of it is recorded
\* as an approved request of its own and the rest stays pending.
ApproveRequest(r, s, q) ==
    LET b == request[r].block
        m == MaterialOf[b]
        issue == [x \in {m} |-> q]
    IN
    /\ request[r].status = "pending"
    /\ q <= request[r].quantity
    /\ EnoughFor(issue, {HouseOf[b]})
    /\ q <= norm[b].requested
    /\ norm' = [norm EXCEPT ![b].requested = @ - q, ![b].provided = @ + q]
    /\ stock' = Added(stock, issue, -1)
    /\ \/ /\ q = request[r].quantity /\ s = r
          /\ request' = [request EXCEPT ![r].status = "approved"]
       \/ /\ q < request[r].quantity /\ NextRequest(s)
          /\ request' = [request EXCEPT
                           ![r].quantity = @ - q,
                           ![s] = [block |-> b, quantity |-> q, status |-> "approved"]]
    /\ ConsumeHolds(HouseOf[b], issue)
    /\ SyncShortage({m}, stock', hold', request') \/ Announced(s, m)
    /\ UNCHANGED event

\* Deviation: a rejected quantity stays requested.
RejectRequestHalfway(r) ==
    LET b == request[r].block IN
    /\ request[r].status = "pending"
    /\ norm' = [norm EXCEPT ![b].required = @ + request[r].quantity]
    /\ request' = [request EXCEPT ![r].status = "rejected"]
    /\ SyncShortage({MaterialOf[b]}, stock, hold, request')
    /\ UNCHANGED <<stock, hold, event>>

\* reject_request
RejectRequest(r) ==
    LET b == request[r].block
        q == request[r].quantity
    IN
    /\ request[r].status = "pending"
    /\ norm' = [norm EXCEPT ![b].requested = @ - q, ![b].required = @ + q]
    /\ request' = [request EXCEPT ![r].status = "rejected"]
    /\ SyncShortage({MaterialOf[b]}, stock, hold, request') \/ Announced(r, MaterialOf[b])
    /\ UNCHANGED <<stock, hold, event>>

\* sync_shortage_task after the commit: its queries see what is committed by then ...
LooksAgain(d) ==
    LET m == d.material
        short == NeedsSupply(stock, hold, request, m)
        Decided(step) == unsynced' = (unsynced \ {d}) \cup {[d EXCEPT !.step = step]}
    IN
    /\ d.step = "announced"
    /\ \/ short /\ m \notin shortage /\ Decided("opens")
       \/ ~short /\ m \in shortage /\ Decided("closes")
       \/ (short <=> m \in shortage) /\ unsynced' = unsynced \ {d}
    /\ UNCHANGED <<stock, hold, event, norm, request, shortage>>

\* ... and it is their answer that is carried out, whatever was committed since.  Of
\* two tasks opened so at once the set shows one; a task that somebody else closed
\* meanwhile stays closed, and one that was opened in its place stays open.
SyncsLate(d) ==
    /\ \/ d.step = "opens" /\ shortage' = shortage \cup {d.material}
       \/ d.step = "closes" /\ shortage' \in {shortage, shortage \ {d.material}}
    /\ unsynced' = unsynced \ {d}
    /\ UNCHANGED <<stock, hold, event, norm, request>>

\* The push fails with anything but PushSubscriptionGone, or the server stops: the
\* decision stands and nobody looks at its material.
SyncNeverComes(d) ==
    /\ unsynced' = unsynced \ {d}
    /\ UNCHANGED <<stock, hold, event, norm, request, shortage>>

\* Whoever has the task of a shortage may submit it on the board: nobody reviews it, and
\* no handler is told (tasks/service.py, set_status).
SubmitsShortageTask(m) ==
    /\ Storekeepers # {} /\ m \in shortage
    /\ shortage' = shortage \ {m}
    /\ UNCHANGED <<stock, hold, event, norm, request, unsynced>>

\* update_required_quantity
UpdateRequired(b, q) ==
    /\ q + norm[b].requested + norm[b].provided <= MaxNorm
    /\ norm' = [norm EXCEPT ![b].required = q]
    /\ UNCHANGED <<stock, hold, event, request, shortage, unsynced>>

------------------------------------------------------------------------------
HoldStep ==
    \/ \E u \in RequestIds, h \in HoldIds, m \in Materials, q \in Amounts :
          \/ ReserveForPurpose(u, h, m, q)
          \/ \E p \in Houses : ReserveForHouse(u, h, m, p, q)
    \/ \E u \in RequestIds, h \in HoldIds, seen \in 1 .. MaxVersion, q \in Amounts :
          \/ Release(u, h, seen, q)
          \/ Issue(u, h, seen, q)
    \/ \E h \in HoldIds, seen \in 1 .. MaxVersion, flag \in BOOLEAN : Archive(h, seen, flag)

DocumentStep ==
    \E q \in Documents :
        \/ Receive(q)
        \/ WriteOff(q)
        \/ \E p \in Houses : IssueByTechcard(p, q)

HouseStep ==
    \/ \E r \in MaterialRequests, b \in BlockMaterials, q \in Amounts :
          RequestMaterial(r, b, q)
    \/ \E r, s \in MaterialRequests, q \in Amounts : ApproveRequest(r, s, q)
    \/ \E r \in MaterialRequests : RejectRequest(r)
    \/ \E d \in unsynced : LooksAgain(d) \/ SyncsLate(d) \/ SyncNeverComes(d)
    \/ \E m \in Materials : SubmitsShortageTask(m)
    \/ \E b \in BlockMaterials, q \in 0 .. MaxNorm : UpdateRequired(b, q)

Next == HoldStep \/ DocumentStep \/ HouseStep

Spec == Init /\ [][Next]_vars

------------------------------------------------------------------------------
(* What the warehouse promises.                                              *)

HoldRow == [material : Materials \cup {Null}, target : Targets, quantity : Nat,
            released : Nat, consumed : Nat, version : Nat, archived : BOOLEAN]

RequestRow == [block : BlockMaterials \cup {0}, quantity : Nat,
               status : {"none", "pending", "approved", "rejected"}]

EventRow == [kind : {"none", "created", "released", "issued"},
             hold : HoldIds \cup {0}, quantity : Nat]

\* A hold never gives back or gives out more than it kept, and a row that was not
\* inserted holds nothing.
HoldsOK ==
    /\ hold \in [HoldIds -> HoldRow]
    /\ \A h \in HoldIds : /\ Left(hold[h]) >= 0
                          /\ IF hold[h].version = 0 THEN hold[h] = NoHold
                             ELSE hold[h].material \in Materials

\* A request names the norm it came from.
RequestsOK ==
    /\ request \in [MaterialRequests -> RequestRow]
    /\ \A r \in MaterialRequests :
          request[r].status # "none" => request[r].block \in BlockMaterials

ShortagesOK ==
    /\ shortage \subseteq Materials
    /\ unsynced \subseteq [decision : MaterialRequests, material : Materials,
                           step : {"announced", "opens", "closes"}]
    /\ \A d \in unsynced : request[d.decision].status \in {"approved", "rejected"}

\* The type of the tables: holds never go below nothing (remaining in
\* warehouse/reservation_service.py), nor do the columns of a norm.
TypeOK ==
    /\ stock \in [Materials -> Int]
    /\ HoldsOK
    /\ event \in [RequestIds -> EventRow]
    /\ norm \in [BlockMaterials -> [required : Nat, requested : Nat, provided : Nat]]
    /\ RequestsOK
    /\ ShortagesOK

\* docs/FUNCTIONAL_MIGRATION.md, "Пересчёт и резерв": new promises and issues are
\* limited by what is really free.  Whatever a handler does, it leaves every
\* material with nothing promised twice, or with no less free than it found.
FreeStockKept ==
    \A m \in Materials :
        \/ Available(stock', hold', m) >= 0
        \/ Available(stock', hold', m) >= Available(stock, hold, m)

FreeStockGuarded == [][FreeStockKept]_vars

\* A client sends back the version of the card it saw.  The version stands for the
\* whole row: a row that any handler changed has a version of its own, so a change
\* decided on an older card is refused.  Nothing un-creates a row.
VersionsMove ==
    \A h \in HoldIds : hold'[h] # hold[h] => hold'[h].version = hold[h].version + 1

VersionsIdentifyRows == [][VersionsMove]_vars

\* The journal of client requests and the rows agree: each UUID moved its quantity
\* once, however often it was sent, and nothing else releases a hold or issues
\* goods by a hold without a recipient on file.
EventsOn(h, kind) ==
    Total([u \in RequestIds |->
              IF event[u].hold = h /\ event[u].kind = kind THEN event[u].quantity ELSE 0],
          RequestIds)

JournalAgrees ==
    \A h \in HoldIds :
        /\ hold[h].quantity = EventsOn(h, "created")
        /\ hold[h].released = EventsOn(h, "released")
        /\ hold[h].target = Null => hold[h].consumed = EventsOn(h, "issued")

\* What became of a hold can be told from its events and from its version: whatever
\* a handler does, a row it changed has a new version and the journal still agrees.
HoldsAreRecorded == [][VersionsMove /\ JournalAgrees']_vars

\* The quantities asked for on norm row b and not answered.
PendingOn(b) ==
    [r \in MaterialRequests |->
        IF request[r].block = b /\ request[r].status = "pending"
        THEN request[r].quantity ELSE 0]

\* What a house asked for and was not answered is what its norm rows show as
\* requested: approve_request calls a difference a fault ("Остаток заявки не
\* совпадает с нормативом").
RequestedAgrees ==
    \A b \in BlockMaterials : norm[b].requested = Total(PendingOn(b), MaterialRequests)

\* A house is not promised more than it still needs: only lowering its norm leaves
\* holds above it, and no handler widens the gap.
NeedOf(nm, m, p) ==
    Total([b \in BlockMaterials |->
              IF MaterialOf[b] = m /\ HouseOf[b] = p
              THEN nm[b].required + nm[b].requested ELSE 0],
          BlockMaterials)

Surplus(hd, nm, m, p) == AtLeast(0, Held(hd, m, {p}) - NeedOf(nm, m, p))

Normed(nm, b) == nm[b].required + nm[b].requested + nm[b].provided

SurplusKept ==
    \/ \E b \in BlockMaterials : Normed(norm', b) < Normed(norm, b)
    \/ \A m \in Materials, p \in Houses :
          Surplus(hold', norm', m, p) <= Surplus(hold, norm, m, p)

HoldsFollowNorms == [][SurplusKept]_vars

\* The step in which a decision on material m announces itself, its task left for later,
\* or in which one closes the task by what it saw before.
LeftForLater(m) ==
    \E d \in unsynced' \ unsynced : d.material = m /\ d.step = "announced"

OldLookCarriedOut(m) ==
    \E d \in unsynced \ unsynced' : d.material = m /\ d.step = "closes"

SubmittedOnBoard == UNCHANGED <<stock, hold, event, norm, request, unsynced>>

\* A handler that moved a material or its holds leaves a task open if the material
\* is now short: no query reads a table so stale that a shortage goes unnoticed.  Nor
\* does any handler close the task of a material that is short.  Only a decision that
\* was announced does otherwise: it commits what it moved before it looks (and may
\* never look), and it closes the task by what it saw.  And a task is submitted on the
\* board, where nothing else changes.
ShortageSeen ==
    \A m \in Materials :
        /\ \/ stock'[m] # stock[m]
           \/ Held(hold', m, Targets) # Held(hold, m, Targets)
           \/ m \in shortage
        /\ NeedsSupply(stock', hold', request', m)
        => \/ m \in shortage'
           \/ LeftForLater(m)
           \/ OldLookCarriedOut(m)
           \/ SubmittedOnBoard

ShortagesSeen == [][ShortageSeen]_vars

------------------------------------------------------------------------------
(* The ledger of promises that the handlers keep between them.               *)

\* What is promised to whom: the holds, row by row, added up.
Promises == [m \in Materials |-> [t \in Targets |-> Held(hold, m, {t})]]

Ledger == INSTANCE StockLedger WITH
            Recipients <- Targets, Anonymous <- Null, onHand <- stock, promised <- Promises

\* The warehouse implements the ledger of promises: every handler is one step of it.
ImplementsLedger == Ledger!Spec
=============================================================================
