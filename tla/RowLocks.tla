------------------------------ MODULE RowLocks ------------------------------
(***************************************************************************)
(* Why the other modules may take a handler as one step.  Here a handler   *)
(* takes the row locks of PostgreSQL one after the other, reads what it    *)
(* decides upon after some of them, and releases them all at its end:      *)
(*   update - SELECT ... FOR UPDATE, UPDATE, DELETE, advisory locks;       *)
(*   share  - FOR KEY SHARE, which an INSERT takes on the rows it refers   *)
(*            to; it goes with itself and not with update.                 *)
(* What a handler reads and what its commit breaks are facts: pairs of a   *)
(* kind and an id.  A commit that only makes more room (a hold released    *)
(* for the others, a payment deleted) breaks nothing.                      *)
(***************************************************************************)
EXTENDS Integers, FiniteSets, Sequences, SequencesExt

CONSTANTS
    Requests,                   \* the requests served at the same time
    Materials,                  \* warehouse_materials.id
    Houses, Norms, NormHouse, NormMaterial,
    Holds, HoldMaterial, HoldHouse, HoldOrder,
    SalesOrders, OrderMaterials,
    Documents,                  \* stock_documents.id
    Purchases, Goods, Ordered,  \* receipts, what they bring, those with an order
    Null

ASSUME LocksAssumption ==
    /\ Materials \cup Norms \cup Holds \subseteq Nat
    /\ IsFiniteSet(Materials) /\ IsFiniteSet(Norms) /\ IsFiniteSet(Holds) /\ IsFiniteSet(Requests)
    /\ NormHouse \in [Norms -> Houses] /\ NormMaterial \in [Norms -> Materials]
    /\ HoldMaterial \in [Holds -> Materials]
    /\ HoldHouse \in [Holds -> Houses \cup {Null}]
    /\ HoldOrder \in [Holds -> SalesOrders \cup {Null}]
    /\ OrderMaterials \in [SalesOrders -> SUBSET Materials]
    /\ Goods \in [Purchases -> SUBSET Materials]
    /\ Ordered \subseteq Purchases

VARIABLES
    status,     \* of a request: waiting, running, committed or rolled back
    plan,       \* the handler that serves it
    at          \* how many of its steps are done

vars == <<status, plan, at>>

------------------------------------------------------------------------------
(* A step takes one lock, waiting for it, and then reads facts of its row.   *)

Step(mode, row, reads) == <<[mode |-> mode, row |-> row, reads |-> reads]>>

Lock(table, id, kinds) == Step("update", <<table, id>>, kinds \X {id})

\* ORDER BY id
InOrder(ids) ==
    CHOOSE seq \in [1 .. Cardinality(ids) -> ids] :
        \A i, j \in DOMAIN seq : i < j => seq[i] < seq[j]

\* ... FOR UPDATE
LockAll(table, ids, kinds) ==
    LET seq == InOrder(ids)
    IN FlattenSeq([i \in DOMAIN seq |-> Lock(table, seq[i], kinds)])

Share(table, id) == Step("share", <<table, id>>, {})

Read(facts) == Step("share", <<"none", Null>>, facts)

Handler(steps, breaks) == [steps |-> steps, breaks |-> breaks]

Idle == Handler(<<>>, {})

\* invalidate_cache, invalidate_production_caches: the rows of a section are deleted.
Cache(section) == Lock("cache", section, {})

NormsOf(h, mats) == {n \in Norms : NormHouse[n] = h /\ NormMaterial[n] \in mats}

------------------------------------------------------------------------------
(* Holds                                                                     *)

ForHouse(h) == Cache("warehouse") \o (IF h = Null THEN <<>> ELSE Cache("production"))

\* Deviation: the norms of the house are read without their locks.
CreateHoldForHouseUnlocked(h, m) ==
    Handler(Read({"norm"} \X NormsOf(h, Materials))
              \o Lock("material", m, {"free"}) \o ForHouse(h),
            {<<"free", m>>})

CreateHoldForHouse(h, m) ==
    Handler(LockAll("norm", NormsOf(h, Materials), {"norm"})
              \o Lock("material", m, {"free"}) \o ForHouse(h),
            {<<"free", m>>})

CreateHoldForOrder(o, m) ==
    Handler(Lock("sales_order", o, {"sales_order"})
              \o Lock("material", m, {"free"}) \o ForHouse(Null),
            {<<"free", m>>, <<"sales_order", o>>})

CreateHold(m) == Handler(Lock("material", m, {"free"}) \o ForHouse(Null), {<<"free", m>>})

\* locked_change: the material of a hold, then the hold.
LockHold(x, kinds) == Lock("material", HoldMaterial[x], kinds) \o Lock("hold", x, {"hold"})

Release(x) == Handler(LockHold(x, {}) \o ForHouse(HoldHouse[x]), {<<"hold", x>>})

Issue(x) ==
    Handler(LockHold(x, {"free", "balance"}) \o ForHouse(Null),
            {<<"hold", x>>, <<"balance", HoldMaterial[x]>>})

ArchiveHold(x) == Handler(LockHold(x, {}), {<<"hold", x>>})

HoldPlans ==
    {CreateHoldForHouse(h, m) : h \in Houses, m \in Materials}
      \cup {CreateHoldForOrder(o, m) : o \in SalesOrders, m \in Materials}
      \cup {CreateHold(m) : m \in Materials}
      \cup {Release(x) : x \in Holds} \cup {ArchiveHold(x) : x \in Holds}
      \cup {Issue(x) : x \in {y \in Holds : HoldHouse[y] = Null /\ HoldOrder[y] = Null}}

------------------------------------------------------------------------------
(* Documents of the warehouse                                                *)

Taking(mats) == LockAll("material", mats, {"free", "balance"})

Taken(mats) == {"free", "balance"} \X mats

\* create_stock_operation, create_supply: goods come in or go out.
StockIn(mats) == Handler(LockAll("material", mats, {"balance"}), {"balance"} \X mats)

StockOut(mats) == Handler(Taking(mats), Taken(mats))

\* manufacture: the recipe's goods go out and its product comes in.  The new run refers
\* to the recipe, whose row is locked after that.
Manufacture(in, out) ==
    Handler(Share("recipe", 1) \o Lock("recipe", 1, {}) \o LockAll("material", in \cup out, {"free", "balance"}),
            Taken(in) \cup ({"balance"} \X out))

\* snapshot: the balances that a new, edited or recounted document starts from.
Snapshot(mats) == LockAll("material", mats, {"balance"})

CreateDocument(mats) == Handler(Snapshot(mats), {})

ChangeDocument(d, mats) ==
    Handler(Lock("document", d, {"document"}) \o Snapshot(mats), {<<"document", d>>})

ArchiveDocument(d) == Handler(Lock("document", d, {"document"}), {<<"document", d>>})

PostInventory(d, mats) ==
    Handler(Lock("document", d, {"document"}) \o LockAll("material", mats, {"balance"}),
            {<<"document", d>>} \cup Taken(mats))

\* The cards of one product share a code, and that code an advisory lock.
PostTransfer(d, in, out) ==
    Handler(Lock("document", d, {"document"}) \o Lock("target", 1, {})
              \o LockAll("material", in \cup out, {"free", "balance"}),
            {<<"document", d>>} \cup Taken(in) \cup ({"balance"} \X out))

StockPlans ==
    LET Some == (SUBSET Materials) \ {{}}
        Single == {{m} : m \in Materials}
    IN
    {StockIn(S) : S \in Some} \cup {StockOut(S) : S \in Some}
      \cup {Manufacture(in, out) : in, out \in Single}
      \cup {CreateDocument(S) : S \in Some}
      \cup {ChangeDocument(d, S) : d \in Documents, S \in Some}
      \cup {ArchiveDocument(d) : d \in Documents}
      \cup {PostInventory(d, S) : d \in Documents, S \in Some}
      \cup {PostTransfer(d, p[1], p[2]) :
              d \in Documents, p \in {q \in Single \X Single : q[1] # q[2]}}

------------------------------------------------------------------------------
(* Norms of a house and the requests for them                                *)

HoldsFor(m, h) == {x \in Holds : HoldMaterial[x] = m /\ HoldHouse[x] = h}

\* consume_for_production: the holds of the house for a material, if it has any.
Consume(m, h) ==
    IF HoldsFor(m, h) = {} THEN <<>>
    ELSE LockAll("hold", HoldsFor(m, h), {"hold"}) \o ForHouse(h)

ConsumeAll(mats, h) ==
    LET seq == InOrder(mats)
    IN FlattenSeq([i \in DOMAIN seq |-> Consume(seq[i], h)])

Consumed(mats, h) == {"hold"} \X UNION {HoldsFor(m, h) : m \in mats}

\* Deviation: the stock is locked before the norms.
IssueByTechcardBackwards(h, mats) ==
    Handler(Taking(mats) \o LockAll("norm", NormsOf(h, Materials), {"norm"})
              \o ConsumeAll(mats, h) \o Cache("production"),
            ({"norm"} \X NormsOf(h, mats)) \cup Taken(mats) \cup Consumed(mats, h))

\* issue_by_techcard: "block materials, then warehouse materials".
IssueByTechcard(h, mats) ==
    Handler(LockAll("norm", NormsOf(h, Materials), {"norm"}) \o Taking(mats)
              \o ConsumeAll(mats, h) \o Cache("production"),
            ({"norm"} \X NormsOf(h, mats)) \cup Taken(mats) \cup Consumed(mats, h))

ApproveRequest(n) ==
    LET m == NormMaterial[n] IN
    Handler(Lock("request", n, {"request"}) \o Lock("norm", n, {"norm"}) \o Taking({m})
              \o Cache("production") \o Consume(m, NormHouse[n]),
            {<<"request", n>>, <<"norm", n>>} \cup Taken({m})
              \cup Consumed({m}, NormHouse[n]))

\* update_required_quantity, request_material: their movement or request refers to the
\* material, which they do not lock otherwise.
ChangeNorm(n) ==
    Handler(Lock("norm", n, {"norm"}) \o Cache("production")
              \o Share("material", NormMaterial[n]),
            {<<"norm", n>>})

RejectRequest(n) ==
    Handler(Lock("request", n, {"request"}) \o ChangeNorm(n).steps,
            {<<"request", n>>, <<"norm", n>>})

AddNorm(m) == Handler(Share("material", m) \o Cache("production"), {})

NormPlans ==
    (UNION {{IssueByTechcard(h, S) :
               S \in (SUBSET {NormMaterial[n] : n \in NormsOf(h, Materials)}) \ {{}}} : h \in Houses})
      \cup {ApproveRequest(n) : n \in Norms} \cup {RejectRequest(n) : n \in Norms}
      \cup {ChangeNorm(n) : n \in Norms} \cup {AddNorm(m) : m \in Materials}

------------------------------------------------------------------------------
(* Orders of customers and their shipments                                   *)

LockShipment(o) == Lock("sales_order", o, {"sales_order"}) \o Lock("shipment", o, {"shipment"})

\* change_order, cancel_order, close, archive and create_shipment
ChangeSalesOrder(o) == Handler(Lock("sales_order", o, {"sales_order"}), {<<"sales_order", o>>})

PostShipment(o, mats) ==
    LET holds == {x \in Holds : HoldOrder[x] = o /\ HoldMaterial[x] \in mats} IN
    Handler(LockShipment(o) \o Taking(mats) \o LockAll("hold", holds, {"hold"})
              \o ForHouse(Null),
            {<<"sales_order", o>>, <<"shipment", o>>} \cup Taken(mats) \cup ({"hold"} \X holds))

CancelShipment(o, mats) ==
    Handler(LockShipment(o) \o LockAll("material", mats, {"balance"}) \o ForHouse(Null),
            {<<"sales_order", o>>, <<"shipment", o>>} \cup ({"balance"} \X mats))

ArchiveShipment(o) == Handler(LockShipment(o), {<<"shipment", o>>})

SalesPlans ==
    UNION {{ChangeSalesOrder(o), ArchiveShipment(o)}
             \cup {PostShipment(o, S) : S \in (SUBSET OrderMaterials[o]) \ {{}}}
             \cup {CancelShipment(o, S) : S \in SUBSET OrderMaterials[o]} : o \in SalesOrders}

------------------------------------------------------------------------------
(* Purchases, returns and money; one supplier                                *)

LockOrder(p, kinds) == IF p \in Ordered THEN Lock("order", p, kinds) ELSE <<>>

\* recalculate_supplier_totals, _adjust_supplier_paid
LockTotals == Lock("supplier", 1, {"totals"})

Totals == {<<"totals", 1>>}

ChangeOrder(p) == Handler(Lock("order", p, {"order", "payable"}), {"order", "payable"} \X {p})

\* The second transaction of create, update and delete_supplier_order.
Recalculate == Handler(LockTotals, Totals)

CreateOrder == Handler(Share("supplier", 1), {})

Receive(p) ==
    Handler(LockOrder(p, {"order"}) \o LockAll("material", Goods[p], {"balance"})
              \o Share("supplier", 1),
            {<<"order", p>>} \cup ({"balance"} \X Goods[p]))

\* The new return refers to the supplier, whose row is locked for the totals after that.
ReturnGoods(p) ==
    Handler(LockOrder(p, {"order"}) \o Lock("receipt", p, {"returned"}) \o Taking(Goods[p])
              \o (IF p \in Ordered THEN Read({<<"payable", p>>}) ELSE <<>>)
              \o (Share("supplier", 1) \o (IF p \in Ordered THEN LockTotals ELSE <<>>)),
            ({"order", "returned"} \X {p}) \cup Taken(Goods[p])
              \cup (IF p \in Ordered THEN {<<"payable", p>>} \cup Totals ELSE {}))

LockReturn(p) == Lock("return", p, {"return", "refundable"})

CancelReturn(p) ==
    Handler(LockOrder(p, {"order"}) \o Lock("receipt", p, {}) \o LockReturn(p)
              \o LockAll("material", Goods[p], {"balance"})
              \o (IF p \in Ordered THEN LockTotals ELSE <<>>),
            ({"order", "return", "refundable"} \X {p}) \cup ({"balance"} \X Goods[p])
              \cup (IF p \in Ordered THEN Totals ELSE {}))

ArchiveReturn(p) == Handler(LockReturn(p), {<<"return", p>>})

\* A payment of an order or a refund of a return; the row of the movement is locked
\* first, except when it is created.
MoneyRows(kind, p) ==
    IF kind = "payment" THEN Lock("order", p, {"payable"})
    ELSE LockOrder(p, {}) \o LockReturn(p)

Room(kind, p) == IF kind = "payment" THEN {<<"payable", p>>} ELSE {<<"refundable", p>>}

CreateMovement(kind, p) == Handler(MoneyRows(kind, p), Room(kind, p))

UpdateMovement(kind, p) ==
    Handler(Lock(kind, p, {kind}) \o MoneyRows(kind, p),
            {<<kind, p>>} \cup Room(kind, p))

DeleteMovement(kind, p) == Handler(Lock(kind, p, {kind}), {<<kind, p>>})

ApproveMovement(kind, p) ==
    Handler(Lock(kind, p, {kind}) \o MoneyRows(kind, p)
              \o (IF kind = "refund" THEN LockTotals ELSE <<>>),
            {<<kind, p>>} \cup (IF kind = "refund" THEN Totals ELSE {}))

PostMovement(kind, p) ==
    Handler(Lock(kind, p, {kind}) \o MoneyRows(kind, p) \o LockTotals,
            {<<kind, p>>} \cup Totals)

\* A cancelled refund is owed again: less is left to pay.
CancelMovement(kind, p) ==
    Handler(Lock(kind, p, {kind})
              \o (IF kind = "refund" THEN MoneyRows(kind, p) ELSE <<>>) \o LockTotals,
            {<<kind, p>>} \cup Totals
              \cup (IF kind = "refund" THEN {<<"payable", p>>} ELSE {}))

MoneyPlans(kind, p) ==
    {CreateMovement(kind, p), UpdateMovement(kind, p), DeleteMovement(kind, p),
     ApproveMovement(kind, p), PostMovement(kind, p), CancelMovement(kind, p)}

PurchasePlans ==
    {Recalculate, CreateOrder}
      \cup {ChangeOrder(p) : p \in Ordered}
      \cup (UNION {{Receive(p), ReturnGoods(p), CancelReturn(p), ArchiveReturn(p)} : p \in Purchases})
      \cup (UNION {MoneyPlans("payment", p) : p \in Ordered})
      \cup (UNION {MoneyPlans("refund", p) : p \in Purchases})

Plans == HoldPlans \cup StockPlans \cup NormPlans \cup SalesPlans \cup PurchasePlans

------------------------------------------------------------------------------
(* The database                                                              *)

Done(r) == {plan[r].steps[i] : i \in 1 .. at[r]}

Known(r) == UNION {step.reads : step \in Done(r)}

Running == {r \in Requests : status[r] = "running"}

Waiting == {r \in Running : at[r] < Len(plan[r].steps)}

Wanted(r) == plan[r].steps[at[r] + 1]

\* Who holds what r wants next.
Blockers(r) ==
    {q \in Requests \ {r} : \E step \in Done(q) :
        step.row = Wanted(r).row /\ "update" \in {step.mode, Wanted(r).mode}
          /\ step.row[1] # "none"}

Deadlocked(D) == D # {} /\ D \subseteq Waiting /\ \A r \in D : Blockers(r) \cap D # {}

LocksInit ==
    /\ status = [r \in Requests |-> "new"]
    /\ plan = [r \in Requests |-> Idle]
    /\ at = [r \in Requests |-> 0]

\* of a request that is new
Begin(r, p) ==
    /\ status' = [status EXCEPT ![r] = "running"]
    /\ plan' = [plan EXCEPT ![r] = p]
    /\ UNCHANGED at

Acquire(r) ==
    /\ r \in Waiting /\ Blockers(r) = {}
    /\ at' = [at EXCEPT ![r] = @ + 1]
    /\ UNCHANGED <<status, plan>>

\* Commit, or get_db closing the session of a request that raised: no lock is left.
End(r, outcome) ==
    /\ status' = [status EXCEPT ![r] = outcome]
    /\ plan' = [plan EXCEPT ![r] = Idle]
    /\ at' = [at EXCEPT ![r] = 0]

Commit(r) ==
    /\ r \in Running /\ at[r] = Len(plan[r].steps)
    /\ End(r, "committed")

\* Deviation: a refused request goes back to the pool with its transaction open.
RefuseKeepingLocks(r) ==
    /\ r \in Running
    /\ status' = [status EXCEPT ![r] = "rolled_back"]
    /\ UNCHANGED <<plan, at>>

\* A check fails, or the process dies and the connection with it.
Refuse(r) == r \in Running /\ End(r, "rolled_back")

\* PostgreSQL finds the cycle and aborts one of its transactions.
Abort(r) ==
    /\ \E D \in SUBSET Requests : r \in D /\ Deadlocked(D)
    /\ End(r, "rolled_back")

LocksNext ==
    \E r \in Requests :
        \/ status[r] = "new" /\ \E p \in Plans : Begin(r, p)
        \/ Acquire(r) \/ Commit(r) \/ Refuse(r) \/ Abort(r)

\* A handler runs on, a free lock is granted, a cycle is found after deadlock_timeout.
LocksSpec ==
    /\ LocksInit /\ [][LocksNext]_vars
    /\ \A r \in Requests :
          WF_vars(Acquire(r)) /\ WF_vars(Commit(r)) /\ WF_vars(Abort(r))

------------------------------------------------------------------------------
\* reservation_service.py, "All stock writers lock materials before reading or changing
\* their holds", and the other locks: what a handler has read stays true until it ends,
\* for no other handler can commit a change of it meanwhile.
DecisionsHold ==
    [][\A q \in Requests :
          status[q] = "running" /\ status'[q] = "committed"
          => \A r \in Running \ {q} : Known(r) \cap plan[q].breaks = {}]_vars

\* service.py, "the same order (block materials, then warehouse materials)": all handlers
\* lock their rows in one order, except for the rows of the AI cache and for a row they
\* share before they lock it (a supplier, a recipe); every deadlock is over one of these.
DeadlocksOverCachesOrUpgrades ==
    \A D \in SUBSET Requests :
        Deadlocked(D) =>
            \E r \in D : \/ Wanted(r).row[1] = "cache"
                        \/ \E step \in Done(r) : step.row = Wanted(r).row

\* db/session.py: whatever happens to a request, it ends, and so do those waiting for it.
RequestsEnd == \A r \in Requests : status[r] = "running" ~> status[r] # "running"
=============================================================================
