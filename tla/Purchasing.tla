----------------------------- MODULE Purchasing -----------------------------
(***************************************************************************)
(* Purchases from one supplier, over the warehouse: orders, receipts of    *)
(* what was ordered, returns of what was received, and the money: payments *)
(* for an order, refunds for a return, and the supplier's two totals.      *)
(*                                                                         *)
(* Receipts, returns and movements of money are made by requests with a    *)
(* UUID.  A row is named here by the request that made it, so a request    *)
(* that is repeated finds its row and changes nothing.                     *)
(*                                                                         *)
(* The handlers lock the order, then the receipt, then the return, then    *)
(* the materials, then the supplier, so an action is a whole transaction.  *)
(* The handlers that edit an order take two: they commit the order and     *)
(* recalculate the totals afterwards.                                      *)
(***************************************************************************)
EXTENDS StockReservations

CONSTANTS
    SupplierOrders,     \* rows of supplier_orders
    Positions,          \* positions an order may have: the indices of its items
    GoodAt,             \* Positions -> Materials, or Null for a service
    Receipts,           \* rows of purchase_receipts, by request
    Returns,            \* rows of purchase_returns, by request
    Movements,          \* rows of money_movements that concern the supplier
    Prices,             \* unit prices on receipts; an order is priced 1 a unit
    MaxOrdered, MaxAmount, MaxOrderVersion, MaxReturnVersion, MaxDue    \* bounds

ASSUME PurchasesAssumption ==
    /\ Null \notin SupplierOrders \cup Returns \cup Receipts \cup Movements
    /\ GoodAt \in [Positions -> Materials \cup {Null}]
    /\ IsFiniteSet(Positions) /\ IsFiniteSet(Receipts)
    /\ IsFiniteSet(Returns) /\ IsFiniteSet(Movements) /\ IsFiniteSet(SupplierOrders)
    /\ Prices \subseteq Nat \ {0}
    /\ {MaxOrdered, MaxAmount, MaxOrderVersion, MaxReturnVersion, MaxDue} \subseteq Nat

VARIABLES
    purchase,   \* supplier_orders
    receipt,    \* purchase_receipts
    return,     \* purchase_returns
    movement,   \* money_movements: payments for orders and refunds for returns
    totals,     \* suppliers.total_ordered and suppliers.total_paid
    due         \* handlers that committed an order and still have to recalculate

purchaseVars == <<purchase, receipt, return, movement, totals, due>>

allVars == <<vars, purchaseVars>>

Quantities == [Positions -> 0 .. MaxOrdered]

Something(q) == \E l \in Positions : q[l] > 0

Nothing == [l \in Positions |-> 0]

Kept == {l \in Positions : GoodAt[l] # Null}

NoPurchase == [status |-> "none", items |-> Nothing, received |-> Nothing, linked |-> {},
               archived |-> FALSE, version |-> 0]

NoReceipt == [posted |-> FALSE, order |-> Null, quantity |-> Nothing, price |-> 0]

NoReturn == [receipt |-> Null, order |-> Null, quantity |-> Nothing, amount |-> 0,
             archived |-> FALSE, cancelled |-> FALSE, version |-> 0]

NoMovement == [order |-> Null, return |-> Null, amount |-> 0, status |-> "none"]

Live == {"draft", "approved", "posted"}

Open == {"draft", "approved"}

------------------------------------------------------------------------------
\* Goods on the positions of a document, material by material; services have none.
Goods(q) ==
    LET lines == {l \in Kept : q[l] > 0} IN
    [m \in {GoodAt[l] : l \in lines} |-> Total(q, {l \in lines : GoodAt[l] = m})]

\* Deviation: a return that was put away is forgotten.
ReturnedUnarchived(rt, r, l) ==
    Total([t \in Returns |-> IF rt[t].receipt = r /\ ~rt[t].cancelled /\ ~rt[t].archived
                             THEN rt[t].quantity[l] ELSE 0], Returns)

\* returned_lines(db, receipt): what was sent back of a position.
Returned(rt, r, l) ==
    Total([t \in Returns |-> IF rt[t].receipt = r /\ ~rt[t].cancelled
                             THEN rt[t].quantity[l] ELSE 0], Returns)

Cost(items) == Total(items, Positions)

\* order_credit
Credit(rt, o) ==
    Total([t \in Returns |-> IF rt[t].order = o /\ ~rt[t].cancelled
                             THEN rt[t].amount ELSE 0], Returns)

\* Payments of order o in the given states, but for movement k.
Payments(mv, o, states, k) ==
    Total([j \in Movements |-> IF j # k /\ mv[j].order = o /\ mv[j].status \in states
                               THEN mv[j].amount ELSE 0], Movements)

\* Refunds of return t in the given states, but for movement k.
Refunds(mv, t, states, k) ==
    Total([j \in Movements |-> IF j # k /\ mv[j].return = t /\ mv[j].status \in states
                               THEN mv[j].amount ELSE 0], Movements)

\* order_refunds
OrderRefunds(rt, mv, o) ==
    Total([t \in Returns |-> IF rt[t].order = o THEN Refunds(mv, t, {"posted"}, Null) ELSE 0],
          Returns)

\* balance(db, order)
NetTotal(po, rt, o) == AtLeast(0, Cost(po[o].items) - Credit(rt, o))

Paid(rt, mv, o) == Payments(mv, o, {"posted"}, Null) - OrderRefunds(rt, mv, o)

Pending(mv, o) == Payments(mv, o, Open, Null)

\* recalculate_supplier_totals, with the tables its queries see.
Recalculated(po, rt, mv) ==
    [ordered |-> Total([o \in SupplierOrders |-> Cost(po[o].items)], SupplierOrders)
                   - Total([o \in SupplierOrders |-> Credit(rt, o)], SupplierOrders),
     paid |-> Total([o \in SupplierOrders |-> Payments(mv, o, {"posted"}, Null)],
                    SupplierOrders)
                - Total([o \in SupplierOrders |-> OrderRefunds(rt, mv, o)], SupplierOrders)]

Exists(o) == purchase[o].status \in {"ordered", "in_transit", "received"}

------------------------------------------------------------------------------
PurchasingInit ==
    /\ Init
    /\ purchase = [o \in SupplierOrders |-> NoPurchase]
    /\ receipt = [r \in Receipts |-> NoReceipt]
    /\ return = [t \in Returns |-> NoReturn]
    /\ movement = [k \in Movements |-> NoMovement]
    /\ totals = [ordered |-> 0, paid |-> 0]
    /\ due = 0

RecalculateLater == due < MaxDue /\ due' = due + 1

\* create_supplier_order; a position may name its warehouse card already.
CreateSupplierOrder(o, q, linked) ==
    /\ purchase[o].status = "none"
    /\ Something(q) /\ linked \subseteq {l \in Kept : q[l] > 0}
    /\ purchase' = [purchase EXCEPT ![o] = [NoPurchase EXCEPT !.status = "ordered",
                                              !.items = q, !.linked = linked, !.version = 1]]
    /\ RecalculateLater
    /\ UNCHANGED <<vars, receipt, return, movement, totals>>

\* Neither archived, nor received, nor at the bound of versions.
Editable(o) ==
    /\ purchase[o].status \in {"ordered", "in_transit"} /\ ~purchase[o].archived
    /\ purchase[o].version < MaxOrderVersion

\* update_supplier_order with items: nothing received yet, and no less than what is
\* paid or about to be.
ReplaceItems(o, q, linked) ==
    /\ purchase[o].received = Nothing /\ \A r \in Receipts : receipt[r].order # o
    /\ Something(q) /\ linked \subseteq {l \in Kept : q[l] > 0}
    /\ Cost(q) >= Payments(movement, o, Live, Null)
    /\ purchase' = [purchase EXCEPT ![o].items = q, ![o].linked = linked,
                                    ![o].received = Nothing, ![o].version = @ + 1]

\* update_supplier_order, of the positions or of a comment only.  The accounting
\* section sends no version with it.
UpdateSupplierOrder(o, q, linked) ==
    /\ Editable(o)
    /\ \/ ReplaceItems(o, q, linked)
       \/ purchase' = [purchase EXCEPT ![o].version = @ + 1]
    /\ RecalculateLater
    /\ UNCHANGED <<vars, receipt, return, movement, totals>>

\* delete_supplier_order: nothing may refer to the row, a cancelled payment included.
DeleteSupplierOrder(o) ==
    /\ purchase[o].status = "ordered"
    /\ \A r \in Receipts : receipt[r].order # o
    /\ \A k \in Movements : movement[k].order # o
    /\ purchase' = [purchase EXCEPT ![o] = [NoPurchase EXCEPT !.status = "deleted"]]
    /\ RecalculateLater
    /\ UNCHANGED <<vars, receipt, return, movement, totals>>

\* The second transaction of the three handlers above.
RecalculateTotals ==
    /\ due > 0 /\ due' = due - 1
    /\ totals' = Recalculated(purchase, return, movement)
    /\ UNCHANGED <<vars, purchase, receipt, return, movement>>

\* change_supplier_order_status: linked positions are received by receipts only.
ChangeSupplierOrderStatus(o) ==
    LET row == purchase[o] IN
    /\ Editable(o)
    /\ row.status = "in_transit" => \A l \in row.linked : row.received[l] >= row.items[l]
    /\ purchase' = [purchase EXCEPT
                      ![o].status = IF row.status = "ordered" THEN "in_transit" ELSE "received",
                      ![o].version = @ + 1]
    /\ UNCHANGED <<vars, receipt, return, movement, totals, due>>

\* POST orders/{id}/archive
ArchiveSupplierOrder(o, seen, flag) ==
    /\ Exists(o) /\ purchase[o].version = seen /\ seen < MaxOrderVersion
    /\ purchase' = [purchase EXCEPT ![o].archived = flag, ![o].version = @ + 1]
    /\ UNCHANGED <<vars, receipt, return, movement, totals, due>>

------------------------------------------------------------------------------
(* Goods.                                                                    *)

\* The goods enter, and the receipt is on file; the same for any receipt.
PostReceipt(r, o, q, p) ==
    /\ ~receipt[r].posted /\ Something(q)
    /\ \A m \in DOMAIN Goods(q) : stock[m] + Goods(q)[m] <= MaxStock
    /\ receipt' = [receipt EXCEPT ![r] =
                     [posted |-> TRUE, order |-> o, quantity |-> q, price |-> p]]
    /\ stock' = Added(stock, Goods(q), 1)
    /\ SyncShortage(DOMAIN Goods(q), stock', hold, request)
    /\ UNCHANGED <<hold, event, norm, request, return, movement, totals, due>>

\* receive, for an order: it looks at the version and at what is left to receive, and
\* sets the status by what was received.
ReceiveOrdered(r, o, seen, q, p) ==
    LET received == [l \in Positions |-> purchase[o].received[l] + q[l]] IN
    /\ Exists(o) /\ ~purchase[o].archived
    /\ purchase[o].version = seen /\ seen < MaxOrderVersion
    /\ \A l \in Positions : q[l] > 0 => received[l] <= purchase[o].items[l]
    /\ purchase' = [purchase EXCEPT
                      ![o].received = received,
                      ![o].linked = @ \cup {l \in Kept : q[l] > 0},
                      ![o].status = IF \A l \in Positions : received[l] >= purchase[o].items[l]
                                    THEN "received" ELSE "in_transit",
                      ![o].version = @ + 1]
    /\ PostReceipt(r, o, q, p)

\* receive, without an order: goods only.
ReceiveUnordered(r, q, p) ==
    /\ \A l \in Positions : q[l] > 0 => l \in Kept
    /\ PostReceipt(r, Null, q, p)
    /\ UNCHANGED purchase

\* Deviation: a return looks at the shelf, not at the promises.
ReturnAll(q) == \A m \in DOMAIN q : q[m] <= stock[m]

\* assert_available for a return, which nobody's hold is for.
ReturnFree(q) == EnoughFor(q, {}) /\ \A m \in DOMAIN q : q[m] <= stock[m]

\* The order can bear a credit: it costs as much, and payments under approval still
\* fit into what will be owed.
OrderBearsCredit(o, amount) ==
    o # Null =>
      /\ amount <= NetTotal(purchase, return, o)
      /\ Pending(movement, o)
           <= AtLeast(0, NetTotal(purchase, return, o) - amount - Paid(return, movement, o))

\* Deviation: the card of the order does not show the change.
TouchNothing(o) == UNCHANGED purchase

\* The order of a return gets a new version, if there is an order.
TouchOrder(o) ==
    IF o = Null THEN UNCHANGED purchase
    ELSE /\ purchase[o].version < MaxOrderVersion
         /\ purchase' = [purchase EXCEPT ![o].version = @ + 1]

\* create, of a return: the row is flushed before the totals are recalculated.
CreateReturn(t, r, q) ==
    LET o == receipt[r].order
        amount == Cost(q) * receipt[r].price
    IN
    /\ return[t] = NoReturn /\ receipt[r].posted /\ Something(q)
    /\ \A l \in Positions : q[l] + Returned(return, r, l) <= receipt[r].quantity[l]
    /\ ReturnFree(Goods(q))
    /\ OrderBearsCredit(o, amount)
    /\ return' = [return EXCEPT ![t] = [NoReturn EXCEPT !.receipt = r, !.order = o,
                                          !.quantity = q, !.amount = amount, !.version = 1]]
    /\ stock' = Added(stock, Goods(q), -1)
    /\ SyncShortage(DOMAIN Goods(q), stock', hold, request)
    /\ TouchOrder(o)
    /\ totals' = IF o = Null THEN totals ELSE Recalculated(purchase, return', movement)
    /\ UNCHANGED <<hold, event, norm, request, receipt, movement, due>>

\* archive_return
ArchiveReturn(t, seen, flag) ==
    /\ return[t] # NoReturn /\ return[t].version = seen /\ seen < MaxReturnVersion
    /\ return' = [return EXCEPT ![t].archived = flag, ![t].version = @ + 1]
    /\ UNCHANGED <<vars, purchase, receipt, movement, totals, due>>

\* cancel, of a return: no refund is on its way, the goods come back.  The session does
\* not flush before a query (db/session.py), so the totals are recalculated with the
\* return as it was.
CancelReturn(t, seen) ==
    LET q == Goods(return[t].quantity)
        o == return[t].order
    IN
    /\ return[t] # NoReturn /\ ~return[t].cancelled /\ ~return[t].archived
    /\ return[t].version = seen /\ seen < MaxReturnVersion
    /\ \A k \in Movements : movement[k].return = t => movement[k].status \notin Live
    /\ \A m \in DOMAIN q : stock[m] >= 0
    /\ stock' = Added(stock, q, 1)
    /\ SyncShortage(DOMAIN q, stock', hold, request)
    /\ return' = [return EXCEPT ![t].cancelled = TRUE, ![t].version = @ + 1]
    /\ TouchOrder(o)
    /\ totals' = IF o = Null THEN totals ELSE Recalculated(purchase, return, movement)
    /\ UNCHANGED <<hold, event, norm, request, receipt, movement, due>>

------------------------------------------------------------------------------
(* Money.                                                                    *)

\* _assert_no_open_supply_payment: a payment of order o by movement k fits into what is
\* owed, other payments under approval counted as made.
MayPay(o, k, amount) ==
    /\ Exists(o) /\ ~purchase[o].archived
    /\ Payments(movement, o, Live, k) - OrderRefunds(return, movement, o) + amount
         <= Cost(purchase[o].items) - Credit(return, o)

\* Deviation: refunds under approval are not counted.
MayRefundPosted(t, k, amount) ==
    /\ ~return[t].cancelled
    /\ Refunds(movement, t, {"posted"}, k) + amount <= return[t].amount

\* validate_refund: a refund by movement k fits into what the return was worth, others
\* under approval counted.
MayRefund(t, k, amount) ==
    /\ ~return[t].cancelled
    /\ Refunds(movement, t, Live, k) + amount <= return[t].amount

\* create_money_movement, a payment of an order; pay_supplier_order pays all that is left.
CreatePayment(k, o, amount) ==
    /\ movement[k].status = "none"
    /\ MayPay(o, k, amount)
    /\ movement' = [movement EXCEPT ![k] = [NoMovement EXCEPT !.order = o,
                                              !.amount = amount, !.status = "draft"]]
    /\ UNCHANGED <<vars, purchase, receipt, return, totals, due>>

\* refund: create_money_movement for a return that is not put away.
CreateRefund(k, t, amount) ==
    /\ movement[k].status = "none"
    /\ return[t] # NoReturn /\ ~return[t].archived
    /\ MayRefund(t, k, amount)
    /\ movement' = [movement EXCEPT ![k] = [NoMovement EXCEPT !.return = t,
                                              !.amount = amount, !.status = "draft"]]
    /\ UNCHANGED <<vars, purchase, receipt, return, totals, due>>

\* What is checked of movement k whenever it is edited, approved or posted.
Valid(k, o, amount) ==
    /\ o # Null => MayPay(o, k, amount)
    /\ movement[k].return # Null => MayRefund(movement[k].return, k, amount)

\* update_money_movement: another amount, another order, or none (another subkind).
UpdateMovement(k, o, amount) ==
    /\ movement[k].status \in Open
    /\ movement[k].return # Null => o = Null
    /\ Valid(k, o, amount)
    /\ movement' = [movement EXCEPT ![k].order = o, ![k].amount = amount]
    /\ UNCHANGED <<vars, purchase, receipt, return, totals, due>>

\* delete_money_movement
DeleteMovement(k) ==
    /\ movement[k].status = "draft"
    /\ movement' = [movement EXCEPT ![k] = [NoMovement EXCEPT !.status = "deleted"]]
    /\ UNCHANGED <<vars, purchase, receipt, return, totals, due>>

\* change_status: the totals follow a payment by its amount (_adjust_supplier_paid), and
\* are recalculated for a refund before the new status is flushed.
ChangeTotals(k, sign) ==
    totals' = IF movement[k].return # Null THEN Recalculated(purchase, return, movement)
              ELSE IF movement[k].order # Null
                   THEN [totals EXCEPT !.paid = @ + sign * movement[k].amount]
                   ELSE totals

\* Deviation: only the first approval looks at the limits.
PostMovementApproved(k) ==
    /\ movement[k].status = "approved"
    /\ movement' = [movement EXCEPT ![k].status = "posted"]
    /\ ChangeTotals(k, 1)
    /\ UNCHANGED <<vars, purchase, receipt, return, due>>

\* change_status to approved
ApproveMovement(k) ==
    /\ movement[k].status = "draft"
    /\ Valid(k, movement[k].order, movement[k].amount)
    /\ movement' = [movement EXCEPT ![k].status = "approved"]
    /\ ChangeTotals(k, 0)
    /\ UNCHANGED <<vars, purchase, receipt, return, due>>

\* change_status to posted: the limits are looked at again.
PostMovement(k) ==
    /\ movement[k].status = "approved"
    /\ Valid(k, movement[k].order, movement[k].amount)
    /\ movement' = [movement EXCEPT ![k].status = "posted"]
    /\ ChangeTotals(k, 1)
    /\ UNCHANGED <<vars, purchase, receipt, return, due>>

\* change_status to cancelled: of a posted movement too.
CancelMovement(k) ==
    /\ movement[k].status \in Live
    /\ movement' = [movement EXCEPT ![k].status = "cancelled"]
    /\ ChangeTotals(k, IF movement[k].status = "posted" THEN -1 ELSE 0)
    /\ UNCHANGED <<vars, purchase, receipt, return, due>>

------------------------------------------------------------------------------
PurchaseStep ==
    \/ \E o \in SupplierOrders :
          \/ \E q \in Quantities, linked \in SUBSET Kept :
                CreateSupplierOrder(o, q, linked) \/ UpdateSupplierOrder(o, q, linked)
          \/ DeleteSupplierOrder(o)
          \/ ChangeSupplierOrderStatus(o)
          \/ \E seen \in 1 .. MaxOrderVersion, flag \in BOOLEAN :
                ArchiveSupplierOrder(o, seen, flag)
    \/ RecalculateTotals

GoodsStep ==
    \/ \E r \in Receipts, q \in Quantities, p \in Prices :
          \/ \E o \in SupplierOrders, seen \in 1 .. MaxOrderVersion :
                ReceiveOrdered(r, o, seen, q, p)
          \/ ReceiveUnordered(r, q, p)
    \/ \E t \in Returns :
          \/ \E r \in Receipts, q \in Quantities : CreateReturn(t, r, q)
          \/ \E seen \in 1 .. MaxReturnVersion :
                \/ \E flag \in BOOLEAN : ArchiveReturn(t, seen, flag)
                \/ CancelReturn(t, seen)

MoneyStep ==
    \E k \in Movements :
        \/ \E amount \in 1 .. MaxAmount :
              \/ \E o \in SupplierOrders : CreatePayment(k, o, amount)
              \/ \E t \in Returns : CreateRefund(k, t, amount)
              \/ \E o \in SupplierOrders \cup {Null} : UpdateMovement(k, o, amount)
        \/ DeleteMovement(k)
        \/ ApproveMovement(k)
        \/ PostMovement(k)
        \/ CancelMovement(k)

WarehouseStep == Next /\ UNCHANGED purchaseVars

PurchasingNext == PurchaseStep \/ GoodsStep \/ MoneyStep \/ WarehouseStep

PurchasingSpec == PurchasingInit /\ [][PurchasingNext]_allVars

------------------------------------------------------------------------------
PurchaseRow == [status : {"none", "ordered", "in_transit", "received", "deleted"},
                items : [Positions -> Nat], received : [Positions -> Nat],
                linked : SUBSET Kept, archived : BOOLEAN, version : Nat]

MovementRow == [order : SupplierOrders \cup {Null}, return : Returns \cup {Null},
                amount : Nat, status : {"none", "deleted", "cancelled"} \cup Live]

\* The type of the tables: a movement of money is for an order or for a return, never
\* for both, and the totals are whatever the recalculation left.
PurchasingTypeOK ==
    /\ TypeOK
    /\ purchase \in [SupplierOrders -> PurchaseRow]
    /\ \A r \in Receipts : /\ receipt[r].order \in SupplierOrders \cup {Null}
                           /\ receipt[r].quantity \in [Positions -> Nat]
    /\ \A t \in Returns : /\ return[t].receipt \in Receipts \cup {Null}
                          /\ return[t].quantity \in [Positions -> Nat]
    /\ movement \in [Movements -> MovementRow]
    /\ \A k \in Movements : movement[k].order = Null \/ movement[k].return = Null
    /\ totals \in [ordered : Int, paid : Int] /\ due \in Nat

\* What an order shows as received is what its receipts brought, and no more than was
\* ordered: the positions live in a JSON column that receipts and edits both rewrite.
ReceiptsAgree ==
    \A o \in SupplierOrders, l \in Positions :
        /\ purchase[o].received[l] =
             Total([r \in Receipts |-> IF receipt[r].order = o THEN receipt[r].quantity[l]
                                       ELSE 0], Receipts)
        /\ purchase[o].received[l] <= purchase[o].items[l]

\* docs/FUNCTIONAL_MIGRATION.md, "Возврат поставщику": no more is sent back than came,
\* all earlier returns counted, archived ones too.
ReturnsWithinReceipts ==
    \A r \in Receipts, l \in Positions :
        Total([t \in Returns |-> IF return[t].receipt = r /\ ~return[t].cancelled
                                 THEN return[t].quantity[l] ELSE 0], Returns)
          <= receipt[r].quantity[l]

\* "Деньги по возврату", "Ошибочный возврат": refunds on paper and in the bank stay
\* within the return, and a cancelled return has none, whatever was edited, deleted,
\* cancelled or approved in between.
RefundsWithinReturns ==
    \A t \in Returns :
        Refunds(movement, t, Live, Null) <= IF return[t].cancelled THEN 0 ELSE return[t].amount

\* How far the payments of an order, those under approval counted, exceed what is owed.
Excess(po, rt, mv, o) ==
    AtLeast(0, Paid(rt, mv, o) + Pending(mv, o) - NetTotal(po, rt, o))

\* "Оплата частями": payments under approval never grow past what is owed, except
\* that a refund may be called off under them, and then they are not let through.
ExcessKept ==
    \A o \in SupplierOrders :
        /\ Excess(purchase', return', movement', o) > Excess(purchase, return, movement, o) =>
              \/ Pending(movement', o) = 0
              \/ \E k \in Movements : /\ movement[k].return # Null
                                      /\ movement[k].status = "posted"
                                      /\ movement'[k].status = "cancelled"
        /\ (\E k \in Movements : /\ movement[k].order = o
                                 /\ movement[k].status # movement'[k].status
                                 /\ movement'[k].status \in {"approved", "posted"}) =>
              Excess(purchase', return', movement', o) = 0

PaymentsWithinDebt == [][ExcessKept]_allVars

\* A client receives goods with the version of the order card it saw: what the card says
\* is ordered, received, credited or done moves the version.
PurchaseCardsMove ==
    [][\A o \in SupplierOrders :
          \/ purchase'[o].status = "deleted"
          \/ purchase'[o].version = purchase[o].version + 1
          \/ purchase'[o] = purchase[o] /\ Credit(return', o) = Credit(return, o)]_allVars

\* "Сквозная защита": a return to the supplier leaves what is promised to others.
ReturnsRespectFreeStock == [][FreeStockKept]_allVars

\* Receipts, returns and the card of the order they belong to tell the same of its
\* goods, and a return takes none that others were promised.
GoodsAgree ==
    /\ [](PurchasingTypeOK /\ ReceiptsAgree /\ ReturnsWithinReceipts)
    /\ PurchaseCardsMove /\ ReturnsRespectFreeStock

\* accounting/models.py, SupplierOrderStatus: "Только вперёд, без пропуска шага".
Stage(status) ==
    CASE status = "ordered" -> 1 [] status = "in_transit" -> 2 [] status = "received" -> 3
      [] OTHER -> 0

StatusOnlyForward ==
    [][\A o \in SupplierOrders :
          purchase'[o].status # "deleted" =>
              Stage(purchase'[o].status) >= Stage(purchase[o].status)]_allVars

\* tests/test_purchase_returns.py:210: the supplier's total_paid is what was paid less
\* what was refunded.
SupplierPaidAgrees ==
    due = 0 => totals.paid = Recalculated(purchase, return, movement).paid
=============================================================================
