----------------------------- MODULE SalesOrders -----------------------------
(***************************************************************************)
(* Customer orders and their shipments, over the warehouse: holds are made *)
(* for the lines of an order, shipments take goods off the shelves and use *)
(* the holds of their own lines up.                                        *)
(*                                                                         *)
(* Every handler of an order or of a shipment locks the order first, then  *)
(* the shipment, then the materials by their numbers, then the holds, so   *)
(* an action is a whole handler here too.  The handlers of the warehouse   *)
(* go on beside them: they are the steps of StockReservations.             *)
(***************************************************************************)
EXTENDS StockReservations

CONSTANTS
    Orders,             \* rows of sales_orders
    OrderOf,            \* SalesLines -> Orders
    LineMaterial,       \* SalesLines -> Materials
    MaxShipments, MaxOrdered, MaxOrderVersion     \* bounds

ASSUME OrdersAssumption ==
    /\ OrderOf \in [SalesLines -> Orders]
    /\ LineMaterial \in [SalesLines -> Materials]
    /\ {MaxShipments, MaxOrdered, MaxOrderVersion} \subseteq Nat

VARIABLES
    order,      \* status, archived and version of an order
    ordered,    \* the quantity on a line; 0 is a line the order does not have
    shipment    \* sales_shipments

salesVars == <<order, ordered, shipment>>

ShipmentIds == 1 .. MaxShipments

LinesOf(o) == {l \in SalesLines : OrderOf[l] = o}

Quantities0 == [l \in SalesLines |-> 0]

NoShipment == [order |-> Null, status |-> "none", quantity |-> Quantities0,
               version |-> 0, archived |-> FALSE]

------------------------------------------------------------------------------
\* shipped(db, order), line by line: what the posted shipments carry.
Shipped(sh, l) ==
    Total([s \in ShipmentIds |-> IF sh[s].status = "posted" THEN sh[s].quantity[l] ELSE 0],
          ShipmentIds)

\* order_holds(db, order)
HeldForOrder(o) == {h \in HoldIds : hold[h].target \in LinesOf(o) /\ Left(hold[h]) > 0}

ShipmentsOf(o) == {s \in ShipmentIds : shipment[s].order = o}

Drafts(o) == {s \in ShipmentsOf(o) : shipment[s].status = "draft"}

\* remaining_to_reserve
ToReserve(l) ==
    AtLeast(0, ordered[l] - Shipped(shipment, l) - Held(hold, LineMaterial[l], {l}))

\* What a shipment takes of each material, over its lines.
Carried(s) ==
    LET lines == {l \in SalesLines : shipment[s].quantity[l] > 0} IN
    [m \in {LineMaterial[l] : l \in lines} |->
        Total(shipment[s].quantity, {l \in lines : LineMaterial[l] = m})]

\* A confirmed order that is not put away.
Active(o) == order[o].status = "confirmed" /\ ~order[o].archived

\* A card the client saw, that nobody changed since; versions are bounded here.
Fresh(o, seen) == order[o].version = seen /\ seen < MaxOrderVersion

------------------------------------------------------------------------------
SalesInit ==
    /\ Init
    /\ order = [o \in Orders |-> [status |-> "none", archived |-> FALSE, version |-> 0]]
    /\ ordered = Quantities0
    /\ shipment = [s \in ShipmentIds |-> NoShipment]

\* What the client writes on the lines of an order: at least one of them.
OrderLines(o) ==
    {q \in [LinesOf(o) -> 0 .. MaxOrdered] : \E l \in LinesOf(o) : q[l] > 0}

WriteLines(o, q) ==
    ordered' = [l \in SalesLines |-> IF l \in LinesOf(o) THEN q[l] ELSE ordered[l]]

\* create_order
CreateOrder(o, q) ==
    /\ order[o].status = "none"
    /\ order' = [order EXCEPT ![o].status = "draft", ![o].version = 1]
    /\ WriteLines(o, q)
    /\ UNCHANGED <<shipment, vars>>

\* Deviation: only a shipment freezes the lines, a hold does not.
FrozenByShipments(o) == ShipmentsOf(o) # {}

\* frozen: a shipment or a hold of any age keeps the lines as they are.
Frozen(o) == ShipmentsOf(o) # {} \/ \E h \in HoldIds : hold[h].target \in LinesOf(o)

\* edit_order, the lines: allowed for a confirmed order too, until it is frozen.
EditOrder(o, seen, q) ==
    /\ Fresh(o, seen)
    /\ order[o].status \in {"draft", "confirmed"} /\ ~order[o].archived
    /\ ~Frozen(o)
    /\ order' = [order EXCEPT ![o].version = @ + 1]
    /\ WriteLines(o, q)
    /\ UNCHANGED <<shipment, vars>>

\* confirm_order
ConfirmOrder(o, seen) ==
    /\ Fresh(o, seen)
    /\ order[o].status = "draft" /\ ~order[o].archived
    /\ order' = [order EXCEPT ![o].status = "confirmed", ![o].version = @ + 1]
    /\ UNCHANGED <<ordered, shipment, vars>>

\* archive_order
ArchiveOrder(o, seen, flag) ==
    /\ order[o].status # "none" /\ Fresh(o, seen)
    /\ flag => HeldForOrder(o) = {} /\ Drafts(o) = {}
    /\ order' = [order EXCEPT ![o].archived = flag, ![o].version = @ + 1]
    /\ UNCHANGED <<ordered, shipment, vars>>

\* cancel_order
CancelOrder(o, seen) ==
    /\ Fresh(o, seen)
    /\ order[o].status \in {"draft", "confirmed"} /\ ~order[o].archived
    /\ HeldForOrder(o) = {} /\ Drafts(o) = {}
    /\ \A l \in LinesOf(o) : Shipped(shipment, l) = 0
    /\ order' = [order EXCEPT ![o].status = "cancelled", ![o].version = @ + 1]
    /\ UNCHANGED <<ordered, shipment, vars>>

\* reservations.create for a line of an order; the order is locked, its version
\* stays.
ReserveForLine(u, h, l, q) ==
    /\ Active(OrderOf[l])
    /\ q <= ToReserve(l)
    /\ InsertHold(u, h, LineMaterial[l], l, q)
    /\ UNCHANGED <<stock, norm, request, salesVars>>

------------------------------------------------------------------------------
(* Shipments.                                                                *)

\* Quantities that are left on the lines of order o.
Shippable(o) ==
    {q \in [SalesLines -> 0 .. MaxOrdered] :
        /\ \E l \in SalesLines : q[l] > 0
        /\ \A l \in SalesLines :
             q[l] > 0 => l \in LinesOf(o) /\ q[l] <= ordered[l] - Shipped(shipment, l)}

\* create_shipment: a draft takes nothing, and other drafts may take the same.
CreateShipment(s, o, seen, q) ==
    /\ shipment[s].status = "none"
    /\ \A r \in ShipmentIds : r < s => shipment[r].status # "none"
    /\ Active(o) /\ order[o].version = seen
    /\ q \in Shippable(o)
    /\ shipment' = [shipment EXCEPT ![s] = [order |-> o, status |-> "draft", quantity |-> q,
                                            version |-> 1, archived |-> FALSE]]
    /\ UNCHANGED <<order, ordered, vars>>

\* Deviation: the holds of the shipped lines stay.
UseNoHolds(quantity, left) ==
    /\ \A h \in HoldIds : left[h] = Left(hold[h])
    /\ UNCHANGED hold

\* Each line that is shipped uses its own holds up, oldest first; left[h] is what
\* hold h keeps.
UseHolds(quantity, left) ==
    /\ \A l \in SalesLines :
         TakenInOrder(LeftOn(hold, LineMaterial[l], {l}),
                      [h \in HoldIds |-> IF hold[h].target = l THEN left[h] ELSE 0],
                      HoldIds, quantity[l])
    /\ \A h \in HoldIds : hold[h].target \notin SalesLines => left[h] = Left(hold[h])
    /\ hold' = [h \in HoldIds |->
                  IF left[h] = Left(hold[h]) THEN hold[h]
                  ELSE NextVersion([hold[h] EXCEPT !.consumed = @ + (Left(hold[h]) - left[h])])]

\* Deviation: any hold of the order counts, not only those of the shipped lines.
CoveredByOrder(s, q) ==
    \A m \in DOMAIN q :
        q[m] <= Available(stock, hold, m) + Held(hold, m, LinesOf(shipment[s].order))

\* Enough is free, counting the holds of the shipped lines as far as they are shipped.
Covered(s, q) ==
    \A m \in DOMAIN q :
        q[m] <= Available(stock, hold, m)
                  + Total([l \in SalesLines |-> AtMost(Held(hold, m, {l}),
                                                       shipment[s].quantity[l])],
                          {l \in SalesLines : LineMaterial[l] = m})

\* No other shipment of the order has carried the rest since the draft.
NotShippedElsewhere(s) ==
    \A l \in SalesLines : shipment[s].quantity[l] > 0 =>
        shipment[s].quantity[l] <= ordered[l] - Shipped(shipment, l)

\* post_shipment
PostShipment(s, seen) ==
    LET o == shipment[s].order
        q == Carried(s)
    IN
    /\ shipment[s].status = "draft" /\ ~shipment[s].archived
    /\ Active(o) /\ Fresh(o, seen)
    /\ NotShippedElsewhere(s)
    /\ Covered(s, q)
    /\ stock' = Added(stock, q, -1)
    /\ \E left \in [HoldIds -> 0 .. MaxQuantity] : UseHolds(shipment[s].quantity, left)
    /\ SyncShortage(DOMAIN q, stock', hold', request)
    /\ shipment' = [shipment EXCEPT ![s].status = "posted", ![s].version = @ + 1]
    /\ order' = [order EXCEPT ![o].version = @ + 1]
    /\ UNCHANGED <<ordered, event, norm, request>>

\* cancel_shipment: posted goods come back to the shelves, not to the holds.
CancelShipment(s, seen) ==
    LET o == shipment[s].order
        q == IF shipment[s].status = "posted" THEN Carried(s) ELSE <<>>
    IN
    /\ shipment[s].status \in {"draft", "posted"} /\ ~shipment[s].archived
    /\ shipment[s].version = seen
    /\ ~order[o].archived /\ order[o].version < MaxOrderVersion
    /\ stock' = Added(stock, q, 1)
    /\ SyncShortage(DOMAIN q, stock', hold, request)
    /\ shipment' = [shipment EXCEPT ![s].status = "cancelled", ![s].version = @ + 1]
    /\ order' = [order EXCEPT ![o].version = @ + 1]
    /\ UNCHANGED <<ordered, hold, event, norm, request>>

\* archive_shipment: anything but a draft.
ArchiveShipment(s, seen, flag) ==
    /\ shipment[s].status # "none"
    /\ shipment[s].version = seen /\ seen < MaxVersion
    /\ flag => shipment[s].status # "draft"
    /\ shipment' = [shipment EXCEPT ![s].archived = flag, ![s].version = @ + 1]
    /\ UNCHANGED <<order, ordered, vars>>

------------------------------------------------------------------------------
OrderStep ==
    \E o \in Orders :
        \/ \E q \in OrderLines(o) : CreateOrder(o, q)
        \/ \E seen \in 1 .. MaxOrderVersion :
              \/ \E q \in OrderLines(o) : EditOrder(o, seen, q)
              \/ ConfirmOrder(o, seen)
              \/ CancelOrder(o, seen)
              \/ \E flag \in BOOLEAN : ArchiveOrder(o, seen, flag)

ShipmentStep ==
    \E s \in ShipmentIds :
        \/ \E seen \in 1 .. MaxOrderVersion :
              \/ \E o \in Orders, q \in [SalesLines -> 0 .. MaxOrdered] :
                    CreateShipment(s, o, seen, q)
              \/ PostShipment(s, seen)
        \/ \E seen \in 1 .. MaxVersion + 1 :
              \/ CancelShipment(s, seen)
              \/ \E flag \in BOOLEAN : ArchiveShipment(s, seen, flag)

LineStep ==
    \E u \in RequestIds, h \in HoldIds, l \in SalesLines, q \in Amounts :
        ReserveForLine(u, h, l, q)

WarehouseStep == Next /\ UNCHANGED salesVars

SalesNext == OrderStep \/ ShipmentStep \/ LineStep \/ WarehouseStep

SalesSpec == SalesInit /\ [][SalesNext]_<<vars, salesVars>>

------------------------------------------------------------------------------
OrderRow == [status : {"none", "draft", "confirmed", "cancelled"},
             archived : BOOLEAN, version : Nat]

ShipmentRow == [order : Orders \cup {Null},
                status : {"none", "draft", "posted", "cancelled"},
                quantity : [SalesLines -> Nat], version : Nat, archived : BOOLEAN]

\* The type of the tables of sales.
SalesTypeOK ==
    /\ TypeOK
    /\ order \in [Orders -> OrderRow]
    /\ ordered \in [SalesLines -> Nat]
    /\ shipment \in [ShipmentIds -> ShipmentRow]

\* docs/FUNCTIONAL_MIGRATION.md, "Частичная отгрузка" and "Резерв заказа": what a line
\* has been shipped and what is still held for it never exceed what was ordered,
\* however many drafts, posts, cancellations and holds there were, and in what order.
LinesCovered ==
    \A l \in SalesLines :
        Shipped(shipment, l) + Held(hold, LineMaterial[l], {l}) <= ordered[l]

\* An order that is put away or cancelled keeps nothing from others: no hold of it is
\* open and no draft waits to take goods; a cancelled order has nothing shipped.
ClosedOrdersHoldNothing ==
    \A o \in Orders :
        /\ order[o].archived \/ order[o].status = "cancelled" =>
              HeldForOrder(o) = {} /\ Drafts(o) = {}
        /\ order[o].status = "cancelled" => \A l \in LinesOf(o) : Shipped(shipment, l) = 0

\* A client posts a shipment with the version of the order card it saw.  Whatever
\* changes what the card says is shipped or ordered, or its status, moves its version.
CardsMove ==
    \A o \in Orders :
        \/ order'[o].version = order[o].version + 1
        \/ /\ order'[o] = order[o]
           /\ \A l \in LinesOf(o) : /\ Shipped(shipment', l) = Shipped(shipment, l)
                                    /\ ordered'[l] = ordered[l]

OrderCardsMove == [][CardsMove]_<<vars, salesVars>>

\* Shipments respect the promises to others: the free balance again, with orders and
\* shipments at work.
OrdersRespectFreeStock == [][FreeStockKept]_<<vars, salesVars>>

\* The lines, shipments and holds of orders tell the same, whatever came in what order.
OrdersAgree == SalesTypeOK /\ LinesCovered /\ ClosedOrdersHoldNothing

\* What sales promise they keep: to who looked at the card of an order, and to those
\* who were promised the goods on the shelf.
OrdersKeepPromises == OrderCardsMove /\ OrdersRespectFreeStock

\* Orders and shipments implement the ledger of promises of StockReservations: a
\* shipment hands goods out to the lines it carries, and returned goods enter without
\* a promise.
SalesImplementLedger == Ledger!Spec
=============================================================================
