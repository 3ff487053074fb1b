-------------------------- MODULE PurchasingProofs --------------------------
(***************************************************************************)
(* Theorems about purchases, for any number of orders, receipts, returns   *)
(* and movements of money, with the handlers of the warehouse running      *)
(* beside them.  That receipts, returns and cards agree is not inductive   *)
(* alone: a row nobody wrote must be blank, and a return must keep the     *)
(* receipt it was made for and that receipt's order.                       *)
(***************************************************************************)
EXTENDS Purchasing, StockReservationsProofs

ReceiptRow == [posted : BOOLEAN, order : SupplierOrders \cup {Null},
               quantity : [Positions -> Nat], price : Nat]

ReturnRow == [receipt : Receipts \cup {Null}, order : SupplierOrders \cup {Null},
              quantity : [Positions -> Nat], amount : Nat, archived : BOOLEAN,
              cancelled : BOOLEAN, version : Nat]

PurchaseTable == [SupplierOrders -> PurchaseRow]
ReceiptTable == [Receipts -> ReceiptRow]
ReturnTable == [Returns -> ReturnRow]
MovementTable == [Movements -> MovementRow]

\* A movement of money is for an order or for a return, never for both.
OneSide == \A k \in Movements : movement[k].order = Null \/ movement[k].return = Null

PurchaseTables ==
    /\ purchase \in PurchaseTable /\ receipt \in ReceiptTable
    /\ return \in ReturnTable /\ movement \in MovementTable
    /\ OneSide
    /\ totals \in [ordered : Int, paid : Int] /\ due \in Nat

\* A row that no request wrote is blank.
UnwrittenRows ==
    /\ \A o \in SupplierOrders : purchase[o].status = "none" => purchase[o] = NoPurchase
    /\ \A r \in Receipts : ~receipt[r].posted => receipt[r] = NoReceipt

\* A return is of a receipt on file and of that receipt's order.
ReturnsOfReceipts ==
    \A t \in Returns :
        \/ return[t] = NoReturn
        \/ /\ return[t].receipt \in Receipts /\ receipt[return[t].receipt].posted
           /\ return[t].order = receipt[return[t].receipt].order

\* A receipt for an order is for one that was created.
ReceiptsOfOrders ==
    \A r \in Receipts :
        receipt[r].order # Null => purchase[receipt[r].order].status # "none"

PurchaseIInv ==
    /\ IInv
    /\ PurchaseTables /\ UnwrittenRows /\ ReceiptsOfOrders /\ ReturnsOfReceipts
    /\ ReceiptsAgree /\ ReturnsWithinReceipts /\ RefundsWithinReturns

------------------------------------------------------------------------------
(* Sums over movements of money: for an order or for a return x, in the      *)
(* states S, but for movement k.                                             *)

\* What one movement adds to such a sum; c is the column, "order" or "return".
Share(row, c, x, S) == IF row[c] = x /\ row.status \in S THEN row.amount ELSE 0

SharesBut(mv, c, x, S, k) ==
    [j \in Movements |-> IF j # k THEN Share(mv[j], c, x, S) ELSE 0]

SumBut(mv, c, x, S, k) == Total(SharesBut(mv, c, x, S, k), Movements)

LEMMA MovementNumbers ==
    /\ IsFiniteSet(Movements) /\ IsFiniteSet(Returns) /\ IsFiniteSet(Receipts)
    /\ IsFiniteSet(Positions) /\ IsFiniteSet(SupplierOrders)
    /\ Null \notin SupplierOrders /\ Null \notin Returns
    /\ Null \notin Receipts /\ Null \notin Movements
  BY PurchasesAssumption

LEMMA PaymentsAreSums ==
    ASSUME NEW mv, NEW x, NEW S, NEW k
    PROVE  /\ Payments(mv, x, S, k) = SumBut(mv, "order", x, S, k)
           /\ Refunds(mv, x, S, k) = SumBut(mv, "return", x, S, k)
  <1>1. \A j \in Movements :
          /\ [i \in Movements |-> IF i # k /\ mv[i].order = x /\ mv[i].status \in S
                                  THEN mv[i].amount ELSE 0][j]
               = SharesBut(mv, "order", x, S, k)[j]
          /\ [i \in Movements |-> IF i # k /\ mv[i].return = x /\ mv[i].status \in S
                                  THEN mv[i].amount ELSE 0][j]
               = SharesBut(mv, "return", x, S, k)[j]
    BY DEF SharesBut, Share
  <1>2. Payments(mv, x, S, k) = SumBut(mv, "order", x, S, k)
    BY <1>1, TotalSame DEF Payments, SumBut
  <1>3. Refunds(mv, x, S, k) = SumBut(mv, "return", x, S, k)
    BY <1>1, TotalSame DEF Refunds, SumBut
  <1> QED
    BY <1>2, <1>3

LEMMA SharesType ==
    ASSUME NEW mv \in MovementTable, NEW c, NEW x, NEW S, NEW k
    PROVE  /\ \A j \in Movements : /\ Share(mv[j], c, x, S) \in Nat
                                   /\ SharesBut(mv, c, x, S, k)[j] \in Nat
           /\ SumBut(mv, c, x, S, k) \in Nat
  <1>1. \A j \in Movements : mv[j].amount \in Nat
    BY DEF MovementTable, MovementRow
  <1>2. \A j \in Movements : Share(mv[j], c, x, S) \in Nat
    BY <1>1 DEF Share
  <1>3. \A j \in Movements : SharesBut(mv, c, x, S, k)[j] \in Nat
    BY <1>2 DEF SharesBut
  <1>4. SumBut(mv, c, x, S, k) \in Nat
    BY <1>3, MovementNumbers, TotalType DEF SumBut
  <1> QED
    BY <1>2, <1>3, <1>4

\* A sum is one movement's share and the rest.
LEMMA SharesSplit ==
    ASSUME NEW mv \in MovementTable, NEW c, NEW x, NEW S, NEW k \in Movements
    PROVE  SumBut(mv, c, x, S, Null) = SumBut(mv, c, x, S, k) + Share(mv[k], c, x, S)
  <1> DEFINE f == SharesBut(mv, c, x, S, Null)
             g == SharesBut(mv, c, x, S, k)
  <1>1. \A j \in Movements : f[j] \in Nat
    BY SharesType
  <1>2. \A j \in Movements : g[j] \in Nat
    BY SharesType
  <1>3. \A j \in Movements \ {k} : g[j] = f[j]
    BY MovementNumbers DEF SharesBut
  <1>4. g[k] = 0 /\ f[k] = Share(mv[k], c, x, S)
    BY MovementNumbers DEF SharesBut
  <1> HIDE DEF f, g
  <1>5. Total(g, Movements) = Total(f, Movements) - f[k] + g[k]
    BY <1>1, <1>2, <1>3, MovementNumbers, TotalUpdate
  <1>6. Total(f, Movements) \in Nat /\ f[k] \in Nat
    BY <1>1, MovementNumbers, TotalType
  <1>7. Total(f, Movements) = Total(g, Movements) + Share(mv[k], c, x, S)
    BY <1>4, <1>5, <1>6
  <1> QED
    BY <1>7 DEF f, g, SumBut

\* The rest does not see what happens to the one movement.
LEMMA SharesElsewhere ==
    ASSUME NEW old, NEW new, NEW k, \A j \in Movements \ {k} : new[j] = old[j],
           NEW c, NEW x, NEW S
    PROVE  SumBut(new, c, x, S, k) = SumBut(old, c, x, S, k)
  <1>1. \A j \in Movements : SharesBut(new, c, x, S, k)[j] = SharesBut(old, c, x, S, k)[j]
    BY DEF SharesBut
  <1> QED
    BY <1>1, TotalSame DEF SumBut

\* What is on its way is under approval or posted.
LEMMA SharesLive ==
    ASSUME NEW mv \in MovementTable, NEW c, NEW x, NEW k
    PROVE  SumBut(mv, c, x, Live, k) = SumBut(mv, c, x, {"posted"}, k) + SumBut(mv, c, x, Open, k)
  <1> DEFINE f == SharesBut(mv, c, x, {"posted"}, k)
             g == SharesBut(mv, c, x, Open, k)
             h == SharesBut(mv, c, x, Live, k)
  <1>1. \A j \in Movements : f[j] \in Nat
    BY SharesType
  <1>2. \A j \in Movements : g[j] \in Nat
    BY SharesType
  <1>3. \A j \in Movements : h[j] = f[j] + g[j]
    <2> SUFFICES ASSUME NEW j \in Movements PROVE h[j] = f[j] + g[j]
      OBVIOUS
    <2>1. mv[j].amount \in Nat
      BY DEF MovementTable, MovementRow
    <2> QED
      BY <2>1 DEF SharesBut, Share, Live, Open
  <1> HIDE DEF f, g, h
  <1>4. Total(h, Movements) = Total(f, Movements) + Total(g, Movements)
    BY <1>1, <1>2, <1>3, MovementNumbers, TotalAdd
  <1> QED
    BY <1>4 DEF f, g, h, SumBut

LEMMA NoShares ==
    ASSUME NEW mv, NEW c, NEW x, NEW S, NEW k,
           \A j \in Movements : mv[j][c] = x => mv[j].status \notin S
    PROVE  SumBut(mv, c, x, S, k) = 0
  <1>1. \A j \in Movements : SharesBut(mv, c, x, S, k)[j] = 0
    BY DEF SharesBut, Share
  <1> QED
    BY <1>1, TotalZero DEF SumBut

\* One movement moved: every sum moves by its share.
LEMMA SharesMove ==
    ASSUME NEW old \in MovementTable, NEW new \in MovementTable, NEW k \in Movements,
           \A j \in Movements \ {k} : new[j] = old[j], NEW c, NEW x, NEW S
    PROVE  /\ SumBut(old, c, x, S, k) \in Nat
           /\ SumBut(old, c, x, S, Null) = SumBut(old, c, x, S, k) + Share(old[k], c, x, S)
           /\ SumBut(new, c, x, S, Null) = SumBut(old, c, x, S, k) + Share(new[k], c, x, S)
           /\ Share(old[k], c, x, S) \in Nat /\ Share(new[k], c, x, S) \in Nat
  <1>1. SumBut(new, c, x, S, k) = SumBut(old, c, x, S, k)
    BY SharesElsewhere
  <1>2. SumBut(old, c, x, S, Null) = SumBut(old, c, x, S, k) + Share(old[k], c, x, S)
    BY SharesSplit
  <1>3. SumBut(new, c, x, S, Null) = SumBut(new, c, x, S, k) + Share(new[k], c, x, S)
    BY SharesSplit
  <1>4. /\ Share(old[k], c, x, S) \in Nat /\ Share(new[k], c, x, S) \in Nat
        /\ SumBut(old, c, x, S, k) \in Nat
    BY SharesType
  <1> QED
    BY <1>1, <1>2, <1>3, <1>4

------------------------------------------------------------------------------
(* Sums over returns.                                                        *)

\* What one return takes off order o, and what it takes off receipt r at position l.
CreditBy(row, o) == IF row.order = o /\ ~row.cancelled THEN row.amount ELSE 0

ReturnedBy(row, r, l) == IF row.receipt = r /\ ~row.cancelled THEN row.quantity[l] ELSE 0

LEMMA ReturnSums ==
    ASSUME NEW rt \in ReturnTable, NEW o, NEW r, NEW l \in Positions
    PROVE  /\ Credit(rt, o) = Total([t \in Returns |-> CreditBy(rt[t], o)], Returns)
           /\ Returned(rt, r, l) = Total([t \in Returns |-> ReturnedBy(rt[t], r, l)], Returns)
           /\ \A t \in Returns : CreditBy(rt[t], o) \in Nat /\ ReturnedBy(rt[t], r, l) \in Nat
           /\ Credit(rt, o) \in Nat /\ Returned(rt, r, l) \in Nat
  <1> DEFINE f == [t \in Returns |-> CreditBy(rt[t], o)]
             g == [t \in Returns |-> ReturnedBy(rt[t], r, l)]
  <1>1. \A t \in Returns : rt[t].amount \in Nat /\ rt[t].quantity[l] \in Nat
    BY DEF ReturnTable, ReturnRow
  <1>2. \A t \in Returns : f[t] \in Nat
    BY <1>1 DEF CreditBy
  <1>3. \A t \in Returns : g[t] \in Nat
    BY <1>1 DEF ReturnedBy
  <1>4. Credit(rt, o) = Total(f, Returns)
    BY DEF Credit, CreditBy
  <1>5. Returned(rt, r, l) = Total(g, Returns)
    BY DEF Returned, ReturnedBy
  <1>6. \A t \in Returns : CreditBy(rt[t], o) = f[t] /\ ReturnedBy(rt[t], r, l) = g[t]
    OBVIOUS
  <1> HIDE DEF f, g
  <1>7. Total(f, Returns) \in Nat /\ Total(g, Returns) \in Nat
    BY <1>2, <1>3, MovementNumbers, TotalType
  <1>8. /\ \A t \in Returns : CreditBy(rt[t], o) \in Nat /\ ReturnedBy(rt[t], r, l) \in Nat
        /\ Credit(rt, o) \in Nat /\ Returned(rt, r, l) \in Nat
    BY <1>2, <1>3, <1>4, <1>5, <1>6, <1>7
  <1> QED
    BY <1>4, <1>5, <1>8 DEF f, g

\* One return moved.
LEMMA CreditMoves ==
    ASSUME NEW old \in ReturnTable, NEW new \in ReturnTable, NEW t \in Returns,
           \A u \in Returns \ {t} : new[u] = old[u], NEW o
    PROVE  /\ Credit(new, o) = Credit(old, o) - CreditBy(old[t], o) + CreditBy(new[t], o)
           /\ Credit(old, o) \in Nat /\ CreditBy(old[t], o) \in Nat /\ CreditBy(new[t], o) \in Nat
  <1> DEFINE f == [u \in Returns |-> CreditBy(old[u], o)]
             g == [u \in Returns |-> CreditBy(new[u], o)]
  <1>1. \A u \in Returns : old[u].amount \in Nat /\ new[u].amount \in Nat
    BY DEF ReturnTable, ReturnRow
  <1>2. \A u \in Returns : f[u] \in Nat
    BY <1>1 DEF CreditBy
  <1>3. \A u \in Returns : g[u] \in Nat
    BY <1>1 DEF CreditBy
  <1>4. \A u \in Returns \ {t} : g[u] = f[u]
    OBVIOUS
  <1>5. Credit(old, o) = Total(f, Returns) /\ Credit(new, o) = Total(g, Returns)
    BY DEF Credit, CreditBy
  <1>6. f[t] = CreditBy(old[t], o) /\ g[t] = CreditBy(new[t], o)
    OBVIOUS
  <1> HIDE DEF f, g
  <1>7. Total(g, Returns) = Total(f, Returns) - f[t] + g[t]
    BY <1>2, <1>3, <1>4, MovementNumbers, TotalUpdate
  <1>8. Total(f, Returns) \in Nat
    BY <1>2, MovementNumbers, TotalType
  <1> QED
    BY <1>2, <1>3, <1>5, <1>6, <1>7, <1>8

LEMMA ReturnedMoves ==
    ASSUME NEW old \in ReturnTable, NEW new \in ReturnTable, NEW t \in Returns,
           \A u \in Returns \ {t} : new[u] = old[u], NEW r, NEW l \in Positions
    PROVE  /\ Returned(new, r, l)
                = Returned(old, r, l) - ReturnedBy(old[t], r, l) + ReturnedBy(new[t], r, l)
           /\ Returned(old, r, l) \in Nat
           /\ ReturnedBy(old[t], r, l) \in Nat /\ ReturnedBy(new[t], r, l) \in Nat
  <1> DEFINE f == [u \in Returns |-> ReturnedBy(old[u], r, l)]
             g == [u \in Returns |-> ReturnedBy(new[u], r, l)]
  <1>1. \A u \in Returns : old[u].quantity[l] \in Nat /\ new[u].quantity[l] \in Nat
    BY DEF ReturnTable, ReturnRow
  <1>2. \A u \in Returns : f[u] \in Nat
    BY <1>1 DEF ReturnedBy
  <1>3. \A u \in Returns : g[u] \in Nat
    BY <1>1 DEF ReturnedBy
  <1>4. \A u \in Returns \ {t} : g[u] = f[u]
    OBVIOUS
  <1>5. Returned(old, r, l) = Total(f, Returns) /\ Returned(new, r, l) = Total(g, Returns)
    BY DEF Returned, ReturnedBy
  <1>6. f[t] = ReturnedBy(old[t], r, l) /\ g[t] = ReturnedBy(new[t], r, l)
    OBVIOUS
  <1> HIDE DEF f, g
  <1>7. Total(g, Returns) = Total(f, Returns) - f[t] + g[t]
    BY <1>2, <1>3, <1>4, MovementNumbers, TotalUpdate
  <1>8. Total(f, Returns) \in Nat
    BY <1>2, MovementNumbers, TotalType
  <1> QED
    BY <1>2, <1>3, <1>5, <1>6, <1>7, <1>8

\* What was refunded of an order never falls while its returns stay its returns and
\* no refund of them falls.
LEMMA RefundsGrow ==
    ASSUME NEW rt \in ReturnTable, NEW mv \in MovementTable,
           NEW rt2 \in ReturnTable, NEW mv2 \in MovementTable, NEW o,
           \A t \in Returns : rt[t].order = o => rt2[t].order = o,
           \A t \in Returns : Refunds(mv2, t, {"posted"}, Null) >= Refunds(mv, t, {"posted"}, Null)
    PROVE  /\ OrderRefunds(rt, mv, o) \in Nat /\ OrderRefunds(rt2, mv2, o) \in Nat
           /\ OrderRefunds(rt2, mv2, o) >= OrderRefunds(rt, mv, o)
  <1> DEFINE f == [t \in Returns |->
                     IF rt2[t].order = o THEN Refunds(mv2, t, {"posted"}, Null) ELSE 0]
             g == [t \in Returns |->
                     IF rt[t].order = o THEN Refunds(mv, t, {"posted"}, Null) ELSE 0]
  <1>1. \A t \in Returns : /\ Refunds(mv, t, {"posted"}, Null) \in Nat
                           /\ Refunds(mv2, t, {"posted"}, Null) \in Nat
    BY SharesType, PaymentsAreSums
  <1>2. \A t \in Returns : f[t] \in Nat
    BY <1>1
  <1>3. \A t \in Returns : g[t] \in Nat /\ g[t] <= f[t]
    BY <1>1
  <1>4. OrderRefunds(rt2, mv2, o) = Total(f, Returns) /\ OrderRefunds(rt, mv, o) = Total(g, Returns)
    BY DEF OrderRefunds
  <1> HIDE DEF f, g
  <1>5. Total(g, Returns) <= Total(f, Returns)
    BY <1>2, <1>3, MovementNumbers, TotalMonotonic
  <1>6. Total(f, Returns) \in Nat /\ Total(g, Returns) \in Nat
    BY <1>2, <1>3, MovementNumbers, TotalType
  <1> QED
    BY <1>4, <1>5, <1>6

------------------------------------------------------------------------------
(* What an order costs, and by how much its payments exceed it.              *)

LEMMA CostType ==
    ASSUME NEW items \in [Positions -> Nat]
    PROVE  Cost(items) \in Nat
  BY MovementNumbers, TotalType DEF Cost

LEMMA BlankCost == Cost(Nothing) = 0 /\ Nothing \in [Positions -> Nat]
  BY TotalZero DEF Cost, Nothing

\* The figures of one order.
LEMMA Figures ==
    ASSUME NEW po \in PurchaseTable, NEW rt \in ReturnTable, NEW mv \in MovementTable,
           NEW o \in SupplierOrders
    PROVE  /\ Payments(mv, o, Live, Null) \in Nat /\ OrderRefunds(rt, mv, o) \in Nat
           /\ Payments(mv, o, {"posted"}, Null) \in Nat /\ Pending(mv, o) \in Nat
           /\ Cost(po[o].items) \in Nat /\ Credit(rt, o) \in Nat
           /\ NetTotal(po, rt, o) \in Nat
           /\ NetTotal(po, rt, o) = AtLeast(0, Cost(po[o].items) - Credit(rt, o))
           /\ Payments(mv, o, Live, Null) = Payments(mv, o, {"posted"}, Null) + Pending(mv, o)
           /\ Paid(rt, mv, o) = Payments(mv, o, {"posted"}, Null) - OrderRefunds(rt, mv, o)
           /\ Excess(po, rt, mv, o)
                = AtLeast(0, Payments(mv, o, Live, Null) - OrderRefunds(rt, mv, o)
                               - NetTotal(po, rt, o))
           /\ Excess(po, rt, mv, o) \in Nat
  <1>1. /\ Payments(mv, o, Live, Null) \in Nat
        /\ Payments(mv, o, {"posted"}, Null) \in Nat
        /\ Payments(mv, o, Open, Null) \in Nat
    BY SharesType, PaymentsAreSums
  <1>2. \A t \in Returns : Refunds(mv, t, {"posted"}, Null) \in Nat
    BY SharesType, PaymentsAreSums
  <1>3. OrderRefunds(rt, mv, o) \in Nat
    <2>1. \A t \in Returns : Refunds(mv, t, {"posted"}, Null) >= Refunds(mv, t, {"posted"}, Null)
      BY <1>2
    <2> QED
      BY <2>1, RefundsGrow
  <1>4. Cost(po[o].items) \in Nat
    BY CostType DEF PurchaseTable, PurchaseRow
  <1>5. Credit(rt, o) \in Nat
    <2> DEFINE f == [t \in Returns |-> CreditBy(rt[t], o)]
    <2>1. \A t \in Returns : f[t] \in Nat
      BY DEF ReturnTable, ReturnRow, CreditBy
    <2>2. Credit(rt, o) = Total(f, Returns)
      BY DEF Credit, CreditBy
    <2> HIDE DEF f
    <2> QED
      BY <2>1, <2>2, MovementNumbers, TotalType
  <1>6. Payments(mv, o, Live, Null)
          = Payments(mv, o, {"posted"}, Null) + Payments(mv, o, Open, Null)
    BY SharesLive, PaymentsAreSums
  <1>7. NetTotal(po, rt, o) = AtLeast(0, Cost(po[o].items) - Credit(rt, o))
    BY DEF NetTotal
  <1>8. NetTotal(po, rt, o) \in Nat
    BY <1>4, <1>5, <1>7 DEF AtLeast
  <1>9. Pending(mv, o) = Payments(mv, o, Open, Null)
    BY DEF Pending
  <1>10. Paid(rt, mv, o) = Payments(mv, o, {"posted"}, Null) - OrderRefunds(rt, mv, o)
    BY DEF Paid
  <1>11. Excess(po, rt, mv, o) = AtLeast(0, Paid(rt, mv, o) + Pending(mv, o) - NetTotal(po, rt, o))
    BY DEF Excess
  <1>12. Paid(rt, mv, o) + Pending(mv, o) - NetTotal(po, rt, o)
           = Payments(mv, o, Live, Null) - OrderRefunds(rt, mv, o) - NetTotal(po, rt, o)
    BY <1>1, <1>3, <1>6, <1>8, <1>9, <1>10
  <1>13. Excess(po, rt, mv, o) = AtLeast(0, Payments(mv, o, Live, Null)
                                    - OrderRefunds(rt, mv, o) - NetTotal(po, rt, o))
    BY <1>11, <1>12
  <1>14. Excess(po, rt, mv, o) \in Nat
    BY <1>1, <1>3, <1>8, <1>13 DEF AtLeast
  <1> QED
    BY <1>1, <1>3, <1>4, <1>5, <1>6, <1>7, <1>8, <1>9, <1>10, <1>13, <1>14

\* Nothing more is paid, nothing less refunded, nothing less owed.
LEMMA ExcessFalls ==
    ASSUME NEW po \in PurchaseTable, NEW rt \in ReturnTable, NEW mv \in MovementTable,
           NEW po2 \in PurchaseTable, NEW rt2 \in ReturnTable, NEW mv2 \in MovementTable,
           NEW o \in SupplierOrders,
           Payments(mv2, o, Live, Null) <= Payments(mv, o, Live, Null),
           OrderRefunds(rt2, mv2, o) >= OrderRefunds(rt, mv, o),
           NetTotal(po2, rt2, o) >= NetTotal(po, rt, o)
    PROVE  ~(Excess(po2, rt2, mv2, o) > Excess(po, rt, mv, o))
  <1>1. /\ Payments(mv, o, Live, Null) \in Nat /\ OrderRefunds(rt, mv, o) \in Nat
        /\ NetTotal(po, rt, o) \in Nat
        /\ Excess(po, rt, mv, o) = AtLeast(0, Payments(mv, o, Live, Null)
                                      - OrderRefunds(rt, mv, o) - NetTotal(po, rt, o))
    BY Figures
  <1>2. /\ Payments(mv2, o, Live, Null) \in Nat /\ OrderRefunds(rt2, mv2, o) \in Nat
        /\ NetTotal(po2, rt2, o) \in Nat
        /\ Excess(po2, rt2, mv2, o) = AtLeast(0, Payments(mv2, o, Live, Null)
                                         - OrderRefunds(rt2, mv2, o) - NetTotal(po2, rt2, o))
    BY Figures
  <1> QED
    BY <1>1, <1>2 DEF AtLeast

\* What is on its way fits into what is owed.
LEMMA NoExcess ==
    ASSUME NEW po \in PurchaseTable, NEW rt \in ReturnTable, NEW mv \in MovementTable,
           NEW o \in SupplierOrders,
           Payments(mv, o, Live, Null) <= NetTotal(po, rt, o) + OrderRefunds(rt, mv, o)
    PROVE  Excess(po, rt, mv, o) = 0
  <1>1. /\ Payments(mv, o, Live, Null) \in Nat /\ OrderRefunds(rt, mv, o) \in Nat
        /\ NetTotal(po, rt, o) \in Nat
        /\ Excess(po, rt, mv, o) = AtLeast(0, Payments(mv, o, Live, Null)
                                      - OrderRefunds(rt, mv, o) - NetTotal(po, rt, o))
    BY Figures
  <1> QED
    BY <1>1 DEF AtLeast

LEMMA RecalculatedType ==
    ASSUME NEW po \in PurchaseTable, NEW rt \in ReturnTable, NEW mv \in MovementTable
    PROVE  Recalculated(po, rt, mv) \in [ordered : Int, paid : Int]
  <1> DEFINE a == [o \in SupplierOrders |-> Cost(po[o].items)]
             b == [o \in SupplierOrders |-> Credit(rt, o)]
             c == [o \in SupplierOrders |-> Payments(mv, o, {"posted"}, Null)]
             d == [o \in SupplierOrders |-> OrderRefunds(rt, mv, o)]
  <1>1. \A o \in SupplierOrders : a[o] \in Nat
    BY Figures
  <1>2. \A o \in SupplierOrders : b[o] \in Nat
    BY Figures
  <1>3. \A o \in SupplierOrders : c[o] \in Nat
    BY Figures
  <1>4. \A o \in SupplierOrders : d[o] \in Nat
    BY Figures
  <1>5. Recalculated(po, rt, mv)
          = [ordered |-> Total(a, SupplierOrders) - Total(b, SupplierOrders),
             paid |-> Total(c, SupplierOrders) - Total(d, SupplierOrders)]
    BY DEF Recalculated
  <1> HIDE DEF a, b, c, d
  <1>6. /\ Total(a, SupplierOrders) \in Nat /\ Total(b, SupplierOrders) \in Nat
        /\ Total(c, SupplierOrders) \in Nat /\ Total(d, SupplierOrders) \in Nat
    BY <1>1, <1>2, <1>3, <1>4, MovementNumbers, TotalType
  <1> QED
    BY <1>5, <1>6

------------------------------------------------------------------------------
(* Steps that move money.                                                    *)

\* One movement of money changes, and nothing but totals beside it.
OneMovementMoves(k) ==
    /\ UNCHANGED <<vars, purchase, receipt, return, due>>
    /\ movement' \in MovementTable /\ OneSide'
    /\ totals' \in [ordered : Int, paid : Int]
    /\ \A j \in Movements \ {k} : movement'[j] = movement[j]

\* The movement counts for no more than it did, or the limits were looked at.
RefundFits(k) ==
    \A t \in Returns :
        \/ Share(movement'[k], "return", t, Live) <= Share(movement[k], "return", t, Live)
        \/ MayRefund(t, k, Share(movement'[k], "return", t, Live))

PaymentFits(k) ==
    \A o \in SupplierOrders :
        \/ Share(movement'[k], "order", o, Live) <= Share(movement[k], "order", o, Live)
        \/ MayPay(o, k, Share(movement'[k], "order", o, Live))

\* Whoever lets a payment through has looked at the limits.
LetThrough(k) ==
    \A o \in SupplierOrders :
        /\ movement[k].order = o /\ movement[k].status # movement'[k].status
        /\ movement'[k].status \in {"approved", "posted"}
        => MayPay(o, k, Share(movement'[k], "order", o, Live))

\* No refund is called off.
RefundsStand(k) ==
    \A t \in Returns : Share(movement'[k], "return", t, {"posted"})
                         >= Share(movement[k], "return", t, {"posted"})

CalledOff(k) ==
    /\ movement[k].return # Null /\ movement[k].status = "posted"
    /\ movement'[k].status = "cancelled"

LEMMA MoneyKeepsRefunds ==
    ASSUME PurchaseIInv, NEW k \in Movements, OneMovementMoves(k), RefundFits(k)
    PROVE  RefundsWithinReturns'
  <1>1. /\ movement \in MovementTable /\ movement' \in MovementTable /\ return' = return
        /\ return \in ReturnTable
    BY DEF PurchaseIInv, PurchaseTables, OneMovementMoves
  <1>2. \A j \in Movements \ {k} : movement'[j] = movement[j]
    BY DEF OneMovementMoves
  <1>3. ASSUME NEW t \in Returns
        PROVE  Refunds(movement', t, Live, Null)
                 <= IF return[t].cancelled THEN 0 ELSE return[t].amount
    <2> DEFINE rest == SumBut(movement, "return", t, Live, k)
               old == Share(movement[k], "return", t, Live)
               new == Share(movement'[k], "return", t, Live)
    <2>1. /\ rest \in Nat /\ old \in Nat /\ new \in Nat
          /\ SumBut(movement, "return", t, Live, Null) = rest + old
          /\ SumBut(movement', "return", t, Live, Null) = rest + new
      BY <1>1, <1>2, SharesMove
    <2>2. /\ Refunds(movement, t, Live, Null) = SumBut(movement, "return", t, Live, Null)
          /\ Refunds(movement', t, Live, Null) = SumBut(movement', "return", t, Live, Null)
          /\ Refunds(movement, t, Live, k) = rest
      BY PaymentsAreSums
    <2>3. Refunds(movement, t, Live, Null)
            <= IF return[t].cancelled THEN 0 ELSE return[t].amount
      BY DEF PurchaseIInv, RefundsWithinReturns
    <2>4. return[t].amount \in Nat
      BY <1>1 DEF ReturnTable, ReturnRow
    <2>5. new <= old \/ MayRefund(t, k, new)
      BY DEF RefundFits
    <2>6. MayRefund(t, k, new) => ~return[t].cancelled /\ rest + new <= return[t].amount
      BY <2>2 DEF MayRefund
    <2> HIDE DEF rest, old, new
    <2> QED
      BY <2>1, <2>2, <2>3, <2>4, <2>5, <2>6
  <1> QED
    BY <1>1, <1>3 DEF RefundsWithinReturns

LEMMA MoneyKeepsRows ==
    ASSUME PurchaseIInv, NEW k \in Movements, OneMovementMoves(k), RefundFits(k)
    PROVE  PurchaseIInv'
  <1>1. /\ stock' = stock /\ hold' = hold /\ event' = event /\ norm' = norm
        /\ request' = request /\ shortage' = shortage /\ unsynced' = unsynced
        /\ purchase' = purchase /\ receipt' = receipt /\ return' = return /\ due' = due
    BY DEF OneMovementMoves, vars
  <1>2. UNCHANGED vars
    BY <1>1 DEF vars
  <1>3. IInv'
    BY <1>2, StepInv DEF PurchaseIInv
  <1>4. PurchaseTables'
    BY <1>1 DEF PurchaseIInv, PurchaseTables, OneMovementMoves
  <1>5. /\ UnwrittenRows' /\ ReceiptsOfOrders' /\ ReturnsOfReceipts'
        /\ ReceiptsAgree' /\ ReturnsWithinReceipts'
    BY <1>1 DEF PurchaseIInv, UnwrittenRows, ReceiptsOfOrders, ReturnsOfReceipts,
                ReceiptsAgree, ReturnsWithinReceipts
  <1> QED
    BY <1>3, <1>4, <1>5, MoneyKeepsRefunds DEF PurchaseIInv

\* The payments of one order after one movement moved.
LEMMA MoneyDebt ==
    ASSUME PurchaseIInv, NEW k \in Movements, OneMovementMoves(k), PaymentFits(k),
           LetThrough(k), RefundsStand(k) \/ CalledOff(k), NEW o \in SupplierOrders
    PROVE  /\ \/ ~(Excess(purchase', return', movement', o)
                     > Excess(purchase, return, movement, o))
              \/ CalledOff(k)
           /\ /\ movement[k].order = o /\ movement[k].status # movement'[k].status
              /\ movement'[k].status \in {"approved", "posted"}
              => Excess(purchase', return', movement', o) = 0 \/ CalledOff(k)
  <1> DEFINE rest == SumBut(movement, "order", o, Live, k)
             old == Share(movement[k], "order", o, Live)
             new == Share(movement'[k], "order", o, Live)
  <1>1. /\ movement \in MovementTable /\ movement' \in MovementTable
        /\ purchase' = purchase /\ return' = return
        /\ return \in ReturnTable /\ purchase \in PurchaseTable
    BY DEF PurchaseIInv, PurchaseTables, OneMovementMoves
  <1>2. \A j \in Movements \ {k} : movement'[j] = movement[j]
    BY DEF OneMovementMoves
  <1>3. /\ rest \in Nat /\ old \in Nat /\ new \in Nat
        /\ SumBut(movement, "order", o, Live, Null) = rest + old
        /\ SumBut(movement', "order", o, Live, Null) = rest + new
    BY <1>1, <1>2, SharesMove
  <1>4. /\ Payments(movement, o, Live, Null) = SumBut(movement, "order", o, Live, Null)
        /\ Payments(movement', o, Live, Null) = SumBut(movement', "order", o, Live, Null)
        /\ Payments(movement, o, Live, k) = rest
    BY PaymentsAreSums
  <1>5. CASE RefundsStand(k)
    <2>1. ASSUME NEW t \in Returns
          PROVE  Refunds(movement', t, {"posted"}, Null) >= Refunds(movement, t, {"posted"}, Null)
      <3> DEFINE rst == SumBut(movement, "return", t, {"posted"}, k)
                 was == Share(movement[k], "return", t, {"posted"})
                 is == Share(movement'[k], "return", t, {"posted"})
      <3>1. /\ rst \in Nat /\ was \in Nat /\ is \in Nat
            /\ SumBut(movement, "return", t, {"posted"}, Null) = rst + was
            /\ SumBut(movement', "return", t, {"posted"}, Null) = rst + is
        BY <1>1, <1>2, SharesMove
      <3>2. is >= was
        BY <1>5 DEF RefundsStand
      <3>3. /\ Refunds(movement, t, {"posted"}, Null)
                 = SumBut(movement, "return", t, {"posted"}, Null)
            /\ Refunds(movement', t, {"posted"}, Null)
                 = SumBut(movement', "return", t, {"posted"}, Null)
        BY PaymentsAreSums
      <3> HIDE DEF rst, was, is
      <3> QED
        BY <3>1, <3>2, <3>3
    <2>2. \A t \in Returns : return[t].order = o => return[t].order = o
      OBVIOUS
    <2>3. \A t \in Returns : Refunds(movement', t, {"posted"}, Null)
                               >= Refunds(movement, t, {"posted"}, Null)
      BY <2>1
    <2>4. /\ OrderRefunds(return, movement, o) \in Nat /\ OrderRefunds(return, movement', o) \in Nat
          /\ OrderRefunds(return, movement', o) >= OrderRefunds(return, movement, o)
      BY <1>1, <2>2, <2>3, RefundsGrow
    <2>5. NetTotal(purchase, return, o) \in Nat
          /\ NetTotal(purchase, return, o) = AtLeast(0, Cost(purchase[o].items) - Credit(return, o))
          /\ Cost(purchase[o].items) \in Nat /\ Credit(return, o) \in Nat
      BY <1>1, Figures
    <2>6. ASSUME MayPay(o, k, new)
          PROVE  Excess(purchase, return, movement', o) = 0
      <3>1. rest - OrderRefunds(return, movement, o) + new
              <= Cost(purchase[o].items) - Credit(return, o)
        BY <1>4, <2>6 DEF MayPay
      <3> HIDE DEF rest, old, new
      <3>2. rest + new <= NetTotal(purchase, return, o) + OrderRefunds(return, movement', o)
        BY <1>3, <2>4, <2>5, <3>1 DEF AtLeast
      <3>3. Payments(movement', o, Live, Null)
              <= NetTotal(purchase, return, o) + OrderRefunds(return, movement', o)
        BY <1>3, <1>4, <3>2
      <3> QED
        BY <1>1, <3>3, NoExcess
    <2>7. ASSUME new <= old
          PROVE  ~(Excess(purchase, return, movement', o) > Excess(purchase, return, movement, o))
      <3> HIDE DEF rest, old, new
      <3>1. Payments(movement', o, Live, Null) <= Payments(movement, o, Live, Null)
        BY <1>3, <1>4, <2>7
      <3>2. NetTotal(purchase, return, o) >= NetTotal(purchase, return, o)
        BY <2>5
      <3> QED
        BY <1>1, <2>4, <3>1, <3>2, ExcessFalls
    <2>8. Excess(purchase, return, movement, o) \in Nat
      BY <1>1, Figures
    <2>9. new <= old \/ MayPay(o, k, new)
      BY DEF PaymentFits
    <2>10. ~(Excess(purchase, return, movement', o) > Excess(purchase, return, movement, o))
      BY <2>6, <2>7, <2>8, <2>9
    <2>11. /\ movement[k].order = o /\ movement[k].status # movement'[k].status
           /\ movement'[k].status \in {"approved", "posted"}
           => MayPay(o, k, new)
      BY DEF LetThrough
    <2> HIDE DEF new
    <2> QED
      BY <1>1, <2>6, <2>10, <2>11
  <1>6. CASE CalledOff(k)
    BY <1>6
  <1> QED
    BY <1>5, <1>6

LEMMA MoneyKeepsDebt ==
    ASSUME PurchaseIInv, NEW k \in Movements, OneMovementMoves(k), PaymentFits(k),
           LetThrough(k), RefundsStand(k) \/ CalledOff(k)
    PROVE  ExcessKept
  <1> SUFFICES ASSUME NEW o \in SupplierOrders
      PROVE  /\ Excess(purchase', return', movement', o)
                  > Excess(purchase, return, movement, o) =>
                  \/ Pending(movement', o) = 0
                  \/ \E j \in Movements : /\ movement[j].return # Null
                                          /\ movement[j].status = "posted"
                                          /\ movement'[j].status = "cancelled"
             /\ (\E j \in Movements : /\ movement[j].order = o
                                      /\ movement[j].status # movement'[j].status
                                      /\ movement'[j].status \in {"approved", "posted"}) =>
                  Excess(purchase', return', movement', o) = 0
    BY DEF ExcessKept
  <1>1. \/ ~(Excess(purchase', return', movement', o) > Excess(purchase, return, movement, o))
        \/ CalledOff(k)
    BY MoneyDebt
  <1>2. /\ movement[k].order = o /\ movement[k].status # movement'[k].status
        /\ movement'[k].status \in {"approved", "posted"}
        => Excess(purchase', return', movement', o) = 0 \/ CalledOff(k)
    BY MoneyDebt
  <1>3. CalledOff(k) => /\ movement'[k].status \notin {"approved", "posted"}
                        /\ \E j \in Movements : /\ movement[j].return # Null
                                                /\ movement[j].status = "posted"
                                                /\ movement'[j].status = "cancelled"
    BY DEF CalledOff
  <1>4. \A j \in Movements : movement[j].status # movement'[j].status => j = k
    BY DEF OneMovementMoves
  <1> QED
    BY <1>1, <1>2, <1>3, <1>4

\* What every handler of money does to the table.
MoneyMoves(k) ==
    /\ OneMovementMoves(k) /\ RefundFits(k) /\ PaymentFits(k) /\ LetThrough(k)
    /\ RefundsStand(k) \/ CalledOff(k)

LEMMA MoneyRow ==
    ASSUME PurchaseTables, NEW k \in Movements
    PROVE  /\ movement[k] \in MovementRow /\ movement[k].amount \in Nat
           /\ movement[k].order \in SupplierOrders \cup {Null}
           /\ movement[k].return \in Returns \cup {Null}
           /\ movement[k].order = Null \/ movement[k].return = Null
           /\ DOMAIN movement = Movements
  BY DEF PurchaseTables, MovementTable, MovementRow, OneSide

\* A table with one row rewritten.
LEMMA RowWritten ==
    ASSUME PurchaseTables, NEW k \in Movements, NEW row \in MovementRow,
           row.order = Null \/ row.return = Null,
           movement' = [movement EXCEPT ![k] = row],
           UNCHANGED <<vars, purchase, receipt, return, due>>,
           totals' \in [ordered : Int, paid : Int]
    PROVE  /\ OneMovementMoves(k) /\ movement'[k] = row
  <1>1. movement \in MovementTable /\ OneSide
    BY DEF PurchaseTables
  <1>2. movement' \in MovementTable /\ movement'[k] = row
        /\ \A j \in Movements \ {k} : movement'[j] = movement[j]
    BY <1>1 DEF MovementTable
  <1>3. OneSide'
    BY <1>1, <1>2 DEF OneSide
  <1> QED
    BY <1>2, <1>3 DEF OneMovementMoves

LEMMA CreatePaymentMoves ==
    ASSUME PurchaseTables, NEW k \in Movements, NEW o \in SupplierOrders,
           NEW amount \in 1 .. MaxAmount, CreatePayment(k, o, amount)
    PROVE  MoneyMoves(k)
  <1> DEFINE row == [NoMovement EXCEPT !.order = o, !.amount = amount, !.status = "draft"]
  <1>1. amount \in Nat
    BY PurchasesAssumption
  <1>2. /\ row \in MovementRow /\ row.order = o /\ row.return = Null /\ row.amount = amount
        /\ row.status = "draft"
    BY <1>1 DEF NoMovement, MovementRow, Live
  <1>3. /\ movement' = [movement EXCEPT ![k] = row]
        /\ UNCHANGED <<vars, purchase, receipt, return, due>>
        /\ totals' = totals /\ movement[k].status = "none"
    BY DEF CreatePayment
  <1>4. totals' \in [ordered : Int, paid : Int]
    BY <1>3 DEF PurchaseTables
  <1> HIDE DEF row
  <1>5. OneMovementMoves(k) /\ movement'[k] = row
    BY <1>2, <1>3, <1>4, RowWritten
  <1>6. \A c, x, S : S \subseteq Live => Share(movement[k], c, x, S) = 0
    BY <1>3 DEF Share, Live
  <1>7. \A t \in Returns, S \in {Live, {"posted"}} : Share(row, "return", t, S) = 0
    BY <1>2, MovementNumbers DEF Share
  <1>8. \A p \in SupplierOrders : Share(row, "order", p, Live) = IF p = o THEN amount ELSE 0
    BY <1>2 DEF Share, Live
  <1>9. MayPay(o, k, amount)
    BY DEF CreatePayment
  <1>10. RefundFits(k) /\ RefundsStand(k)
    BY <1>5, <1>6, <1>7 DEF RefundFits, RefundsStand, Live
  <1>11. PaymentFits(k)
    BY <1>5, <1>6, <1>8, <1>9 DEF PaymentFits, Live
  <1>12. LetThrough(k)
    BY <1>2, <1>5 DEF LetThrough
  <1> QED
    BY <1>5, <1>10, <1>11, <1>12 DEF MoneyMoves

LEMMA CreateRefundMoves ==
    ASSUME PurchaseTables, NEW k \in Movements, NEW t \in Returns,
           NEW amount \in 1 .. MaxAmount, CreateRefund(k, t, amount)
    PROVE  MoneyMoves(k)
  <1> DEFINE row == [NoMovement EXCEPT !.return = t, !.amount = amount, !.status = "draft"]
  <1>1. amount \in Nat
    BY PurchasesAssumption
  <1>2. /\ row \in MovementRow /\ row.order = Null /\ row.return = t /\ row.amount = amount
        /\ row.status = "draft"
    BY <1>1 DEF NoMovement, MovementRow, Live
  <1>3. /\ movement' = [movement EXCEPT ![k] = row]
        /\ UNCHANGED <<vars, purchase, receipt, return, due>>
        /\ totals' = totals /\ movement[k].status = "none"
    BY DEF CreateRefund
  <1>4. totals' \in [ordered : Int, paid : Int]
    BY <1>3 DEF PurchaseTables
  <1> HIDE DEF row
  <1>5. OneMovementMoves(k) /\ movement'[k] = row
    BY <1>2, <1>3, <1>4, RowWritten
  <1>6. \A c, x, S : S \subseteq Live => Share(movement[k], c, x, S) = 0
    BY <1>3 DEF Share, Live
  <1>7. \A p \in SupplierOrders : Share(row, "order", p, Live) = 0
    BY <1>2, MovementNumbers DEF Share
  <1>8. \A u \in Returns : /\ Share(row, "return", u, Live) = IF u = t THEN amount ELSE 0
                           /\ Share(row, "return", u, {"posted"}) = 0
    BY <1>2 DEF Share, Live
  <1>9. MayRefund(t, k, amount)
    BY DEF CreateRefund
  <1>10. RefundFits(k)
    BY <1>5, <1>6, <1>8, <1>9 DEF RefundFits, Live
  <1>11. RefundsStand(k)
    BY <1>5, <1>6, <1>8 DEF RefundsStand, Live
  <1>12. PaymentFits(k)
    BY <1>5, <1>6, <1>7 DEF PaymentFits, Live
  <1>13. LetThrough(k)
    BY <1>2, <1>5 DEF LetThrough
  <1> QED
    BY <1>5, <1>10, <1>11, <1>12, <1>13 DEF MoneyMoves

LEMMA UpdateMovementMoves ==
    ASSUME PurchaseTables, NEW k \in Movements, NEW o \in SupplierOrders \cup {Null},
           NEW amount \in 1 .. MaxAmount, UpdateMovement(k, o, amount)
    PROVE  MoneyMoves(k)
  <1> DEFINE row == [movement[k] EXCEPT !.order = o, !.amount = amount]
  <1>0. amount \in Nat
    BY PurchasesAssumption
  <1>1. /\ movement[k] \in MovementRow /\ movement[k].amount \in Nat
        /\ movement[k].return \in Returns \cup {Null} /\ DOMAIN movement = Movements
    BY MoneyRow
  <1>2. /\ row \in MovementRow /\ row.order = o /\ row.return = movement[k].return
        /\ row.amount = amount /\ row.status = movement[k].status
    BY <1>0, <1>1 DEF MovementRow
  <1>3. /\ movement' = [movement EXCEPT ![k] = row]
        /\ UNCHANGED <<vars, purchase, receipt, return, due>>
        /\ totals' = totals /\ movement[k].status \in Open
        /\ movement[k].return # Null => o = Null
        /\ Valid(k, o, amount)
    BY <1>1 DEF UpdateMovement
  <1>4. totals' \in [ordered : Int, paid : Int]
    BY <1>3 DEF PurchaseTables
  <1> HIDE DEF row
  <1>5. OneMovementMoves(k) /\ movement'[k] = row
    BY <1>2, <1>3, <1>4, RowWritten
  <1>6. /\ \A t \in Returns : Share(row, "return", t, Live)
                                = IF movement[k].return = t THEN amount ELSE 0
        /\ \A c, x : Share(row, c, x, {"posted"}) = 0 /\ Share(movement[k], c, x, {"posted"}) = 0
        /\ \A p \in SupplierOrders : Share(row, "order", p, Live) = IF p = o THEN amount ELSE 0
    BY <1>2, <1>3 DEF Share, Live, Open
  <1>7. \A c, x : Share(movement[k], c, x, Live) >= 0
    BY <1>1 DEF Share
  <1>8. /\ movement[k].return # Null => MayRefund(movement[k].return, k, amount)
        /\ o # Null => MayPay(o, k, amount)
    BY <1>3 DEF Valid
  <1>9. \A t \in Returns :
          \/ Share(row, "return", t, Live) <= Share(movement[k], "return", t, Live)
          \/ MayRefund(t, k, Share(row, "return", t, Live))
    BY <1>6, <1>7, <1>8, MovementNumbers
  <1>10. \A p \in SupplierOrders :
          \/ Share(row, "order", p, Live) <= Share(movement[k], "order", p, Live)
          \/ MayPay(p, k, Share(row, "order", p, Live))
    BY <1>6, <1>7, <1>8, MovementNumbers
  <1>11. RefundFits(k)
    BY <1>5, <1>9 DEF RefundFits
  <1>12. PaymentFits(k)
    BY <1>5, <1>10 DEF PaymentFits
  <1>13. RefundsStand(k)
    BY <1>5, <1>6 DEF RefundsStand
  <1>14. LetThrough(k)
    BY <1>2, <1>5 DEF LetThrough
  <1> QED
    BY <1>5, <1>11, <1>12, <1>13, <1>14 DEF MoneyMoves

\* A row that only changes its status, or is blanked, counts for no more than it did.
LEMMA StatusMoves ==
    ASSUME PurchaseTables, NEW k \in Movements, NEW row \in MovementRow,
           row.status \notin Live,
           movement' = [movement EXCEPT ![k] = row], row.order = Null \/ row.return = Null,
           UNCHANGED <<vars, purchase, receipt, return, due>>,
           totals' \in [ordered : Int, paid : Int],
           movement[k].status # "posted" \/ movement[k].return = Null
             \/ row.status = "cancelled"
    PROVE  MoneyMoves(k)
  <1>1. movement[k].amount \in Nat
    BY MoneyRow
  <1>2. OneMovementMoves(k) /\ movement'[k] = row
    BY RowWritten
  <1>3. \A c, x, S : S \subseteq Live => Share(row, c, x, S) = 0
    BY DEF Share
  <1>4. \A c, x, S : Share(movement[k], c, x, S) >= 0
    BY <1>1 DEF Share
  <1>5. \A c, x : Share(row, c, x, Live) <= Share(movement[k], c, x, Live)
    BY <1>3, <1>4
  <1>6. RefundFits(k) /\ PaymentFits(k)
    BY <1>2, <1>5 DEF RefundFits, PaymentFits
  <1>7. LetThrough(k)
    BY <1>2 DEF LetThrough, Live
  <1>8. CASE movement[k].status # "posted" \/ movement[k].return = Null
    <2>1. \A t \in Returns : Share(movement[k], "return", t, {"posted"}) = 0
      BY <1>8, MovementNumbers DEF Share
    <2>2. \A t \in Returns : Share(row, "return", t, {"posted"}) = 0
      BY <1>3 DEF Live
    <2>3. RefundsStand(k)
      BY <1>2, <2>1, <2>2 DEF RefundsStand
    <2> QED
      BY <1>2, <1>6, <1>7, <2>3 DEF MoneyMoves
  <1>9. CASE /\ movement[k].status = "posted" /\ movement[k].return # Null
             /\ row.status = "cancelled"
    <2>1. CalledOff(k)
      BY <1>2, <1>9 DEF CalledOff
    <2> QED
      BY <1>2, <1>6, <1>7, <2>1 DEF MoneyMoves
  <1> QED
    BY <1>8, <1>9

LEMMA TotalsChange ==
    ASSUME PurchaseTables, NEW k \in Movements, NEW sign \in {-1, 0, 1}, ChangeTotals(k, sign)
    PROVE  totals' \in [ordered : Int, paid : Int]
  <1>1. Recalculated(purchase, return, movement) \in [ordered : Int, paid : Int]
    BY RecalculatedType DEF PurchaseTables
  <1>2. totals \in [ordered : Int, paid : Int] /\ movement[k].amount \in Nat
    BY MoneyRow DEF PurchaseTables
  <1>3. [totals EXCEPT !.paid = @ + sign * movement[k].amount] \in [ordered : Int, paid : Int]
    <2>1. sign * movement[k].amount \in Int
      BY <1>2
    <2> QED
      BY <1>2, <2>1
  <1> QED
    BY <1>1, <1>2, <1>3 DEF ChangeTotals

LEMMA DeleteMovementMoves ==
    ASSUME PurchaseTables, NEW k \in Movements, DeleteMovement(k)
    PROVE  MoneyMoves(k)
  <1> DEFINE row == [NoMovement EXCEPT !.status = "deleted"]
  <1>1. row \in MovementRow /\ row.status \notin Live /\ row.order = Null
    BY DEF NoMovement, MovementRow, Live
  <1>2. /\ movement' = [movement EXCEPT ![k] = row]
        /\ UNCHANGED <<vars, purchase, receipt, return, due>>
        /\ totals' = totals /\ movement[k].status # "posted"
    BY DEF DeleteMovement
  <1>3. totals' \in [ordered : Int, paid : Int]
    BY <1>2 DEF PurchaseTables
  <1> HIDE DEF row
  <1> QED
    BY <1>1, <1>2, <1>3, StatusMoves

LEMMA CancelMovementMoves ==
    ASSUME PurchaseTables, NEW k \in Movements, CancelMovement(k)
    PROVE  MoneyMoves(k)
  <1> DEFINE row == [movement[k] EXCEPT !.status = "cancelled"]
  <1>1. /\ movement[k] \in MovementRow /\ DOMAIN movement = Movements
        /\ movement[k].order = Null \/ movement[k].return = Null
    BY MoneyRow
  <1>2. /\ row \in MovementRow /\ row.status = "cancelled" /\ row.status \notin Live
        /\ row.order = Null \/ row.return = Null
    BY <1>1 DEF MovementRow, Live
  <1>3. /\ movement' = [movement EXCEPT ![k] = row]
        /\ UNCHANGED <<vars, purchase, receipt, return, due>>
        /\ ChangeTotals(k, IF movement[k].status = "posted" THEN -1 ELSE 0)
    BY <1>1 DEF CancelMovement
  <1>4. totals' \in [ordered : Int, paid : Int]
    BY <1>3, TotalsChange
  <1> HIDE DEF row
  <1> QED
    BY <1>2, <1>3, <1>4, StatusMoves

\* An approval, of a draft or of the bank.
LEMMA ApprovalMoves ==
    ASSUME PurchaseTables, NEW k \in Movements, NEW status \in {"approved", "posted"},
           movement[k].status \in Open, movement[k].status # status,
           Valid(k, movement[k].order, movement[k].amount),
           movement' = [movement EXCEPT ![k].status = status],
           UNCHANGED <<vars, purchase, receipt, return, due>>,
           totals' \in [ordered : Int, paid : Int]
    PROVE  MoneyMoves(k)
  <1> DEFINE row == [movement[k] EXCEPT !.status = status]
  <1>1. /\ movement[k] \in MovementRow /\ DOMAIN movement = Movements
        /\ movement[k].amount \in Nat
        /\ movement[k].order = Null \/ movement[k].return = Null
    BY MoneyRow
  <1>2. /\ row \in MovementRow /\ row.status = status /\ row.amount = movement[k].amount
        /\ row.order = movement[k].order /\ row.return = movement[k].return
        /\ row.order = Null \/ row.return = Null
    BY <1>1 DEF MovementRow, Live
  <1>3. movement' = [movement EXCEPT ![k] = row]
    BY <1>1
  <1> HIDE DEF row
  <1>4. OneMovementMoves(k) /\ movement'[k] = row
    BY <1>2, <1>3, RowWritten
  <1>5. \A t \in Returns : Share(row, "return", t, Live) = Share(movement[k], "return", t, Live)
    BY <1>2 DEF Share, Live, Open
  <1>6. \A p \in SupplierOrders :
          Share(row, "order", p, Live) = Share(movement[k], "order", p, Live)
    BY <1>2 DEF Share, Live, Open
  <1>7. \A t \in Returns : /\ Share(movement[k], "return", t, {"posted"}) = 0
                           /\ Share(row, "return", t, {"posted"}) >= 0
    BY <1>1, <1>2 DEF Share, Open
  <1>8. \A c, x : Share(movement[k], c, x, Live) \in Nat
    BY <1>1 DEF Share
  <1>9. RefundFits(k)
    BY <1>4, <1>5, <1>8 DEF RefundFits
  <1>10. PaymentFits(k)
    BY <1>4, <1>6, <1>8 DEF PaymentFits
  <1>11. RefundsStand(k)
    BY <1>4, <1>7 DEF RefundsStand
  <1>12. ASSUME NEW o \in SupplierOrders, movement[k].order = o
         PROVE  MayPay(o, k, Share(row, "order", o, Live))
    <2>1. MayPay(o, k, movement[k].amount)
      BY <1>12, MovementNumbers DEF Valid
    <2>2. Share(row, "order", o, Live) = movement[k].amount
      BY <1>2, <1>12 DEF Share, Live
    <2> QED
      BY <2>1, <2>2
  <1>13. LetThrough(k)
    BY <1>4, <1>12 DEF LetThrough
  <1> QED
    BY <1>4, <1>9, <1>10, <1>11, <1>13 DEF MoneyMoves

LEMMA ApproveMovementMoves ==
    ASSUME PurchaseTables, NEW k \in Movements, ApproveMovement(k) \/ PostMovement(k)
    PROVE  MoneyMoves(k)
  <1>1. CASE ApproveMovement(k)
    <2>1. totals' \in [ordered : Int, paid : Int]
      BY <1>1, TotalsChange DEF ApproveMovement
    <2>2. /\ movement[k].status = "draft" /\ Valid(k, movement[k].order, movement[k].amount)
          /\ movement' = [movement EXCEPT ![k].status = "approved"]
          /\ UNCHANGED <<vars, purchase, receipt, return, due>>
      BY <1>1 DEF ApproveMovement
    <2> QED
      BY <2>1, <2>2, ApprovalMoves DEF Open
  <1>2. CASE PostMovement(k)
    <2>1. totals' \in [ordered : Int, paid : Int]
      BY <1>2, TotalsChange DEF PostMovement
    <2>2. /\ movement[k].status = "approved" /\ Valid(k, movement[k].order, movement[k].amount)
          /\ movement' = [movement EXCEPT ![k].status = "posted"]
          /\ UNCHANGED <<vars, purchase, receipt, return, due>>
      BY <1>2 DEF PostMovement
    <2> QED
      BY <2>1, <2>2, ApprovalMoves DEF Open
  <1> QED
    BY <1>1, <1>2

\* Whatever is done with money keeps the rows and the debt.
LEMMA MoneyStepKeeps ==
    ASSUME PurchaseIInv, MoneyStep
    PROVE  PurchaseIInv' /\ ExcessKept
  <1>1. PurchaseTables
    BY DEF PurchaseIInv
  <1>2. PICK k \in Movements : MoneyMoves(k)
    BY <1>1, CreatePaymentMoves, CreateRefundMoves, UpdateMovementMoves, DeleteMovementMoves,
       ApproveMovementMoves, CancelMovementMoves DEF MoneyStep
  <1>3. /\ OneMovementMoves(k) /\ RefundFits(k) /\ PaymentFits(k) /\ LetThrough(k)
        /\ RefundsStand(k) \/ CalledOff(k)
    BY <1>2 DEF MoneyMoves
  <1> QED
    BY <1>3, MoneyKeepsRows, MoneyKeepsDebt

------------------------------------------------------------------------------
(* Steps that edit orders.                                                   *)

\* Every order is as it was, or shows a new version, or is gone; a credit moves the
\* version too.
CardsMove ==
    \A o \in SupplierOrders :
        \/ purchase'[o].status = "deleted"
        \/ purchase'[o].version = purchase[o].version + 1
        \/ purchase'[o] = purchase[o] /\ Credit(return', o) = Credit(return, o)

LEMMA FreeUnchanged ==
    ASSUME TypeOK, stock' = stock, hold' = hold
    PROVE  FreeStockKept
  <1>1. hold \in HoldTable /\ stock \in [Materials -> Int]
    BY DEF TypeOK, HoldsOK, HoldTable
  <1>2. \A m \in Materials : Available(stock, hold, m) \in Int
    BY <1>1, AvailableType
  <1> QED
    BY <1>2 DEF FreeStockKept

\* One order is rewritten, and nothing but totals beside it.
OrderRewritten(o, row) ==
    /\ purchase' = [purchase EXCEPT ![o] = row]
    /\ UNCHANGED <<vars, receipt, return, movement>>
    /\ totals' \in [ordered : Int, paid : Int] /\ due' \in Nat

\* The new row keeps what came, and costs no less than what is on its way.
OrderRowFits(o, row) ==
    /\ row \in PurchaseRow /\ row.status # "none"
    /\ row.received = purchase[o].received
    /\ \A l \in Positions : row.received[l] <= row.items[l]
    /\ \/ Cost(row.items) >= Cost(purchase[o].items)
       \/ Payments(movement, o, Live, Null) <= AtLeast(0, Cost(row.items) - Credit(return, o))
    /\ row.status = "deleted" \/ row.version = purchase[o].version + 1

LEMMA OrderRowKeeps ==
    ASSUME PurchaseIInv, NEW o \in SupplierOrders, NEW row,
           OrderRewritten(o, row), OrderRowFits(o, row)
    PROVE  PurchaseIInv' /\ ExcessKept /\ CardsMove /\ FreeStockKept
  <1>1. /\ stock' = stock /\ hold' = hold /\ event' = event /\ norm' = norm
        /\ request' = request /\ shortage' = shortage /\ unsynced' = unsynced
        /\ receipt' = receipt /\ return' = return /\ movement' = movement
    BY DEF OrderRewritten, vars
  <1>2. PurchaseTables /\ IInv
    BY DEF PurchaseIInv
  <1>3. /\ purchase \in PurchaseTable /\ return \in ReturnTable /\ movement \in MovementTable
        /\ row \in PurchaseRow
    BY <1>2 DEF PurchaseTables, OrderRowFits
  <1>4. /\ purchase' \in PurchaseTable /\ purchase'[o] = row
        /\ \A p \in SupplierOrders \ {o} : purchase'[p] = purchase[p]
    BY <1>3 DEF OrderRewritten, PurchaseTable
  <1>5. UNCHANGED vars
    BY <1>1 DEF vars
  <1>6. IInv'
    BY <1>2, <1>5, StepInv
  <1>7. PurchaseTables'
    BY <1>1, <1>2, <1>4 DEF PurchaseTables, OrderRewritten, OneSide
  <1>8. UnwrittenRows'
    BY <1>1, <1>4 DEF PurchaseIInv, UnwrittenRows, OrderRowFits
  <1>9. ReturnsOfReceipts' /\ ReturnsWithinReceipts' /\ RefundsWithinReturns'
    BY <1>1 DEF PurchaseIInv, ReturnsOfReceipts, ReturnsWithinReceipts, RefundsWithinReturns
  <1>10. ReceiptsAgree'
    <2>1. \A p \in SupplierOrders : purchase'[p].received = purchase[p].received
      BY <1>4 DEF OrderRowFits
    <2>2. \A p \in SupplierOrders, l \in Positions :
             purchase'[p].received[l] <= purchase'[p].items[l]
      BY <1>4 DEF PurchaseIInv, ReceiptsAgree, OrderRowFits
    <2> QED
      BY <1>1, <2>1, <2>2 DEF PurchaseIInv, ReceiptsAgree
  <1>16. ReceiptsOfOrders'
    <2>1. \A r \in Receipts : receipt[r].order # Null => receipt[r].order \in SupplierOrders
      BY <1>2 DEF PurchaseTables, ReceiptTable, ReceiptRow
    <2> QED
      BY <1>1, <1>4, <2>1 DEF PurchaseIInv, ReceiptsOfOrders, OrderRowFits
  <1>11. PurchaseIInv'
    BY <1>6, <1>7, <1>8, <1>9, <1>10, <1>16 DEF PurchaseIInv
  <1>12. ASSUME NEW p \in SupplierOrders
         PROVE  ~(Excess(purchase', return, movement, p) > Excess(purchase, return, movement, p))
    <2>1. /\ Payments(movement, p, Live, Null) \in Nat /\ OrderRefunds(return, movement, p) \in Nat
          /\ NetTotal(purchase, return, p) \in Nat
          /\ Cost(purchase[p].items) \in Nat /\ Credit(return, p) \in Nat
          /\ NetTotal(purchase, return, p)
               = AtLeast(0, Cost(purchase[p].items) - Credit(return, p))
          /\ Excess(purchase, return, movement, p) \in Nat
      BY <1>3, Figures
    <2>2. /\ NetTotal(purchase', return, p) \in Nat
          /\ Cost(purchase'[p].items) \in Nat
          /\ NetTotal(purchase', return, p)
               = AtLeast(0, Cost(purchase'[p].items) - Credit(return, p))
      BY <1>3, <1>4, Figures
    <2>3. CASE Cost(purchase'[p].items) >= Cost(purchase[p].items)
      <3>1. NetTotal(purchase', return, p) >= NetTotal(purchase, return, p)
        BY <2>1, <2>2, <2>3 DEF AtLeast
      <3>2. /\ Payments(movement, p, Live, Null) <= Payments(movement, p, Live, Null)
            /\ OrderRefunds(return, movement, p) >= OrderRefunds(return, movement, p)
        BY <2>1
      <3> QED
        BY <1>3, <1>4, <3>1, <3>2, ExcessFalls
    <2>4. CASE Payments(movement, p, Live, Null)
                 <= AtLeast(0, Cost(purchase'[p].items) - Credit(return, p))
      <3>1. Payments(movement, p, Live, Null)
              <= NetTotal(purchase', return, p) + OrderRefunds(return, movement, p)
        BY <2>1, <2>2, <2>4
      <3>2. Excess(purchase', return, movement, p) = 0
        BY <1>3, <1>4, <3>1, NoExcess
      <3> QED
        BY <2>1, <3>2
    <2>5. \/ Cost(purchase'[p].items) >= Cost(purchase[p].items)
          \/ Payments(movement, p, Live, Null)
               <= AtLeast(0, Cost(purchase'[p].items) - Credit(return, p))
      <3>1. CASE p = o
        BY <1>4, <3>1 DEF OrderRowFits
      <3>2. CASE p # o
        BY <1>4, <2>1, <3>2
      <3> QED
        BY <3>1, <3>2
    <2> QED
      BY <2>3, <2>4, <2>5
  <1>13. ExcessKept
    BY <1>1, <1>12 DEF ExcessKept
  <1>14. CardsMove
    BY <1>1, <1>4 DEF CardsMove, OrderRowFits
  <1>15. FreeStockKept
    BY <1>1, <1>2, FreeUnchanged DEF IInv
  <1> QED
    BY <1>11, <1>13, <1>14, <1>15

LEMMA PurchaseRows ==
    ASSUME PurchaseIInv, NEW o \in SupplierOrders
    PROVE  /\ purchase[o] \in PurchaseRow /\ DOMAIN purchase = SupplierOrders
           /\ purchase[o].items \in [Positions -> Nat] /\ purchase[o].version \in Nat
           /\ purchase[o].received \in [Positions -> Nat]
           /\ \A l \in Positions : purchase[o].received[l] <= purchase[o].items[l]
           /\ Cost(purchase[o].items) \in Nat
           /\ totals \in [ordered : Int, paid : Int] /\ due \in Nat
  <1>1. /\ purchase[o] \in PurchaseRow /\ DOMAIN purchase = SupplierOrders
        /\ totals \in [ordered : Int, paid : Int] /\ due \in Nat
    BY DEF PurchaseIInv, PurchaseTables, PurchaseTable
  <1>2. /\ purchase[o].items \in [Positions -> Nat] /\ purchase[o].version \in Nat
        /\ purchase[o].received \in [Positions -> Nat]
    BY <1>1 DEF PurchaseRow
  <1>3. \A l \in Positions : purchase[o].received[l] <= purchase[o].items[l]
    BY DEF PurchaseIInv, ReceiptsAgree
  <1> QED
    BY <1>1, <1>2, <1>3, CostType

\* An order with no receipts got nothing and owes nothing less.
LEMMA NoReceipts ==
    ASSUME PurchaseIInv, NEW o \in SupplierOrders, \A r \in Receipts : receipt[r].order # o
    PROVE  purchase[o].received = Nothing /\ Credit(return, o) = 0
  <1>1. ASSUME NEW l \in Positions
        PROVE  purchase[o].received[l] = 0
    <2>1. purchase[o].received[l]
            = Total([r \in Receipts |-> IF receipt[r].order = o THEN receipt[r].quantity[l]
                                        ELSE 0], Receipts)
      BY DEF PurchaseIInv, ReceiptsAgree
    <2> DEFINE f == [r \in Receipts |-> IF receipt[r].order = o THEN receipt[r].quantity[l] ELSE 0]
    <2>2. \A r \in Receipts : f[r] = 0
      OBVIOUS
    <2> HIDE DEF f
    <2>3. Total(f, Receipts) = 0
      BY <2>2, TotalZero
    <2> QED
      BY <2>1, <2>3 DEF f
  <1>2. purchase[o].received = Nothing
    BY <1>1, PurchaseRows DEF Nothing
  <1>3. \A t \in Returns : return[t].order # o
    BY MovementNumbers DEF PurchaseIInv, ReturnsOfReceipts, NoReturn
  <1>4. Credit(return, o) = 0
    <2> DEFINE f == [t \in Returns |-> IF return[t].order = o /\ ~return[t].cancelled
                                       THEN return[t].amount ELSE 0]
    <2>1. \A t \in Returns : f[t] = 0
      BY <1>3
    <2>2. Credit(return, o) = Total(f, Returns)
      BY DEF Credit
    <2> HIDE DEF f
    <2> QED
      BY <2>1, <2>2, TotalZero
  <1> QED
    BY <1>2, <1>4

LEMMA QuantitiesType == Quantities \subseteq [Positions -> Nat] /\ MaxOrderVersion \in Nat
  BY PurchasesAssumption DEF Quantities

\* The edits of a row.
ItemsReplaced(row, items, linked) ==
    [row EXCEPT !.items = items, !.linked = linked, !.received = Nothing, !.version = @ + 1]

StatusMoved(row, status) == [row EXCEPT !.status = status, !.version = @ + 1]

PutAway(row, flag) == [row EXCEPT !.archived = flag, !.version = @ + 1]

LEMMA ItemsReplacedType ==
    ASSUME NEW row \in PurchaseRow, NEW items \in [Positions -> Nat],
           NEW linked \in SUBSET Kept
    PROVE  LET new == ItemsReplaced(row, items, linked) IN
           /\ new \in PurchaseRow /\ new.status = row.status /\ new.received = Nothing
           /\ new.items = items /\ new.version = row.version + 1
  <1> DEFINE new == ItemsReplaced(row, items, linked)
  <1>1. row.version + 1 \in Nat
    BY DEF PurchaseRow
  <1>2. new \in PurchaseRow
    BY <1>1, BlankCost DEF PurchaseRow, ItemsReplaced
  <1>3. /\ new.status = row.status /\ new.received = Nothing
        /\ new.items = items
        /\ new.version = row.version + 1
    BY DEF PurchaseRow, ItemsReplaced
  <1> QED
    BY <1>2, <1>3

LEMMA StatusMovedType ==
    ASSUME NEW row \in PurchaseRow, NEW status \in {"in_transit", "received"}
    PROVE  LET new == StatusMoved(row, status) IN
           /\ new \in PurchaseRow /\ new.status = status /\ new.received = row.received
           /\ new.items = row.items /\ new.version = row.version + 1
  <1> DEFINE new == StatusMoved(row, status)
  <1>1. row.version + 1 \in Nat
    BY DEF PurchaseRow
  <1>2. new \in PurchaseRow
    BY <1>1 DEF PurchaseRow, StatusMoved
  <1>3. /\ new.status = status /\ new.received = row.received
        /\ new.items = row.items
        /\ new.version = row.version + 1
    BY DEF PurchaseRow, StatusMoved
  <1> QED
    BY <1>2, <1>3

LEMMA PutAwayType ==
    ASSUME NEW row \in PurchaseRow, NEW flag \in BOOLEAN
    PROVE  LET new == PutAway(row, flag) IN
           /\ new \in PurchaseRow /\ new.status = row.status /\ new.received = row.received
           /\ new.items = row.items /\ new.version = row.version + 1
  <1> DEFINE new == PutAway(row, flag)
  <1>1. row.version + 1 \in Nat
    BY DEF PurchaseRow
  <1>2. new \in PurchaseRow
    BY <1>1 DEF PurchaseRow, PutAway
  <1>3. /\ new.status = row.status /\ new.received = row.received
        /\ new.items = row.items
        /\ new.version = row.version + 1
    BY DEF PurchaseRow, PutAway
  <1> QED
    BY <1>2, <1>3

LEMMA CreateOrderKeeps ==
    ASSUME PurchaseIInv, NEW o \in SupplierOrders, NEW q \in Quantities,
           NEW linked \in SUBSET Kept, CreateSupplierOrder(o, q, linked)
    PROVE  PurchaseIInv' /\ ExcessKept /\ CardsMove /\ FreeStockKept
  <1> DEFINE row == [NoPurchase EXCEPT !.status = "ordered", !.items = q, !.linked = linked,
                                       !.version = 1]
  <1>1. q \in [Positions -> Nat] /\ Cost(q) \in Nat
    BY QuantitiesType, CostType
  <1>2. /\ row \in PurchaseRow /\ row.status = "ordered" /\ row.received = Nothing
        /\ row.items = q /\ row.version = 1
    BY <1>1, BlankCost DEF NoPurchase, PurchaseRow
  <1>3. /\ purchase' = [purchase EXCEPT ![o] = row]
        /\ UNCHANGED <<vars, receipt, return, movement>>
        /\ totals' = totals /\ due' = due + 1 /\ purchase[o].status = "none"
    BY DEF CreateSupplierOrder, RecalculateLater
  <1>4. purchase[o] = NoPurchase
    BY <1>3 DEF PurchaseIInv, UnwrittenRows
  <1>5. /\ purchase[o].received = Nothing /\ purchase[o].items = Nothing
        /\ purchase[o].version = 0
    BY <1>4 DEF NoPurchase
  <1> HIDE DEF row
  <1>6. OrderRewritten(o, row)
    BY <1>3, PurchaseRows DEF OrderRewritten
  <1>7. \A l \in Positions : Nothing[l] <= q[l]
    BY <1>1 DEF Nothing
  <1>8. OrderRowFits(o, row)
    BY <1>1, <1>2, <1>5, <1>7, BlankCost DEF OrderRowFits
  <1> QED
    BY <1>6, <1>8, OrderRowKeeps

LEMMA UpdateOrderKeeps ==
    ASSUME PurchaseIInv, NEW o \in SupplierOrders, NEW q \in Quantities,
           NEW linked \in SUBSET Kept, UpdateSupplierOrder(o, q, linked)
    PROVE  PurchaseIInv' /\ ExcessKept /\ CardsMove /\ FreeStockKept
  <1>1. q \in [Positions -> Nat] /\ Cost(q) \in Nat
    BY QuantitiesType, CostType
  <1>2. /\ UNCHANGED <<vars, receipt, return, movement>>
        /\ totals' = totals /\ due' = due + 1
        /\ purchase[o].status \in {"ordered", "in_transit"}
    BY DEF UpdateSupplierOrder, RecalculateLater, Editable
  <1>3. /\ purchase[o] \in PurchaseRow /\ DOMAIN purchase = SupplierOrders
        /\ purchase[o].version \in Nat
        /\ \A l \in Positions : purchase[o].received[l] <= purchase[o].items[l]
        /\ Cost(purchase[o].items) \in Nat
        /\ totals \in [ordered : Int, paid : Int] /\ due \in Nat
    BY PurchaseRows
  <1>4. CASE ReplaceItems(o, q, linked)
    <2> DEFINE row == ItemsReplaced(purchase[o], q, linked)
    <2>1. /\ row \in PurchaseRow /\ row.status = purchase[o].status /\ row.received = Nothing
          /\ row.items = q /\ row.version = purchase[o].version + 1
      BY <1>1, <1>3, ItemsReplacedType
    <2>2. /\ purchase' = [purchase EXCEPT ![o] = row]
          /\ \A r \in Receipts : receipt[r].order # o
          /\ Cost(q) >= Payments(movement, o, Live, Null)
      BY <1>3, <1>4 DEF ReplaceItems, ItemsReplaced
    <2>3. purchase[o].received = Nothing /\ Credit(return, o) = 0
      BY <2>2, NoReceipts
    <2> HIDE DEF row
    <2>4. OrderRewritten(o, row)
      BY <1>2, <1>3, <2>2 DEF OrderRewritten
    <2>5. \A l \in Positions : Nothing[l] <= q[l]
      BY <1>1 DEF Nothing
    <2>6. Payments(movement, o, Live, Null) \in Nat
      BY Figures DEF PurchaseIInv, PurchaseTables
    <2>7. Payments(movement, o, Live, Null) <= AtLeast(0, Cost(q) - Credit(return, o))
      BY <1>1, <2>2, <2>3, <2>6 DEF AtLeast
    <2>8. OrderRowFits(o, row)
      BY <1>2, <2>1, <2>3, <2>5, <2>7 DEF OrderRowFits
    <2> QED
      BY <2>4, <2>8, OrderRowKeeps
  <1>5. CASE purchase' = [purchase EXCEPT ![o].version = @ + 1]
    <2> DEFINE row == [purchase[o] EXCEPT !.version = @ + 1]
    <2>1. /\ row \in PurchaseRow /\ row.status = purchase[o].status
          /\ row.received = purchase[o].received
          /\ row.items = purchase[o].items /\ row.version = purchase[o].version + 1
      BY <1>3 DEF PurchaseRow
    <2>2. purchase' = [purchase EXCEPT ![o] = row]
      BY <1>3, <1>5
    <2> HIDE DEF row
    <2>3. OrderRewritten(o, row)
      BY <1>2, <1>3, <2>2 DEF OrderRewritten
    <2>4. OrderRowFits(o, row)
      BY <1>2, <1>3, <2>1 DEF OrderRowFits
    <2> QED
      BY <2>3, <2>4, OrderRowKeeps
  <1> QED
    BY <1>4, <1>5 DEF UpdateSupplierOrder

LEMMA DeleteOrderKeeps ==
    ASSUME PurchaseIInv, NEW o \in SupplierOrders, DeleteSupplierOrder(o)
    PROVE  PurchaseIInv' /\ ExcessKept /\ CardsMove /\ FreeStockKept
  <1> DEFINE row == [NoPurchase EXCEPT !.status = "deleted"]
  <1>1. /\ row \in PurchaseRow /\ row.status = "deleted" /\ row.received = Nothing
        /\ row.items = Nothing
    BY BlankCost DEF NoPurchase, PurchaseRow
  <1>2. /\ purchase' = [purchase EXCEPT ![o] = row]
        /\ UNCHANGED <<vars, receipt, return, movement>>
        /\ totals' = totals /\ due' = due + 1
        /\ \A r \in Receipts : receipt[r].order # o
        /\ \A k \in Movements : movement[k].order # o
    BY DEF DeleteSupplierOrder, RecalculateLater
  <1>3. purchase[o].received = Nothing /\ Credit(return, o) = 0
    BY <1>2, NoReceipts
  <1> HIDE DEF row
  <1>4. OrderRewritten(o, row)
    BY <1>2, PurchaseRows DEF OrderRewritten
  <1>5. Payments(movement, o, Live, Null) = 0
    <2>1. \A j \in Movements : movement[j]["order"] = o => movement[j].status \notin Live
      BY <1>2
    <2> QED
      BY <2>1, NoShares, PaymentsAreSums
  <1>6. Payments(movement, o, Live, Null) <= AtLeast(0, Cost(Nothing) - Credit(return, o))
    BY <1>3, <1>5, BlankCost DEF AtLeast
  <1>7. \A l \in Positions : Nothing[l] <= Nothing[l]
    BY DEF Nothing
  <1>8. OrderRowFits(o, row)
    BY <1>1, <1>3, <1>6, <1>7 DEF OrderRowFits
  <1> QED
    BY <1>4, <1>8, OrderRowKeeps

\* The status or the archive changes, and the version.
LEMMA TouchedOrderKeeps ==
    ASSUME PurchaseIInv, NEW o \in SupplierOrders,
           ChangeSupplierOrderStatus(o)
             \/ \E seen \in 1 .. MaxOrderVersion, flag \in BOOLEAN :
                   ArchiveSupplierOrder(o, seen, flag)
    PROVE  PurchaseIInv' /\ ExcessKept /\ CardsMove /\ FreeStockKept
  <1>1. /\ purchase[o] \in PurchaseRow /\ DOMAIN purchase = SupplierOrders
        /\ purchase[o].version \in Nat
        /\ \A l \in Positions : purchase[o].received[l] <= purchase[o].items[l]
        /\ Cost(purchase[o].items) \in Nat
        /\ totals \in [ordered : Int, paid : Int] /\ due \in Nat
    BY PurchaseRows
  <1>2. \E row \in PurchaseRow :
          /\ purchase' = [purchase EXCEPT ![o] = row] /\ row.status # "none"
          /\ row.received = purchase[o].received /\ row.items = purchase[o].items
          /\ row.version = purchase[o].version + 1
    <2>1. CASE ChangeSupplierOrderStatus(o)
      <3> DEFINE status == IF purchase[o].status = "ordered" THEN "in_transit" ELSE "received"
                 row == StatusMoved(purchase[o], status)
      <3>1. purchase' = [purchase EXCEPT ![o] = row]
        BY <1>1, <2>1 DEF ChangeSupplierOrderStatus, StatusMoved
      <3>2. /\ row \in PurchaseRow /\ row.status = status /\ status # "none"
            /\ row.received = purchase[o].received /\ row.items = purchase[o].items
            /\ row.version = purchase[o].version + 1
        BY <1>1, StatusMovedType
      <3> HIDE DEF row
      <3> QED
        BY <1>1, <3>1, <3>2
    <2>2. ASSUME NEW flag \in BOOLEAN, NEW seen \in 1 .. MaxOrderVersion,
                 ArchiveSupplierOrder(o, seen, flag)
          PROVE  \E row \in PurchaseRow :
                   /\ purchase' = [purchase EXCEPT ![o] = row] /\ row.status # "none"
                   /\ row.received = purchase[o].received /\ row.items = purchase[o].items
                   /\ row.version = purchase[o].version + 1
      <3> DEFINE row == PutAway(purchase[o], flag)
      <3>1. purchase' = [purchase EXCEPT ![o] = row] /\ purchase[o].status # "none"
        BY <1>1, <2>2 DEF ArchiveSupplierOrder, Exists, PutAway
      <3>2. /\ row \in PurchaseRow /\ row.status = purchase[o].status
            /\ row.received = purchase[o].received /\ row.items = purchase[o].items
            /\ row.version = purchase[o].version + 1
        BY <1>1, PutAwayType
      <3> HIDE DEF row
      <3> QED
        BY <3>1, <3>2
    <2> QED
      BY <2>1, <2>2
  <1>3. PICK row \in PurchaseRow :
          /\ purchase' = [purchase EXCEPT ![o] = row] /\ row.status # "none"
          /\ row.received = purchase[o].received /\ row.items = purchase[o].items
          /\ row.version = purchase[o].version + 1
    BY <1>2
  <1>4. UNCHANGED <<vars, receipt, return, movement, totals, due>>
    BY DEF ChangeSupplierOrderStatus, ArchiveSupplierOrder
  <1>5. OrderRewritten(o, row)
    BY <1>1, <1>3, <1>4 DEF OrderRewritten
  <1>6. OrderRowFits(o, row)
    BY <1>1, <1>3 DEF OrderRowFits
  <1> QED
    BY <1>5, <1>6, OrderRowKeeps

------------------------------------------------------------------------------
(* Steps that move goods.                                                    *)

LEMMA GoodsType ==
    ASSUME NEW q \in [Positions -> Nat]
    PROVE  /\ DOMAIN Goods(q) \subseteq Materials
           /\ \A m \in DOMAIN Goods(q) : Goods(q)[m] \in Nat
  <1> DEFINE lines == {l \in Kept : q[l] > 0}
             Of(m) == {l \in lines : GoodAt[l] = m}
  <1>1. Goods(q) = [m \in {GoodAt[l] : l \in lines} |-> Total(q, Of(m))]
    BY DEF Goods
  <1>2. DOMAIN Goods(q) = {GoodAt[l] : l \in lines}
    BY <1>1
  <1>3. \A l \in lines : l \in Positions /\ GoodAt[l] \in Materials
    BY PurchasesAssumption DEF Kept
  <1>4. \A m \in DOMAIN Goods(q) : Goods(q)[m] = Total(q, Of(m))
    BY <1>1, <1>2
  <1>5. ASSUME NEW m
        PROVE  Total(q, Of(m)) \in Nat
    <2> DEFINE S == Of(m)
    <2>1. S \in SUBSET Positions
      BY <1>3
    <2>2. \A l \in S : q[l] \in Nat
      BY <2>1
    <2> HIDE DEF S
    <2>3. IsFiniteSet(S)
      BY <2>1, MovementNumbers, FS_Subset
    <2>4. Total(q, S) \in Nat
      BY <2>2, <2>3, TotalType
    <2> QED BY <2>4 DEF S
  <1> HIDE DEF lines, Of
  <1> QED
    BY <1>2, <1>3, <1>4, <1>5

\* Goods q come in or go out, and nobody's hold changes.
GoodsMove(q, sign) ==
    /\ stock' = Added(stock, q, sign)
    /\ SyncShortage(DOMAIN q, stock', hold, request)
    /\ UNCHANGED <<hold, event, norm, request>>

\* The shelves stay of their type, and nothing that was promised is given away.
LEMMA GoodsKeep ==
    ASSUME IInv, NEW q, DOMAIN q \subseteq Materials, \A m \in DOMAIN q : q[m] \in Nat,
           NEW sign \in {-1, 1}, GoodsMove(q, sign), sign = -1 => ReturnFree(q)
    PROVE  IInv' /\ FreeStockKept
  <1>1. /\ stock' = Added(stock, q, sign) /\ hold' = hold /\ event' = event /\ norm' = norm
        /\ request' = request
    BY DEF GoodsMove
  <1>2. TypeOK /\ RequestedAgrees
    BY DEF IInv
  <1>3. \A m \in Materials :
           /\ stock[m] \in Int
           /\ stock'[m] = IF m \in DOMAIN q THEN stock[m] + sign * q[m] ELSE stock[m]
           /\ m \in DOMAIN q => sign * q[m] \in Int
           /\ stock'[m] \in Int
    BY <1>1, <1>2 DEF TypeOK, Added
  <1>4. stock' \in [Materials -> Int]
    BY <1>1, <1>3 DEF Added
  <1>5. ShortagesOK'
    BY <1>2, SyncType DEF GoodsMove, TypeOK, DecisionsStay
  <1>6. TypeOK'
    BY <1>1, <1>2, <1>4, <1>5 DEF TypeOK, HoldsOK, RequestsOK, ShortagesOK
  <1>7. RequestedAgrees'
    BY <1>1, <1>2, AgreeUnchanged
  <1>8. hold \in HoldTable
    BY <1>2 DEF TypeOK, HoldsOK, HoldTable
  <1>9. ASSUME NEW m \in Materials
        PROVE  \/ Available(stock', hold', m) >= 0
               \/ Available(stock', hold', m) >= Available(stock, hold, m)
    <2>1. /\ Held(hold, m, Targets) \in Nat
          /\ Available(stock, hold, m) = stock[m] - Held(hold, m, Targets)
          /\ Available(stock', hold', m) = stock'[m] - Held(hold, m, Targets)
      BY <1>1, <1>8, HeldType DEF Available
    <2>2. Held(hold, m, {}) = 0
      BY NobodysHolds
    <2>3. sign = -1 /\ m \in DOMAIN q => q[m] <= Available(stock, hold, m) + Held(hold, m, {})
      BY DEF ReturnFree, EnoughFor
    <2>4. CASE m \notin DOMAIN q
      BY <1>3, <2>1, <2>4
    <2>5. CASE m \in DOMAIN q /\ sign = 1
      <3>1. q[m] \in Nat /\ stock'[m] = stock[m] + q[m]
        BY <1>3, <2>5
      <3> QED
        BY <1>3, <2>1, <3>1
    <2>6. CASE m \in DOMAIN q /\ sign = -1
      <3>1. q[m] \in Nat /\ stock'[m] = stock[m] - q[m]
        BY <1>3, <2>6
      <3> QED
        BY <1>3, <2>1, <2>2, <2>3, <2>6, <3>1
    <2> QED
      BY <2>4, <2>5, <2>6
  <1>10. FreeStockKept
    BY <1>9 DEF FreeStockKept
  <1> QED
    BY <1>6, <1>7, <1>10 DEF IInv

\* No order costs less, no movement of money changes, no refund leaves its order, and
\* no order is credited more.
LEMMA SameDebt ==
    ASSUME PurchaseTables, PurchaseTables', movement' = movement,
           \A o \in SupplierOrders : purchase'[o].items = purchase[o].items,
           \A o \in SupplierOrders : Credit(return', o) <= Credit(return, o),
           \A o \in SupplierOrders, t \in Returns : return[t].order = o => return'[t].order = o
    PROVE  ExcessKept
  <1>1. /\ purchase \in PurchaseTable /\ return \in ReturnTable /\ movement \in MovementTable
        /\ purchase' \in PurchaseTable /\ return' \in ReturnTable
    BY DEF PurchaseTables
  <1>2. ASSUME NEW o \in SupplierOrders
        PROVE  ~(Excess(purchase', return', movement, o) > Excess(purchase, return, movement, o))
    <2>1. /\ Payments(movement, o, Live, Null) \in Nat
          /\ NetTotal(purchase, return, o)
               = AtLeast(0, Cost(purchase[o].items) - Credit(return, o))
          /\ Cost(purchase[o].items) \in Nat /\ Credit(return, o) \in Nat
      BY <1>1, Figures
    <2>2. /\ Credit(return', o) \in Nat
          /\ NetTotal(purchase', return', o)
               = AtLeast(0, Cost(purchase'[o].items) - Credit(return', o))
      BY <1>1, Figures
    <2>3. NetTotal(purchase', return', o) >= NetTotal(purchase, return, o)
      BY <2>1, <2>2 DEF AtLeast
    <2>4. \A t \in Returns : Refunds(movement, t, {"posted"}, Null) \in Nat
      BY <1>1, SharesType, PaymentsAreSums
    <2>5. \A t \in Returns : Refunds(movement, t, {"posted"}, Null)
                               >= Refunds(movement, t, {"posted"}, Null)
      BY <2>4
    <2>6. \A t \in Returns : return[t].order = o => return'[t].order = o
      OBVIOUS
    <2>7. OrderRefunds(return', movement, o) >= OrderRefunds(return, movement, o)
      BY <1>1, <2>5, <2>6, RefundsGrow
    <2>8. Payments(movement, o, Live, Null) <= Payments(movement, o, Live, Null)
      BY <2>1
    <2> QED
      BY <1>1, <2>3, <2>7, <2>8, ExcessFalls
  <1> QED
    BY <1>2 DEF ExcessKept

\* What one receipt brought of position l of order o.
ReceivedBy(row, o, l) == IF row.order = o THEN row.quantity[l] ELSE 0

ReceivedSum(rc, o, l) == Total([r \in Receipts |-> ReceivedBy(rc[r], o, l)], Receipts)

LEMMA ReceivedMoves ==
    ASSUME NEW old \in ReceiptTable, NEW new \in ReceiptTable, NEW r \in Receipts,
           \A s \in Receipts \ {r} : new[s] = old[s], NEW o, NEW l \in Positions
    PROVE  /\ ReceivedSum(new, o, l)
                = ReceivedSum(old, o, l) - ReceivedBy(old[r], o, l) + ReceivedBy(new[r], o, l)
           /\ ReceivedSum(old, o, l) \in Nat
           /\ ReceivedBy(old[r], o, l) \in Nat /\ ReceivedBy(new[r], o, l) \in Nat
  <1> DEFINE f == [s \in Receipts |-> ReceivedBy(old[s], o, l)]
             g == [s \in Receipts |-> ReceivedBy(new[s], o, l)]
  <1>1. \A s \in Receipts : old[s].quantity[l] \in Nat /\ new[s].quantity[l] \in Nat
    BY DEF ReceiptTable, ReceiptRow
  <1>2. \A s \in Receipts : f[s] \in Nat
    BY <1>1 DEF ReceivedBy
  <1>3. \A s \in Receipts : g[s] \in Nat
    BY <1>1 DEF ReceivedBy
  <1>4. \A s \in Receipts \ {r} : g[s] = f[s]
    OBVIOUS
  <1>5. ReceivedSum(old, o, l) = Total(f, Receipts) /\ ReceivedSum(new, o, l) = Total(g, Receipts)
    BY DEF ReceivedSum
  <1>6. f[r] = ReceivedBy(old[r], o, l) /\ g[r] = ReceivedBy(new[r], o, l)
    OBVIOUS
  <1> HIDE DEF f, g
  <1>7. Total(g, Receipts) = Total(f, Receipts) - f[r] + g[r]
    BY <1>2, <1>3, <1>4, MovementNumbers, TotalUpdate
  <1>8. Total(f, Receipts) \in Nat
    BY <1>2, MovementNumbers, TotalType
  <1> QED
    BY <1>2, <1>3, <1>5, <1>6, <1>7, <1>8

LEMMA ReceiptsAgreeBy ==
    /\ ReceiptsAgree <=>
         \A o \in SupplierOrders, l \in Positions :
            /\ purchase[o].received[l] = ReceivedSum(receipt, o, l)
            /\ purchase[o].received[l] <= purchase[o].items[l]
    /\ ReceiptsAgree' <=>
         \A o \in SupplierOrders, l \in Positions :
            /\ purchase'[o].received[l] = ReceivedSum(receipt', o, l)
            /\ purchase'[o].received[l] <= purchase'[o].items[l]
  BY DEF ReceiptsAgree, ReceivedSum, ReceivedBy

\* The cards after goods q came for order o, or for none.
CardsReceive(o, q) ==
    /\ purchase' \in PurchaseTable
    /\ \A x \in SupplierOrders :
          /\ purchase'[x].items = purchase[x].items
          /\ purchase'[x].status = "none" => purchase'[x] = NoPurchase
          /\ x = o \/ purchase[x].status # "none" => purchase'[x].status # "none"
          /\ purchase'[x] = purchase[x] \/ purchase'[x].version = purchase[x].version + 1
    /\ \A x \in SupplierOrders, l \in Positions :
          /\ purchase'[x].received[l] = purchase[x].received[l] + (IF x = o THEN q[l] ELSE 0)
          /\ purchase'[x].received[l] <= purchase'[x].items[l]

LEMMA PostReceiptKeeps ==
    ASSUME PurchaseIInv, NEW r \in Receipts, NEW o \in SupplierOrders \cup {Null},
           NEW q \in Quantities, NEW p \in Prices, PostReceipt(r, o, q, p), CardsReceive(o, q)
    PROVE  PurchaseIInv' /\ ExcessKept /\ CardsMove /\ FreeStockKept
  <1> DEFINE row == [posted |-> TRUE, order |-> o, quantity |-> q, price |-> p]
  <1>1. q \in [Positions -> Nat] /\ p \in Nat
    BY QuantitiesType, PurchasesAssumption
  <1>2. row \in ReceiptRow
    BY <1>1 DEF ReceiptRow
  <1>3. /\ ~receipt[r].posted /\ receipt' = [receipt EXCEPT ![r] = row]
        /\ return' = return /\ movement' = movement /\ totals' = totals /\ due' = due
        /\ GoodsMove(Goods(q), 1)
    BY DEF PostReceipt, GoodsMove
  <1>4. PurchaseTables /\ IInv
    BY DEF PurchaseIInv
  <1>5. /\ receipt \in ReceiptTable /\ return \in ReturnTable /\ movement \in MovementTable
        /\ purchase \in PurchaseTable
    BY <1>4 DEF PurchaseTables
  <1>6. row.posted = TRUE /\ row.order = o /\ row.quantity = q
    OBVIOUS
  <1> HIDE DEF row
  <1>7. /\ receipt' \in ReceiptTable /\ receipt'[r] = row
        /\ \A s \in Receipts \ {r} : receipt'[s] = receipt[s]
    BY <1>2, <1>3, <1>5 DEF ReceiptTable
  <1>8. receipt[r] = NoReceipt
    BY <1>3 DEF PurchaseIInv, UnwrittenRows
  <1>9. IInv' /\ FreeStockKept
    BY <1>1, <1>3, <1>4, GoodsType, GoodsKeep
  <1>10. PurchaseTables'
    BY <1>3, <1>4, <1>7 DEF PurchaseTables, OneSide, CardsReceive
  <1>11. UnwrittenRows'
    BY <1>6, <1>7 DEF PurchaseIInv, UnwrittenRows, CardsReceive
  <1>12. ReturnsOfReceipts'
    <2>1. \A s \in Receipts : receipt[s].posted => receipt'[s] = receipt[s]
      BY <1>3, <1>7
    <2> QED
      BY <1>3, <2>1 DEF PurchaseIInv, ReturnsOfReceipts
  <1>13. ReceiptsAgree'
    <2> SUFFICES ASSUME NEW x \in SupplierOrders, NEW l \in Positions
                 PROVE  /\ purchase'[x].received[l] = ReceivedSum(receipt', x, l)
                        /\ purchase'[x].received[l] <= purchase'[x].items[l]
      BY ReceiptsAgreeBy
    <2>1. purchase[x].received[l] = ReceivedSum(receipt, x, l)
      BY ReceiptsAgreeBy DEF PurchaseIInv
    <2>2. /\ ReceivedSum(receipt', x, l) = ReceivedSum(receipt, x, l)
                 - ReceivedBy(receipt[r], x, l) + ReceivedBy(receipt'[r], x, l)
          /\ ReceivedSum(receipt, x, l) \in Nat
      BY <1>5, <1>7, ReceivedMoves
    <2>3. ReceivedBy(receipt[r], x, l) = 0
      BY <1>8, MovementNumbers DEF ReceivedBy, NoReceipt
    <2>4. ReceivedBy(receipt'[r], x, l) = IF x = o THEN q[l] ELSE 0
      BY <1>6, <1>7 DEF ReceivedBy
    <2>5. q[l] \in Nat
      BY <1>1
    <2>6. /\ purchase'[x].received[l] = purchase[x].received[l] + (IF x = o THEN q[l] ELSE 0)
          /\ purchase'[x].received[l] <= purchase'[x].items[l]
      BY DEF CardsReceive
    <2> QED
      BY <2>1, <2>2, <2>3, <2>4, <2>5, <2>6
  <1>14. ReturnsWithinReceipts'
    <2> SUFFICES ASSUME NEW s \in Receipts, NEW l \in Positions
                 PROVE  Total([t \in Returns |->
                                 IF return[t].receipt = s /\ ~return[t].cancelled
                                 THEN return[t].quantity[l] ELSE 0], Returns)
                          <= receipt'[s].quantity[l]
      BY <1>3 DEF ReturnsWithinReceipts
    <2> DEFINE sum == Total([t \in Returns |->
                                 IF return[t].receipt = s /\ ~return[t].cancelled
                                 THEN return[t].quantity[l] ELSE 0], Returns)
    <2>1. sum <= receipt[s].quantity[l]
      BY DEF PurchaseIInv, ReturnsWithinReceipts
    <2>2. sum = Returned(return, s, l)
      BY DEF Returned
    <2>3. sum \in Nat
      BY <1>5, <2>2, ReturnSums
    <2>4. receipt[r].quantity[l] = 0 /\ receipt'[r].quantity[l] \in Nat
      BY <1>1, <1>6, <1>7, <1>8 DEF NoReceipt, Nothing
    <2>5. receipt[s].quantity[l] <= receipt'[s].quantity[l]
      <3>1. CASE s = r
        BY <2>4, <3>1
      <3>2. CASE s # r
        <4>1. receipt'[s] = receipt[s] /\ receipt[s].quantity[l] \in Nat
          BY <1>5, <1>7, <3>2 DEF ReceiptTable, ReceiptRow
        <4> QED
          BY <4>1
      <3> QED
        BY <3>1, <3>2
    <2>6. receipt[s].quantity[l] \in Nat /\ receipt'[s].quantity[l] \in Nat
      BY <1>5, <1>7 DEF ReceiptTable, ReceiptRow
    <2> HIDE DEF sum
    <2>7. sum <= receipt'[s].quantity[l]
      BY <2>1, <2>3, <2>5, <2>6
    <2> QED BY <2>7 DEF sum
  <1>15. RefundsWithinReturns'
    BY <1>3 DEF PurchaseIInv, RefundsWithinReturns
  <1>19. ReceiptsOfOrders'
    <2>1. \A s \in Receipts : receipt[s].order # Null => receipt[s].order \in SupplierOrders
      BY <1>5 DEF ReceiptTable, ReceiptRow
    <2>2. ASSUME NEW s \in Receipts, receipt'[s].order # Null
          PROVE  purchase'[receipt'[s].order].status # "none"
      <3>1. CASE s = r
        BY <1>6, <1>7, <2>2, <3>1 DEF CardsReceive
      <3>2. CASE s # r
        BY <1>7, <2>1, <2>2, <3>2 DEF PurchaseIInv, ReceiptsOfOrders, CardsReceive
      <3> QED
        BY <3>1, <3>2
    <2> QED
      BY <2>2 DEF ReceiptsOfOrders
  <1>16. PurchaseIInv'
    BY <1>9, <1>10, <1>11, <1>12, <1>13, <1>14, <1>15, <1>19 DEF PurchaseIInv
  <1>17. ExcessKept
    <2>1. \A x \in SupplierOrders : purchase'[x].items = purchase[x].items
      BY DEF CardsReceive
    <2>2. \A x \in SupplierOrders : Credit(return', x) <= Credit(return, x)
      BY <1>3, <1>5, Figures
    <2>3. \A x \in SupplierOrders, t \in Returns : return[t].order = x => return'[t].order = x
      BY <1>3
    <2> QED
      BY <1>3, <1>4, <1>10, <2>1, <2>2, <2>3, SameDebt
  <1>18. CardsMove
    BY <1>3 DEF CardsReceive, CardsMove
  <1> QED
    BY <1>9, <1>16, <1>17, <1>18

LEMMA ReceiveUnorderedKeeps ==
    ASSUME PurchaseIInv, NEW r \in Receipts, NEW q \in Quantities, NEW p \in Prices,
           ReceiveUnordered(r, q, p)
    PROVE  PurchaseIInv' /\ ExcessKept /\ CardsMove /\ FreeStockKept
  <1>1. PostReceipt(r, Null, q, p) /\ purchase' = purchase
    BY DEF ReceiveUnordered
  <1>2. CardsReceive(Null, q)
    <2>1. purchase' \in PurchaseTable
      BY <1>1 DEF PurchaseIInv, PurchaseTables
    <2>2. \A x \in SupplierOrders : purchase[x].status = "none" => purchase[x] = NoPurchase
      BY DEF PurchaseIInv, UnwrittenRows
    <2>3. \A x \in SupplierOrders, l \in Positions :
             /\ x # Null /\ purchase[x].received[l] \in Nat
             /\ purchase[x].received[l] <= purchase[x].items[l]
      BY PurchaseRows, MovementNumbers
    <2>4. \A x \in SupplierOrders, l \in Positions :
             purchase[x].received[l]
               = purchase[x].received[l] + (IF x = Null THEN q[l] ELSE 0)
      BY <2>3
    <2>5. \A x \in SupplierOrders : purchase'[x] = purchase[x] /\ x # Null
      BY <1>1, <2>3, MovementNumbers
    <2>6. \A x \in SupplierOrders :
             /\ purchase'[x].items = purchase[x].items
             /\ purchase'[x].status = "none" => purchase'[x] = NoPurchase
             /\ x = Null \/ purchase[x].status # "none" => purchase'[x].status # "none"
             /\ purchase'[x] = purchase[x] \/ purchase'[x].version = purchase[x].version + 1
      BY <2>2, <2>5
    <2>7. \A x \in SupplierOrders, l \in Positions :
             /\ purchase'[x].received[l]
                  = purchase[x].received[l] + (IF x = Null THEN q[l] ELSE 0)
             /\ purchase'[x].received[l] <= purchase'[x].items[l]
      BY <2>3, <2>4, <2>5
    <2> QED
      BY <2>1, <2>6, <2>7 DEF CardsReceive
  <1> QED
    BY <1>1, <1>2, PostReceiptKeeps

LEMMA ReceiveOrderedKeeps ==
    ASSUME PurchaseIInv, NEW r \in Receipts, NEW o \in SupplierOrders,
           NEW seen \in 1 .. MaxOrderVersion, NEW q \in Quantities, NEW p \in Prices,
           ReceiveOrdered(r, o, seen, q, p)
    PROVE  PurchaseIInv' /\ ExcessKept /\ CardsMove /\ FreeStockKept
  <1> DEFINE received == [l \in Positions |-> purchase[o].received[l] + q[l]]
             status == IF \A l \in Positions : received[l] >= purchase[o].items[l]
                       THEN "received" ELSE "in_transit"
             linked == purchase[o].linked \cup {l \in Kept : q[l] > 0}
             row == [purchase[o] EXCEPT !.received = received, !.linked = linked,
                                        !.status = status, !.version = @ + 1]
  <1>1. /\ q \in [Positions -> Nat]
        /\ purchase[o] \in PurchaseRow /\ DOMAIN purchase = SupplierOrders
        /\ purchase[o].version \in Nat /\ purchase[o].items \in [Positions -> Nat]
        /\ purchase[o].received \in [Positions -> Nat]
        /\ \A l \in Positions : purchase[o].received[l] <= purchase[o].items[l]
    BY QuantitiesType, PurchaseRows
  <1>2. /\ received \in [Positions -> Nat] /\ status \in {"received", "in_transit"}
        /\ linked \in SUBSET Kept /\ purchase[o].version + 1 \in Nat
    BY <1>1 DEF PurchaseRow
  <1>3. PostReceipt(r, o, q, p)
    BY DEF ReceiveOrdered
  <1>4. purchase' = [purchase EXCEPT ![o] = row]
    BY <1>1 DEF ReceiveOrdered
  <1>5. \A l \in Positions : q[l] > 0 => received[l] <= purchase[o].items[l]
    BY DEF ReceiveOrdered
  <1>6. \A l \in Positions : received[l] = purchase[o].received[l] + q[l]
    OBVIOUS
  <1> HIDE DEF received, status, linked
  <1>7. row \in PurchaseRow
    BY <1>1, <1>2 DEF PurchaseRow
  <1>8. /\ row.received = received /\ row.status = status /\ row.items = purchase[o].items
        /\ row.version = purchase[o].version + 1
    BY <1>1, <1>2 DEF PurchaseRow
  <1> HIDE DEF row
  <1>9. /\ purchase' \in PurchaseTable /\ purchase'[o] = row
        /\ \A x \in SupplierOrders \ {o} : purchase'[x] = purchase[x]
    BY <1>4, <1>7 DEF PurchaseIInv, PurchaseTables, PurchaseTable
  <1>10. \A l \in Positions : received[l] <= purchase[o].items[l]
    <2> SUFFICES ASSUME NEW l \in Positions PROVE received[l] <= purchase[o].items[l]
      OBVIOUS
    <2>1. /\ q[l] \in Nat /\ purchase[o].received[l] \in Nat /\ purchase[o].items[l] \in Nat
          /\ purchase[o].received[l] <= purchase[o].items[l]
      BY <1>1
    <2> QED
      BY <1>5, <1>6, <2>1
  <1>11. \A x \in SupplierOrders :
          /\ purchase'[x].items = purchase[x].items
          /\ purchase'[x].status = "none" => purchase'[x] = NoPurchase
          /\ x = o \/ purchase[x].status # "none" => purchase'[x].status # "none"
          /\ purchase'[x] = purchase[x] \/ purchase'[x].version = purchase[x].version + 1
    <2>1. \A x \in SupplierOrders : purchase[x].status = "none" => purchase[x] = NoPurchase
      BY DEF PurchaseIInv, UnwrittenRows
    <2> QED
      BY <1>2, <1>8, <1>9, <2>1
  <1>12. ASSUME NEW x \in SupplierOrders, NEW l \in Positions
         PROVE  /\ purchase'[x].received[l]
                     = purchase[x].received[l] + (IF x = o THEN q[l] ELSE 0)
                /\ purchase'[x].received[l] <= purchase'[x].items[l]
    <2>1. CASE x = o
      BY <1>6, <1>8, <1>9, <1>10, <2>1
    <2>2. CASE x # o
      <3>1. /\ purchase[x].received[l] \in Nat
            /\ purchase[x].received[l] <= purchase[x].items[l]
        BY PurchaseRows
      <3> QED
        BY <1>9, <2>2, <3>1
    <2> QED
      BY <2>1, <2>2
  <1>13. CardsReceive(o, q)
    BY <1>9, <1>11, <1>12 DEF CardsReceive
  <1> QED
    BY <1>3, <1>13, PostReceiptKeeps

------------------------------------------------------------------------------
(* Steps that send goods back.                                               *)

LEMMA ReturnsWithinBy ==
    ASSUME return \in ReturnTable, return' \in ReturnTable
    PROVE  /\ ReturnsWithinReceipts <=>
                \A r \in Receipts, l \in Positions :
                   Returned(return, r, l) <= receipt[r].quantity[l]
           /\ ReturnsWithinReceipts' <=>
                \A r \in Receipts, l \in Positions :
                   Returned(return', r, l) <= receipt'[r].quantity[l]
  BY DEF ReturnsWithinReceipts, Returned

\* The card of order o is touched, if there is an order.
CardsTouched(o) ==
    /\ purchase' \in PurchaseTable
    /\ \A x \in SupplierOrders :
          /\ purchase'[x].items = purchase[x].items
          /\ purchase'[x].received = purchase[x].received
          /\ purchase'[x].status = purchase[x].status
          /\ IF x = o THEN purchase'[x].version = purchase[x].version + 1
             ELSE purchase'[x] = purchase[x]

LEMMA TouchOrderTouches ==
    ASSUME PurchaseIInv, NEW o \in SupplierOrders \cup {Null}, TouchOrder(o)
    PROVE  CardsTouched(o)
  <1>1. purchase \in PurchaseTable
    BY DEF PurchaseIInv, PurchaseTables
  <1>2. CASE o = Null
    <2>1. purchase' = purchase
      BY <1>2 DEF TouchOrder
    <2> QED
      BY <1>1, <1>2, <2>1, MovementNumbers DEF CardsTouched
  <1>3. CASE o # Null
    <2> DEFINE row == [purchase[o] EXCEPT !.version = @ + 1]
    <2>1. purchase' = [purchase EXCEPT ![o] = row]
      BY <1>1, <1>3 DEF TouchOrder, PurchaseTable
    <2>2. purchase[o] \in PurchaseRow /\ purchase[o].version + 1 \in Nat
      BY <1>3, PurchaseRows
    <2>3. row \in PurchaseRow
      BY <2>2 DEF PurchaseRow
    <2>4. /\ row.items = purchase[o].items /\ row.received = purchase[o].received
          /\ row.status = purchase[o].status /\ row.version = purchase[o].version + 1
      BY <2>2 DEF PurchaseRow
    <2> HIDE DEF row
    <2>5. /\ purchase' \in PurchaseTable /\ purchase'[o] = row
          /\ \A x \in SupplierOrders \ {o} : purchase'[x] = purchase[x]
      BY <1>1, <1>3, <2>1, <2>3 DEF PurchaseTable
    <2> QED
      BY <2>4, <2>5 DEF CardsTouched
  <1> QED
    BY <1>2, <1>3

\* One return is rewritten, and its order touched.
ReturnRewritten(t, row, o) ==
    /\ row \in ReturnRow /\ return' = [return EXCEPT ![t] = row]
    /\ CardsTouched(o) /\ (o \in SupplierOrders => purchase[o].status # "none")
    /\ receipt' = receipt /\ movement' = movement /\ due' = due
    /\ totals' \in [ordered : Int, paid : Int]

\* The new row names a receipt on file and its order, sends no more back than came, and
\* is worth what was refunded of it.
ReturnRowFits(t, row) ==
    /\ row.receipt \in Receipts /\ receipt[row.receipt].posted
    /\ row.order = receipt[row.receipt].order
    /\ \A r \in Receipts, l \in Positions :
          \/ ReturnedBy(row, r, l) <= ReturnedBy(return[t], r, l)
          \/ /\ ReturnedBy(return[t], r, l) = 0
             /\ Returned(return, r, l) + ReturnedBy(row, r, l) <= receipt[r].quantity[l]
    /\ Refunds(movement, t, Live, Null) <= IF row.cancelled THEN 0 ELSE row.amount

LEMMA ReturnRowKeeps ==
    ASSUME PurchaseIInv, IInv', NEW t \in Returns, NEW row, NEW o,
           ReturnRewritten(t, row, o), ReturnRowFits(t, row)
    PROVE  PurchaseIInv'
  <1>1. /\ PurchaseTables /\ return \in ReturnTable /\ receipt \in ReceiptTable
        /\ movement \in MovementTable
    BY DEF PurchaseIInv, PurchaseTables
  <1>2. receipt' = receipt /\ movement' = movement
    BY DEF ReturnRewritten
  <1>3. /\ return' \in ReturnTable /\ return'[t] = row
        /\ \A u \in Returns \ {t} : return'[u] = return[u]
    BY <1>1 DEF ReturnRewritten, ReturnTable
  <1>4. PurchaseTables'
    BY <1>1, <1>2, <1>3 DEF PurchaseTables, ReturnRewritten, CardsTouched, OneSide
  <1>5. UnwrittenRows'
    <2>1. ASSUME NEW x \in SupplierOrders, purchase'[x].status = "none"
          PROVE  purchase'[x] = NoPurchase
      <3>1. purchase[x] = NoPurchase
        BY <2>1 DEF ReturnRewritten, CardsTouched, PurchaseIInv, UnwrittenRows
      <3>2. CASE x # o
        BY <3>1, <3>2 DEF ReturnRewritten, CardsTouched
      <3>3. x # o
        BY <2>1 DEF ReturnRewritten, CardsTouched
      <3> QED
        BY <3>1, <3>3 DEF ReturnRewritten, CardsTouched
    <2> QED
      BY <1>2, <2>1 DEF PurchaseIInv, UnwrittenRows
  <1>6. ReceiptsOfOrders'
    <2>1. \A r \in Receipts : receipt[r].order # Null => receipt[r].order \in SupplierOrders
      BY <1>1 DEF ReceiptTable, ReceiptRow
    <2>2. \A x \in SupplierOrders : purchase'[x].status = purchase[x].status
      BY DEF ReturnRewritten, CardsTouched
    <2> QED
      BY <1>2, <2>1, <2>2 DEF PurchaseIInv, ReceiptsOfOrders
  <1>7. ReturnsOfReceipts'
    BY <1>2, <1>3 DEF PurchaseIInv, ReturnsOfReceipts, ReturnRowFits
  <1>8. ReceiptsAgree'
    <2>1. \A x \in SupplierOrders : /\ purchase'[x].items = purchase[x].items
                                    /\ purchase'[x].received = purchase[x].received
      BY DEF ReturnRewritten, CardsTouched
    <2> QED
      BY <1>2, <2>1 DEF PurchaseIInv, ReceiptsAgree
  <1>9. ReturnsWithinReceipts'
    <2> SUFFICES ASSUME NEW r \in Receipts, NEW l \in Positions
                 PROVE  Returned(return', r, l) <= receipt[r].quantity[l]
      BY <1>1, <1>2, <1>3, ReturnsWithinBy
    <2>1. Returned(return, r, l) <= receipt[r].quantity[l]
      BY <1>1, <1>3, ReturnsWithinBy DEF PurchaseIInv
    <2>2. /\ Returned(return', r, l) = Returned(return, r, l)
                - ReturnedBy(return[t], r, l) + ReturnedBy(return'[t], r, l)
          /\ Returned(return, r, l) \in Nat
          /\ ReturnedBy(return[t], r, l) \in Nat /\ ReturnedBy(return'[t], r, l) \in Nat
      BY <1>1, <1>3, ReturnedMoves
    <2>3. receipt[r].quantity[l] \in Nat
      BY <1>1 DEF ReceiptTable, ReceiptRow
    <2>4. \/ ReturnedBy(return'[t], r, l) <= ReturnedBy(return[t], r, l)
          \/ /\ ReturnedBy(return[t], r, l) = 0
             /\ Returned(return, r, l) + ReturnedBy(return'[t], r, l) <= receipt[r].quantity[l]
      BY <1>3 DEF ReturnRowFits
    <2> QED
      BY <2>1, <2>2, <2>3, <2>4
  <1>10. RefundsWithinReturns'
    <2> SUFFICES ASSUME NEW u \in Returns
                 PROVE  Refunds(movement, u, Live, Null)
                          <= IF return'[u].cancelled THEN 0 ELSE return'[u].amount
      BY <1>2 DEF RefundsWithinReturns
    <2>1. Refunds(movement, u, Live, Null)
            <= IF return[u].cancelled THEN 0 ELSE return[u].amount
      BY DEF PurchaseIInv, RefundsWithinReturns
    <2> QED
      BY <1>3, <2>1 DEF ReturnRowFits
  <1> QED
    BY <1>4, <1>5, <1>6, <1>7, <1>8, <1>9, <1>10 DEF PurchaseIInv

LEMMA ReturnCards ==
    ASSUME return \in ReturnTable, NEW t \in Returns, NEW row, NEW o,
           ReturnRewritten(t, row, o),
           \A x \in SupplierOrders \ {o} : CreditBy(row, x) = CreditBy(return[t], x)
    PROVE  CardsMove
  <1>1. /\ return' \in ReturnTable /\ return'[t] = row
        /\ \A u \in Returns \ {t} : return'[u] = return[u]
    BY DEF ReturnRewritten, ReturnTable
  <1>2. ASSUME NEW x \in SupplierOrders, x # o
        PROVE  Credit(return', x) = Credit(return, x)
    <2>1. /\ Credit(return', x) = Credit(return, x) - CreditBy(return[t], x)
                                    + CreditBy(return'[t], x)
          /\ Credit(return, x) \in Nat /\ CreditBy(return[t], x) \in Nat
      BY <1>1, CreditMoves
    <2>2. CreditBy(return'[t], x) = CreditBy(return[t], x)
      BY <1>1, <1>2
    <2> QED
      BY <2>1, <2>2
  <1> QED
    BY <1>2 DEF CardsMove, ReturnRewritten, CardsTouched

\* A return that is on file.
LEMMA ReturnRows ==
    ASSUME PurchaseIInv, NEW t \in Returns
    PROVE  /\ return[t] \in ReturnRow /\ DOMAIN return = Returns
           /\ return[t].version \in Nat /\ return[t].amount \in Nat
           /\ return[t].quantity \in [Positions -> Nat]
           /\ return[t].order \in SupplierOrders \cup {Null}
           /\ return[t] # NoReturn =>
                 /\ return[t].receipt \in Receipts /\ receipt[return[t].receipt].posted
                 /\ return[t].order = receipt[return[t].receipt].order
                 /\ return[t].order # Null => purchase[return[t].order].status # "none"
  <1>1. return[t] \in ReturnRow /\ DOMAIN return = Returns
    BY DEF PurchaseIInv, PurchaseTables, ReturnTable
  <1>2. /\ return[t].version \in Nat /\ return[t].amount \in Nat
        /\ return[t].quantity \in [Positions -> Nat]
        /\ return[t].order \in SupplierOrders \cup {Null}
    BY <1>1 DEF ReturnRow
  <1>3. return[t] # NoReturn =>
           /\ return[t].receipt \in Receipts /\ receipt[return[t].receipt].posted
           /\ return[t].order = receipt[return[t].receipt].order
    BY DEF PurchaseIInv, ReturnsOfReceipts
  <1>4. return[t] # NoReturn /\ return[t].order # Null
          => purchase[return[t].order].status # "none"
    BY <1>3 DEF PurchaseIInv, ReceiptsOfOrders
  <1> QED
    BY <1>1, <1>2, <1>3, <1>4

LEMMA ArchiveReturnKeeps ==
    ASSUME PurchaseIInv, NEW t \in Returns, NEW seen \in 1 .. MaxReturnVersion,
           NEW flag \in BOOLEAN, ArchiveReturn(t, seen, flag)
    PROVE  PurchaseIInv' /\ ExcessKept /\ CardsMove /\ FreeStockKept
  <1> DEFINE row == [return[t] EXCEPT !.archived = flag, !.version = @ + 1]
  <1>1. /\ return[t] \in ReturnRow /\ DOMAIN return = Returns /\ return[t].version \in Nat
        /\ return[t].receipt \in Receipts /\ receipt[return[t].receipt].posted
        /\ return[t].order = receipt[return[t].receipt].order
    BY ReturnRows DEF ArchiveReturn
  <1>2. /\ return' = [return EXCEPT ![t] = row]
        /\ UNCHANGED <<vars, purchase, receipt, movement, totals, due>>
    BY <1>1 DEF ArchiveReturn
  <1>3. return[t].version + 1 \in Nat
    BY <1>1
  <1>4. row \in ReturnRow
    BY <1>1, <1>3 DEF ReturnRow
  <1>5. /\ row.receipt = return[t].receipt /\ row.order = return[t].order
        /\ row.quantity = return[t].quantity /\ row.amount = return[t].amount
        /\ row.cancelled = return[t].cancelled
    BY <1>1 DEF ReturnRow
  <1> HIDE DEF row
  <1>6. /\ stock' = stock /\ hold' = hold /\ UNCHANGED vars
        /\ purchase' = purchase /\ receipt' = receipt /\ movement' = movement
        /\ totals' = totals /\ due' = due
    BY <1>2 DEF vars
  <1>7. PurchaseTables /\ IInv /\ totals' \in [ordered : Int, paid : Int]
    BY <1>6 DEF PurchaseIInv, PurchaseTables
  <1>8. IInv'
    BY <1>6, <1>7, StepInv
  <1>9. CardsTouched(Null)
    BY <1>6, TouchOrderTouches DEF TouchOrder
  <1>10. ReturnRewritten(t, row, Null)
    BY <1>2, <1>4, <1>6, <1>7, <1>9, MovementNumbers DEF ReturnRewritten
  <1>11. \A r, l : ReturnedBy(row, r, l) = ReturnedBy(return[t], r, l)
    BY <1>5 DEF ReturnedBy
  <1>12. \A x : CreditBy(row, x) = CreditBy(return[t], x)
    BY <1>5 DEF CreditBy
  <1>13. \A r \in Receipts, l \in Positions : ReturnedBy(return[t], r, l) \in Nat
    BY <1>7, ReturnSums DEF PurchaseTables
  <1>14. Refunds(movement, t, Live, Null)
           <= IF return[t].cancelled THEN 0 ELSE return[t].amount
    BY DEF PurchaseIInv, RefundsWithinReturns
  <1>15. ReturnRowFits(t, row)
    BY <1>1, <1>5, <1>11, <1>13, <1>14 DEF ReturnRowFits
  <1>16. PurchaseIInv'
    BY <1>8, <1>10, <1>15, ReturnRowKeeps
  <1>17. CardsMove
    BY <1>7, <1>10, <1>12, ReturnCards DEF PurchaseTables
  <1>18. /\ return \in ReturnTable /\ return' \in ReturnTable /\ return'[t] = row
         /\ \A u \in Returns \ {t} : return'[u] = return[u]
    BY <1>2, <1>4, <1>7 DEF PurchaseTables, ReturnTable
  <1>19. \A x \in SupplierOrders : Credit(return', x) <= Credit(return, x)
    <2> SUFFICES ASSUME NEW x \in SupplierOrders
                 PROVE  Credit(return', x) <= Credit(return, x)
      OBVIOUS
    <2>1. /\ Credit(return', x) = Credit(return, x) - CreditBy(return[t], x)
                                    + CreditBy(return'[t], x)
          /\ Credit(return, x) \in Nat /\ CreditBy(return[t], x) \in Nat
      BY <1>18, CreditMoves
    <2> QED
      BY <1>12, <1>18, <2>1
  <1>20. ExcessKept
    <2>1. \A x \in SupplierOrders, u \in Returns : return[u].order = x => return'[u].order = x
      BY <1>5, <1>18
    <2>2. PurchaseTables'
      BY <1>16 DEF PurchaseIInv
    <2>3. \A x \in SupplierOrders : purchase'[x].items = purchase[x].items
      BY <1>6
    <2> QED
      BY <1>6, <1>7, <1>19, <2>1, <2>2, <2>3, SameDebt
  <1>21. FreeStockKept
    BY <1>6, <1>7, FreeUnchanged DEF IInv
  <1> QED
    BY <1>16, <1>17, <1>20, <1>21

LEMMA CancelReturnKeeps ==
    ASSUME PurchaseIInv, NEW t \in Returns, NEW seen \in 1 .. MaxReturnVersion,
           CancelReturn(t, seen)
    PROVE  PurchaseIInv' /\ ExcessKept /\ CardsMove /\ FreeStockKept
  <1> DEFINE row == [return[t] EXCEPT !.cancelled = TRUE, !.version = @ + 1]
             o == return[t].order
             q == Goods(return[t].quantity)
  <1>1. /\ return[t] \in ReturnRow /\ DOMAIN return = Returns /\ return[t].version \in Nat
        /\ return[t].quantity \in [Positions -> Nat] /\ return[t].amount \in Nat
        /\ o \in SupplierOrders \cup {Null}
        /\ return[t].receipt \in Receipts /\ receipt[return[t].receipt].posted
        /\ return[t].order = receipt[return[t].receipt].order
        /\ o # Null => purchase[o].status # "none"
    BY ReturnRows DEF CancelReturn
  <1>2. /\ return' = [return EXCEPT ![t] = row]
        /\ \A k \in Movements : movement[k].return = t => movement[k].status \notin Live
        /\ GoodsMove(q, 1) /\ TouchOrder(o)
        /\ totals' = IF o = Null THEN totals ELSE Recalculated(purchase, return, movement)
        /\ receipt' = receipt /\ movement' = movement /\ due' = due
    BY <1>1 DEF CancelReturn, GoodsMove
  <1>3. return[t].version + 1 \in Nat
    BY <1>1
  <1>4. row \in ReturnRow
    BY <1>1, <1>3 DEF ReturnRow
  <1>5. /\ row.receipt = return[t].receipt /\ row.order = return[t].order
        /\ row.quantity = return[t].quantity /\ row.amount = return[t].amount
        /\ row.cancelled = TRUE
    BY <1>1 DEF ReturnRow
  <1>6. DOMAIN q \subseteq Materials /\ \A m \in DOMAIN q : q[m] \in Nat
    BY <1>1, GoodsType
  <1> HIDE DEF row, o, q
  <1>7. PurchaseTables /\ IInv
    BY DEF PurchaseIInv
  <1>8. /\ return \in ReturnTable /\ movement \in MovementTable /\ purchase \in PurchaseTable
        /\ totals \in [ordered : Int, paid : Int]
    BY <1>7 DEF PurchaseTables
  <1>9. totals' \in [ordered : Int, paid : Int]
    BY <1>2, <1>8, RecalculatedType
  <1>10. IInv' /\ FreeStockKept
    BY <1>2, <1>6, <1>7, GoodsKeep
  <1>11. CardsTouched(o)
    BY <1>1, <1>2, TouchOrderTouches
  <1>12. ReturnRewritten(t, row, o)
    BY <1>1, <1>2, <1>4, <1>9, <1>11, MovementNumbers DEF ReturnRewritten
  <1>13. \A r, l : ReturnedBy(row, r, l) = 0
    BY <1>5 DEF ReturnedBy
  <1>14. \A x : CreditBy(row, x) = 0
    BY <1>5 DEF CreditBy
  <1>15. \A r \in Receipts, l \in Positions : ReturnedBy(return[t], r, l) \in Nat
    BY <1>8, ReturnSums
  <1>16. Refunds(movement, t, Live, Null) = 0
    <2>1. \A j \in Movements : movement[j]["return"] = t => movement[j].status \notin Live
      BY <1>2
    <2> QED
      BY <2>1, NoShares, PaymentsAreSums
  <1>17. ReturnRowFits(t, row)
    BY <1>1, <1>5, <1>13, <1>15, <1>16 DEF ReturnRowFits
  <1>18. PurchaseIInv'
    BY <1>10, <1>12, <1>17, ReturnRowKeeps
  <1>19. \A x \in SupplierOrders \ {o} : CreditBy(row, x) = CreditBy(return[t], x)
    BY <1>14 DEF CreditBy, o
  <1>20. CardsMove
    BY <1>8, <1>12, <1>19, ReturnCards
  <1>21. /\ return' \in ReturnTable /\ return'[t] = row
         /\ \A u \in Returns \ {t} : return'[u] = return[u]
    BY <1>2, <1>4, <1>8 DEF ReturnTable
  <1>22. \A x \in SupplierOrders : Credit(return', x) <= Credit(return, x)
    <2> SUFFICES ASSUME NEW x \in SupplierOrders
                 PROVE  Credit(return', x) <= Credit(return, x)
      OBVIOUS
    <2>1. /\ Credit(return', x) = Credit(return, x) - CreditBy(return[t], x)
                                    + CreditBy(return'[t], x)
          /\ Credit(return, x) \in Nat /\ CreditBy(return[t], x) \in Nat
      BY <1>8, <1>21, CreditMoves
    <2> QED
      BY <1>14, <1>21, <2>1
  <1>23. ExcessKept
    <2>1. \A x \in SupplierOrders, u \in Returns : return[u].order = x => return'[u].order = x
      BY <1>5, <1>21
    <2>2. PurchaseTables'
      BY <1>18 DEF PurchaseIInv
    <2>3. \A x \in SupplierOrders : purchase'[x].items = purchase[x].items
      BY <1>11 DEF CardsTouched
    <2> QED
      BY <1>2, <1>7, <1>22, <2>1, <2>2, <2>3, SameDebt
  <1> QED
    BY <1>10, <1>18, <1>20, <1>23

LEMMA CreateReturnKeeps ==
    ASSUME PurchaseIInv, NEW t \in Returns, NEW r \in Receipts, NEW q \in Quantities,
           CreateReturn(t, r, q)
    PROVE  PurchaseIInv' /\ ExcessKept /\ CardsMove /\ FreeStockKept
  <1> DEFINE o == receipt[r].order
             amount == Cost(q) * receipt[r].price
             row == [NoReturn EXCEPT !.receipt = r, !.order = o, !.quantity = q,
                                     !.amount = amount, !.version = 1]
  <1>1. /\ PurchaseTables /\ IInv /\ receipt[r] \in ReceiptRow
        /\ return \in ReturnTable /\ movement \in MovementTable /\ purchase \in PurchaseTable
        /\ totals \in [ordered : Int, paid : Int]
    BY DEF PurchaseIInv, PurchaseTables, ReceiptTable
  <1>2. /\ q \in [Positions -> Nat] /\ Cost(q) \in Nat /\ receipt[r].price \in Nat
        /\ o \in SupplierOrders \cup {Null}
    BY <1>1, QuantitiesType, CostType DEF ReceiptRow
  <1>3. amount \in Nat
    BY <1>2
  <1>4. /\ return[t] = NoReturn /\ receipt[r].posted
        /\ \A l \in Positions : q[l] + Returned(return, r, l) <= receipt[r].quantity[l]
        /\ ReturnFree(Goods(q)) /\ OrderBearsCredit(o, amount)
        /\ return' = [return EXCEPT ![t] = row]
        /\ GoodsMove(Goods(q), -1) /\ TouchOrder(o)
        /\ totals' = IF o = Null THEN totals ELSE Recalculated(purchase, return', movement)
        /\ receipt' = receipt /\ movement' = movement /\ due' = due
    BY DEF CreateReturn, GoodsMove
  <1> HIDE DEF o, amount
  <1>5. NoReturn \in ReturnRow /\ NoReturn.cancelled = FALSE
    BY BlankCost DEF NoReturn, ReturnRow
  <1>6. /\ row \in ReturnRow /\ row.receipt = r /\ row.order = o /\ row.quantity = q
        /\ row.amount = amount /\ row.cancelled = FALSE
    <2> HIDE DEF NoReturn
    <2>1. row \in ReturnRow
      BY <1>2, <1>3, <1>5 DEF ReturnRow
    <2>2. /\ row.receipt = r /\ row.order = o /\ row.quantity = q
          /\ row.amount = amount /\ row.cancelled = FALSE
      BY <1>5 DEF ReturnRow
    <2> QED
      BY <2>1, <2>2
  <1> HIDE DEF row
  <1>7. /\ return[t].receipt = Null /\ return[t].order = Null /\ return[t].amount = 0
        /\ return[t].cancelled = FALSE
    BY <1>4 DEF NoReturn
  <1>8. /\ return' \in ReturnTable /\ return'[t] = row
        /\ \A u \in Returns \ {t} : return'[u] = return[u]
    BY <1>1, <1>4, <1>6 DEF ReturnTable
  <1>9. totals' \in [ordered : Int, paid : Int]
    BY <1>1, <1>4, <1>8, RecalculatedType
  <1>10. IInv' /\ FreeStockKept
    <2>1. DOMAIN Goods(q) \subseteq Materials /\ \A m \in DOMAIN Goods(q) : Goods(q)[m] \in Nat
      BY <1>2, GoodsType
    <2> QED
      BY <1>1, <1>4, <2>1, GoodsKeep
  <1>11. CardsTouched(o)
    BY <1>2, <1>4, TouchOrderTouches
  <1>12. o # Null => purchase[o].status # "none"
    BY DEF PurchaseIInv, ReceiptsOfOrders, o
  <1>13. ReturnRewritten(t, row, o)
    BY <1>4, <1>6, <1>9, <1>11, <1>12, MovementNumbers DEF ReturnRewritten
  <1>14. ASSUME NEW s \in Receipts, NEW l \in Positions
         PROVE  /\ ReturnedBy(return[t], s, l) = 0
                /\ \/ ReturnedBy(row, s, l) <= 0
                   \/ Returned(return, s, l) + ReturnedBy(row, s, l) <= receipt[s].quantity[l]
    <2>1. ReturnedBy(return[t], s, l) = 0
      BY <1>7, MovementNumbers DEF ReturnedBy
    <2>2. CASE s = r
      <3>1. ReturnedBy(row, s, l) = q[l]
        BY <1>6, <2>2 DEF ReturnedBy
      <3>2. q[l] \in Nat /\ Returned(return, r, l) \in Nat
        BY <1>1, <1>2, ReturnSums
      <3>3. q[l] + Returned(return, r, l) <= receipt[r].quantity[l]
        BY <1>4
      <3>4. Returned(return, r, l) + q[l] = q[l] + Returned(return, r, l)
        BY <3>2
      <3> QED
        BY <2>1, <2>2, <3>1, <3>3, <3>4
    <2>3. CASE s # r
      <3>1. ReturnedBy(row, s, l) = 0
        BY <1>6, <2>3 DEF ReturnedBy
      <3> QED
        BY <2>1, <3>1
    <2> QED
      BY <2>2, <2>3
  <1>15. Refunds(movement, t, Live, Null) <= amount
    <2>1. Refunds(movement, t, Live, Null) <= 0
      BY <1>7 DEF PurchaseIInv, RefundsWithinReturns
    <2>2. Refunds(movement, t, Live, Null) \in Nat
      BY <1>1, SharesType, PaymentsAreSums
    <2> QED
      BY <1>3, <2>1, <2>2
  <1>16. ReturnRowFits(t, row)
    <2>1. /\ row.receipt \in Receipts /\ receipt[row.receipt].posted
          /\ row.order = receipt[row.receipt].order
      BY <1>4, <1>6 DEF o
    <2>2. \A s \in Receipts, l \in Positions :
             \/ ReturnedBy(row, s, l) <= ReturnedBy(return[t], s, l)
             \/ /\ ReturnedBy(return[t], s, l) = 0
                /\ Returned(return, s, l) + ReturnedBy(row, s, l) <= receipt[s].quantity[l]
      BY <1>14
    <2>3. Refunds(movement, t, Live, Null) <= IF row.cancelled THEN 0 ELSE row.amount
      BY <1>6, <1>15
    <2> QED
      BY <2>1, <2>2, <2>3 DEF ReturnRowFits
  <1>17. PurchaseIInv'
    BY <1>10, <1>13, <1>16, ReturnRowKeeps
  <1>18. \A x \in SupplierOrders : /\ CreditBy(return[t], x) = 0
                                   /\ CreditBy(row, x) = IF x = o THEN amount ELSE 0
    BY <1>6, <1>7, MovementNumbers DEF CreditBy
  <1>19. CardsMove
    <2>1. \A x \in SupplierOrders \ {o} : CreditBy(row, x) = CreditBy(return[t], x)
      BY <1>18
    <2> QED
      BY <1>1, <1>13, <2>1, ReturnCards
  <1>20. ASSUME NEW x \in SupplierOrders
         PROVE  \/ ~(Excess(purchase', return', movement, x)
                       > Excess(purchase, return, movement, x))
                \/ Pending(movement, x) = 0
    <2> DEFINE live == Payments(movement, x, Live, Null)
               made == Payments(movement, x, {"posted"}, Null)
               back == OrderRefunds(return, movement, x)
               back2 == OrderRefunds(return', movement, x)
               owed == NetTotal(purchase, return, x)
               owed2 == NetTotal(purchase', return', x)
    <2>1. /\ live \in Nat /\ made \in Nat /\ back \in Nat /\ Pending(movement, x) \in Nat
          /\ Cost(purchase[x].items) \in Nat /\ Credit(return, x) \in Nat
          /\ owed = AtLeast(0, Cost(purchase[x].items) - Credit(return, x))
          /\ live = made + Pending(movement, x)
          /\ Paid(return, movement, x) = made - back
          /\ Excess(purchase, return, movement, x) \in Nat
      BY <1>1, Figures
    <2>2. purchase' \in PurchaseTable
      BY <1>11 DEF CardsTouched
    <2>3. /\ back2 \in Nat
          /\ owed2 = AtLeast(0, Cost(purchase'[x].items) - Credit(return', x))
          /\ Excess(purchase', return', movement, x) \in Nat
      BY <1>1, <1>8, <2>2, Figures
    <2>4. /\ Credit(return', x) = Credit(return, x) - CreditBy(return[t], x)
                                    + CreditBy(return'[t], x)
      BY <1>1, <1>8, CreditMoves
    <2>5. Credit(return', x) = Credit(return, x) + (IF x = o THEN amount ELSE 0)
      BY <1>3, <1>8, <1>18, <2>1, <2>4
    <2>6. purchase'[x].items = purchase[x].items
      BY <1>11 DEF CardsTouched
    <2>7. back2 >= back
      <3>1. \A u \in Returns : Refunds(movement, u, {"posted"}, Null) \in Nat
        BY <1>1, SharesType, PaymentsAreSums
      <3>2. \A u \in Returns : Refunds(movement, u, {"posted"}, Null)
                                 >= Refunds(movement, u, {"posted"}, Null)
        BY <3>1
      <3>3. \A u \in Returns : return[u].order = x => return'[u].order = x
        BY <1>7, <1>8, MovementNumbers
      <3> QED
        BY <1>1, <1>8, <3>2, <3>3, RefundsGrow
    <2>8. CASE x # o
      <3> HIDE DEF live, made, back, back2, owed, owed2
      <3>1. owed2 = owed /\ owed \in Nat
        BY <2>1, <2>3, <2>5, <2>6, <2>8 DEF AtLeast
      <3>2. owed2 >= owed /\ live <= live
        BY <2>1, <3>1
      <3> USE DEF live, back, back2, owed, owed2
      <3> QED
        BY <1>1, <1>8, <2>2, <2>7, <3>2, ExcessFalls
    <2>9. CASE x = o
      <3>1. /\ amount <= owed
            /\ Pending(movement, x) <= AtLeast(0, owed - amount - Paid(return, movement, x))
        BY <1>4, <2>9, MovementNumbers DEF OrderBearsCredit
      <3> HIDE DEF live, made, back, back2, owed, owed2
      <3>2. owed2 = owed - amount /\ owed \in Nat /\ owed2 \in Nat
        BY <1>3, <2>1, <2>3, <2>5, <2>6, <2>9, <3>1 DEF AtLeast
      <3>3. live <= owed2 + back2 \/ Pending(movement, x) = 0
        BY <1>3, <2>1, <2>3, <2>7, <3>1, <3>2 DEF AtLeast
      <3>4. live <= owed2 + back2 => Excess(purchase', return', movement, x) = 0
        <4> USE DEF live, back2, owed2
        <4> QED
          BY <1>1, <1>8, <2>2, NoExcess
      <3> QED
        BY <2>1, <3>3, <3>4
    <2> QED
      BY <2>8, <2>9
  <1>21. ExcessKept
    BY <1>4, <1>20 DEF ExcessKept
  <1> QED
    BY <1>10, <1>17, <1>19, <1>21

------------------------------------------------------------------------------
(* All steps.                                                                *)

LEMMA StillKeeps ==
    ASSUME PurchaseIInv, IInv', UNCHANGED <<purchase, receipt, return, movement>>,
           totals' \in [ordered : Int, paid : Int], due' \in Nat
    PROVE  PurchaseIInv' /\ ExcessKept /\ CardsMove
  <1>1. PurchaseTables'
    BY DEF PurchaseIInv, PurchaseTables, OneSide
  <1>2. /\ UnwrittenRows' /\ ReceiptsOfOrders' /\ ReturnsOfReceipts'
        /\ ReceiptsAgree' /\ ReturnsWithinReceipts' /\ RefundsWithinReturns'
    BY DEF PurchaseIInv, UnwrittenRows, ReceiptsOfOrders, ReturnsOfReceipts, ReceiptsAgree,
           ReturnsWithinReceipts, RefundsWithinReturns
  <1>3. \A o \in SupplierOrders : Credit(return', o) <= Credit(return, o)
    BY Figures DEF PurchaseIInv, PurchaseTables
  <1>4. PurchaseTables /\ movement' = movement
    BY DEF PurchaseIInv
  <1>5. /\ \A o \in SupplierOrders : purchase'[o].items = purchase[o].items
        /\ \A o \in SupplierOrders, t \in Returns : return[t].order = o => return'[t].order = o
    OBVIOUS
  <1>6. ExcessKept
    BY <1>1, <1>3, <1>4, <1>5, SameDebt
  <1>7. CardsMove
    BY DEF CardsMove
  <1> QED
    BY <1>1, <1>2, <1>6, <1>7 DEF PurchaseIInv

LEMMA PurchaseStepKeeps ==
    ASSUME PurchaseIInv, PurchaseStep
    PROVE  PurchaseIInv' /\ ExcessKept /\ CardsMove /\ FreeStockKept
  <1>1. CASE RecalculateTotals
    <2>1. /\ due \in Nat /\ IInv
          /\ purchase \in PurchaseTable /\ return \in ReturnTable /\ movement \in MovementTable
      BY DEF PurchaseIInv, PurchaseTables
    <2>2. /\ due > 0 /\ due' = due - 1 /\ totals' = Recalculated(purchase, return, movement)
          /\ UNCHANGED vars /\ UNCHANGED <<purchase, receipt, return, movement>>
      BY <1>1 DEF RecalculateTotals
    <2>3. due' \in Nat
      BY <2>1, <2>2
    <2>4. totals' \in [ordered : Int, paid : Int]
      BY <2>1, <2>2, RecalculatedType
    <2>5. IInv' /\ FreeStockKept
      <3>1. stock' = stock /\ hold' = hold
        BY <2>2 DEF vars
      <3> QED
        BY <2>1, <2>2, <3>1, StepInv, FreeUnchanged DEF IInv
    <2> QED
      BY <2>2, <2>3, <2>4, <2>5, StillKeeps
  <1>2. ASSUME NEW o \in SupplierOrders,
               \/ \E q \in Quantities, linked \in SUBSET Kept :
                     CreateSupplierOrder(o, q, linked) \/ UpdateSupplierOrder(o, q, linked)
               \/ DeleteSupplierOrder(o)
               \/ ChangeSupplierOrderStatus(o)
               \/ \E seen \in 1 .. MaxOrderVersion, flag \in BOOLEAN :
                     ArchiveSupplierOrder(o, seen, flag)
        PROVE  PurchaseIInv' /\ ExcessKept /\ CardsMove /\ FreeStockKept
    BY <1>2, CreateOrderKeeps, UpdateOrderKeeps, DeleteOrderKeeps, TouchedOrderKeeps
  <1> QED
    BY <1>1, <1>2 DEF PurchaseStep

LEMMA GoodsStepKeeps ==
    ASSUME PurchaseIInv, GoodsStep
    PROVE  PurchaseIInv' /\ ExcessKept /\ CardsMove /\ FreeStockKept
  BY ReceiveOrderedKeeps, ReceiveUnorderedKeeps, CreateReturnKeeps, ArchiveReturnKeeps,
     CancelReturnKeeps DEF GoodsStep

LEMMA MoneyStepMovesNoGoods ==
    ASSUME PurchaseIInv, MoneyStep
    PROVE  CardsMove /\ FreeStockKept
  <1>1. UNCHANGED <<vars, purchase, return>>
    BY DEF MoneyStep, CreatePayment, CreateRefund, UpdateMovement, DeleteMovement,
           ApproveMovement, PostMovement, CancelMovement
  <1>2. stock' = stock /\ hold' = hold /\ purchase' = purchase /\ return' = return
    BY <1>1 DEF vars
  <1>3. CardsMove
    BY <1>2 DEF CardsMove
  <1>4. FreeStockKept
    BY <1>2, FreeUnchanged DEF PurchaseIInv, IInv
  <1> QED
    BY <1>3, <1>4

LEMMA PurchasingStepKeeps ==
    ASSUME PurchaseIInv, [PurchasingNext]_allVars
    PROVE  PurchaseIInv' /\ ExcessKept /\ CardsMove /\ FreeStockKept
  <1>1. CASE MoneyStep
    BY <1>1, MoneyStepKeeps, MoneyStepMovesNoGoods
  <1>2. CASE WarehouseStep \/ UNCHANGED allVars
    <2>1. [Next]_vars /\ UNCHANGED purchaseVars
      BY <1>2 DEF WarehouseStep, allVars
    <2>2. IInv
      BY DEF PurchaseIInv
    <2>3. IInv'
      BY <2>1, <2>2, StepInv
    <2>4. FreeStockKept
      BY <2>1, <2>2, <2>3, StepKeeps DEF IInv
    <2>5. /\ UNCHANGED <<purchase, receipt, return, movement>>
          /\ totals' \in [ordered : Int, paid : Int] /\ due' \in Nat
      BY <2>1 DEF purchaseVars, PurchaseIInv, PurchaseTables
    <2> QED
      BY <2>3, <2>4, <2>5, StillKeeps
  <1> QED
    BY <1>1, <1>2, PurchaseStepKeeps, GoodsStepKeeps DEF PurchasingNext

LEMMA PurchasingInitInv ==
    ASSUME PurchasingInit
    PROVE  PurchaseIInv
  <1>1. IInv
    BY InitInv DEF PurchasingInit
  <1>2. /\ purchase = [o \in SupplierOrders |-> NoPurchase]
        /\ receipt = [r \in Receipts |-> NoReceipt] /\ return = [t \in Returns |-> NoReturn]
        /\ movement = [k \in Movements |-> NoMovement]
        /\ totals = [ordered |-> 0, paid |-> 0] /\ due = 0
    BY DEF PurchasingInit
  <1>3. /\ NoPurchase \in PurchaseRow /\ NoReceipt \in ReceiptRow /\ NoReturn \in ReturnRow
        /\ NoMovement \in MovementRow
    BY BlankCost DEF NoPurchase, NoReceipt, NoReturn, NoMovement, PurchaseRow, ReceiptRow,
                     ReturnRow, MovementRow
  <1>4. /\ purchase \in PurchaseTable /\ receipt \in ReceiptTable /\ return \in ReturnTable
        /\ movement \in MovementTable
    BY <1>2, <1>3 DEF PurchaseTable, ReceiptTable, ReturnTable, MovementTable
  <1>5. PurchaseTables
    BY <1>2, <1>4 DEF PurchaseTables, OneSide, NoMovement
  <1>6. UnwrittenRows /\ ReceiptsOfOrders /\ ReturnsOfReceipts
    BY <1>2 DEF UnwrittenRows, ReceiptsOfOrders, ReturnsOfReceipts, NoReceipt
  <1>7. ReceiptsAgree
    <2> SUFFICES ASSUME NEW o \in SupplierOrders, NEW l \in Positions
                 PROVE  /\ purchase[o].received[l] = ReceivedSum(receipt, o, l)
                        /\ purchase[o].received[l] <= purchase[o].items[l]
      BY ReceiptsAgreeBy
    <2>1. \A r \in Receipts : [s \in Receipts |-> ReceivedBy(receipt[s], o, l)][r] = 0
      BY <1>2, MovementNumbers DEF ReceivedBy, NoReceipt
    <2>2. ReceivedSum(receipt, o, l) = 0
      BY <2>1, TotalZero DEF ReceivedSum
    <2>3. purchase[o].received[l] = 0 /\ purchase[o].items[l] = 0
      BY <1>2 DEF NoPurchase, Nothing
    <2> QED
      BY <2>2, <2>3
  <1>8. ReturnsWithinReceipts
    <2> SUFFICES ASSUME NEW r \in Receipts, NEW l \in Positions
                 PROVE  Total([t \in Returns |->
                                 IF return[t].receipt = r /\ ~return[t].cancelled
                                 THEN return[t].quantity[l] ELSE 0], Returns)
                          <= receipt[r].quantity[l]
      BY DEF ReturnsWithinReceipts
    <2> DEFINE f == [t \in Returns |-> IF return[t].receipt = r /\ ~return[t].cancelled
                                       THEN return[t].quantity[l] ELSE 0]
    <2>1. \A t \in Returns : f[t] = 0
      BY <1>2 DEF NoReturn, Nothing
    <2>2. receipt[r].quantity[l] = 0
      BY <1>2 DEF NoReceipt, Nothing
    <2> HIDE DEF f
    <2>3. Total(f, Returns) <= receipt[r].quantity[l]
      BY <2>1, <2>2, TotalZero
    <2> QED BY <2>3 DEF f
  <1>9. RefundsWithinReturns
    <2> SUFFICES ASSUME NEW t \in Returns
                 PROVE  Refunds(movement, t, Live, Null)
                          <= IF return[t].cancelled THEN 0 ELSE return[t].amount
      BY DEF RefundsWithinReturns
    <2>1. \A j \in Movements : movement[j]["return"] = t => movement[j].status \notin Live
      BY <1>2 DEF NoMovement, Live
    <2>2. Refunds(movement, t, Live, Null) = 0
      BY <2>1, NoShares, PaymentsAreSums
    <2>3. return[t].amount = 0
      BY <1>2 DEF NoReturn
    <2> QED
      BY <2>2, <2>3
  <1> QED
    BY <1>1, <1>5, <1>6, <1>7, <1>8, <1>9 DEF PurchaseIInv

LEMMA PurchasesTyped ==
    ASSUME PurchaseIInv
    PROVE  PurchasingTypeOK
  BY DEF PurchaseIInv, IInv, PurchaseTables, PurchasingTypeOK, PurchaseTable, ReceiptTable,
         ReceiptRow, ReturnTable, ReturnRow, MovementTable, OneSide

\* Refunds on paper and in the bank stay within the return, and a cancelled return has
\* none ("Деньги по возврату", "Ошибочный возврат"), for any number of returns, of
\* refunds and of hands they pass through.
THEOREM RefundsStayWithinReturns == PurchasingSpec => []RefundsWithinReturns
  <1>1. PurchasingInit => PurchaseIInv
    BY PurchasingInitInv
  <1>2. PurchaseIInv /\ [PurchasingNext]_allVars => PurchaseIInv'
    BY PurchasingStepKeeps
  <1>3. PurchaseIInv => RefundsWithinReturns
    BY DEF PurchaseIInv
  <1> QED
    BY <1>1, <1>2, <1>3, PTL DEF PurchasingSpec

\* No step lets the payments of an order exceed what is owed for it further than they
\* did ("Оплата частями"), whatever is received, returned, edited or refunded meanwhile.
THEOREM DebtBoundsPayments == PurchasingSpec => PaymentsWithinDebt
  <1>1. PurchasingInit => PurchaseIInv
    BY PurchasingInitInv
  <1>2. PurchaseIInv /\ [PurchasingNext]_allVars => PurchaseIInv' /\ [ExcessKept]_allVars
    BY PurchasingStepKeeps
  <1> QED
    BY <1>1, <1>2, PTL DEF PurchasingSpec, PaymentsWithinDebt

\* Receipts, returns and cards tell the same of an order's goods, a card that changed has
\* a new version, and a return leaves alone what others were promised.
THEOREM GoodsTellTheSame == PurchasingSpec => GoodsAgree
  <1>1. PurchasingInit => PurchaseIInv
    BY PurchasingInitInv
  <1>2. PurchaseIInv /\ [PurchasingNext]_allVars
          => PurchaseIInv' /\ CardsMove /\ FreeStockKept
    BY PurchasingStepKeeps
  <1>3. PurchaseIInv => PurchasingTypeOK /\ ReceiptsAgree /\ ReturnsWithinReceipts
    BY PurchasesTyped DEF PurchaseIInv
  <1>4. PurchasingSpec => [](PurchasingTypeOK /\ ReceiptsAgree /\ ReturnsWithinReceipts)
    BY <1>1, <1>2, <1>3, PTL DEF PurchasingSpec
  <1>5. PurchasingSpec => [][CardsMove]_allVars
    BY <1>1, <1>2, PTL DEF PurchasingSpec
  <1>6. PurchasingSpec => ReturnsRespectFreeStock
    BY <1>1, <1>2, PTL DEF PurchasingSpec, ReturnsRespectFreeStock
  <1>7. [][CardsMove]_allVars => PurchaseCardsMove
    <2>1. CardsMove =>
            \A o \in SupplierOrders :
               \/ purchase'[o].status = "deleted"
               \/ purchase'[o].version = purchase[o].version + 1
               \/ purchase'[o] = purchase[o] /\ Credit(return', o) = Credit(return, o)
      BY DEF CardsMove
    <2> QED
      BY <2>1, PTL DEF PurchaseCardsMove
  <1> QED
    BY <1>4, <1>5, <1>6, <1>7, PTL DEF GoodsAgree
=============================================================================
