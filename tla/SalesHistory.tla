---------------------------- MODULE SalesHistory ----------------------------
(***************************************************************************)
(* Customer orders of the former system become orders of this one          *)
(* (sales/importer.py), while goods are held and handed out for them       *)
(* (warehouse/reservations.py) and, once they are here, shipped            *)
(* (sales/service.py).  A hold is bound to the order of the former system  *)
(* until the import binds it to the order it makes; what the former system *)
(* shipped and what was handed out from such holds is the order's opening  *)
(* quantity.  An order has one line.  The import is a script in one        *)
(* transaction: it reads everything first and writes last, under no lock,   *)
(* and people go on working meanwhile.  `slipped' is a history variable:     *)
(* what was issued or held by requests that looked for the order before the *)
(* import and finished behind its back.                                     *)
(***************************************************************************)
EXTENDS Quantities

CONSTANTS
    Orders,         \* orders of the former system
    Demands,        \* shipments of the former system
    Storekeepers,   \* requests that may run at once
    Ordered,        \* quantity of an order's line
    MaxHolds,       \* bound: holds that are made
    MaxWorks        \* bound: requests that begin

ASSUME HistoryAssumption == Ordered \in Nat \ {0} /\ {MaxHolds, MaxWorks} \subseteq Nat

VARIABLES
    source,         \* by order: what was shipped there and whether it is in force
    links,          \* by former shipment: the order it names and those its invoices name
    native,         \* by order: the order made here
    past,           \* former shipments that were taken over, with their orders
    holds,          \* by number
    works,          \* by storekeeper: a request whose first checks have passed
    script,         \* what the import has read
    given,          \* by order: goods really handed out, here and there
    slipped,        \* by order: what requests took that an import did not see
    attempts           \* counter of the bound

historyVars == <<source, links, native, past, holds, works, script, given, slipped, attempts>>

NotMade == [there |-> FALSE, opening |-> 0, shipped |-> 0, status |-> "draft"]
NoWork == [op |-> "none"]
NotRun == [runs |-> FALSE, opening |-> <<>>]

HistoryInit ==
    /\ source \in [Orders -> [shipped : 0..1, applicable : BOOLEAN]]
    /\ links \in [Demands -> [direct : {s \in SUBSET Orders : Cardinality(s) <= 1}, invoices : SUBSET Orders]]
    /\ native = [o \in Orders |-> NotMade]
    /\ past = [d \in Demands |-> {}]
    /\ holds = [h \in 1..0 |-> NotMade]
    /\ works = [k \in Storekeepers |-> NoWork]
    /\ script = NotRun
    /\ given = [o \in Orders |-> source[o].shipped]
    /\ slipped = [o \in Orders |-> 0]
    /\ attempts = 0

remaining(h) == holds[h].quantity - holds[h].released - holds[h].consumed

\* Columns of the table of holds
Remaining == [h \in DOMAIN holds |-> remaining(h)]
Consumed  == [h \in DOMAIN holds |-> holds[h].consumed]
Promised  == [h \in DOMAIN holds |-> holds[h].quantity - holds[h].released]

\* Those of the order made here, and those still bound to the former one
order_holds(o) == {h \in DOMAIN holds : holds[h].order = o}
SourceHolds(o) == {h \in order_holds(o) : holds[h].bound = "source"}

\* What is left to hold of an order of the former system: holds the import
\* has bound to the new order are not looked at
order_capacity(o) ==
    AtLeast(0, Ordered - (source[o].shipped + Total(Promised, SourceHolds(o))))

shipped(o) == native[o].opening + native[o].shipped

remaining_to_reserve(o) ==
    AtLeast(0, Ordered - (shipped(o) + Total(Remaining, order_holds(o))))

-----------------------------------------------------------------------------
(* Holds and shipments *)

Attempts(k) == works[k] = NoWork /\ attempts < MaxWorks /\ attempts' = attempts + 1
Answer(k, what) == works' = [works EXCEPT ![k] = what]

NewHold(o, bound, q) ==
    [order |-> o, bound |-> bound, quantity |-> q, consumed |-> 0, released |-> 0, version |-> 0]

\* With the next number
HoldsAnd(row) ==
    LET n == Cardinality(DOMAIN holds) + 1 IN [h \in DOMAIN holds \union {n} |-> IF h = n THEN row ELSE holds[h]]

\* A hold of an order that is here already is bound to it at once, under its lock;
\* otherwise the order of the former system is locked in the next step
create_reservation(k, o) ==
    /\ Attempts(k)
    /\ \/ /\ ~native[o].there
          /\ \E q \in 1..Ordered : Answer(k, [op |-> "reserve", order |-> o, quantity |-> q])
          /\ UNCHANGED holds
       \/ /\ native[o].there /\ native[o].status = "confirmed"
          /\ Cardinality(DOMAIN holds) < MaxHolds
          /\ \E q \in 1..remaining_to_reserve(o) : holds' = HoldsAnd(NewHold(o, "native", q))
          /\ UNCHANGED works
    /\ UNCHANGED <<source, links, native, past, script, given, slipped>>

\* The order was looked for before its import and is here by now
BehindTheImport(o, q) == slipped' = IF native[o].there THEN [slipped EXCEPT ![o] = @ + q] ELSE slipped

SourceIsHeld(k) ==
    /\ works[k].op = "reserve"
    /\ LET o == works[k].order
           fits == source[o].applicable /\ works[k].quantity <= order_capacity(o)
       IN /\ fits => Cardinality(DOMAIN holds) < MaxHolds
          /\ IF fits
             THEN holds' = HoldsAnd(NewHold(o, "source", works[k].quantity)) /\ BehindTheImport(o, works[k].quantity)
             ELSE UNCHANGED <<holds, slipped>>
    /\ Answer(k, NoWork)
    /\ UNCHANGED <<source, links, native, past, script, given, attempts>>

\* Goods of an order that is here are handed out by a shipment only; that is
\* looked at before the hold is locked
IssueAsked(k, h) ==
    /\ Attempts(k)
    /\ holds[h].bound = "source" /\ ~native[holds[h].order].there
    /\ \E q \in 1..Ordered : Answer(k, [op |-> "issue", hold |-> h, quantity |-> q, version |-> holds[h].version])
    /\ UNCHANGED <<source, links, native, past, holds, script, given, slipped>>

\* The version is the one the person saw; the import does not change it
locked_change(h, q, version) == holds[h].version = version /\ q <= remaining(h)

issue(k) ==
    /\ works[k].op = "issue"
    /\ LET h == works[k].hold
           q == works[k].quantity
           row == holds[h]
           ok == locked_change(h, q, works[k].version)
                 /\ (row.bound = "source" => source[row.order].applicable)
       IN IF ok
          THEN /\ holds' = [holds EXCEPT ![h] = [row EXCEPT !.consumed = row.consumed + q, !.version = row.version + 1]]
               /\ given' = [given EXCEPT ![row.order] = @ + q]
               /\ BehindTheImport(row.order, q)
          ELSE UNCHANGED <<holds, given, slipped>>
    /\ Answer(k, NoWork)
    /\ UNCHANGED <<source, links, native, past, script, attempts>>

release(k, h) ==
    /\ Attempts(k)
    /\ LET row == holds[h] IN
       \E q \in 1..Ordered :
         /\ locked_change(h, q, row.version)
         /\ holds' = [holds EXCEPT ![h] = [row EXCEPT !.released = row.released + q, !.version = row.version + 1]]
    /\ UNCHANGED <<source, links, native, past, works, script, given, slipped>>

UsedUp(row, q) == [row EXCEPT !.consumed = row.consumed + q, !.version = row.version + 1]

\* The holds of an order when so much is left of each
HoldsLeft(o, left) ==
    [h \in DOMAIN holds |->
        IF h \in order_holds(o) /\ left[h] < remaining(h)
        THEN UsedUp(holds[h], remaining(h) - left[h]) ELSE holds[h]]

\* Under the lock of the order; the order's holds are used up, oldest first
post_shipment(k, o) ==
    /\ Attempts(k)
    /\ native[o].there /\ native[o].status = "confirmed"
    /\ \E q \in 1..Ordered, left \in [order_holds(o) -> 0..Ordered] :
         /\ shipped(o) + q <= Ordered
         /\ TakenInOrder(Remaining, left, order_holds(o), q)
         /\ native' = [native EXCEPT ![o].shipped = @ + q]
         /\ holds' = HoldsLeft(o, left)
         /\ given' = [given EXCEPT ![o] = @ + q]
    /\ UNCHANGED <<source, links, past, works, script, slipped>>

confirm_order(k, o) ==
    /\ Attempts(k)
    /\ native[o].there /\ native[o].status = "draft"
    /\ native' = [native EXCEPT ![o].status = "confirmed"]
    /\ UNCHANGED <<source, links, past, holds, works, script, given, slipped>>

-----------------------------------------------------------------------------
(* The script *)

\* The orders a former shipment belongs to, by its own link or by its invoices
candidates(d) == links[d].direct \union links[d].invoices

ImportReads ==
    /\ ~script.runs
    /\ attempts < MaxWorks /\ attempts' = attempts + 1
    /\ script' = [runs |-> TRUE, opening |-> [o \in {x \in Orders : ~native[x].there} |->
                     [quantity |-> source[o].shipped + Total(Consumed, SourceHolds(o)),
                      holds |-> SourceHolds(o)]]]
    /\ UNCHANGED <<source, links, native, past, holds, works, given, slipped>>

\* All or nothing: more handed out than ordered, or a shipment of two orders, stops it
Reconciled ==
    /\ \A o \in DOMAIN script.opening : script.opening[o].quantity <= Ordered
    /\ \A d \in Demands : past[d] = {} => Cardinality(candidates(d)) <= 1

import_native ==
    /\ script.runs
    /\ script' = NotRun
    /\ IF Reconciled
       THEN /\ native' = [o \in Orders |-> IF o \notin DOMAIN script.opening THEN native[o] ELSE
                  [there |-> TRUE, opening |-> script.opening[o].quantity, shipped |-> 0,
                   status |-> IF source[o].applicable THEN "confirmed" ELSE "draft"]]
            /\ holds' = [h \in DOMAIN holds |->
                  IF \E o \in DOMAIN script.opening : h \in script.opening[o].holds
                  THEN [holds[h] EXCEPT !.bound = "native"] ELSE holds[h]]
            /\ past' = [d \in Demands |-> IF past[d] # {} THEN past[d] ELSE
                  IF candidates(d) = {} THEN {"unlinked"} ELSE candidates(d)]
            /\ slipped' = [o \in Orders |-> IF o \notin DOMAIN script.opening THEN slipped[o]
                                           ELSE given[o] - script.opening[o].quantity]
       ELSE UNCHANGED <<native, holds, past, slipped>>
    /\ UNCHANGED <<source, links, works, given, attempts>>

HistoryNext ==
    \/ ImportReads \/ import_native
    \/ \E k \in Storekeepers :
        \/ SourceIsHeld(k) \/ issue(k)
        \/ \E o \in Orders : create_reservation(k, o) \/ post_shipment(k, o) \/ confirm_order(k, o)
        \/ \E h \in DOMAIN holds : IssueAsked(k, h) \/ release(k, h)

HistorySpec == HistoryInit /\ [][HistoryNext]_historyVars

-----------------------------------------------------------------------------
(* What the former system shipped, what was issued from holds before the   *)
(* import, what was shipped after it and what is still held fit into the    *)
(* order together, before and after its holds are converted (the opening   *)
(* quantity of import_native, order_capacity and remaining_to_reserve count *)
(* the same goods).  An import beside people at work exceeds it by what the *)
(* requests it overtook took and no more: nothing grows from there.         *)
PromisesFit == \A o \in Orders : given[o] + Total(Remaining, order_holds(o)) <= Ordered + slipped[o]

(* The card of an order that is here counts what was handed out for it, but *)
(* for what such requests took: the import takes over neither too much nor  *)
(* anything twice, in however many runs.                                    *)
CardCountsGoods ==
    \A o \in Orders : native[o].there => given[o] - shipped(o) \in 0..slipped[o]

(* Stated and refuted: no more is handed out than was ordered.              *)
NeverOvershipped == \A o \in Orders : given[o] <= Ordered
=============================================================================
