----------------------------- MODULE PriceLists -----------------------------
(***************************************************************************)
(* A supplier and the rows of his price list (app/warehouse: service.py,   *)
(* price_import.py and the handlers of router.py).  Rows come from a table *)
(* with a column for every size of a batch, or by hand; the model fills in *)
(* categories while people edit the same rows; the supplier may be deleted *)
(* while an order to him is written.                                       *)
(***************************************************************************)
EXTENDS Naturals, FiniteSets, Sequences, FiniteSetsExt

CONSTANTS
    Columns,        \* thresholds of the columns of the table, "price from ...", in order
    MaxQty,         \* bound: quantities that are asked for
    Fillers,        \* requests to the model that may run at once
    MaxItems,       \* bound: rows that are ever made
    MaxPriceEdits        \* bound: requests that begin

ASSUME ColumnsAssumption ==
    /\ MaxQty \in Nat /\ Columns \in Seq(0..MaxQty)
    /\ \A i, j \in DOMAIN Columns : i < j => Columns[i] < Columns[j]

VARIABLES
    supplier,       \* whether he is there, his chat, orders to him
    items,          \* his rows by number
    rowsMade,           \* rows ever made
    fills,          \* what a request to the model has read
    deletes,        \* a deletion whose checks have passed
    priceBackfills,      \* open tasks to fill in what is missing
    priceEdits           \* counter of the bound

priceVars == <<supplier, items, rowsMade, fills, deletes, priceBackfills, priceEdits>>

NoLimit == MaxQty + 1
NoPrice == 0
NoCategory == "blank"
NoFill == [on |-> FALSE, blanks |-> {}]

PricesInit ==
    /\ supplier = [there |-> TRUE, chat |-> FALSE, orders |-> 0]
    /\ items = [i \in {} |-> NoCategory]
    /\ rowsMade = 0
    /\ fills = [f \in Fillers |-> NoFill]
    /\ deletes = FALSE
    /\ priceBackfills = 0
    /\ priceEdits = 0

-----------------------------------------------------------------------------
(* Rows and prices *)

Tier(low, high, price) == [min |-> low, max |-> high, price |-> price]

\* Deviation: a tier reaches up to the next column that has a price
build_gapless_rows(priced) ==
    LET Up(c) == LET above == {d \in priced : d > c} IN IF above = {} THEN NoLimit ELSE Columns[Min(above)]
        Nth(n) == CHOOSE c \in priced : Cardinality({d \in priced : d <= c}) = n
    IN [n \in 1..Cardinality(priced) |-> Tier(Columns[Nth(n)], Up(Nth(n)), Nth(n))]

\* One tier for every column that has a price, up to the next column, whether
\* that one has a price or not; the price stands for its column
build_price_rows(priced) ==
    LET Up(c) == IF c = Len(Columns) THEN NoLimit ELSE Columns[c + 1]
        TierOf(c) == Tier(Columns[c], Up(c), c)
        Nth(n) == CHOOSE c \in priced : Cardinality({d \in priced : d <= c}) = n
    IN [n \in 1..Cardinality(priced) |-> TierOf(Nth(n))]

\* The first tier the quantity is in
price_for_qty(tiers, q) ==
    LET Has(n) == q >= tiers[n].min /\ (tiers[n].max = NoLimit \/ q <= tiers[n].max)
        fitting == {n \in DOMAIN tiers : Has(n)}
    IN IF fitting = {} THEN NoPrice ELSE tiers[Min(fitting)].price

\* A table with one column of prices
Single == <<Tier(0, NoLimit, 1)>>

_validate_price_item(tiers) == \E n \in DOMAIN tiers : tiers[n].price # NoPrice

PriceRow(tiers, category, lead, priced) ==
    [tiers |-> tiers, category |-> category, lead |-> lead, priced |-> priced]

-----------------------------------------------------------------------------
(* Requests *)

PriceAsked == supplier.there /\ priceEdits < MaxPriceEdits /\ priceEdits' = priceEdits + 1

Adds(row) ==
    /\ rowsMade < MaxItems
    /\ rowsMade' = rowsMade + 1
    /\ items' = [i \in DOMAIN items \union {rowsMade + 1} |-> IF i \in DOMAIN items THEN items[i] ELSE row]

\* Columns are told apart by the model or by a dictionary; a row without a price is
\* skipped, and the table is refused if it has no columns of prices at all
import_price_list ==
    /\ PriceAsked
    /\ \E lead \in BOOLEAN, category \in {NoCategory, "imported"} :
        \/ \E priced \in SUBSET DOMAIN Columns :
            IF priced = {} THEN UNCHANGED <<items, rowsMade>>
            ELSE Adds(PriceRow(build_price_rows(priced), category, lead, priced))
        \/ Adds(PriceRow(Single, category, lead, {}))
    /\ UNCHANGED <<supplier, fills, deletes, priceBackfills>>

\* Tiers written by hand may overlap and may lack prices
ByHand == {<<>>, <<Tier(0, NoLimit, NoPrice)>>, <<Tier(0, 1, 1), Tier(1, NoLimit, NoPrice)>>, Single}

add_price_item ==
    /\ PriceAsked
    /\ \E tiers \in ByHand : _validate_price_item(tiers) /\ Adds(PriceRow(tiers, NoCategory, FALSE, {}))
    /\ UNCHANGED <<supplier, fills, deletes, priceBackfills>>

update_price_item(i) ==
    /\ PriceAsked
    /\ \/ \E tiers \in ByHand : _validate_price_item(tiers)
            /\ items' = [items EXCEPT ![i].tiers = tiers, ![i].priced = {}]
       \/ \E category \in {NoCategory, "chosen"} : items' = [items EXCEPT ![i].category = category]
       \/ \E lead \in BOOLEAN : items' = [items EXCEPT ![i].lead = lead]
    /\ UNCHANGED <<supplier, rowsMade, fills, deletes, priceBackfills>>

WithoutRow(i) == [j \in DOMAIN items \ {i} |-> items[j]]

delete_price_item(i) ==
    /\ PriceAsked
    /\ items' = WithoutRow(i)
    /\ UNCHANGED <<supplier, rowsMade, fills, deletes, priceBackfills>>

\* The blank rows are read, and the model asked of them
ai_fill_categories(f) ==
    /\ PriceAsked /\ fills[f] = NoFill
    /\ LET blanks == {i \in DOMAIN items : items[i].category = NoCategory} IN
       /\ blanks # {}
       /\ fills' = [fills EXCEPT ![f] = [on |-> TRUE, blanks |-> blanks]]
    /\ UNCHANGED <<supplier, items, rowsMade, deletes, priceBackfills>>

\* What it is sure of is written, whatever the rows hold by now; if one of them is
\* gone the whole request fails
ai_assign_categories(f) ==
    /\ fills[f].on
    /\ \E sure \in SUBSET fills[f].blanks :
        items' = IF sure \subseteq DOMAIN items
                 THEN [i \in DOMAIN items |-> IF i \in sure THEN [items[i] EXCEPT !.category = "guessed"] ELSE items[i]]
                 ELSE items
    /\ fills' = [fills EXCEPT ![f] = NoFill]
    /\ UNCHANGED <<supplier, rowsMade, deletes, priceBackfills, priceEdits>>

\* Every press makes another task
create_backfill_task ==
    /\ PriceAsked
    /\ priceBackfills' = priceBackfills + 1
    /\ UNCHANGED <<supplier, items, rowsMade, fills, deletes>>

link_max_chat ==
    /\ PriceAsked
    /\ \E chat \in BOOLEAN : supplier' = [supplier EXCEPT !.chat = chat]
    /\ UNCHANGED <<items, rowsMade, fills, deletes, priceBackfills>>

\* An order to the supplier is written by the accounting
OrderIsWritten ==
    /\ PriceAsked
    /\ supplier' = [supplier EXCEPT !.orders = @ + 1]
    /\ UNCHANGED <<items, rowsMade, fills, deletes, priceBackfills>>

\* No receipts, no orders: then the rows go with the supplier, unless an order came
\* between, which the database tells
delete_supplier ==
    /\ PriceAsked
    /\ ~deletes /\ supplier.orders = 0
    /\ deletes' = TRUE
    /\ UNCHANGED <<supplier, items, rowsMade, fills, priceBackfills>>

SupplierGoes ==
    /\ deletes
    /\ deletes' = FALSE
    /\ IF supplier.orders = 0
       THEN supplier' = [supplier EXCEPT !.there = FALSE] /\ items' = [i \in {} |-> NoCategory]
       ELSE UNCHANGED <<supplier, items>>
    /\ UNCHANGED <<rowsMade, fills, priceBackfills, priceEdits>>

PricesNext ==
    \/ import_price_list \/ add_price_item \/ create_backfill_task \/ link_max_chat
    \/ OrderIsWritten \/ delete_supplier \/ SupplierGoes
    \/ \E i \in DOMAIN items : update_price_item(i) \/ delete_price_item(i)
    \/ \E f \in Fillers : ai_fill_categories(f) \/ ai_assign_categories(f)

PricesSpec == PricesInit /\ [][PricesNext]_priceVars

-----------------------------------------------------------------------------
\* What a row of the table says of a quantity: the column below it, or the column
\* that begins with it when the one below is blank; a blank column is a gap
Quoted(priced, q) ==
    LET below == {c \in DOMAIN Columns : Columns[c] < q}
        own == {c \in priced : Columns[c] = q}
    IN IF below # {} /\ Max(below) \in priced THEN Max(below)
       ELSE IF own # {} THEN Min(own) ELSE NoPrice

\* Every row has a price, through whichever door it came (models.py, "at least one
\* tier with a price"), and an imported row quotes what its columns say
RowsQuoteTheirColumns ==
    \A i \in DOMAIN items :
        /\ _validate_price_item(items[i].tiers)
        /\ items[i].priced # {} => \A q \in 0..MaxQty : price_for_qty(items[i].tiers, q) = Quoted(items[i].priced, q)

\* What overlapping tiers refute, not among the runs: the price "from N" is asked
\* from N on
FromMeansFrom ==
    \A i \in DOMAIN items : \A c \in items[i].priced :
        Columns[c] <= MaxQty => price_for_qty(items[i].tiers, Columns[c]) = c

\* What a person who is faster refutes, not among the runs: only blank rows are
\* filled (service.py, ai_fill_categories)
ChosenStays == [][\A i \in DOMAIN items \intersect DOMAIN items' :
                      items[i].category = "chosen" => items'[i].category # "guessed"]_priceVars
=============================================================================
