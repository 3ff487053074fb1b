---------------------------- MODULE MaterialCards ----------------------------
(***************************************************************************)
(* The card of a material (app/warehouse/service.py): its code, which is   *)
(* unique in a warehouse, its unit, which must not change once something   *)
(* is counted in it, and the stock a table of deliveries adds to.  What    *)
(* changes the stock locks the card; an order of a customer only reads it, *)
(* and so does a table whose code was not known when it was looked up.     *)
(* After it, recipes and production by them.                               *)
(***************************************************************************)
EXTENDS Quantities

CONSTANTS
    Codes,          \* codes of cards
    Known,          \* those that have a card in the beginning
    Desks,          \* requests that may run at once
    MaxTurns        \* bound: requests that begin

NoDesk == "nobody"

ASSUME KnownAssumption == Known \subseteq Codes /\ NoDesk \notin Desks

VARIABLES
    cards,      \* a card: there, unit, archived, stock, and the sum of its movements
    locks,      \* whose lock a card is under
    cardLines,      \* lines of customers' orders: code, unit, whether issued
    cardHolds,      \* reservations: code, unit
    cardDesks,      \* what a request has read
    turns,      \* counter of the bound
    unlocked    \* history: a table wrote to a card it had neither locked nor made

materialVars == <<cards, locks, cardLines, cardHolds, cardDesks, turns, unlocked>>

UnitsOfCards == {"piece", "metre"}
Resting == [step |-> "idle", code |-> "none", unit |-> "piece", stock |-> 0, makes |-> FALSE]
Unmade == [there |-> FALSE, unit |-> "piece", archived |-> FALSE, stock |-> 0, moved |-> 0]

CardsInit ==
    /\ cards = [c \in Codes |-> [Unmade EXCEPT !.there = c \in Known]]
    /\ locks = [c \in Codes |-> NoDesk]
    /\ cardLines = {}
    /\ cardHolds = {}
    /\ cardDesks = [d \in Desks |-> Resting]
    /\ turns = 0
    /\ unlocked = FALSE

TurnBegins(d) == cardDesks[d] = Resting /\ turns < MaxTurns /\ turns' = turns + 1
DeskWorks(d, work) == cardDesks' = [cardDesks EXCEPT ![d] = work]
Open(c) == cards[c].there /\ locks[c] = NoDesk

-----------------------------------------------------------------------------
(* Requests that are done under the lock of the card from the first read to the commit *)

\* suggest_material_code offers a code that is free, two people may be offered one;
\* the second is refused
create_material(d, c) ==
    /\ TurnBegins(d)
    /\ ~cards[c].there /\ locks[c] = NoDesk
    /\ \E unit \in UnitsOfCards : cards' = [cards EXCEPT ![c] = [Unmade EXCEPT !.there = TRUE, !.unit = unit]]
    /\ UNCHANGED <<locks, cardLines, cardHolds, cardDesks, unlocked>>

Counted(c) == (\E h \in cardHolds : h.code = c) \/ (\E l \in cardLines : l.code = c)

update_material(d, c) ==
    /\ TurnBegins(d) /\ Open(c)
    /\ \/ ~Counted(c) /\ \E unit \in UnitsOfCards : cards' = [cards EXCEPT ![c].unit = unit]
       \/ cards' = [cards EXCEPT ![c].archived = ~@]
    /\ UNCHANGED <<locks, cardLines, cardHolds, cardDesks, unlocked>>

Moved(c, n) ==
    LET card == cards[c] IN [cards EXCEPT ![c] = [card EXCEPT !.stock = card.stock + n, !.moved = card.moved + n]]

\* A delivery, or a receipt, of a card that is known
create_supply(d, c) ==
    /\ TurnBegins(d) /\ Open(c) /\ ~cards[c].archived
    /\ cards' = Moved(c, 1)
    /\ UNCHANGED <<locks, cardLines, cardHolds, cardDesks, unlocked>>

\* A reservation is counted in the unit of the card as it is now
reserve(d, l) ==
    /\ TurnBegins(d) /\ l \in cardLines /\ ~l.issued /\ Open(l.code) /\ ~cards[l.code].archived
    /\ Cardinality({h \in cardHolds : h.code = l.code}) < cards[l.code].stock
    /\ cardHolds' = cardHolds \union {[code |-> l.code, unit |-> cards[l.code].unit, of |-> l.number]}
    /\ UNCHANGED <<cards, locks, cardLines, cardDesks, unlocked>>

\* validate_materials: the unit of the line is compared with the card, under its lock
post_card_shipment(d, l) ==
    /\ TurnBegins(d) /\ l \in cardLines /\ ~l.issued /\ Open(l.code) /\ ~cards[l.code].archived
    /\ l.unit = cards[l.code].unit
    /\ cards[l.code].stock > 0
    /\ cards' = Moved(l.code, -1)
    /\ cardLines' = (cardLines \ {l}) \union {[l EXCEPT !.issued = TRUE]}
    /\ cardHolds' = {h \in cardHolds : h.of # l.number}
    /\ UNCHANGED <<locks, cardDesks, unlocked>>

-----------------------------------------------------------------------------
(* An order reads the card and is written later *)

normalize_lines(d, c) ==
    /\ TurnBegins(d) /\ cards[c].there /\ ~cards[c].archived
    /\ DeskWorks(d, [Resting EXCEPT !.step = "order", !.code = c, !.unit = cards[c].unit])
    /\ UNCHANGED <<cards, locks, cardLines, cardHolds, unlocked>>

create_order(d) ==
    /\ cardDesks[d].step = "order"
    /\ cardLines' = cardLines \union {[number |-> Cardinality(cardLines) + 1, code |-> cardDesks[d].code, unit |-> cardDesks[d].unit, issued |-> FALSE]}
    /\ DeskWorks(d, Resting)
    /\ UNCHANGED <<cards, locks, cardHolds, turns, unlocked>>

-----------------------------------------------------------------------------
(* A table of deliveries *)

\* The codes that have a card are locked
import_supply(d, c) ==
    /\ TurnBegins(d) /\ locks[c] = NoDesk
    /\ locks' = [locks EXCEPT ![c] = IF cards[c].there THEN d ELSE NoDesk]
    /\ DeskWorks(d, [Resting EXCEPT !.step = "import", !.code = c])
    /\ UNCHANGED <<cards, cardLines, cardHolds, unlocked>>

\* A row finds its card, which may have appeared since, or makes one
RowReads(d) ==
    /\ cardDesks[d].step = "import"
    /\ LET c == cardDesks[d].code IN
       /\ DeskWorks(d, [cardDesks[d] EXCEPT !.step = "row", !.stock = cards[c].stock, !.makes = ~cards[c].there])
       /\ IF cards[c].there THEN UNCHANGED locks
          ELSE locks[c] = NoDesk /\ locks' = [locks EXCEPT ![c] = d]
    /\ UNCHANGED <<cards, cardLines, cardHolds, turns, unlocked>>

\* The stock that was read, with what is delivered, is written and journalled; a
\* card in the archive, and a code that another has just taken, fail the table
RowWrites(d) ==
    LET c == cardDesks[d].code   card == cards[c] IN
    /\ cardDesks[d].step = "row" /\ locks[c] \in {d, NoDesk}
    /\ locks' = [locks EXCEPT ![c] = NoDesk]
    /\ DeskWorks(d, Resting)
    /\ IF cards[c].archived
       THEN UNCHANGED <<cards, unlocked>>
       ELSE /\ cards' = [cards EXCEPT ![c] = [card EXCEPT !.there = TRUE, !.stock = cardDesks[d].stock + 1,
                                                          !.moved = card.moved + 1]]
            /\ unlocked' = (unlocked \/ locks[c] # d)
    /\ UNCHANGED <<cardLines, cardHolds, turns>>

\* A row without a unit, or of another warehouse: the whole table is refused
ImportFails(d) ==
    /\ cardDesks[d].step \in {"import", "row"}
    /\ locks' = [c \in Codes |-> IF locks[c] = d THEN NoDesk ELSE locks[c]]
    /\ DeskWorks(d, Resting)
    /\ UNCHANGED <<cards, cardLines, cardHolds, turns, unlocked>>

CardsNext == \E d \in Desks :
    \/ \E c \in Codes : create_material(d, c) \/ update_material(d, c) \/ create_supply(d, c)
                        \/ normalize_lines(d, c) \/ import_supply(d, c)
    \/ \E l \in cardLines : reserve(d, l) \/ post_card_shipment(d, l)
    \/ create_order(d) \/ RowReads(d) \/ RowWrites(d) \/ ImportFails(d)

CardsSpec == CardsInit /\ [][CardsNext]_materialVars

-----------------------------------------------------------------------------
\* What is reserved or issued is counted in the unit of the card, whatever an order
\* had read before the unit changed (service.py, update_material: "for another unit
\* make a new card"), and the stock is the sum of the movements unless a table wrote
\* to a card it had not locked
CardsAgree ==
    /\ \A h \in cardHolds : h.unit = cards[h.code].unit
    /\ \A l \in cardLines : l.issued => l.unit = cards[l.code].unit
    /\ unlocked \/ \A c \in Codes : cards[c].stock = cards[c].moved

\* What an order that was being written refutes, not among the runs: every line is
\* in the unit of its card, so that it can be issued
LinesKeepTheirUnit == \A l \in cardLines : l.unit = cards[l.code].unit

\* What a code that appears under two tables refutes, not among the runs
StockIsJournalled == \A c \in Codes : cards[c].stock = cards[c].moved

------------------------------------------------------------------------------
(***************************************************************************)
(* Recipes and production by them (app/moysklad/recipes.py).  A recipe is  *)
(* edited under a version; a run of production carries the identifier of   *)
(* its request, is inserted first, and holds the row of its recipe from    *)
(* then on.  Stock moves elsewhere meanwhile (app/warehouse).  It shares   *)
(* no state with the cards above.                                          *)
(***************************************************************************)

CONSTANTS
    Materials,
    Home,           \* by material: its warehouse
    LinkedTo,         \* by position of the former system: the materials made of it
    Contents,       \* what a recipe may say: [inputs, outputs], bags of lines; a line
                    \* is a material or a position of the former system
    Makers,         \* people who produce
    RunIds,       \* identifiers of their requests
    OpeningStock,   \* of every material, at the start
    MaxVersion,     \* bound: versions of the recipe
    MaxElsewhere,   \* bound: changes of the stock by others
    MaxTries        \* bound: requests that begin

ASSUME RecipesAssumption ==
    /\ {OpeningStock, MaxVersion, MaxElsewhere, MaxTries} \subseteq Nat
    /\ \A s \in DOMAIN LinkedTo : LinkedTo[s] \subseteq Materials
    /\ \A c \in Contents : \A lines \in {c.inputs, c.outputs} :
          IsFiniteSet(DOMAIN lines) /\ \A l \in DOMAIN lines : lines[l] \in Nat

VARIABLES
    recipe,         \* its content, version, whether it is in the archive
    stock,          \* by material
    held,           \* by material: promised to orders and houses
    archived,       \* materials in the archive
    runs,           \* by identifier: the run that was committed
    makes,          \* by maker: how far his request has come
    journal,        \* by material: the sum of its movements
    versions,         \* versions the recipe has had
    answered,           \* answers that were given, by identifier
    tries, elsewhere    \* counters of the bounds

recipeVars == <<recipe, stock, held, archived, runs, makes, journal, versions, answered, tries, elsewhere>>

Warehouses == {Home[m] : m \in Materials}
Multipliers == 1..2
NoRun == [by |-> "nobody"]
NotMaking == [at |-> "idle"]
Unresolved == "unresolved"

RecipesInit ==
    /\ \E c \in Contents : recipe = [content |-> c, version |-> 1, archived |-> FALSE]
    /\ stock = [m \in Materials |-> OpeningStock]
    /\ held = [m \in Materials |-> 0]
    /\ archived = {}
    /\ runs = [u \in RunIds |-> NoRun]
    /\ makes = [k \in Makers |-> NotMaking]
    /\ journal = [m \in Materials |-> 0]
    /\ versions = {[version |-> 1, content |-> recipe.content]}
    /\ answered = [u \in RunIds |-> {}]
    /\ tries = 0 /\ elsewhere = 0

available(m) == stock[m] - held[m]

\* A line's material in the warehouse: by its number, or the only one made of its
\* position of the former system there
resolve(line, warehouse) ==
    LET there == {m \in IF line \in DOMAIN LinkedTo THEN LinkedTo[line] ELSE {line} : Home[m] = warehouse}
    IN IF Cardinality(there) = 1 THEN CHOOSE m \in there : TRUE ELSE Unresolved

\* Whether every line has its material, and how much of each there is
resolve_lines(lines, warehouse) == \A l \in DOMAIN lines : resolve(l, warehouse) \in Materials \ archived

grouped(lines, p) ==
    [m \in Materials |-> p.multiplier * Total(lines, {l \in DOMAIN lines : resolve(l, p.warehouse) = m})]

-----------------------------------------------------------------------------
(* The recipe.  Whoever edits or produces locks its row, and a run that is *)
(* inserted refers to it                                                   *)

Referring == {k \in Makers : makes[k].at \in {"inserted", "resolved"}}

\* The version is the one the editor saw
update_recipe(version) ==
    /\ Referring = {}
    /\ version = recipe.version /\ version < MaxVersion
    /\ \E c \in Contents, a \in BOOLEAN :
        /\ recipe' = [content |-> c, version |-> version + 1, archived |-> a]
        /\ versions' = versions \union {[version |-> version + 1, content |-> c]}
    /\ UNCHANGED <<stock, held, archived, runs, makes, journal, answered, tries, elsewhere>>

-----------------------------------------------------------------------------
(* Production *)

Moves(k, record) == makes' = [makes EXCEPT ![k] = record]

\* A request that was carried out is answered with its run, if it asked for the same
existing(k, u, p) == IF runs[u].by = k /\ runs[u].params = p THEN runs[u] ELSE NoRun

manufacture(k, u, p) ==
    /\ makes[k] = NotMaking /\ tries < MaxTries /\ tries' = tries + 1
    /\ IF runs[u] # NoRun
       THEN answered' = [answered EXCEPT ![u] = @ \union {existing(k, u, p)}] /\ UNCHANGED makes
       ELSE Moves(k, [at |-> "begun", request |-> u, params |-> p]) /\ UNCHANGED answered
    /\ UNCHANGED <<recipe, stock, held, archived, runs, journal, versions, elsewhere>>

\* The identifier is unique: a run that is not committed yet is waited for
RunIsInserted(k) ==
    LET u == makes[k].request IN
    /\ makes[k].at = "begun"
    /\ \A j \in Referring : makes[j].request # u
    /\ IF runs[u] # NoRun
       THEN Moves(k, NotMaking) /\ answered' = [answered EXCEPT ![u] = @ \union {existing(k, u, makes[k].params)}]
       ELSE Moves(k, [makes[k] EXCEPT !.at = "inserted"]) /\ UNCHANGED answered
    /\ UNCHANGED <<recipe, stock, held, archived, runs, journal, versions, tries, elsewhere>>

\* The recipe is locked and read again; its lines are resolved before the stock is locked
RecipeIsLocked(k) ==
    LET c == recipe.content
        p == makes[k].params
    IN
    /\ makes[k].at = "inserted" /\ Referring = {k}
    /\ IF ~recipe.archived /\ resolve_lines(c.inputs, p.warehouse) /\ resolve_lines(c.outputs, p.warehouse)
       THEN Moves(k, [at |-> "resolved", request |-> makes[k].request, params |-> p,
                      content |-> c, version |-> recipe.version])
       ELSE Moves(k, NotMaking)
    /\ UNCHANGED <<recipe, stock, held, archived, runs, journal, versions, answered, tries, elsewhere>>

\* Two that refer to the recipe wait for each other; the database ends one of them
Deadlock(k) ==
    /\ makes[k].at = "inserted" /\ Referring # {k}
    /\ \A j \in Referring : makes[j].at = "inserted"
    /\ Moves(k, NotMaking)
    /\ UNCHANGED <<recipe, stock, held, archived, runs, journal, versions, answered, tries, elsewhere>>

Needed(k) == grouped(makes[k].content.inputs, makes[k].params)
Made(k) == grouped(makes[k].content.outputs, makes[k].params)

\* Deviation: what is there is enough, promised or not
EnoughOnShelf(k) ==
    /\ \A m \in Materials : Needed(k)[m] + Made(k)[m] > 0 => m \notin archived
    /\ \A m \in Materials : stock[m] >= Needed(k)[m]

\* Under the locks of the materials: what is needed is there and is not promised
Enough(k) ==
    /\ \A m \in Materials : Needed(k)[m] + Made(k)[m] > 0 => m \notin archived
    /\ \A m \in Materials : stock[m] >= Needed(k)[m]
    /\ \A m \in Materials : Needed(k)[m] > 0 => available(m) >= Needed(k)[m]

\* Issue, receipt, movements and the result of the run are one commit
Produced(k) ==
    LET u == makes[k].request
        run == [by |-> k, params |-> makes[k].params, content |-> makes[k].content, version |-> makes[k].version]
        delta == [m \in Materials |-> Made(k)[m] - Needed(k)[m]]
    IN
    /\ makes[k].at = "resolved"
    /\ IF Enough(k)
       THEN /\ stock' = [m \in Materials |-> stock[m] + delta[m]]
            /\ journal' = [m \in Materials |-> journal[m] + delta[m]]
            /\ runs' = [runs EXCEPT ![u] = run]
            /\ answered' = [answered EXCEPT ![u] = @ \union {run}]
       ELSE UNCHANGED <<stock, journal, runs, answered>>
    /\ Moves(k, NotMaking)
    /\ UNCHANGED <<recipe, held, archived, versions, tries, elsewhere>>

-----------------------------------------------------------------------------
(* The warehouse meanwhile: documents, holds, the archive of materials *)

Elsewhere ==
    /\ elsewhere < MaxElsewhere /\ elsewhere' = elsewhere + 1
    /\ \E m \in Materials :
        \/ /\ available(m) > 0
           /\ stock' = [stock EXCEPT ![m] = @ - 1] /\ journal' = [journal EXCEPT ![m] = @ - 1]
           /\ UNCHANGED <<held, archived>>
        \/ /\ available(m) > 0
           /\ held' = [held EXCEPT ![m] = @ + 1]
           /\ UNCHANGED <<stock, journal, archived>>
        \/ archived' = archived \union {m} /\ UNCHANGED <<stock, journal, held>>
    /\ UNCHANGED <<recipe, runs, makes, versions, answered, tries>>

RecipesNext ==
    \/ \E v \in 1..MaxVersion : update_recipe(v)
    \/ \E k \in Makers :
        \/ RunIsInserted(k) \/ RecipeIsLocked(k) \/ Deadlock(k) \/ Produced(k)
        \/ \E u \in RunIds, n \in Multipliers, w \in Warehouses :
              manufacture(k, u, [multiplier |-> n, warehouse |-> w])
    \/ Elsewhere

RecipesSpec == RecipesInit /\ [][RecipesNext]_recipeVars

-----------------------------------------------------------------------------
\* A request is carried out at most once however often it is sent: whoever is
\* answered is told of the one run or refused (existing in manufacture), the stock
\* is what the movements say and never less than what is promised, and a run says
\* which recipe it followed: the content its version had (recipe_version and
\* recipe_snapshot of run.result)
RunsAreTrue ==
    /\ \A u \in RunIds : answered[u] \subseteq {runs[u], NoRun}
    /\ \A m \in Materials : stock[m] = OpeningStock + journal[m] /\ held[m] <= stock[m]
    /\ \A u \in RunIds : runs[u] # NoRun =>
          [version |-> runs[u].version, content |-> runs[u].content] \in versions
    /\ \A f, g \in versions : f.version = g.version => f = g
=============================================================================
