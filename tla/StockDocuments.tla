--------------------------- MODULE StockDocuments ---------------------------
(***************************************************************************)
(* Transfers between warehouses and inventories (physical counts), and the *)
(* import that brings balances from the former system.                     *)
(*                                                                         *)
(* An inventory is a draft for as long as people count: it keeps, line by  *)
(* line, the balance and the last movement the material had when the line  *)
(* was opened, and it is posted only if neither changed since.             *)
(***************************************************************************)
EXTENDS StockReservations

CONSTANTS
    Warehouses,
    WarehouseOf,       \* Materials -> Warehouses: a card lies in one warehouse
    ProductOf,         \* Materials -> what the card is of, common to its twins
    ImportedBalances,  \* the balances a snapshot of the former system may carry
    MaxDocuments, MaxCount, MaxMoves, MaxDocumentVersion    \* bounds

ASSUME DocumentsAssumption ==
    /\ WarehouseOf \in [Materials -> Warehouses]
    /\ Null \notin Warehouses
    /\ ImportedBalances \subseteq Int
    /\ {MaxDocuments, MaxCount, MaxMoves, MaxDocumentVersion} \subseteq Nat

VARIABLES
    document,   \* stock_documents
    moves,      \* how many movements of its balance a material has: the watermark
    drifted,    \* history: the lines of a document that moved since they were opened
    imported    \* import_runs: the watermarks at the last snapshot, or Null

documentVars == <<document, moves, drifted, imported>>

allVars == <<vars, documentVars>>

DocumentIds == 1 .. MaxDocuments

NoDocument == [kind |-> "none", status |-> "none", warehouse |-> Null, target |-> Null,
               lines |-> <<>>, version |-> 0, archived |-> FALSE]

\* What the client sends: some cards of one warehouse, counted or not yet (Null).
Lines(w) ==
    UNION {[S -> (0 .. MaxCount) \cup {Null}] :
              S \in (SUBSET {m \in Materials : WarehouseOf[m] = w}) \ {{}}}

\* A line opened now: what the books say, and the last movement they know.
Opened(m, q) == [expected |-> stock[m], movement |-> moves[m], quantity |-> q]

\* Each document remembers which of its lines moved; moves count them.
Moved == {m \in Materials : stock'[m] # stock[m]}

CountMoves == moves' = [m \in Materials |-> moves[m] + IF m \in Moved THEN 1 ELSE 0]

\* Lines opened anew have not moved, the others have if they did.
Drift(d, opened) ==
    drifted' = [e \in DocumentIds |->
                  (drifted[e] \cup Moved) \ (IF e = d THEN opened ELSE {})]

------------------------------------------------------------------------------
DocumentsInit ==
    /\ Init
    /\ document = [d \in DocumentIds |-> NoDocument]
    /\ moves = [m \in Materials |-> 0]
    /\ drifted = [d \in DocumentIds |-> {}]
    /\ imported = Null

\* create: a transfer lists positive quantities, an inventory any or none yet.
CreateDocument(d, kind, w, t, lines) ==
    /\ document[d].status = "none"
    /\ \A e \in DocumentIds : e < d => document[e].status # "none"
    /\ lines \in Lines(w)
    /\ IF kind = "transfer"
       THEN t \notin {w, Null} /\ \A m \in DOMAIN lines : lines[m] \notin {0, Null}
       ELSE t = Null
    /\ document' = [document EXCEPT ![d] =
                      [kind |-> kind, status |-> "draft", warehouse |-> w, target |-> t,
                       lines |-> [m \in DOMAIN lines |-> Opened(m, lines[m])],
                       version |-> 1, archived |-> FALSE]]
    /\ UNCHANGED <<vars, moves, imported>>
    /\ Drift(d, Materials)

\* draft(row, version): a draft that is not put away, and the version the client saw.
Draft(d, seen) ==
    /\ document[d].status = "draft" /\ ~document[d].archived
    /\ document[d].version = seen /\ seen < MaxDocumentVersion

\* Deviation: the lines of a transfer are checked when it is created only.
ChangeDocumentUnchecked(d, seen, lines) ==
    LET old == document[d].lines IN
    /\ Draft(d, seen)
    /\ lines \in Lines(document[d].warehouse)
    /\ document' = [document EXCEPT
                      ![d].lines = [m \in DOMAIN lines |->
                                      IF m \in DOMAIN old
                                      THEN [old[m] EXCEPT !.quantity = lines[m]]
                                      ELSE Opened(m, lines[m])],
                      ![d].version = @ + 1]
    /\ UNCHANGED <<vars, moves, imported>>
    /\ Drift(d, DOMAIN lines \ DOMAIN old)

\* change: lines that stay keep what they were opened with.
ChangeDocument(d, seen, lines) ==
    LET old == document[d].lines IN
    /\ Draft(d, seen)
    /\ lines \in Lines(document[d].warehouse)
    /\ document[d].kind = "transfer" => \A m \in DOMAIN lines : lines[m] \notin {0, Null}
    /\ document' = [document EXCEPT
                      ![d].lines = [m \in DOMAIN lines |->
                                      IF m \in DOMAIN old
                                      THEN [old[m] EXCEPT !.quantity = lines[m]]
                                      ELSE Opened(m, lines[m])],
                      ![d].version = @ + 1]
    /\ UNCHANGED <<vars, moves, imported>>
    /\ Drift(d, DOMAIN lines \ DOMAIN old)

\* recount: all lines are opened anew and nothing is counted.
Recount(d, seen) ==
    /\ Draft(d, seen)
    /\ document[d].kind = "inventory"
    /\ document' = [document EXCEPT
                      ![d].lines = [m \in DOMAIN document[d].lines |-> Opened(m, Null)],
                      ![d].version = @ + 1]
    /\ UNCHANGED <<vars, moves, imported>>
    /\ Drift(d, Materials)

\* resolve_target: the one card of the same thing in the other warehouse.
Twins(m, w) == {t \in Materials : WarehouseOf[t] = w /\ ProductOf[t] = ProductOf[m]}

\* Deviation: the balance is compared with the books, the movements are not.
SameBalance(m, line) == stock[m] = line.expected

\* The material has not moved since the line was opened.
Unmoved(m, line) == stock[m] = line.expected /\ moves[m] = line.movement

Posted(d) ==
    /\ document' = [document EXCEPT ![d].status = "posted", ![d].version = @ + 1]
    /\ UNCHANGED <<hold, event, norm, request, imported>>
    /\ CountMoves
    /\ Drift(d, {})

\* Deviation: a transfer is limited by the balance alone.
TransferAll(q) == \A m \in DOMAIN q : q[m] <= stock[m]

\* assert_available for a transfer, which nobody's hold is for.
TransferFree(q) == EnoughFor(q, {}) /\ \A m \in DOMAIN q : q[m] <= stock[m]

\* post_document, a transfer: out of one warehouse and into the other at once.
PostTransfer(d, seen) ==
    LET lines == document[d].lines
        q == [m \in DOMAIN lines |-> lines[m].quantity]
        Target(m) == CHOOSE t \in Twins(m, document[d].target) : TRUE
        in == [t \in {Target(m) : m \in DOMAIN lines} |->
                 q[CHOOSE m \in DOMAIN lines : Target(m) = t]]
    IN
    /\ Draft(d, seen) /\ document[d].kind = "transfer"
    /\ \A m \in DOMAIN lines : Cardinality(Twins(m, document[d].target)) = 1
    /\ \A m, n \in DOMAIN lines : Target(m) = Target(n) => m = n
    /\ TransferFree(q)
    /\ \A t \in DOMAIN in : stock[t] >= 0 /\ stock[t] + in[t] <= MaxStock
    /\ stock' = Added(Added(stock, q, -1), in, 1)
    /\ SyncShortage(DOMAIN q \cup DOMAIN in, stock', hold, request)
    /\ Posted(d)

\* post_document, an inventory: the balance becomes what was counted, below the holds
\* too if that is what is there.
PostInventory(d, seen) ==
    LET lines == document[d].lines IN
    /\ Draft(d, seen) /\ document[d].kind = "inventory"
    /\ \A m \in DOMAIN lines : lines[m].quantity # Null /\ Unmoved(m, lines[m])
    /\ stock' = [m \in Materials |-> IF m \in DOMAIN lines THEN lines[m].quantity ELSE stock[m]]
    /\ SyncShortage(DOMAIN lines, stock', hold, request)
    /\ Posted(d)

\* archive: any document, either way.
ArchiveDocument(d, seen, flag) ==
    /\ document[d].status # "none"
    /\ document[d].version = seen /\ seen < MaxDocumentVersion
    /\ document' = [document EXCEPT ![d].archived = flag, ![d].version = @ + 1]
    /\ UNCHANGED <<vars, moves, drifted, imported>>

\* The handlers of the warehouse write a movement for every balance they change.
OtherHandlers ==
    /\ Next
    /\ CountMoves
    /\ \A m \in Materials : moves'[m] <= MaxMoves
    /\ Drift(0, {})
    /\ UNCHANGED <<document, imported>>

\* import_export: a snapshot other than the last one (which would change nothing)
\* replaces the balances, as long as nobody has had a hold here.  Its movements
\* (manual_adjust) are not among those that movement_watermarks counts, and it takes
\* no lock and looks at no shortage.
ImportBalances(st) ==
    /\ \A h \in HoldIds : hold[h].version = 0
    /\ stock' = st
    /\ imported' = moves
    /\ UNCHANGED <<hold, event, norm, request, shortage, unsynced, document, moves>>
    /\ Drift(0, {})

------------------------------------------------------------------------------
DraftStep ==
    \E d \in DocumentIds :
        \/ \E kind \in {"transfer", "inventory"}, w \in Warehouses,
              t \in Warehouses \cup {Null} :
              \E lines \in Lines(w) : CreateDocument(d, kind, w, t, lines)
        \/ \E seen \in 1 .. MaxDocumentVersion :
              \/ /\ document[d].status = "draft"
                 /\ \E lines \in Lines(document[d].warehouse) : ChangeDocument(d, seen, lines)
              \/ Recount(d, seen)
              \/ \E flag \in BOOLEAN : ArchiveDocument(d, seen, flag)

PostStep ==
    \E d \in DocumentIds, seen \in 1 .. MaxDocumentVersion :
        PostTransfer(d, seen) \/ PostInventory(d, seen)

ImportStep == \E st \in [Materials -> ImportedBalances] : ImportBalances(st)

DocumentsNext == DraftStep \/ PostStep \/ OtherHandlers

DocumentsSpec == DocumentsInit /\ [][DocumentsNext]_allVars

\* The same warehouse while the former system is still in use.
MigrationSpec == DocumentsInit /\ [][DocumentsNext \/ ImportStep]_allVars

------------------------------------------------------------------------------
LineRow == [expected : Int, movement : Nat, quantity : Nat \cup {Null}]

\* The type of the tables of stock documents: lines lie in the document's warehouse.
DocumentsTypeOK ==
    /\ TypeOK
    /\ moves \in [Materials -> Nat]
    /\ imported \in [Materials -> Nat] \cup {Null}
    /\ \A d \in DocumentIds :
          LET row == document[d] IN
          /\ row.kind \in {"none", "transfer", "inventory"}
          /\ row.status \in {"none", "draft", "posted"}
          /\ row.version \in Nat /\ row.archived \in BOOLEAN
          /\ \A m \in DOMAIN row.lines :
                /\ row.lines[m] \in LineRow /\ WarehouseOf[m] = row.warehouse
                /\ row.kind = "transfer" => row.lines[m].quantity \in Nat \ {0}

\* docs/FUNCTIONAL_MIGRATION.md, "Инвентаризация": a movement during the count stops the
\* posting.  A count is posted only if no line has moved since it was opened, there and
\* back included, however often the draft was saved, recounted or put away.
CountsAreCurrent ==
    [][\A d \in DocumentIds :
          /\ document[d].kind = "inventory"
          /\ document[d].status = "draft" /\ document'[d].status = "posted"
          => drifted[d] \cap DOMAIN document[d].lines = {}]_allVars

\* "Пересчёт и резерв": only a count may leave more promised than there is; every other
\* step, transfers included, keeps to what is free.
OnlyCountsUncover ==
    [][\/ FreeStockKept
       \/ \E d \in DocumentIds : /\ document[d].kind = "inventory"
                                 /\ document[d].status = "draft"
                                 /\ document'[d].status = "posted"]_allVars

\* A posted document is what happened: its lines stay and it is not posted again.
PostedIsFinal ==
    [][\A d \in DocumentIds :
          document[d].status = "posted" =>
             [document'[d] EXCEPT !.archived = FALSE, !.version = 0]
               = [document[d] EXCEPT !.archived = FALSE, !.version = 0]]_allVars

\* A transfer or a count leaves a task open if it left a material short.
DocumentsSeeShortages == [][ShortageSeen]_allVars

\* Whatever is posted, edited or put away: documents stay well formed, a posted one is
\* final, only a count goes past what is free, and who it leaves short is seen.
PostingsAreSound ==
    []DocumentsTypeOK /\ OnlyCountsUncover /\ PostedIsFinal /\ DocumentsSeeShortages

\* docs/FUNCTIONAL_MIGRATION.md: "сбросить новые остатки снимком внешней системы
\* недопустимо".  Once local operations have moved a material since the last import,
\* only local operations change its balance.
LocalBalancesStay ==
    [][\A m \in Materials :
          /\ imported # Null /\ moves[m] > imported[m]
          /\ stock'[m] # stock[m]
          => moves'[m] > moves[m]]_allVars
=============================================================================
