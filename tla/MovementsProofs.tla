--------------------------- MODULE MovementsProofs ---------------------------
(***************************************************************************)
(* Theorems about what moves the stock: transfers and counts, and the      *)
(* orders of customers, for any number of materials, documents, orders,    *)
(* lines, shipments and holds, with the handlers of the warehouse running  *)
(* beside them.                                                            *)
(***************************************************************************)
EXTENDS StockDocuments, SalesOrders, StockReservationsProofs

------------------------------------------------------------------------------
(* Transfers and counts.  What makes a count current is that a movement     *)
(* leaves its mark twice: in the number of movements of the material,       *)
(* which a line keeps from the moment it was opened, and in the balance.    *)

LineTable == UNION {[S -> LineRow] : S \in SUBSET Materials}

DocumentRow == [kind : {"none", "transfer", "inventory"}, status : {"none", "draft", "posted"},
                warehouse : Warehouses \cup {Null}, target : Warehouses \cup {Null},
                lines : LineTable, version : Nat, archived : BOOLEAN]

RowOK(row) ==
    /\ row \in DocumentRow
    /\ \A m \in DOMAIN row.lines :
          /\ WarehouseOf[m] = row.warehouse
          /\ row.kind = "transfer" => row.lines[m].quantity \in Nat \ {0}

\* A line that has drifted was opened at a movement before the last.
Watched(row, drift, mv) ==
    \A m \in DOMAIN row.lines :
        /\ row.lines[m].movement <= mv[m]
        /\ m \in drift => row.lines[m].movement < mv[m]

DocumentsInv ==
    /\ IInv
    /\ moves \in [Materials -> Nat]
    /\ imported \in [Materials -> Nat] \cup {Null}
    /\ document \in [DocumentIds -> DocumentRow]
    /\ \A d \in DocumentIds : RowOK(document[d]) /\ Watched(document[d], drifted[d], moves)

LEMMA LineFacts ==
    ASSUME NEW lines \in LineTable
    PROVE  DOMAIN lines \in SUBSET Materials /\ \A m \in DOMAIN lines : lines[m] \in LineRow
  BY DEF LineTable

LEMMA LinesMade ==
    ASSUME NEW S \in SUBSET Materials, NEW lines \in [S -> LineRow]
    PROVE  lines \in LineTable
  BY DEF LineTable

LEMMA InvIsType == DocumentsInv => DocumentsTypeOK
  <1> SUFFICES ASSUME DocumentsInv
               PROVE  DocumentsTypeOK
    OBVIOUS
  <1>1. ASSUME NEW d \in DocumentIds
        PROVE  /\ document[d].kind \in {"none", "transfer", "inventory"}
               /\ document[d].status \in {"none", "draft", "posted"}
               /\ document[d].version \in Nat /\ document[d].archived \in BOOLEAN
               /\ \A m \in DOMAIN document[d].lines :
                     /\ document[d].lines[m] \in LineRow /\ WarehouseOf[m] = document[d].warehouse
                     /\ document[d].kind = "transfer" => document[d].lines[m].quantity \in Nat \ {0}
    <2>1. RowOK(document[d]) /\ document[d] \in DocumentRow
      BY DEF DocumentsInv
    <2>2. document[d].lines \in LineTable
      BY <2>1 DEF DocumentRow
    <2>3. \A m \in DOMAIN document[d].lines : document[d].lines[m] \in LineRow
      BY <2>2, LineFacts
    <2> QED  BY <2>1, <2>3 DEF RowOK, DocumentRow
  <1> QED  BY <1>1 DEF DocumentsInv, DocumentsTypeOK, IInv

LEMMA DocumentsBegin == DocumentsInit => DocumentsInv
  <1> SUFFICES ASSUME DocumentsInit
               PROVE  DocumentsInv
    OBVIOUS
  <1>1. IInv
    BY InitInv DEF DocumentsInit
  <1>2. <<>> \in LineTable /\ DOMAIN <<>> = {}
    <2>1. DOMAIN <<>> = {} /\ <<>> \in [{} -> LineRow]
      OBVIOUS
    <2> QED  BY <2>1, LinesMade
  <1>3. NoDocument \in DocumentRow /\ NoDocument.lines = <<>>
    BY <1>2 DEF NoDocument, DocumentRow
  <1>4. RowOK(NoDocument) /\ \A drift, mv : Watched(NoDocument, drift, mv)
    BY <1>2, <1>3 DEF RowOK, Watched
  <1> QED  BY <1>1, <1>3, <1>4 DEF DocumentsInit, DocumentsInv

------------------------------------------------------------------------------
(* Drafts                                                                    *)

\* A draft is written: lines that stay keep the movement they were opened at.
LEMMA DraftKeeps ==
    ASSUME DocumentsInv, NEW d \in DocumentIds, NEW row, RowOK(row),
           document' = [document EXCEPT ![d] = row], UNCHANGED <<vars, moves, imported>>,
           NEW opened, Drift(d, opened),
           \A m \in DOMAIN row.lines :
               \/ m \in opened /\ row.lines[m].movement = moves[m]
               \/ m \in DOMAIN document[d].lines /\ row.lines[m].movement = document[d].lines[m].movement
    PROVE  DocumentsInv'
  <1>1. row \in DocumentRow
    BY DEF RowOK
  <1>2. document' \in [DocumentIds -> DocumentRow] /\ document'[d] = row
        /\ \A e \in DocumentIds \ {d} : document'[e] = document[e]
    BY <1>1 DEF DocumentsInv
  <1>3. stock' = stock /\ hold' = hold /\ norm' = norm /\ request' = request /\ event' = event /\ shortage' = shortage /\ unsynced' = unsynced
    BY DEF vars
  <1>4. IInv'
    BY <1>3 DEF DocumentsInv, IInv, TypeOK, RequestedAgrees, HoldsOK, RequestsOK, ShortagesOK, PendingOn
  <1>5. Moved = {}
    BY <1>3 DEF Moved
  <1>6. \A e \in DocumentIds : drifted'[e] = drifted[e] \ (IF e = d THEN opened ELSE {})
    BY <1>5 DEF Drift
  <1>7. ASSUME NEW e \in DocumentIds PROVE Watched(document'[e], drifted'[e], moves)
    <2>1. CASE e # d
      BY <1>2, <1>6, <2>1 DEF DocumentsInv, Watched
    <2>2. CASE e = d
      <3>1. Watched(document[d], drifted[d], moves) /\ moves \in [Materials -> Nat]
        BY DEF DocumentsInv
      <3>2. DOMAIN row.lines \in SUBSET Materials
        BY <1>1, LineFacts DEF DocumentRow
      <3>3. ASSUME NEW m \in DOMAIN row.lines
            PROVE  row.lines[m].movement <= moves[m] /\ (m \in drifted'[d] => row.lines[m].movement < moves[m])
        <4>1. moves[m] \in Nat /\ moves[m] <= moves[m]
          BY <3>1, <3>2
        <4>2. m \in drifted'[d] => m \in drifted[d] /\ m \notin opened
          BY <1>6
        <4> QED  BY <3>1, <4>1, <4>2 DEF Watched
      <3> QED  BY <1>2, <2>2, <3>3 DEF Watched
    <2> QED  BY <2>1, <2>2
  <1>8. \A e \in DocumentIds : RowOK(document'[e])
    BY <1>2 DEF DocumentsInv
  <1> QED  BY <1>2, <1>4, <1>7, <1>8 DEF DocumentsInv

\* The lines that come from the client, opened or kept.
LEMMA ClientLines ==
    ASSUME NEW w \in Warehouses, NEW lines \in Lines(w)
    PROVE  /\ DOMAIN lines \in SUBSET Materials
           /\ \A m \in DOMAIN lines : WarehouseOf[m] = w /\ lines[m] \in Nat \cup {Null}
  <1>1. MaxCount \in Nat
    BY DocumentsAssumption
  <1>2. PICK S \in SUBSET {m \in Materials : WarehouseOf[m] = w} :
            lines \in [S -> (0 .. MaxCount) \cup {Null}]
    BY DEF Lines
  <1> QED  BY <1>1, <1>2

LEMMA OpenedFacts ==
    ASSUME DocumentsInv, NEW m \in Materials, NEW q \in Nat \cup {Null}
    PROVE  Opened(m, q) \in LineRow /\ Opened(m, q).movement = moves[m] /\ Opened(m, q).quantity = q
  BY DEF DocumentsInv, IInv, TypeOK, Opened, LineRow

LEMMA CreateKeeps ==
    ASSUME DocumentsInv, NEW d \in DocumentIds, NEW kind \in {"transfer", "inventory"},
           NEW w \in Warehouses, NEW t \in Warehouses \cup {Null}, NEW lines,
           CreateDocument(d, kind, w, t, lines)
    PROVE  DocumentsInv'
  <1> DEFINE opened == [m \in DOMAIN lines |-> Opened(m, lines[m])]
             row == [kind |-> kind, status |-> "draft", warehouse |-> w, target |-> t,
                     lines |-> opened, version |-> 1, archived |-> FALSE]
  <1>1. /\ DOMAIN lines \in SUBSET Materials
        /\ \A m \in DOMAIN lines : WarehouseOf[m] = w /\ lines[m] \in Nat \cup {Null}
    BY ClientLines DEF CreateDocument
  <1>2. \A m \in DOMAIN lines : opened[m] \in LineRow /\ opened[m].movement = moves[m]
                                /\ opened[m].quantity = lines[m]
    BY <1>1, OpenedFacts
  <1>3. opened \in LineTable /\ DOMAIN opened = DOMAIN lines
    <2>1. opened \in [DOMAIN lines -> LineRow]
      BY <1>2
    <2> HIDE DEF opened
    <2> QED  BY <1>1, <2>1, LinesMade
  <1>4. kind = "transfer" => \A m \in DOMAIN lines : lines[m] \notin {0, Null}
    BY DEF CreateDocument
  <1>5. document' = [document EXCEPT ![d] = row] /\ UNCHANGED <<vars, moves, imported>> /\ Drift(d, Materials)
    BY DEF CreateDocument
  <1> HIDE DEF opened
  <1>6. row \in DocumentRow /\ row.kind = kind /\ row.warehouse = w /\ row.lines = opened
    BY <1>3 DEF DocumentRow
  <1> HIDE DEF row
  <1>7. RowOK(row)
    BY <1>1, <1>2, <1>3, <1>4, <1>6 DEF RowOK
  <1>8. \A m \in DOMAIN row.lines : m \in Materials /\ row.lines[m].movement = moves[m]
    BY <1>1, <1>2, <1>3, <1>6
  <1> QED  BY <1>5, <1>7, <1>8, DraftKeeps

\* Another version of a draft, with other lines.
Rewritten(row, lines, new) == new = [row EXCEPT !.lines = lines, !.version = @ + 1]

LEMMA LinesRewritten ==
    ASSUME NEW row \in DocumentRow, NEW lines \in LineTable,
           NEW new, Rewritten(row, lines, new)
    PROVE  new \in DocumentRow /\ new.lines = lines /\ new.warehouse = row.warehouse /\ new.kind = row.kind
  <1> DEFINE half == [row EXCEPT !.lines = lines]
  <1>1. half \in DocumentRow /\ half.lines = lines /\ half.warehouse = row.warehouse /\ half.kind = row.kind
    BY DEF DocumentRow
  <1>2. new = [half EXCEPT !.version = row.version + 1] /\ row.version + 1 \in Nat
    BY DEF DocumentRow, Rewritten
  <1> HIDE DEF half
  <1> QED  BY <1>1, <1>2 DEF DocumentRow

LEMMA RowWritten ==
    ASSUME NEW row, RowOK(row), NEW lines \in LineTable,
           NEW new, Rewritten(row, lines, new),
           \A m \in DOMAIN lines : WarehouseOf[m] = row.warehouse
                                   /\ (row.kind = "transfer" => lines[m].quantity \in Nat \ {0})
    PROVE  RowOK(new) /\ new.lines = lines
  <1>1. row \in DocumentRow
    BY DEF RowOK
  <1>2. new \in DocumentRow /\ new.lines = lines /\ new.warehouse = row.warehouse /\ new.kind = row.kind
    BY <1>1, LinesRewritten
  <1> QED  BY <1>2 DEF RowOK

LEMMA ChangeKeepsDrafts ==
    ASSUME DocumentsInv, NEW d \in DocumentIds, NEW seen \in Nat, NEW lines,
           ChangeDocument(d, seen, lines)
    PROVE  DocumentsInv'
  <1> DEFINE old == document[d].lines
             new == [m \in DOMAIN lines |->
                        IF m \in DOMAIN old THEN [old[m] EXCEPT !.quantity = lines[m]] ELSE Opened(m, lines[m])]
             row == [document[d] EXCEPT !.lines = new, !.version = @ + 1]
  <1>1. RowOK(document[d]) /\ document[d] \in DocumentRow
    BY DEF DocumentsInv
  <1>2. PICK w \in Warehouses \cup {Null} : document[d].warehouse = w
    BY <1>1 DEF DocumentRow
  <1>3. lines \in Lines(document[d].warehouse)
        /\ (document[d].kind = "transfer" => \A m \in DOMAIN lines : lines[m] \notin {0, Null})
    BY DEF ChangeDocument
  <1>4. /\ DOMAIN lines \in SUBSET Materials
        /\ \A m \in DOMAIN lines : WarehouseOf[m] = document[d].warehouse /\ lines[m] \in Nat \cup {Null}
    <2>1. CASE w \in Warehouses
      BY <1>2, <1>3, <2>1, ClientLines
    <2>2. CASE w = Null
      <3>1. \A m \in Materials : WarehouseOf[m] # Null
        BY DocumentsAssumption
      <3>2. Lines(Null) = {}
        BY <3>1 DEF Lines
      <3> QED  BY <1>2, <1>3, <2>2, <3>2
    <2> QED  BY <2>1, <2>2
  <1>5. old \in LineTable /\ \A m \in DOMAIN old : old[m] \in LineRow
    BY <1>1, LineFacts DEF DocumentRow
  <1>6. ASSUME NEW m \in DOMAIN lines
        PROVE  /\ new[m] \in LineRow /\ new[m].quantity = lines[m]
               /\ m \in DOMAIN old => new[m].movement = old[m].movement
               /\ m \notin DOMAIN old => new[m].movement = moves[m]
    <2>1. CASE m \in DOMAIN old
      <3>1. old[m] \in LineRow /\ lines[m] \in Nat \cup {Null} /\ new[m] = [old[m] EXCEPT !.quantity = lines[m]]
        BY <1>4, <1>5, <2>1
      <3> HIDE DEF new, old
      <3> QED  BY <2>1, <3>1 DEF LineRow
    <2>2. CASE m \notin DOMAIN old
      <3>1. new[m] = Opened(m, lines[m]) /\ m \in Materials /\ lines[m] \in Nat \cup {Null}
        BY <1>4, <2>2
      <3> HIDE DEF new, old
      <3> QED  BY <2>2, <3>1, OpenedFacts
    <2> QED  BY <2>1, <2>2
  <1>7. new \in LineTable /\ DOMAIN new = DOMAIN lines
    <2>1. DOMAIN new = DOMAIN lines /\ new \in [DOMAIN lines -> LineRow]
      BY <1>6
    <2> HIDE DEF new
    <2> QED  BY <1>4, <2>1, LinesMade
  <1>8. document' = [document EXCEPT ![d] = row] /\ UNCHANGED <<vars, moves, imported>>
        /\ Drift(d, DOMAIN lines \ DOMAIN old)
    BY DEF ChangeDocument
  <1> HIDE DEF new
  <1>9. RowOK(row) /\ row.lines = new
    <2>1. \A m \in DOMAIN new : WarehouseOf[m] = document[d].warehouse
              /\ (document[d].kind = "transfer" => new[m].quantity \in Nat \ {0})
      BY <1>3, <1>4, <1>6, <1>7
    <2>2. Rewritten(document[d], new, row)
      BY DEF Rewritten
    <2> HIDE DEF row
    <2> QED  BY <1>1, <1>7, <2>1, <2>2, RowWritten
  <1>10. \A m \in DOMAIN row.lines :
             \/ m \in DOMAIN lines \ DOMAIN old /\ row.lines[m].movement = moves[m]
             \/ m \in DOMAIN document[d].lines /\ row.lines[m].movement = document[d].lines[m].movement
    BY <1>6, <1>7, <1>9
  <1> HIDE DEF row
  <1> QED  BY <1>8, <1>9, <1>10, DraftKeeps

LEMMA RecountKeeps ==
    ASSUME DocumentsInv, NEW d \in DocumentIds, NEW seen \in Nat, Recount(d, seen)
    PROVE  DocumentsInv'
  <1> DEFINE new == [m \in DOMAIN document[d].lines |-> Opened(m, Null)]
             row == [document[d] EXCEPT !.lines = new, !.version = @ + 1]
  <1>1. RowOK(document[d]) /\ document[d] \in DocumentRow /\ document[d].kind = "inventory"
    BY DEF DocumentsInv, Recount
  <1>2. DOMAIN document[d].lines \in SUBSET Materials
    BY <1>1, LineFacts DEF DocumentRow
  <1>3. \A m \in DOMAIN document[d].lines : new[m] \in LineRow /\ new[m].movement = moves[m]
    BY <1>2, OpenedFacts
  <1>4. new \in LineTable /\ DOMAIN new = DOMAIN document[d].lines
    <2>1. DOMAIN new = DOMAIN document[d].lines /\ new \in [DOMAIN document[d].lines -> LineRow]
      BY <1>3
    <2> HIDE DEF new
    <2> QED  BY <1>2, <2>1, LinesMade
  <1>5. document' = [document EXCEPT ![d] = row] /\ UNCHANGED <<vars, moves, imported>> /\ Drift(d, Materials)
    BY DEF Recount
  <1> HIDE DEF new
  <1>6. RowOK(row) /\ row.lines = new
    <2>1. \A m \in DOMAIN new : WarehouseOf[m] = document[d].warehouse
              /\ (document[d].kind = "transfer" => new[m].quantity \in Nat \ {0})
      BY <1>1, <1>4 DEF RowOK
    <2>2. Rewritten(document[d], new, row)
      BY DEF Rewritten
    <2> HIDE DEF row
    <2> QED  BY <1>1, <1>4, <2>1, <2>2, RowWritten
  <1>7. \A m \in DOMAIN row.lines : m \in Materials /\ row.lines[m].movement = moves[m]
    BY <1>2, <1>3, <1>4, <1>6
  <1> HIDE DEF row
  <1> QED  BY <1>5, <1>6, <1>7, DraftKeeps

LEMMA PutAway ==
    ASSUME NEW row \in DocumentRow, NEW flag \in BOOLEAN,
           NEW new, new = [row EXCEPT !.archived = flag, !.version = @ + 1]
    PROVE  new \in DocumentRow /\ new.lines = row.lines /\ new.warehouse = row.warehouse
           /\ new.kind = row.kind /\ new.status = row.status
  <1> DEFINE half == [row EXCEPT !.archived = flag]
  <1>1. half \in DocumentRow /\ half.lines = row.lines /\ half.warehouse = row.warehouse
        /\ half.kind = row.kind /\ half.status = row.status
    BY DEF DocumentRow
  <1>2. new = [half EXCEPT !.version = row.version + 1] /\ row.version + 1 \in Nat
    BY DEF DocumentRow
  <1> HIDE DEF half
  <1> QED  BY <1>1, <1>2 DEF DocumentRow

LEMMA ArchiveKeeps ==
    ASSUME DocumentsInv, NEW d \in DocumentIds, NEW seen \in Nat, NEW flag \in BOOLEAN,
           ArchiveDocument(d, seen, flag)
    PROVE  /\ DocumentsInv'
           /\ document'[d].lines = document[d].lines /\ document'[d].status = document[d].status
  <1>1. PICK row : row = [document[d] EXCEPT !.archived = flag, !.version = @ + 1]
    OBVIOUS
  <1>2. document' = [document EXCEPT ![d] = row] /\ UNCHANGED <<vars, moves, drifted, imported>>
    BY <1>1 DEF ArchiveDocument
  <1>3. RowOK(document[d]) /\ document[d] \in DocumentRow
    BY DEF DocumentsInv
  <1>4. row \in DocumentRow /\ row.lines = document[d].lines /\ row.warehouse = document[d].warehouse
        /\ row.kind = document[d].kind /\ row.status = document[d].status
    BY <1>1, <1>3, PutAway
  <1>5. RowOK(row)
    BY <1>3, <1>4 DEF RowOK
  <1>6. document' \in [DocumentIds -> DocumentRow] /\ document'[d] = row
        /\ \A e \in DocumentIds \ {d} : document'[e] = document[e]
    BY <1>2, <1>4 DEF DocumentsInv
  <1>7. IInv'
    BY <1>2 DEF vars, DocumentsInv, IInv, TypeOK, RequestedAgrees, HoldsOK, RequestsOK, ShortagesOK, PendingOn
  <1>8. \A e \in DocumentIds : RowOK(document'[e]) /\ Watched(document'[e], drifted[e], moves)
    BY <1>4, <1>5, <1>6 DEF DocumentsInv, Watched
  <1>9. DocumentsInv'
    BY <1>2, <1>6, <1>7, <1>8 DEF DocumentsInv
  <1> QED  BY <1>4, <1>6, <1>9

------------------------------------------------------------------------------
(* Postings, and what moves the stock elsewhere                              *)

\* A movement marks the lines it makes old.
LEMMA MovesMark ==
    ASSUME DocumentsInv, CountMoves, NEW d, Drift(d, {})
    PROVE  /\ moves' \in [Materials -> Nat]
           /\ \A e \in DocumentIds : \A row \in DocumentRow :
                  Watched(row, drifted[e], moves) => Watched(row, drifted'[e], moves')
  <1>1. moves \in [Materials -> Nat]
    BY DEF DocumentsInv
  <1>2. \A m \in Materials : moves'[m] = moves[m] + (IF m \in Moved THEN 1 ELSE 0)
    BY DEF CountMoves
  <1>3. moves' \in [Materials -> Nat]
    BY <1>1 DEF CountMoves
  <1>4. ASSUME NEW e \in DocumentIds, NEW row \in DocumentRow, Watched(row, drifted[e], moves)
        PROVE  Watched(row, drifted'[e], moves')
    <2>1. drifted'[e] = drifted[e] \cup Moved
      BY DEF Drift
    <2>2. DOMAIN row.lines \in SUBSET Materials /\ \A m \in DOMAIN row.lines : row.lines[m].movement \in Nat
      BY LineFacts DEF DocumentRow, LineRow
    <2>3. ASSUME NEW m \in DOMAIN row.lines
          PROVE  row.lines[m].movement <= moves'[m] /\ (m \in drifted'[e] => row.lines[m].movement < moves'[m])
      <3>1. m \in Materials /\ row.lines[m].movement \in Nat /\ moves[m] \in Nat
        BY <1>1, <2>2
      <3>2. row.lines[m].movement <= moves[m] /\ (m \in drifted[e] => row.lines[m].movement < moves[m])
        BY <1>4 DEF Watched
      <3>3. moves'[m] = moves[m] + (IF m \in Moved THEN 1 ELSE 0)
        BY <1>2, <3>1
      <3>4. CASE m \in Moved
        BY <3>1, <3>2, <3>3, <3>4
      <3>5. CASE m \notin Moved
        BY <2>1, <3>1, <3>2, <3>3, <3>5
      <3> QED  BY <3>4, <3>5
    <2> QED  BY <2>3 DEF Watched
  <1> QED  BY <1>3, <1>4

LEMMA PostedKeeps ==
    ASSUME DocumentsInv, NEW d \in DocumentIds, Posted(d),
           stock' \in [Materials -> Int], ShortagesOK'
    PROVE  DocumentsInv'
  <1>1. PICK row : row = [document[d] EXCEPT !.status = "posted", !.version = @ + 1]
    OBVIOUS
  <1>2. document' = [document EXCEPT ![d] = row] /\ UNCHANGED <<hold, event, norm, request, imported>>
        /\ CountMoves /\ Drift(d, {})
    BY <1>1 DEF Posted
  <1>3. RowOK(document[d]) /\ document[d] \in DocumentRow
    BY DEF DocumentsInv
  <1>4. row \in DocumentRow /\ row.lines = document[d].lines /\ row.warehouse = document[d].warehouse
        /\ row.kind = document[d].kind
    <2> DEFINE half == [document[d] EXCEPT !.status = "posted"]
    <2>1. half \in DocumentRow /\ half.lines = document[d].lines /\ half.warehouse = document[d].warehouse
          /\ half.kind = document[d].kind
      BY <1>3 DEF DocumentRow
    <2>2. row = [half EXCEPT !.version = document[d].version + 1] /\ document[d].version + 1 \in Nat
      BY <1>1, <1>3 DEF DocumentRow
    <2> HIDE DEF half
    <2> QED  BY <2>1, <2>2 DEF DocumentRow
  <1>5. RowOK(row)
    BY <1>3, <1>4 DEF RowOK
  <1>6. document' \in [DocumentIds -> DocumentRow] /\ document'[d] = row
        /\ \A e \in DocumentIds \ {d} : document'[e] = document[e]
    BY <1>2, <1>4 DEF DocumentsInv
  <1>7. IInv'
    <2>1. HoldsOK' /\ RequestsOK' /\ event' = event /\ norm' = norm /\ request' = request
      BY <1>2 DEF DocumentsInv, IInv, TypeOK, HoldsOK, RequestsOK, ShortagesOK
    <2>2. RequestedAgrees'
      BY <1>2, AgreeUnchanged DEF DocumentsInv, IInv
    <2> QED  BY <2>1, <2>2 DEF DocumentsInv, IInv, TypeOK
  <1>8. moves' \in [Materials -> Nat]
    BY <1>2, MovesMark
  <1>9. ASSUME NEW e \in DocumentIds PROVE RowOK(document'[e]) /\ Watched(document'[e], drifted'[e], moves')
    <2>1. RowOK(document'[e]) /\ document[e] \in DocumentRow /\ Watched(document[e], drifted[e], moves)
      BY <1>5, <1>6 DEF DocumentsInv
    <2>2. Watched(document[e], drifted'[e], moves')
      BY <1>2, <2>1, MovesMark
    <2>3. document'[e].lines = document[e].lines
      BY <1>4, <1>6
    <2> QED  BY <2>1, <2>2, <2>3 DEF Watched
  <1> QED  BY <1>2, <1>6, <1>7, <1>8, <1>9 DEF DocumentsInv

\* A movement looks at the shortage of whatever it moved.
LEMMA MovesSee ==
    ASSUME DocumentsInv, UNCHANGED <<hold, request>>, NEW ms \in SUBSET Materials,
           \A m \in Materials \ ms : stock'[m] = stock[m],
           SyncShortage(ms, stock', hold, request)
    PROVE  ShortageSeen /\ ShortagesOK'
  <1>1. \A m \in Materials \ ms : stock'[m] = stock[m] /\ Held(hold', m, Targets) = Held(hold, m, Targets)
    OBVIOUS
  <1>2. SyncShortage(ms, stock', hold', request')
    OBVIOUS
  <1>3. ShortageSeen
    BY <1>1, <1>2, SyncSees
  <1>4. ShortagesOK
    BY DEF DocumentsInv, IInv, TypeOK
  <1>5. ShortagesOK'
    BY <1>4, SyncType DEF DecisionsStay
  <1> QED  BY <1>3, <1>5

LEMMA TwinIsThere ==
    ASSUME NEW m, NEW w, Cardinality(Twins(m, w)) = 1
    PROVE  (CHOOSE t \in Twins(m, w) : TRUE) \in Materials
  <1>1. Twins(m, w) # {}
    BY FS_EmptySet
  <1>2. Twins(m, w) \subseteq Materials
    BY DEF Twins
  <1> QED  BY <1>1, <1>2

\* What leaves one warehouse is free there, and what comes to the other is at least nothing.
LEMMA TransferMoves ==
    ASSUME DocumentsInv, NEW d \in DocumentIds, NEW seen \in Nat, PostTransfer(d, seen)
    PROVE  /\ stock' \in [Materials -> Int]
           /\ ShortageSeen /\ ShortagesOK'
           /\ FreeStockKept
  <1> DEFINE lines == document[d].lines
             q == [m \in DOMAIN lines |-> lines[m].quantity]
             Target(m) == CHOOSE t \in Twins(m, document[d].target) : TRUE
             in == [t \in {Target(m) : m \in DOMAIN lines} |-> q[CHOOSE m \in DOMAIN lines : Target(m) = t]]
  <1>1. RowOK(document[d]) /\ document[d] \in DocumentRow /\ document[d].kind = "transfer"
    BY DEF DocumentsInv, PostTransfer
  <1>2. DOMAIN lines \in SUBSET Materials /\ \A m \in DOMAIN lines : lines[m].quantity \in Nat
    BY <1>1, LineFacts DEF DocumentRow, RowOK
  <1>3. DOMAIN q = DOMAIN lines /\ \A m \in DOMAIN q : q[m] \in Nat
    BY <1>2
  <1>4. \A m \in DOMAIN lines : Target(m) \in Materials
    BY TwinIsThere DEF PostTransfer
  <1>5. DOMAIN in \subseteq Materials /\ \A t \in DOMAIN in : in[t] \in Nat
    <2>1. DOMAIN in = {Target(m) : m \in DOMAIN lines}
      OBVIOUS
    <2>2. ASSUME NEW t \in {Target(m) : m \in DOMAIN lines} PROVE in[t] \in Nat
      <3>1. (CHOOSE m \in DOMAIN lines : Target(m) = t) \in DOMAIN lines
        BY <2>2
      <3> QED  BY <1>3, <3>1
    <2> HIDE DEF in, Target, lines
    <2>3. {Target(m) : m \in DOMAIN lines} \subseteq Materials
      BY <1>4
    <2> QED  BY <2>1, <2>2, <2>3
  <1>6. /\ TransferFree(q)
        /\ stock' = Added(Added(stock, q, -1), in, 1)
        /\ SyncShortage(DOMAIN q \cup DOMAIN in, stock', hold, request)
        /\ UNCHANGED <<hold, request>>
    BY DEF PostTransfer, Posted
  <1> HIDE DEF in, q
  <1>7. stock \in [Materials -> Int] /\ hold \in HoldTable
    BY DEF DocumentsInv, IInv, TypeOK, HoldsOK, HoldTable
  <1>8. \A m \in Materials : Added(stock, q, -1)[m] = IF m \in DOMAIN q THEN stock[m] - q[m] ELSE stock[m]
    BY <1>3, <1>7 DEF Added
  <1>9. Added(stock, q, -1) \in [Materials -> Int]
    BY <1>3, <1>7, <1>8 DEF Added
  <1>10. ASSUME NEW m \in Materials
         PROVE  /\ stock'[m] = Added(stock, q, -1)[m] + (IF m \in DOMAIN in THEN in[m] ELSE 0)
                /\ stock'[m] \in Int
    <2>1. stock'[m] = IF m \in DOMAIN in THEN Added(stock, q, -1)[m] + 1 * in[m] ELSE Added(stock, q, -1)[m]
      BY <1>6 DEF Added
    <2>2. Added(stock, q, -1)[m] \in Int /\ (m \in DOMAIN in => in[m] \in Nat)
      BY <1>5, <1>9
    <2> QED  BY <2>1, <2>2
  <1>11. stock' \in [Materials -> Int]
    <2>1. DOMAIN stock' = Materials /\ stock' = [m \in Materials |-> stock'[m]]
      BY <1>6 DEF Added
    <2> QED  BY <1>10, <2>1
  <1>12. ShortageSeen /\ ShortagesOK'
    <2>1. \A m \in Materials \ (DOMAIN q \cup DOMAIN in) : stock'[m] = stock[m]
      BY <1>7, <1>8, <1>10
    <2>2. (DOMAIN q \cup DOMAIN in) \in SUBSET Materials
      BY <1>2, <1>3, <1>5
    <2> QED  BY <1>6, <2>1, <2>2, MovesSee
  <1>13. ASSUME NEW m \in Materials
         PROVE  \/ Available(stock', hold', m) >= 0
                \/ Available(stock', hold', m) >= Available(stock, hold, m)
    <2>1. /\ Held(hold, m, Targets) \in Nat /\ stock[m] \in Int
          /\ Available(stock, hold, m) = stock[m] - Held(hold, m, Targets)
          /\ Available(stock', hold', m) = stock'[m] - Held(hold, m, Targets)
      BY <1>6, <1>7, HeldType DEF Available
    <2>2. Held(hold, m, {}) = 0
      <3>1. \A h \in HoldIds : LeftOn(hold, m, {})[h] = 0
        BY DEF LeftOn
      <3> QED  BY <3>1, TotalZero DEF Held
    <2>3. m \in DOMAIN q => q[m] <= Available(stock, hold, m)
      BY <1>6, <2>1, <2>2 DEF TransferFree, EnoughFor
    <2>4. stock'[m] \in Int /\ stock'[m] >= (IF m \in DOMAIN q THEN stock[m] - q[m] ELSE stock[m])
      BY <1>3, <1>5, <1>8, <1>9, <1>10
    <2>5. CASE m \in DOMAIN q
      BY <1>3, <2>1, <2>3, <2>4, <2>5
    <2>6. CASE m \notin DOMAIN q
      BY <2>1, <2>4, <2>6
    <2> QED  BY <2>5, <2>6
  <1> QED  BY <1>11, <1>12, <1>13 DEF FreeStockKept

LEMMA InventoryMoves ==
    ASSUME DocumentsInv, NEW d \in DocumentIds, NEW seen \in Nat, PostInventory(d, seen)
    PROVE  /\ stock' \in [Materials -> Int]
           /\ ShortageSeen /\ ShortagesOK'
  <1> DEFINE lines == document[d].lines
  <1>1. document[d] \in DocumentRow
    BY DEF DocumentsInv
  <1>2. DOMAIN lines \in SUBSET Materials /\ \A m \in DOMAIN lines : lines[m].quantity \in Nat \cup {Null}
    BY <1>1, LineFacts DEF DocumentRow, LineRow
  <1>3. /\ \A m \in DOMAIN lines : lines[m].quantity # Null
        /\ stock' = [m \in Materials |-> IF m \in DOMAIN lines THEN lines[m].quantity ELSE stock[m]]
        /\ SyncShortage(DOMAIN lines, stock', hold, request)
        /\ UNCHANGED <<hold, request>>
    BY DEF PostInventory, Posted
  <1>4. stock \in [Materials -> Int]
    BY DEF DocumentsInv, IInv, TypeOK
  <1> HIDE DEF lines
  <1>5. stock' \in [Materials -> Int]
    BY <1>2, <1>3, <1>4
  <1>6. \A m \in Materials \ DOMAIN lines : stock'[m] = stock[m]
    BY <1>3
  <1> QED  BY <1>2, <1>3, <1>5, <1>6, MovesSee

\* A handler of the warehouse: every balance it changes has a movement.
LEMMA WarehouseKeeps ==
    ASSUME DocumentsInv, OtherHandlers
    PROVE  DocumentsInv'
  <1>1. Next /\ CountMoves /\ Drift(0, {}) /\ document' = document /\ imported' = imported
    BY DEF OtherHandlers
  <1>2. IInv'
    BY <1>1, StepInv DEF DocumentsInv
  <1>3. moves' \in [Materials -> Nat]
    BY <1>1, MovesMark
  <1>4. ASSUME NEW e \in DocumentIds PROVE RowOK(document[e]) /\ Watched(document[e], drifted'[e], moves')
    BY <1>1, MovesMark DEF DocumentsInv
  <1> QED  BY <1>1, <1>2, <1>3, <1>4 DEF DocumentsInv

LEMMA DraftsStay ==
    ASSUME DocumentsInv, DraftStep
    PROVE  DocumentsInv' /\ UNCHANGED vars
  <1>1. \A v \in 1 .. MaxDocumentVersion : v \in Nat
    OBVIOUS
  <1>2. ASSUME NEW d \in DocumentIds, NEW kind \in {"transfer", "inventory"}, NEW w \in Warehouses,
               NEW t \in Warehouses \cup {Null}, NEW lines, CreateDocument(d, kind, w, t, lines)
        PROVE  DocumentsInv' /\ UNCHANGED vars
    BY <1>2, CreateKeeps DEF CreateDocument
  <1>3. ASSUME NEW d \in DocumentIds, NEW v \in 1 .. MaxDocumentVersion, NEW lines, ChangeDocument(d, v, lines)
        PROVE  DocumentsInv' /\ UNCHANGED vars
    BY <1>1, <1>3, ChangeKeepsDrafts DEF ChangeDocument
  <1>4. ASSUME NEW d \in DocumentIds, NEW v \in 1 .. MaxDocumentVersion, Recount(d, v)
        PROVE  DocumentsInv' /\ UNCHANGED vars
    BY <1>1, <1>4, RecountKeeps DEF Recount
  <1>5. ASSUME NEW d \in DocumentIds, NEW v \in 1 .. MaxDocumentVersion, NEW flag \in BOOLEAN,
               ArchiveDocument(d, v, flag)
        PROVE  DocumentsInv' /\ UNCHANGED vars
    BY <1>1, <1>5, ArchiveKeeps DEF ArchiveDocument
  <1> QED  BY <1>2, <1>3, <1>4, <1>5 DEF DraftStep

LEMMA DocumentsStay == DocumentsInv /\ [DocumentsNext]_allVars => DocumentsInv'
  <1> SUFFICES ASSUME DocumentsInv, [DocumentsNext]_allVars
               PROVE  DocumentsInv'
    OBVIOUS
  <1>1. CASE UNCHANGED allVars
    <2>1. UNCHANGED vars /\ UNCHANGED <<document, moves, drifted, imported>>
      BY <1>1 DEF allVars, documentVars
    <2>2. IInv'
      BY <2>1, StepInv DEF DocumentsInv
    <2> QED  BY <2>1, <2>2 DEF DocumentsInv, Watched
  <1>2. CASE DraftStep
    BY <1>2, DraftsStay
  <1>3. CASE PostStep
    <2>1. PICK d \in DocumentIds, v \in 1 .. MaxDocumentVersion : PostTransfer(d, v) \/ PostInventory(d, v)
      BY <1>3 DEF PostStep
    <2>2. v \in Nat
      OBVIOUS
    <2>3. Posted(d)
      BY <2>1 DEF PostTransfer, PostInventory
    <2>4. stock' \in [Materials -> Int] /\ ShortagesOK'
      BY <2>1, <2>2, TransferMoves, InventoryMoves
    <2> QED  BY <2>3, <2>4, PostedKeeps
  <1>4. CASE OtherHandlers
    BY <1>4, WarehouseKeeps
  <1> QED  BY <1>1, <1>2, <1>3, <1>4 DEF DocumentsNext

------------------------------------------------------------------------------
(* What posting means                                                        *)

\* A line whose material drifted was opened at another movement than the last.
LEMMA CountIsCurrent ==
    ASSUME DocumentsInv, NEW d \in DocumentIds, NEW seen, PostInventory(d, seen)
    PROVE  drifted[d] \cap DOMAIN document[d].lines = {}
  <1>1. ASSUME NEW m \in DOMAIN document[d].lines, m \in drifted[d] PROVE FALSE
    <2>1. document[d] \in DocumentRow /\ Watched(document[d], drifted[d], moves)
      BY DEF DocumentsInv
    <2>2. document[d].lines[m].movement \in Nat /\ m \in Materials
      BY <2>1, LineFacts DEF DocumentRow, LineRow
    <2>3. moves[m] \in Nat /\ document[d].lines[m].movement < moves[m]
      BY <1>1, <2>1, <2>2 DEF DocumentsInv, Watched
    <2>4. moves[m] = document[d].lines[m].movement
      BY DEF PostInventory, Unmoved
    <2> QED  BY <2>2, <2>3, <2>4
  <1> QED  BY <1>1

\* Which step posts a draft, and what a posted document may become.
LEMMA PostsAre ==
    ASSUME DocumentsInv, [DocumentsNext]_allVars, NEW e \in DocumentIds
    PROVE  /\ document[e].status = "draft" /\ document'[e].status = "posted" =>
                  \E seen \in Nat : PostTransfer(e, seen) \/ PostInventory(e, seen)
           /\ document[e].status = "posted" =>
                  document'[e] = document[e]
                  \/ \E flag \in BOOLEAN : document'[e] = [document[e] EXCEPT !.archived = flag, !.version = @ + 1]
  <1>1. document \in [DocumentIds -> DocumentRow]
    BY DEF DocumentsInv
  <1>2. CASE document' = document
    BY <1>2
  <1>3. ASSUME NEW d \in DocumentIds, NEW row, document' = [document EXCEPT ![d] = row],
               document[d].status \in {"none", "draft"}, row.status = "draft"
        PROVE  /\ document[e].status = "draft" => document'[e].status # "posted"
               /\ document[e].status = "posted" => document'[e] = document[e]
    BY <1>1, <1>3
  <1>4. CASE DraftStep
    <2>1. ASSUME NEW d \in DocumentIds, NEW kind, NEW w, NEW t, NEW lines, CreateDocument(d, kind, w, t, lines)
          PROVE  /\ document[e].status = "draft" => document'[e].status # "posted"
                 /\ document[e].status = "posted" => document'[e] = document[e]
      BY <1>3, <2>1 DEF CreateDocument
    <2>2. ASSUME NEW d \in DocumentIds, NEW v, NEW lines, ChangeDocument(d, v, lines) \/ Recount(d, v)
          PROVE  /\ document[e].status = "draft" => document'[e].status # "posted"
                 /\ document[e].status = "posted" => document'[e] = document[e]
      <3>1. PICK new : document' = [document EXCEPT ![d].lines = new, ![d].version = @ + 1]
        BY <2>2 DEF ChangeDocument, Recount
      <3>2. document[d].status = "draft" /\ document[d] \in DocumentRow
        BY <1>1, <2>2 DEF ChangeDocument, Recount, Draft
      <3>3. [document[d] EXCEPT !.lines = new, !.version = @ + 1].status = "draft"
        BY <3>2 DEF DocumentRow
      <3>4. document' = [document EXCEPT ![d] = [document[d] EXCEPT !.lines = new, !.version = @ + 1]]
        BY <1>1, <3>1
      <3> QED  BY <1>3, <3>2, <3>3, <3>4
    <2>3. ASSUME NEW d \in DocumentIds, NEW v, NEW flag \in BOOLEAN, ArchiveDocument(d, v, flag)
          PROVE  /\ document[e].status = "draft" => document'[e].status # "posted"
                 /\ document[e].status = "posted" =>
                        document'[e] = document[e] \/ document'[e] = [document[e] EXCEPT !.archived = flag, !.version = @ + 1]
      <3>1. document' = [document EXCEPT ![d] = [document[d] EXCEPT !.archived = flag, !.version = @ + 1]]
        BY <1>1, <2>3 DEF ArchiveDocument
      <3>2. document[d] \in DocumentRow
        BY <1>1
      <3>3. [document[d] EXCEPT !.archived = flag, !.version = @ + 1].status = document[d].status
        BY <3>2 DEF DocumentRow
      <3> QED  BY <1>1, <3>1, <3>3
    <2> QED  BY <1>4, <2>1, <2>2, <2>3 DEF DraftStep
  <1>5. CASE PostStep
    <2>1. PICK d \in DocumentIds, v \in 1 .. MaxDocumentVersion : PostTransfer(d, v) \/ PostInventory(d, v)
      BY <1>5 DEF PostStep
    <2>2. v \in Nat /\ document[d].status = "draft"
      <3>1. Draft(d, v)
        BY <2>1 DEF PostTransfer, PostInventory
      <3> QED  BY <3>1 DEF Draft
    <2>3. \A f \in DocumentIds \ {d} : document'[f] = document[f]
      <3>1. document' = [document EXCEPT ![d].status = "posted", ![d].version = @ + 1]
        BY <2>1 DEF PostTransfer, PostInventory, Posted
      <3>2. document' = [document EXCEPT ![d] = [document[d] EXCEPT !.status = "posted", !.version = @ + 1]]
        BY <1>1, <3>1
      <3> QED  BY <1>1, <3>2
    <2> QED  BY <2>1, <2>2, <2>3
  <1>6. CASE OtherHandlers
    BY <1>2, <1>6 DEF OtherHandlers
  <1>7. CASE UNCHANGED allVars
    BY <1>2, <1>7 DEF allVars, documentVars
  <1> QED  BY <1>4, <1>5, <1>6, <1>7 DEF DocumentsNext

LEMMA NothingMoves ==
    ASSUME DocumentsInv, UNCHANGED vars
    PROVE  FreeStockKept /\ ShortageSeen
  <1>1. stock' = stock /\ hold' = hold /\ request' = request /\ shortage' = shortage
    BY DEF vars
  <1>2. hold \in HoldTable /\ stock \in [Materials -> Int]
    BY DEF DocumentsInv, IInv, TypeOK, HoldsOK, HoldTable
  <1>3. ASSUME NEW m \in Materials PROVE Available(stock', hold', m) >= Available(stock, hold, m)
    <2>1. Available(stock, hold, m) \in Int
      BY <1>2, AvailableType
    <2>2. Available(stock', hold', m) = Available(stock, hold, m)
      BY <1>1
    <2> QED  BY <2>1, <2>2
  <1>4. \A m \in Materials : stock'[m] = stock[m] /\ Held(hold', m, Targets) = Held(hold, m, Targets)
    BY <1>1
  <1>5. FreeStockKept
    BY <1>3 DEF FreeStockKept
  <1>6. ShortageSeen
    BY <1>1, <1>4 DEF ShortageSeen
  <1> QED  BY <1>5, <1>6

\* A step of the documents: what is free is kept unless a count is posted, and who is
\* left short is seen.
LEMMA DocumentStepsKeep ==
    ASSUME DocumentsInv, DocumentsInv', [DocumentsNext]_allVars
    PROVE  /\ \/ FreeStockKept
              \/ \E d \in DocumentIds : /\ document[d].kind = "inventory"
                                        /\ document[d].status = "draft" /\ document'[d].status = "posted"
           /\ ShortageSeen
  <1>1. TypeOK /\ TypeOK'
    BY DEF DocumentsInv, IInv
  <1>2. CASE UNCHANGED allVars
    BY <1>2, NothingMoves DEF allVars
  <1>3. CASE DraftStep
    BY <1>3, DraftsStay, NothingMoves
  <1>4. CASE OtherHandlers
    <2>1. [Next]_vars
      BY <1>4 DEF OtherHandlers
    <2> QED  BY <1>1, <2>1, StepKeeps, StepSees
  <1>5. ASSUME NEW d \in DocumentIds, NEW v \in 1 .. MaxDocumentVersion, PostTransfer(d, v)
        PROVE  FreeStockKept /\ ShortageSeen
    BY <1>5, TransferMoves
  <1>6. ASSUME NEW d \in DocumentIds, NEW v \in 1 .. MaxDocumentVersion, PostInventory(d, v)
        PROVE  /\ document[d].kind = "inventory"
               /\ document[d].status = "draft" /\ document'[d].status = "posted"
               /\ ShortageSeen
    <2>1. document[d].kind = "inventory" /\ document[d].status = "draft"
      BY <1>6 DEF PostInventory, Draft
    <2>2. document'[d].status = "posted"
      <3>1. document \in [DocumentIds -> DocumentRow]
        BY DEF DocumentsInv
      <3>2. document' = [document EXCEPT ![d].status = "posted", ![d].version = @ + 1]
        BY <1>6 DEF PostInventory, Posted
      <3>3. document' = [document EXCEPT ![d] = [document[d] EXCEPT !.status = "posted", !.version = @ + 1]]
        BY <3>1, <3>2
      <3>4. document'[d] = [document[d] EXCEPT !.status = "posted", !.version = @ + 1] /\ document[d] \in DocumentRow
        BY <3>1, <3>3
      <3> QED  BY <3>4 DEF DocumentRow
    <2> QED  BY <1>6, <2>1, <2>2, InventoryMoves
  <1> QED  BY <1>2, <1>3, <1>4, <1>5, <1>6 DEF DocumentsNext, PostStep

\* What was posted stays as it was.
LEMMA PostedStays ==
    ASSUME DocumentsInv, [DocumentsNext]_allVars, NEW d \in DocumentIds, document[d].status = "posted"
    PROVE  [document'[d] EXCEPT !.archived = FALSE, !.version = 0]
               = [document[d] EXCEPT !.archived = FALSE, !.version = 0]
  <1>1. document[d] \in DocumentRow
    BY DEF DocumentsInv
  <1>2. CASE document'[d] = document[d]
    BY <1>2
  <1>3. ASSUME NEW flag \in BOOLEAN, document'[d] = [document[d] EXCEPT !.archived = flag, !.version = @ + 1]
        PROVE  [document'[d] EXCEPT !.archived = FALSE, !.version = 0]
                   = [document[d] EXCEPT !.archived = FALSE, !.version = 0]
    BY <1>1, <1>3 DEF DocumentRow
  <1> QED  BY <1>2, <1>3, PostsAre

(***************************************************************************)
(* docs/FUNCTIONAL_MIGRATION.md, "Инвентаризация": for any documents, of   *)
(* any number of lines, a count is posted only if no material of it has    *)
(* moved since its line was opened (documents.py, post_document).          *)
(***************************************************************************)
THEOREM CountsStayCurrent == DocumentsSpec => CountsAreCurrent
  <1> DEFINE Current == \A d \in DocumentIds :
                            /\ document[d].kind = "inventory"
                            /\ document[d].status = "draft" /\ document'[d].status = "posted"
                            => drifted[d] \cap DOMAIN document[d].lines = {}
  <1>1. DocumentsInv /\ [DocumentsNext]_allVars => [Current]_allVars
    <2> SUFFICES ASSUME DocumentsInv, [DocumentsNext]_allVars, NEW d \in DocumentIds,
                        document[d].kind = "inventory", document[d].status = "draft", document'[d].status = "posted"
                 PROVE  drifted[d] \cap DOMAIN document[d].lines = {}
      OBVIOUS
    <2>1. PICK seen \in Nat : PostTransfer(d, seen) \/ PostInventory(d, seen)
      BY PostsAre
    <2>2. PostInventory(d, seen)
      BY <2>1 DEF PostTransfer
    <2> QED  BY <2>2, CountIsCurrent
  <1>2. DocumentsSpec => []DocumentsInv
    BY DocumentsBegin, DocumentsStay, PTL DEF DocumentsSpec
  <1> QED  BY <1>1, <1>2, PTL DEF DocumentsSpec, CountsAreCurrent

(***************************************************************************)
(* Documents stay well formed, a posted one is final, only a posted count  *)
(* goes past what is free, and whom a posting leaves short is seen         *)
(* (documents.py, sync_shortage_task).                                     *)
(***************************************************************************)
THEOREM PostingsStaySound == DocumentsSpec => PostingsAreSound
  <1> DEFINE Uncovers == \/ FreeStockKept
                         \/ \E d \in DocumentIds : /\ document[d].kind = "inventory"
                                                   /\ document[d].status = "draft"
                                                   /\ document'[d].status = "posted"
             Final == \A d \in DocumentIds :
                          document[d].status = "posted" =>
                             [document'[d] EXCEPT !.archived = FALSE, !.version = 0]
                               = [document[d] EXCEPT !.archived = FALSE, !.version = 0]
  <1>1. DocumentsInv /\ DocumentsInv' /\ [DocumentsNext]_allVars => [Uncovers]_allVars
    BY DocumentStepsKeep
  <1>2. DocumentsInv /\ [DocumentsNext]_allVars => [Final]_allVars
    BY PostedStays
  <1>3. DocumentsInv /\ DocumentsInv' /\ [DocumentsNext]_allVars => [ShortageSeen]_allVars
    BY DocumentStepsKeep
  <1>4. DocumentsInv => DocumentsTypeOK
    BY InvIsType
  <1>5. DocumentsSpec => []DocumentsInv
    BY DocumentsBegin, DocumentsStay, PTL DEF DocumentsSpec
  <1> QED  BY <1>1, <1>2, <1>3, <1>4, <1>5, PTL
           DEF DocumentsSpec, PostingsAreSound, OnlyCountsUncover, PostedIsFinal, DocumentsSeeShortages

------------------------------------------------------------------------------
(* Customer orders.  That the lines, shipments and holds of orders agree is *)
(* not inductive alone: a hold must be of the material of its line, a       *)
(* shipment must carry lines of its own order only, which somebody created, *)
(* and an order nobody created must have nothing on its lines.              *)

\* What is held for a line is what the line is about.
HoldsOfLines ==
    \A h \in HoldIds :
        hold[h].target \in SalesLines => hold[h].material = LineMaterial[hold[h].target]

\* A shipment carries lines of its own order.
ShipmentsOfLines ==
    \A s \in ShipmentIds, l \in SalesLines :
        shipment[s].quantity[l] > 0 => shipment[s].order = OrderOf[l]

\* A shipment belongs to an order that was created.
ShipmentsOfOrders ==
    \A s \in ShipmentIds : shipment[s].status # "none" =>
        shipment[s].order \in Orders /\ order[shipment[s].order].status # "none"

\* An order that was not created has no version and nothing on its lines.
UnwrittenOrders ==
    \A o \in Orders : order[o].status = "none" =>
        order[o].version = 0 /\ \A l \in LinesOf(o) : ordered[l] = 0

SalesTables ==
    /\ order \in [Orders -> OrderRow]
    /\ ordered \in [SalesLines -> Nat]
    /\ shipment \in [ShipmentIds -> ShipmentRow]

RowsAgree == HoldsOfLines /\ ShipmentsOfLines /\ ShipmentsOfOrders /\ UnwrittenOrders

SalesIInv ==
    /\ IInv /\ PromisesCovered
    /\ SalesTables /\ LinesCovered /\ ClosedOrdersHoldNothing /\ RowsAgree

------------------------------------------------------------------------------
(* What is shipped.                                                          *)

ShipTable == [ShipmentIds -> ShipmentRow]

PostedOn(sh, l) ==
    [s \in ShipmentIds |-> IF sh[s].status = "posted" THEN sh[s].quantity[l] ELSE 0]

LEMMA SalesNumbers ==
    /\ IsFiniteSet(ShipmentIds) /\ IsFiniteSet(SalesLines)
    /\ MaxOrdered \in Nat
    /\ \A l \in SalesLines : /\ l \in Targets /\ l \in LinesOf(OrderOf[l]) /\ l # Null
                             /\ OrderOf[l] \in Orders /\ LineMaterial[l] \in Materials
  <1>1. IsFiniteSet(ShipmentIds) /\ MaxOrdered \in Nat
    BY OrdersAssumption, FS_Interval DEF ShipmentIds
  <1>2. IsFiniteSet(SalesLines)
    BY TablesAssumption
  <1>3. \A l \in SalesLines : /\ l \in Targets /\ l \in LinesOf(OrderOf[l]) /\ l # Null
                              /\ OrderOf[l] \in Orders /\ LineMaterial[l] \in Materials
    BY TablesAssumption, OrdersAssumption DEF Targets, LinesOf
  <1> QED
    BY <1>1, <1>2, <1>3

LEMMA ShippedType ==
    ASSUME NEW sh \in ShipTable, NEW l \in SalesLines
    PROVE  /\ \A s \in ShipmentIds : PostedOn(sh, l)[s] \in Nat
           /\ Shipped(sh, l) = Total(PostedOn(sh, l), ShipmentIds)
           /\ Shipped(sh, l) \in Nat
  <1>1. \A s \in ShipmentIds : PostedOn(sh, l)[s] \in Nat
    BY DEF PostedOn, ShipTable, ShipmentRow
  <1>2. Shipped(sh, l) = Total(PostedOn(sh, l), ShipmentIds)
    BY DEF Shipped, PostedOn
  <1>3. Total(PostedOn(sh, l), ShipmentIds) \in Nat
    <2> DEFINE f == PostedOn(sh, l)
    <2>1. \A s \in ShipmentIds : f[s] \in Nat
      BY <1>1
    <2> HIDE DEF f
    <2>2. Total(f, ShipmentIds) \in Nat
      BY <2>1, SalesNumbers, TotalType
    <2> QED BY <2>2 DEF f
  <1> QED
    BY <1>1, <1>2, <1>3

\* One shipment moved: what is shipped of a line moves by that shipment.
LEMMA ShippedMoves ==
    ASSUME NEW old \in ShipTable, NEW new \in ShipTable, NEW s \in ShipmentIds,
           \A r \in ShipmentIds \ {s} : new[r] = old[r], NEW l \in SalesLines
    PROVE  Shipped(new, l) = Shipped(old, l) - PostedOn(old, l)[s] + PostedOn(new, l)[s]
  <1> DEFINE f == PostedOn(old, l)
             n == PostedOn(new, l)
  <1>1. \A r \in ShipmentIds : f[r] \in Nat
    BY ShippedType
  <1>2. \A r \in ShipmentIds : n[r] \in Nat
    BY ShippedType
  <1>3. \A r \in ShipmentIds \ {s} : n[r] = f[r]
    BY DEF PostedOn
  <1>4. Shipped(old, l) = Total(f, ShipmentIds) /\ Shipped(new, l) = Total(n, ShipmentIds)
    BY ShippedType
  <1> HIDE DEF f, n
  <1>5. Total(n, ShipmentIds) = Total(f, ShipmentIds) - f[s] + n[s]
    BY <1>1, <1>2, <1>3, SalesNumbers, TotalUpdate
  <1> QED
    BY <1>4, <1>5 DEF f, n

LEMMA NothingShipped ==
    ASSUME NEW sh \in ShipTable, NEW l \in SalesLines,
           \A s \in ShipmentIds : PostedOn(sh, l)[s] = 0
    PROVE  Shipped(sh, l) = 0
  BY ShippedType, TotalZero

\* Nothing is held for a line but its own material.
LEMMA HeldForLine ==
    ASSUME NEW hd, \A h \in HoldIds : hd[h].target \in SalesLines =>
                                         hd[h].material = LineMaterial[hd[h].target],
           NEW l \in SalesLines, NEW m, m # LineMaterial[l]
    PROVE  Held(hd, m, {l}) = 0
  <1>1. \A h \in HoldIds : LeftOn(hd, m, {l})[h] = 0
    BY DEF LeftOn
  <1> QED
    BY <1>1, TotalZero DEF Held

------------------------------------------------------------------------------
(* Steps that give no line a new hold.                                       *)

\* No hold is made for a line, and those there are keep no more.
LineHoldsShrink ==
    \A h \in HoldIds : hold'[h].target \in SalesLines =>
        /\ hold'[h].target = hold[h].target /\ hold'[h].material = hold[h].material
        /\ Left(hold'[h]) <= Left(hold[h])

LEMMA LinesHoldNoMore ==
    ASSUME hold \in HoldTable, hold' \in HoldTable, LineHoldsShrink,
           NEW m, NEW l \in SalesLines
    PROVE  Held(hold', m, {l}) <= Held(hold, m, {l})
  <1> DEFINE f == LeftOn(hold, m, {l})
             n == LeftOn(hold', m, {l})
  <1>1. \A h \in HoldIds : f[h] \in Nat
    BY HeldType
  <1>2. \A h \in HoldIds : n[h] \in Nat
    BY HeldType
  <1>3. ASSUME NEW h \in HoldIds
        PROVE  n[h] <= f[h]
    <2>1. CASE hold'[h].material = m /\ hold'[h].target = l
      <3>1. n[h] = Left(hold'[h]) /\ f[h] = Left(hold[h]) /\ Left(hold'[h]) <= Left(hold[h])
        BY <2>1 DEF LineHoldsShrink, LeftOn
      <3> QED
        BY <3>1
    <2>2. CASE ~(hold'[h].material = m /\ hold'[h].target = l)
      <3>1. n[h] = 0 /\ f[h] \in Nat
        BY <1>1, <2>2 DEF LeftOn
      <3> QED
        BY <3>1
    <2> QED
      BY <2>1, <2>2
  <1> HIDE DEF f, n
  <1>4. Total(n, HoldIds) <= Total(f, HoldIds)
    BY <1>1, <1>2, <1>3, SmallNumbers, TotalMonotonic
  <1> QED
    BY <1>4 DEF f, n, Held

LEMMA HoldsOfLinesKept ==
    ASSUME HoldsOfLines, LineHoldsShrink
    PROVE  HoldsOfLines'
  BY DEF HoldsOfLines, LineHoldsShrink

\* Orders hold no more than they did.
LEMMA OrdersHoldNoMore ==
    ASSUME hold \in HoldTable, hold' \in HoldTable, LineHoldsShrink, NEW o \in Orders
    PROVE  HeldForOrder(o)' \subseteq HeldForOrder(o)
  <1> SUFFICES ASSUME NEW h \in HeldForOrder(o)'
               PROVE  h \in HeldForOrder(o)
    OBVIOUS
  <1>1. h \in HoldIds /\ hold'[h].target \in LinesOf(o) /\ Left(hold'[h]) > 0
    BY DEF HeldForOrder, LinesOf
  <1>2. hold'[h].target \in SalesLines /\ Left(hold[h]) \in Int /\ Left(hold'[h]) \in Int
    BY <1>1 DEF LinesOf, HoldTable, HoldRow, Left
  <1>3. hold[h].target = hold'[h].target /\ Left(hold'[h]) <= Left(hold[h])
    BY <1>1, <1>2 DEF LineHoldsShrink
  <1> QED
    BY <1>1, <1>2, <1>3 DEF HeldForOrder

LEMMA SameHoldsShrink ==
    ASSUME hold \in HoldTable, hold' = hold
    PROVE  LineHoldsShrink
  <1>1. \A h \in HoldIds : Left(hold[h]) \in Int
    BY DEF HoldTable, HoldRow, Left
  <1> QED
    BY <1>1 DEF LineHoldsShrink

\* Lines whose order is as it was, and that were shipped no more, stay covered.
LEMMA CoveredKept ==
    ASSUME hold \in HoldTable, hold' \in HoldTable, LineHoldsShrink, SalesTables, SalesTables',
           LinesCovered, NEW l \in SalesLines,
           ordered'[l] = ordered[l], Shipped(shipment', l) <= Shipped(shipment, l)
    PROVE  Shipped(shipment', l) + Held(hold', LineMaterial[l], {l}) <= ordered'[l]
  <1>1. /\ Held(hold', LineMaterial[l], {l}) <= Held(hold, LineMaterial[l], {l})
        /\ Held(hold', LineMaterial[l], {l}) \in Nat /\ Held(hold, LineMaterial[l], {l}) \in Nat
    BY LinesHoldNoMore, HeldType
  <1>2. Shipped(shipment, l) \in Nat /\ Shipped(shipment', l) \in Nat /\ ordered[l] \in Nat
    BY ShippedType DEF SalesTables, ShipTable
  <1>3. Shipped(shipment, l) + Held(hold, LineMaterial[l], {l}) <= ordered[l]
    BY DEF LinesCovered
  <1> QED
    BY <1>1, <1>2, <1>3

------------------------------------------------------------------------------
(* The handlers of an order.                                                 *)

\* What a handler of sales must leave agreeing.
SalesAgree ==
    SalesTables /\ LinesCovered /\ ClosedOrdersHoldNothing /\ RowsAgree

LEMMA SalesFacts ==
    ASSUME SalesIInv
    PROVE  /\ TypeOK /\ SalesAgree /\ hold \in HoldTable /\ shipment \in ShipTable
           /\ order \in [Orders -> OrderRow] /\ ordered \in [SalesLines -> Nat]
           /\ \A l \in SalesLines : /\ Shipped(shipment, l) \in Nat
                                    /\ Held(hold, LineMaterial[l], {l}) \in Nat
  <1>1. TypeOK /\ SalesAgree /\ hold \in HoldTable /\ shipment \in ShipTable
    BY DEF SalesIInv, IInv, SalesAgree, TypeOK, HoldsOK, HoldTable, SalesTables, ShipTable
  <1> QED
    BY <1>1, ShippedType, HeldType DEF SalesAgree, SalesTables

\* New quantities on the lines of an order that nothing was shipped or held of.
LEMMA LinesWritten ==
    ASSUME SalesIInv, NEW o \in Orders, NEW q \in OrderLines(o), WriteLines(o, q),
           UNCHANGED <<shipment, hold>>,
           \A l \in LinesOf(o) : /\ Shipped(shipment, l) = 0
                                 /\ Held(hold, LineMaterial[l], {l}) = 0
    PROVE  /\ ordered' \in [SalesLines -> Nat] /\ LinesCovered'
           /\ \A p \in Orders \ {o} : \A l \in LinesOf(p) : ordered'[l] = ordered[l]
  <1>1. \A l \in LinesOf(o) : q[l] \in Nat
    BY SalesNumbers DEF OrderLines
  <1>2. \A l \in SalesLines : ordered[l] \in Nat
    BY SalesFacts
  <1>3. ordered' \in [SalesLines -> Nat]
    BY <1>1, <1>2 DEF WriteLines
  <1>4. ASSUME NEW l \in SalesLines
        PROVE  Shipped(shipment', l) + Held(hold', LineMaterial[l], {l}) <= ordered'[l]
    <2>1. CASE l \in LinesOf(o)
      <3>1. Shipped(shipment, l) = 0 /\ Held(hold, LineMaterial[l], {l}) = 0
        BY <2>1
      <3>2. ordered'[l] \in Nat
        BY <1>3
      <3> QED
        BY <3>1, <3>2
    <2>2. CASE l \notin LinesOf(o)
      <3>1. ordered'[l] = ordered[l]
        BY <2>2 DEF WriteLines
      <3>2. Shipped(shipment, l) + Held(hold, LineMaterial[l], {l}) <= ordered[l]
        BY SalesFacts DEF SalesAgree, LinesCovered
      <3> QED
        BY <3>1, <3>2
    <2> QED
      BY <2>1, <2>2
  <1>5. \A p \in Orders \ {o} : \A l \in LinesOf(p) : ordered'[l] = ordered[l]
    BY DEF WriteLines, LinesOf
  <1> QED
    BY <1>3, <1>4, <1>5 DEF LinesCovered

LEMMA CreateOrderAgrees ==
    ASSUME SalesIInv, NEW o \in Orders, NEW q \in OrderLines(o), CreateOrder(o, q)
    PROVE  SalesAgree' /\ CardsMove
  <1>1. /\ order[o].status = "none" /\ WriteLines(o, q) /\ UNCHANGED <<shipment, hold>>
        /\ order' = [order EXCEPT ![o].status = "draft", ![o].version = 1]
    BY DEF CreateOrder, vars
  <1>2. order \in [Orders -> OrderRow] /\ SalesAgree
    BY SalesFacts
  <1>3. \A l \in LinesOf(o) : /\ Shipped(shipment, l) = 0
                              /\ Held(hold, LineMaterial[l], {l}) = 0
    <2> SUFFICES ASSUME NEW l \in LinesOf(o)
                 PROVE  Shipped(shipment, l) = 0 /\ Held(hold, LineMaterial[l], {l}) = 0
      OBVIOUS
    <2>1. l \in SalesLines /\ ordered[l] = 0
      BY <1>1, <1>2 DEF LinesOf, SalesAgree, RowsAgree, UnwrittenOrders
    <2>2. Shipped(shipment, l) + Held(hold, LineMaterial[l], {l}) <= ordered[l]
      BY <1>2, <2>1 DEF SalesAgree, LinesCovered
    <2>3. Shipped(shipment, l) \in Nat /\ Held(hold, LineMaterial[l], {l}) \in Nat
      BY <2>1, SalesFacts
    <2> QED
      BY <2>1, <2>2, <2>3
  <1>4. /\ ordered' \in [SalesLines -> Nat] /\ LinesCovered'
        /\ \A p \in Orders \ {o} : \A l \in LinesOf(p) : ordered'[l] = ordered[l]
    BY <1>1, <1>3, LinesWritten
  <1>5. /\ order' \in [Orders -> OrderRow]
        /\ order'[o].status = "draft" /\ order'[o].archived = order[o].archived
        /\ \A p \in Orders \ {o} : order'[p] = order[p]
    BY <1>1, <1>2 DEF OrderRow
  <1>6. SalesTables'
    BY <1>1, <1>2, <1>4, <1>5 DEF SalesAgree, SalesTables
  <1>7. ClosedOrdersHoldNothing'
    <2>1. \A p \in Orders : order'[p].archived \/ order'[p].status = "cancelled"
                               => order[p].archived \/ order[p].status = "cancelled"
      BY <1>5
    <2>2. \A p \in Orders : order'[p].status = "cancelled" => order[p].status = "cancelled"
      BY <1>5
    <2> QED
      BY <1>1, <1>2, <2>1, <2>2
      DEF SalesAgree, ClosedOrdersHoldNothing, HeldForOrder, Drafts, ShipmentsOf
  <1>8. RowsAgree'
    <2>1. UnwrittenOrders'
      BY <1>2, <1>4, <1>5 DEF SalesAgree, RowsAgree, UnwrittenOrders
    <2>2. ShipmentsOfOrders'
      BY <1>1, <1>2, <1>5 DEF SalesAgree, RowsAgree, ShipmentsOfOrders
    <2> QED
      BY <1>1, <1>2, <2>1, <2>2 DEF SalesAgree, RowsAgree, HoldsOfLines, ShipmentsOfLines
  <1>9. CardsMove
    <2>1. \A l : Shipped(shipment', l) = Shipped(shipment, l)
      BY <1>1
    <2>2. order'[o].version = order[o].version + 1
      BY <1>1, <1>2 DEF SalesAgree, RowsAgree, UnwrittenOrders, OrderRow
    <2> QED
      BY <1>4, <1>5, <2>1, <2>2 DEF CardsMove
  <1> QED
    BY <1>4, <1>6, <1>7, <1>8, <1>9 DEF SalesAgree

\* Another status of an order, with its lines, shipments and holds as they were.
LEMMA OrderRowMoves ==
    ASSUME SalesIInv, NEW o \in Orders, order' \in [Orders -> OrderRow],
           \A p \in Orders \ {o} : order'[p] = order[p],
           order'[o].version = order[o].version + 1, order'[o].status # "none",
           UNCHANGED <<ordered, shipment, hold>>,
           order'[o].archived \/ order'[o].status = "cancelled"
             => HeldForOrder(o) = {} /\ Drafts(o) = {},
           order'[o].status = "cancelled" => \A l \in LinesOf(o) : Shipped(shipment, l) = 0
    PROVE  SalesAgree' /\ CardsMove
  <1>1. SalesAgree
    BY SalesFacts
  <1>2. SalesTables'
    BY <1>1 DEF SalesAgree, SalesTables
  <1>3. LinesCovered'
    BY <1>1 DEF SalesAgree, LinesCovered
  <1>4. ASSUME NEW p \in Orders
        PROVE  /\ order'[p].archived \/ order'[p].status = "cancelled" =>
                     HeldForOrder(p)' = {} /\ Drafts(p)' = {}
               /\ order'[p].status = "cancelled" =>
                     \A l \in LinesOf(p) : Shipped(shipment', l) = 0
    <2>1. HeldForOrder(p)' = HeldForOrder(p) /\ Drafts(p)' = Drafts(p)
      BY DEF HeldForOrder, Drafts, ShipmentsOf
    <2>2. CASE p = o
      BY <2>1, <2>2
    <2>3. CASE p # o
      BY <1>1, <2>1, <2>3 DEF SalesAgree, ClosedOrdersHoldNothing
    <2> QED
      BY <2>2, <2>3
  <1>5. ClosedOrdersHoldNothing'
    BY <1>4 DEF ClosedOrdersHoldNothing, LinesOf
  <1>6. RowsAgree'
    BY <1>1 DEF SalesAgree, RowsAgree, HoldsOfLines, ShipmentsOfLines, ShipmentsOfOrders,
                UnwrittenOrders
  <1>7. CardsMove
    BY DEF CardsMove
  <1> QED
    BY <1>2, <1>3, <1>5, <1>6, <1>7 DEF SalesAgree

LEMMA EditOrderAgrees ==
    ASSUME SalesIInv, NEW o \in Orders, NEW seen, NEW q \in OrderLines(o),
           EditOrder(o, seen, q)
    PROVE  SalesAgree' /\ CardsMove
  <1>1. /\ order[o].status \in {"draft", "confirmed"} /\ ~order[o].archived /\ ~Frozen(o)
        /\ WriteLines(o, q) /\ UNCHANGED <<shipment, hold>>
        /\ order' = [order EXCEPT ![o].version = @ + 1]
    BY DEF EditOrder, vars
  <1>2. order \in [Orders -> OrderRow] /\ SalesAgree /\ shipment \in ShipTable
    BY SalesFacts
  <1>3. \A l \in LinesOf(o) : /\ Shipped(shipment, l) = 0
                              /\ Held(hold, LineMaterial[l], {l}) = 0
    <2> SUFFICES ASSUME NEW l \in LinesOf(o)
                 PROVE  Shipped(shipment, l) = 0 /\ Held(hold, LineMaterial[l], {l}) = 0
      OBVIOUS
    <2>1. l \in SalesLines /\ OrderOf[l] = o
      BY DEF LinesOf
    <2>2. ASSUME NEW s \in ShipmentIds
          PROVE  PostedOn(shipment, l)[s] = 0
      <3>1. shipment[s].quantity[l] \in Nat
        BY <1>2, <2>1 DEF ShipTable, ShipmentRow
      <3>2. shipment[s].order # o
        BY <1>1 DEF Frozen, ShipmentsOf
      <3>3. ~(shipment[s].quantity[l] > 0)
        BY <1>2, <2>1, <3>2 DEF SalesAgree, RowsAgree, ShipmentsOfLines
      <3> QED
        BY <3>1, <3>3 DEF PostedOn
    <2>3. Shipped(shipment, l) = 0
      BY <1>2, <2>1, <2>2, NothingShipped
    <2>4. \A h \in HoldIds : LeftOn(hold, LineMaterial[l], {l})[h] = 0
      BY <1>1 DEF Frozen, LeftOn
    <2>5. Held(hold, LineMaterial[l], {l}) = 0
      BY <2>4, TotalZero DEF Held
    <2> QED
      BY <2>3, <2>5
  <1>4. /\ ordered' \in [SalesLines -> Nat] /\ LinesCovered'
        /\ \A p \in Orders \ {o} : \A l \in LinesOf(p) : ordered'[l] = ordered[l]
    BY <1>1, <1>3, LinesWritten
  <1>5. /\ order' \in [Orders -> OrderRow]
        /\ order'[o].version = order[o].version + 1
        /\ order'[o].status = order[o].status /\ order'[o].archived = order[o].archived
        /\ \A p \in Orders \ {o} : order'[p] = order[p]
    BY <1>1, <1>2 DEF OrderRow
  <1>6. SalesTables'
    BY <1>1, <1>2, <1>4, <1>5 DEF SalesAgree, SalesTables
  <1>7. ClosedOrdersHoldNothing'
    <2>1. \A p \in Orders : /\ order'[p].archived <=> order[p].archived
                            /\ order'[p].status = order[p].status
      BY <1>5
    <2> QED
      BY <1>1, <1>2, <2>1
      DEF SalesAgree, ClosedOrdersHoldNothing, HeldForOrder, Drafts, ShipmentsOf
  <1>8. RowsAgree'
    <2>1. UnwrittenOrders'
      BY <1>1, <1>2, <1>4, <1>5 DEF SalesAgree, RowsAgree, UnwrittenOrders
    <2>2. ShipmentsOfOrders'
      BY <1>1, <1>2, <1>5 DEF SalesAgree, RowsAgree, ShipmentsOfOrders
    <2> QED
      BY <1>1, <1>2, <2>1, <2>2 DEF SalesAgree, RowsAgree, HoldsOfLines, ShipmentsOfLines
  <1>9. CardsMove
    <2>1. \A l : Shipped(shipment', l) = Shipped(shipment, l)
      BY <1>1
    <2> QED
      BY <1>4, <1>5, <2>1 DEF CardsMove
  <1> QED
    BY <1>4, <1>6, <1>7, <1>8, <1>9 DEF SalesAgree

LEMMA OrderStatusAgrees ==
    ASSUME SalesIInv, NEW o \in Orders, NEW seen, NEW flag \in BOOLEAN,
           ConfirmOrder(o, seen) \/ CancelOrder(o, seen) \/ ArchiveOrder(o, seen, flag)
    PROVE  SalesAgree' /\ CardsMove
  <1>1. order \in [Orders -> OrderRow] /\ SalesAgree
    BY SalesFacts
  <1>2. CASE ConfirmOrder(o, seen)
    <2>1. /\ order[o].status = "draft" /\ ~order[o].archived
          /\ order' = [order EXCEPT ![o].status = "confirmed", ![o].version = @ + 1]
          /\ UNCHANGED <<ordered, shipment, hold>>
      BY <1>2 DEF ConfirmOrder, vars
    <2>2. /\ order' \in [Orders -> OrderRow]
          /\ order'[o].version = order[o].version + 1
          /\ order'[o].status = "confirmed" /\ order'[o].archived = order[o].archived
          /\ \A p \in Orders \ {o} : order'[p] = order[p]
      BY <1>1, <2>1 DEF OrderRow
    <2> QED
      BY <2>1, <2>2, OrderRowMoves
  <1>3. CASE CancelOrder(o, seen)
    <2>1. /\ HeldForOrder(o) = {} /\ Drafts(o) = {}
          /\ \A l \in LinesOf(o) : Shipped(shipment, l) = 0
          /\ order' = [order EXCEPT ![o].status = "cancelled", ![o].version = @ + 1]
          /\ UNCHANGED <<ordered, shipment, hold>>
      BY <1>3 DEF CancelOrder, vars
    <2>2. /\ order' \in [Orders -> OrderRow]
          /\ order'[o].version = order[o].version + 1
          /\ order'[o].status = "cancelled"
          /\ \A p \in Orders \ {o} : order'[p] = order[p]
      BY <1>1, <2>1 DEF OrderRow
    <2> QED
      BY <2>1, <2>2, OrderRowMoves
  <1>4. CASE ArchiveOrder(o, seen, flag)
    <2>1. /\ order[o].status # "none"
          /\ flag => HeldForOrder(o) = {} /\ Drafts(o) = {}
          /\ order' = [order EXCEPT ![o].archived = flag, ![o].version = @ + 1]
          /\ UNCHANGED <<ordered, shipment, hold>>
      BY <1>4 DEF ArchiveOrder, vars
    <2>2. /\ order' \in [Orders -> OrderRow]
          /\ order'[o].version = order[o].version + 1
          /\ order'[o].status = order[o].status /\ order'[o].archived = flag
          /\ \A p \in Orders \ {o} : order'[p] = order[p]
      BY <1>1, <2>1 DEF OrderRow
    <2>3. order[o].status = "cancelled" =>
             /\ HeldForOrder(o) = {} /\ Drafts(o) = {}
             /\ \A l \in LinesOf(o) : Shipped(shipment, l) = 0
      BY <1>1 DEF SalesAgree, ClosedOrdersHoldNothing
    <2> QED
      BY <2>1, <2>2, <2>3, OrderRowMoves
  <1> QED
    BY <1>2, <1>3, <1>4

------------------------------------------------------------------------------
(* A hold for a line of an order.                                            *)

LEMMA ReserveForLineAgrees ==
    ASSUME SalesIInv, TypeOK', NEW u \in RequestIds, NEW h \in HoldIds,
           NEW l \in SalesLines, NEW q \in Amounts, ReserveForLine(u, h, l, q)
    PROVE  SalesAgree' /\ CardsMove
  <1>1. /\ Active(OrderOf[l]) /\ q <= ToReserve(l) /\ UNCHANGED <<order, ordered, shipment>>
        /\ InsertHold(u, h, LineMaterial[l], l, q)
    BY DEF ReserveForLine, salesVars
  <1>2. SalesAgree /\ TypeOK /\ hold \in HoldTable
    BY SalesFacts
  <1>3. /\ \A g \in HoldIds \ {h} : hold'[g] = hold[g]
        /\ hold'[h].material = LineMaterial[l] /\ hold'[h].target = l
        /\ hold[h].target \notin SalesLines
    <2>1. /\ hold \in [HoldIds -> HoldRow] /\ hold[h] = NoHold
          /\ hold' = [hold EXCEPT ![h] = NewHold(LineMaterial[l], l, q)]
      BY <1>1, <1>2 DEF InsertHold, NextHold, TypeOK, HoldsOK
    <2>3. hold[h].target \notin SalesLines
      BY <2>1, TablesAssumption DEF NoHold
    <2>2. q \in Nat /\ l \in Targets /\ LineMaterial[l] \in Materials
      BY SmallNumbers, SalesNumbers
    <2> QED
      BY <2>1, <2>2, <2>3, Inserted
  <1>4. SalesTables'
    BY <1>1, <1>2 DEF SalesAgree, SalesTables
  <1>5. ASSUME NEW k \in SalesLines
        PROVE  Shipped(shipment', k) + Held(hold', LineMaterial[k], {k}) <= ordered'[k]
    <2>1. /\ Held(hold', LineMaterial[k], {k})
               = IF k = l THEN Held(hold, LineMaterial[k], {k}) + q
                 ELSE Held(hold, LineMaterial[k], {k})
          /\ Held(hold, LineMaterial[k], {k}) \in Nat
      <3>1. l \in Targets /\ k \in Targets
            /\ LineMaterial[l] \in Materials /\ LineMaterial[k] \in Materials
        BY SalesNumbers
      <3>2. \A n \in Materials, r \in Targets :
               /\ Held(hold', n, {r}) = IF n = LineMaterial[l] /\ r = l
                                        THEN Held(hold, n, {r}) + q ELSE Held(hold, n, {r})
               /\ Held(hold, n, {r}) \in Nat
        BY <1>1, <1>2, <3>1, InsertHeld
      <3> QED
        BY <3>1, <3>2
    <2>2. Shipped(shipment, k) \in Nat /\ ordered[k] \in Nat /\ q \in Nat \ {0}
      BY SalesFacts, SmallNumbers
    <2>3. Shipped(shipment, k) + Held(hold, LineMaterial[k], {k}) <= ordered[k]
      BY <1>2 DEF SalesAgree, LinesCovered
    <2>4. k = l => q <= ordered[k] - Shipped(shipment, k) - Held(hold, LineMaterial[k], {k})
      BY <1>1, <2>1, <2>2 DEF ToReserve, AtLeast
    <2> QED
      BY <1>1, <2>1, <2>2, <2>3, <2>4
  <1>6. ASSUME NEW p \in Orders
        PROVE  /\ order'[p].archived \/ order'[p].status = "cancelled" =>
                     HeldForOrder(p)' = {} /\ Drafts(p)' = {}
               /\ order'[p].status = "cancelled" =>
                     \A k \in LinesOf(p) : Shipped(shipment', k) = 0
    <2>1. Drafts(p)' = Drafts(p) /\ order'[p] = order[p]
      BY <1>1 DEF Drafts, ShipmentsOf
    <2>2. p # OrderOf[l] => HeldForOrder(p)' = HeldForOrder(p)
      <3> SUFFICES ASSUME p # OrderOf[l]
                   PROVE  {g \in HoldIds : hold'[g].target \in LinesOf(p) /\ Left(hold'[g]) > 0}
                            = HeldForOrder(p)
        BY DEF HeldForOrder, LinesOf
      <3>1. hold'[h].target \notin LinesOf(p) /\ hold[h].target \notin LinesOf(p)
        BY <1>3 DEF LinesOf
      <3> QED
        BY <1>3, <3>1 DEF HeldForOrder
    <2>3. p = OrderOf[l] => order[p].status # "cancelled" /\ ~order[p].archived
      BY <1>1 DEF Active
    <2> QED
      BY <1>1, <1>2, <2>1, <2>2, <2>3 DEF SalesAgree, ClosedOrdersHoldNothing
  <1>7. RowsAgree'
    BY <1>1, <1>2, <1>3
    DEF SalesAgree, RowsAgree, HoldsOfLines, ShipmentsOfLines, ShipmentsOfOrders,
        UnwrittenOrders
  <1>8. LinesCovered'
    BY <1>5 DEF LinesCovered
  <1>9. ClosedOrdersHoldNothing'
    BY <1>6 DEF ClosedOrdersHoldNothing, LinesOf
  <1>10. CardsMove
    BY <1>1 DEF CardsMove
  <1> QED
    BY <1>4, <1>7, <1>8, <1>9, <1>10 DEF SalesAgree

------------------------------------------------------------------------------
(* Shipments.                                                                *)

\* Orders keep their status and their lines; at most a version moves.
OrderRowsStay ==
    /\ order' \in [Orders -> OrderRow] /\ ordered' = ordered
    /\ \A p \in Orders : /\ order'[p].status = order[p].status
                         /\ order'[p].archived => order[p].archived
                         /\ order[p].status = "none" => order'[p] = order[p]

\* The lines stay covered, and those of a cancelled order are shipped no more.
LinesStayCovered ==
    \A l \in SalesLines :
        /\ Shipped(shipment', l) + Held(hold', LineMaterial[l], {l}) <= ordered[l]
        /\ order[OrderOf[l]].status = "cancelled" =>
              Shipped(shipment', l) <= Shipped(shipment, l)

\* What a step that changes one shipment, and the version of its order, respects.
ShipmentMoved(s) ==
    /\ shipment' \in ShipTable /\ \A r \in ShipmentIds \ {s} : shipment'[r] = shipment[r]
    /\ OrderRowsStay /\ LinesStayCovered
    /\ shipment'[s].order \in Orders /\ order[shipment'[s].order].status # "none"
    /\ \A l \in SalesLines :
          shipment'[s].quantity[l] > 0 => shipment'[s].order = OrderOf[l]
    /\ shipment'[s].status = "draft" =>
          \/ Active(shipment'[s].order)
          \/ shipment[s].status = "draft" /\ shipment[s].order = shipment'[s].order

LEMMA ShipmentAgrees ==
    ASSUME SalesIInv, hold' \in HoldTable, LineHoldsShrink, NEW s \in ShipmentIds,
           ShipmentMoved(s)
    PROVE  SalesAgree'
  <1>1. SalesAgree /\ hold \in HoldTable
    BY SalesFacts
  <1>2. SalesTables'
    BY <1>1 DEF SalesAgree, SalesTables, ShipTable, ShipmentMoved, OrderRowsStay
  <1>3. LinesCovered'
    BY DEF LinesCovered, ShipmentMoved, OrderRowsStay, LinesStayCovered
  <1>4. ASSUME NEW p \in Orders
        PROVE  /\ order'[p].archived \/ order'[p].status = "cancelled" =>
                     HeldForOrder(p)' = {} /\ Drafts(p)' = {}
               /\ order'[p].status = "cancelled" =>
                     \A l \in LinesOf(p) : Shipped(shipment', l) = 0
    <2>1. HeldForOrder(p)' \subseteq HeldForOrder(p)
      BY <1>1, OrdersHoldNoMore
    <2>2. order[p].archived \/ order[p].status = "cancelled" => Drafts(p)' \subseteq Drafts(p)
      BY DEF Drafts, ShipmentsOf, Active, ShipmentMoved, OrderRowsStay, LinesStayCovered
    <2>3. ASSUME order[p].status = "cancelled", NEW l \in LinesOf(p)
          PROVE  Shipped(shipment', l) = 0
      <3>1. l \in SalesLines /\ OrderOf[l] = p
        BY DEF LinesOf
      <3>2. Shipped(shipment, l) = 0
        BY <1>1, <2>3 DEF SalesAgree, ClosedOrdersHoldNothing
      <3>3. Shipped(shipment', l) \in Nat /\ Shipped(shipment', l) <= 0
        BY <2>3, <3>1, <3>2, ShippedType DEF ShipmentMoved, OrderRowsStay, LinesStayCovered
      <3> QED
        BY <3>3
    <2> QED
      BY <1>1, <2>1, <2>2, <2>3 DEF SalesAgree, ClosedOrdersHoldNothing, ShipmentMoved, OrderRowsStay
  <1>5. ClosedOrdersHoldNothing'
    BY <1>4 DEF ClosedOrdersHoldNothing, LinesOf
  <1>6. HoldsOfLines'
    BY <1>1, HoldsOfLinesKept DEF SalesAgree, RowsAgree
  <1>7. /\ \A r \in ShipmentIds \ {s} : shipment'[r] = shipment[r]
        /\ shipment'[s].order \in Orders /\ order[shipment'[s].order].status # "none"
        /\ \A l \in SalesLines :
              shipment'[s].quantity[l] > 0 => shipment'[s].order = OrderOf[l]
        /\ \A p \in Orders : /\ order'[p].status = order[p].status
                             /\ order[p].status = "none" => order'[p] = order[p]
        /\ ordered' = ordered
    BY DEF ShipmentMoved, OrderRowsStay, LinesStayCovered
  <1>8. ShipmentsOfLines'
    BY <1>1, <1>7 DEF SalesAgree, RowsAgree, ShipmentsOfLines
  <1>9. ShipmentsOfOrders'
    BY <1>1, <1>7 DEF SalesAgree, RowsAgree, ShipmentsOfOrders
  <1>10. UnwrittenOrders'
    BY <1>1, <1>7 DEF SalesAgree, RowsAgree, UnwrittenOrders, LinesOf
  <1> QED
    BY <1>2, <1>3, <1>5, <1>6, <1>8, <1>9, <1>10 DEF SalesAgree, RowsAgree

LEMMA CreateShipmentAgrees ==
    ASSUME SalesIInv, NEW s \in ShipmentIds, NEW o \in Orders, NEW seen,
           NEW q \in [SalesLines -> 0 .. MaxOrdered], CreateShipment(s, o, seen, q)
    PROVE  SalesAgree' /\ CardsMove
  <1> DEFINE row == [order |-> o, status |-> "draft", quantity |-> q, version |-> 1,
                     archived |-> FALSE]
  <1>1. /\ shipment[s].status = "none" /\ Active(o) /\ q \in Shippable(o)
        /\ shipment' = [shipment EXCEPT ![s] = row] /\ UNCHANGED <<order, ordered, hold>>
    BY DEF CreateShipment, vars
  <1>2. /\ SalesAgree /\ hold \in HoldTable /\ shipment \in ShipTable
        /\ order \in [Orders -> OrderRow]
    BY SalesFacts
  <1>3. q \in [SalesLines -> Nat]
    BY SalesNumbers
  <1>4. row \in ShipmentRow
    BY <1>3 DEF ShipmentRow
  <1>5. /\ row.order = o /\ row.status = "draft" /\ row.quantity = q
    OBVIOUS
  <1> HIDE DEF row
  <1>6. /\ shipment' \in ShipTable /\ shipment'[s] = row
        /\ \A r \in ShipmentIds \ {s} : shipment'[r] = shipment[r]
    BY <1>1, <1>2, <1>4 DEF ShipTable
  <1>7. ASSUME NEW l \in SalesLines
        PROVE  Shipped(shipment', l) = Shipped(shipment, l) /\ Shipped(shipment, l) \in Nat
    <2>1. PostedOn(shipment, l)[s] = 0 /\ PostedOn(shipment', l)[s] = 0
      BY <1>1, <1>5, <1>6 DEF PostedOn
    <2>2. Shipped(shipment', l)
            = Shipped(shipment, l) - PostedOn(shipment, l)[s] + PostedOn(shipment', l)[s]
      BY <1>2, <1>6, ShippedMoves
    <2>3. Shipped(shipment, l) \in Nat
      BY SalesFacts
    <2> QED
      BY <2>1, <2>2, <2>3
  <1>8. \A l \in SalesLines : q[l] > 0 => o = OrderOf[l]
    BY <1>1 DEF Shippable, LinesOf
  <1>9. \A l \in SalesLines :
           Shipped(shipment', l) + Held(hold', LineMaterial[l], {l}) <= ordered[l]
    BY <1>1, <1>2, <1>7 DEF SalesAgree, LinesCovered
  <1>10. LineHoldsShrink /\ hold' \in HoldTable
    BY <1>1, <1>2, SameHoldsShrink
  <1>11. \A p \in Orders : \A l \in LinesOf(p) :
            Shipped(shipment', l) = Shipped(shipment, l)
             /\ Shipped(shipment', l) <= Shipped(shipment, l)
    BY <1>7 DEF LinesOf
  <1>12. SalesAgree'
    <2>1. order[o].status # "none"
      BY <1>1 DEF Active
    <2>2. /\ shipment'[s].order \in Orders /\ order[shipment'[s].order].status # "none"
          /\ Active(shipment'[s].order)
      BY <1>1, <1>5, <1>6, <2>1
    <2>3. \A l \in SalesLines :
             /\ shipment'[s].quantity[l] > 0 => shipment'[s].order = OrderOf[l]
             /\ Shipped(shipment', l) + Held(hold', LineMaterial[l], {l}) <= ordered[l]
             /\ order[OrderOf[l]].status = "cancelled" =>
                   Shipped(shipment', l) <= Shipped(shipment, l)
      <3>1. \A l \in SalesLines : shipment'[s].quantity[l] > 0 => shipment'[s].order = OrderOf[l]
        BY <1>5, <1>6, <1>8
      <3>2. \A l \in SalesLines : Shipped(shipment', l) <= Shipped(shipment, l)
        BY <1>7
      <3> QED
        BY <1>9, <3>1, <3>2
    <2>4. ShipmentMoved(s)
      BY <1>1, <1>2, <1>6, <2>2, <2>3 DEF ShipmentMoved, OrderRowsStay, LinesStayCovered
    <2> QED
      BY <1>10, <2>4, ShipmentAgrees
  <1>13. CardsMove
    BY <1>1, <1>11 DEF CardsMove
  <1> QED
    BY <1>12, <1>13

LEMMA ArchiveShipmentAgrees ==
    ASSUME SalesIInv, NEW s \in ShipmentIds, NEW seen \in Nat, NEW flag \in BOOLEAN,
           ArchiveShipment(s, seen, flag)
    PROVE  SalesAgree' /\ CardsMove
  <1>1. /\ shipment[s].status # "none" /\ UNCHANGED <<order, ordered, hold>>
        /\ shipment' = [shipment EXCEPT ![s].archived = flag, ![s].version = @ + 1]
    BY DEF ArchiveShipment, vars
  <1>2. /\ SalesAgree /\ hold \in HoldTable /\ shipment \in ShipTable
        /\ order \in [Orders -> OrderRow]
    BY SalesFacts
  <1>3. /\ shipment' \in ShipTable
        /\ \A r \in ShipmentIds \ {s} : shipment'[r] = shipment[r]
        /\ shipment'[s].order = shipment[s].order /\ shipment'[s].status = shipment[s].status
        /\ shipment'[s].quantity = shipment[s].quantity
    BY <1>1, <1>2 DEF ShipTable, ShipmentRow
  <1>4. \A l \in SalesLines : Shipped(shipment', l) = Shipped(shipment, l)
    <2> SUFFICES ASSUME NEW l \in SalesLines
                 PROVE  Shipped(shipment', l) = Shipped(shipment, l)
      OBVIOUS
    <2>1. \A r \in ShipmentIds : PostedOn(shipment', l)[r] = PostedOn(shipment, l)[r]
      BY <1>3 DEF PostedOn
    <2> QED
      BY <1>2, <1>3, <2>1, ShippedType, TotalSame
  <1>5. \A l \in SalesLines :
           /\ Shipped(shipment', l) + Held(hold', LineMaterial[l], {l}) <= ordered[l]
           /\ Shipped(shipment', l) <= Shipped(shipment, l)
    <2> SUFFICES ASSUME NEW l \in SalesLines
                 PROVE  /\ Shipped(shipment', l) + Held(hold', LineMaterial[l], {l}) <= ordered[l]
                        /\ Shipped(shipment', l) <= Shipped(shipment, l)
      OBVIOUS
    <2>1. Shipped(shipment', l) = Shipped(shipment, l) /\ Shipped(shipment, l) \in Nat
      BY <1>4, SalesFacts
    <2>2. Shipped(shipment, l) + Held(hold, LineMaterial[l], {l}) <= ordered[l]
      BY <1>2 DEF SalesAgree, LinesCovered
    <2> QED
      BY <1>1, <2>1, <2>2
  <1>6. LineHoldsShrink /\ hold' \in HoldTable
    BY <1>1, <1>2, SameHoldsShrink
  <1>7. /\ shipment[s].order \in Orders /\ order[shipment[s].order].status # "none"
        /\ \A l \in SalesLines : shipment[s].quantity[l] > 0 => shipment[s].order = OrderOf[l]
    BY <1>1, <1>2 DEF SalesAgree, RowsAgree, ShipmentsOfOrders, ShipmentsOfLines
  <1>8. SalesAgree'
    <2>1. ShipmentMoved(s)
      BY <1>1, <1>2, <1>3, <1>5, <1>7 DEF ShipmentMoved, OrderRowsStay, LinesStayCovered
    <2> QED
      BY <1>6, <2>1, ShipmentAgrees
  <1>9. CardsMove
    BY <1>1, <1>4 DEF CardsMove, LinesOf
  <1> QED
    BY <1>8, <1>9

\* What a shipment carries of a material is what it carries over the lines of it.
LEMMA CarriedType ==
    ASSUME shipment \in ShipTable, NEW s \in ShipmentIds
    PROVE  /\ DOMAIN Carried(s) \subseteq Materials
           /\ \A m \in DOMAIN Carried(s) : Carried(s)[m] \in Nat \ {0}
           /\ \A m \in DOMAIN Carried(s) :
                 Carried(s)[m] = Total(shipment[s].quantity,
                                       {l \in SalesLines : /\ shipment[s].quantity[l] > 0
                                                           /\ LineMaterial[l] = m})
           /\ \A l \in SalesLines :
                 LineMaterial[l] \notin DOMAIN Carried(s) => shipment[s].quantity[l] = 0
  <1> DEFINE q == shipment[s].quantity
             lines == {l \in SalesLines : q[l] > 0}
             On(m) == {l \in lines : LineMaterial[l] = m}
  <1>1. Carried(s) = [m \in {LineMaterial[l] : l \in lines} |-> Total(q, On(m))]
    BY DEF Carried
  <1>2. DOMAIN Carried(s) = {LineMaterial[l] : l \in lines}
    <2> HIDE DEF lines, q
    <2> QED BY <1>1
  <1>3. \A l \in SalesLines : q[l] \in Nat /\ LineMaterial[l] \in Materials
    BY SalesNumbers DEF ShipTable, ShipmentRow
  <1>4. \A m : On(m) \in SUBSET SalesLines
               /\ On(m) = {l \in SalesLines : q[l] > 0 /\ LineMaterial[l] = m}
    OBVIOUS
  <1>5. \A m \in DOMAIN Carried(s) : Carried(s)[m] = Total(q, On(m))
    <2> HIDE DEF lines, q, On
    <2> QED BY <1>1
  <1>6. ASSUME NEW m \in DOMAIN Carried(s)
        PROVE  Carried(s)[m] \in Nat \ {0}
    <2>1. PICK l \in lines : m = LineMaterial[l]
      BY <1>2
    <2>2. l \in On(m) /\ q[l] > 0 /\ IsFiniteSet(On(m)) /\ \A k \in On(m) : q[k] \in Nat
      <3>1. IsFiniteSet(On(m))
        <4> HIDE DEF On
        <4> QED BY <1>4, SalesNumbers, FS_Subset
      <3> QED
        BY <1>3, <2>1, <3>1
    <2> HIDE DEF On, q
    <2>3. Total(q, On(m)) = Total(q, On(m) \ {l}) + q[l] /\ Total(q, On(m) \ {l}) \in Nat
      BY <2>2, TotalSplit
    <2>4. q[l] \in Nat \ {0}
      BY <2>2
    <2> QED
      BY <1>5, <2>3, <2>4
  <1>7. DOMAIN Carried(s) \subseteq Materials
    BY <1>2, <1>3
  <1>8. ASSUME NEW l \in SalesLines, LineMaterial[l] \notin DOMAIN Carried(s)
        PROVE  q[l] = 0
    <2>1. l \notin lines
      BY <1>2, <1>8
    <2> QED
      BY <1>3, <2>1
  <1> QED
    BY <1>4, <1>5, <1>6, <1>7, <1>8

\* Goods that come back.
LEMMA CancelledType ==
    ASSUME SalesIInv, NEW s \in ShipmentIds, NEW seen, CancelShipment(s, seen)
    PROVE  /\ TypeOK' /\ RequestedAgrees'
           /\ \A m \in Materials : stock[m] \in Int /\ stock'[m] \in Int /\ stock'[m] >= stock[m]
  <1>1. TypeOK /\ shipment \in ShipTable
    BY SalesFacts
  <1> DEFINE q == IF shipment[s].status = "posted" THEN Carried(s) ELSE <<>>
  <1>2. /\ stock' = Added(stock, q, 1) /\ SyncShortage(DOMAIN q, stock', hold, request)
        /\ UNCHANGED <<hold, event, norm, request>>
    BY DEF CancelShipment
  <1>3. DOMAIN q \subseteq Materials /\ \A m \in DOMAIN q : q[m] \in Nat
    <2>1. CASE shipment[s].status = "posted"
      BY <1>1, <2>1, CarriedType
    <2>2. CASE shipment[s].status # "posted"
      BY <2>2
    <2> QED
      BY <2>1, <2>2
  <1> HIDE DEF q
  <1>4. \A m \in Materials : stock[m] \in Int
    BY <1>1 DEF TypeOK
  <1>5. \A m \in Materials :
           stock'[m] = IF m \in DOMAIN q THEN stock[m] + q[m] ELSE stock[m]
    BY <1>2, <1>3, <1>4 DEF Added
  <1>6. stock' \in [Materials -> Int]
    BY <1>2, <1>3, <1>4 DEF Added
  <1>7. ShortagesOK'
    BY <1>1, <1>2, <1>3, SyncType DEF TypeOK, DecisionsStay
  <1>8. TypeOK'
    BY <1>1, <1>2, <1>6, <1>7 DEF TypeOK, HoldsOK, RequestsOK, ShortagesOK
  <1>9. RequestedAgrees'
    BY <1>2 DEF SalesIInv, IInv, RequestedAgrees, PendingOn
  <1>10. \A m \in Materials : stock'[m] >= stock[m]
    BY <1>3, <1>4, <1>5
  <1> QED
    BY <1>4, <1>6, <1>8, <1>9, <1>10

LEMMA CancelShipmentAgrees ==
    ASSUME SalesIInv, NEW s \in ShipmentIds, NEW seen, CancelShipment(s, seen)
    PROVE  SalesAgree' /\ CardsMove
  <1>0. shipment[s].order \in Orders /\ order[shipment[s].order].status # "none"
    BY SalesFacts
    DEF CancelShipment, SalesAgree, RowsAgree, ShipmentsOfOrders
  <1> PICK o \in Orders : o = shipment[s].order
    BY <1>0
  <1>1. /\ shipment[s].status \in {"draft", "posted"} /\ UNCHANGED <<ordered, hold>>
        /\ shipment' = [shipment EXCEPT ![s].status = "cancelled", ![s].version = @ + 1]
        /\ order' = [order EXCEPT ![o].version = @ + 1]
    BY DEF CancelShipment
  <1>2. /\ SalesAgree /\ hold \in HoldTable /\ shipment \in ShipTable
        /\ order \in [Orders -> OrderRow]
    BY SalesFacts
  <1>3. /\ o \in Orders /\ order[o].status # "none"
        /\ \A l \in SalesLines : shipment[s].quantity[l] > 0 => o = OrderOf[l]
    BY <1>0, <1>1, <1>2 DEF SalesAgree, RowsAgree, ShipmentsOfOrders, ShipmentsOfLines
  <1>4. /\ shipment' \in ShipTable
        /\ \A r \in ShipmentIds \ {s} : shipment'[r] = shipment[r]
        /\ shipment'[s].order = o /\ shipment'[s].status = "cancelled"
        /\ shipment'[s].quantity = shipment[s].quantity
    BY <1>1, <1>2 DEF ShipTable, ShipmentRow
  <1>5. /\ order' \in [Orders -> OrderRow] /\ order'[o].version = order[o].version + 1
        /\ \A p \in Orders : /\ order'[p].status = order[p].status
                             /\ order'[p].archived => order[p].archived
                             /\ p # o => order'[p] = order[p]
    BY <1>1, <1>2, <1>3 DEF OrderRow
  <1>6. ASSUME NEW l \in SalesLines
        PROVE  /\ Shipped(shipment', l) <= Shipped(shipment, l)
               /\ Shipped(shipment', l) \in Nat /\ Shipped(shipment, l) \in Nat
               /\ OrderOf[l] # o => Shipped(shipment', l) = Shipped(shipment, l)
    <2>1. Shipped(shipment', l)
            = Shipped(shipment, l) - PostedOn(shipment, l)[s] + PostedOn(shipment', l)[s]
      BY <1>2, <1>4, ShippedMoves
    <2>2. PostedOn(shipment', l)[s] = 0
      BY <1>4 DEF PostedOn
    <2>3. PostedOn(shipment, l)[s] \in Nat /\ shipment[s].quantity[l] \in Nat
      BY <1>2, ShippedType DEF ShipTable, ShipmentRow
    <2>4. OrderOf[l] # o => PostedOn(shipment, l)[s] = 0
      BY <1>3, <2>3 DEF PostedOn
    <2>5. Shipped(shipment, l) \in Nat /\ Shipped(shipment', l) \in Nat
      BY <1>2, <1>4, ShippedType
    <2> QED
      BY <2>1, <2>2, <2>3, <2>4, <2>5
  <1>7. LineHoldsShrink /\ hold' \in HoldTable
    BY <1>1, <1>2, SameHoldsShrink
  <1>8. SalesTables'
    BY <1>1, <1>2, <1>4, <1>5 DEF SalesAgree, SalesTables, ShipTable
  <1>9. \A l \in SalesLines :
           Shipped(shipment', l) + Held(hold', LineMaterial[l], {l}) <= ordered[l]
    BY <1>1, <1>2, <1>6, <1>7, <1>8, CoveredKept DEF SalesAgree
  <1>10. SalesAgree'
    <2>1. OrderRowsStay
      BY <1>1, <1>3, <1>5 DEF OrderRowsStay
    <2>2. LinesStayCovered
      BY <1>6, <1>9 DEF LinesStayCovered
    <2>3. /\ shipment' \in ShipTable /\ \A r \in ShipmentIds \ {s} : shipment'[r] = shipment[r]
          /\ shipment'[s].order \in Orders /\ order[shipment'[s].order].status # "none"
          /\ shipment'[s].status # "draft"
          /\ \A l \in SalesLines :
                shipment'[s].quantity[l] > 0 => shipment'[s].order = OrderOf[l]
      BY <1>3, <1>4
    <2>4. ShipmentMoved(s)
      BY <2>1, <2>2, <2>3 DEF ShipmentMoved
    <2> QED
      BY <1>7, <2>4, ShipmentAgrees
  <1>11. CardsMove
    <2>1. \A p \in Orders \ {o} : \A l \in LinesOf(p) : Shipped(shipment', l) = Shipped(shipment, l)
      BY <1>6 DEF LinesOf
    <2> QED
      BY <1>1, <1>5, <2>1 DEF CardsMove
  <1> QED
    BY <1>10, <1>11

------------------------------------------------------------------------------
(* A shipment that is posted.                                                *)

\* What the shipped lines take from their holds.
LEMMA UsedRows ==
    ASSUME SalesIInv, NEW quantity \in [SalesLines -> Nat],
           NEW left \in [HoldIds -> 0 .. MaxQuantity], UseHolds(quantity, left),
           NEW h \in HoldIds
    PROVE  /\ hold'[h] \in HoldRow /\ Left(hold'[h]) = left[h] /\ left[h] \in Nat
           /\ left[h] <= Left(hold[h])
           /\ hold'[h].material = hold[h].material /\ hold'[h].target = hold[h].target
           /\ \/ hold'[h] = hold[h]
              \/ hold[h].target \in SalesLines /\ hold'[h].version = hold[h].version + 1
  <1>1. hold[h] \in HoldRow /\ Left(hold[h]) \in Nat
    BY SalesFacts DEF TypeOK, HoldsOK, HoldRow, Left
  <1>2. hold'[h] = IF left[h] = Left(hold[h]) THEN hold[h]
                   ELSE NextVersion([hold[h] EXCEPT !.consumed = @ + (Left(hold[h]) - left[h])])
    BY DEF UseHolds
  <1>3. CASE left[h] = Left(hold[h])
    BY <1>1, <1>2, <1>3
  <1>4. CASE left[h] # Left(hold[h])
    <2>1. hold[h].target \in SalesLines
      BY <1>4 DEF UseHolds
    <2>2. left[h] <= Left(hold[h]) /\ left[h] \in Nat
      <3> DEFINE l == hold[h].target
                 before == LeftOn(hold, LineMaterial[l], {l})
                 after == [g \in HoldIds |-> IF hold[g].target = l THEN left[g] ELSE 0]
      <3>1. TakenInOrder(before, after, HoldIds, quantity[l])
        BY <2>1 DEF UseHolds
      <3>2. after[h] <= before[h]
        BY <3>1 DEF TakenInOrder
      <3>3. hold[h].material = LineMaterial[l]
        BY <2>1, SalesFacts DEF SalesAgree, RowsAgree, HoldsOfLines
      <3>4. after[h] = left[h] /\ before[h] = Left(hold[h])
        BY <3>3 DEF LeftOn
      <3>5. left[h] \in Nat
        BY QuantitiesAssumption
      <3> QED
        BY <3>2, <3>4, <3>5
    <2> DEFINE d == Left(hold[h]) - left[h]
               new == NextVersion([hold[h] EXCEPT !.consumed = @ + d])
    <2>3. d \in Nat /\ d <= Left(hold[h]) /\ Left(hold[h]) - d = left[h]
      BY <1>1, <2>2
    <2>4. hold'[h] = new
      BY <1>2, <1>4
    <2>5. /\ new \in HoldRow /\ Left(new) = Left(hold[h]) - d
          /\ new.material = hold[h].material /\ new.target = hold[h].target
          /\ new.version = hold[h].version + 1
      <3> HIDE DEF d
      <3> QED BY <1>1, <2>3, Consumed
    <2> HIDE DEF d, new
    <2> QED BY <2>1, <2>2, <2>3, <2>4, <2>5
  <1> QED
    BY <1>3, <1>4

\* The facts of a posted shipment that the rest needs.
Uses(quantity) == \E left \in [HoldIds -> 0 .. MaxQuantity] : UseHolds(quantity, left)

LEMMA UsedType ==
    ASSUME SalesIInv, NEW quantity \in [SalesLines -> Nat], Uses(quantity)
    PROVE  HoldsOK' /\ hold' \in HoldTable /\ LineHoldsShrink
  <1>0. PICK left \in [HoldIds -> 0 .. MaxQuantity] : UseHolds(quantity, left)
    BY DEF Uses
  <1>1. hold' \in [HoldIds -> HoldRow]
    BY <1>0, UsedRows DEF UseHolds
  <1>2. \A h \in HoldIds :
           /\ Left(hold'[h]) = left[h] /\ left[h] \in Nat /\ left[h] <= Left(hold[h])
           /\ hold'[h].material = hold[h].material /\ hold'[h].target = hold[h].target
    BY <1>0, UsedRows
  <1>3. ASSUME NEW h \in HoldIds
        PROVE  /\ Left(hold'[h]) >= 0
               /\ IF hold'[h].version = 0 THEN hold'[h] = NoHold
                  ELSE hold'[h].material \in Materials
    <2>1. hold[h].version \in Nat /\ HoldsOK
      BY SalesFacts DEF TypeOK, HoldsOK, HoldRow
    <2>2. CASE hold'[h] = hold[h]
      BY <2>1, <2>2 DEF HoldsOK
    <2>3. CASE hold[h].target \in SalesLines /\ hold'[h].version = hold[h].version + 1
      <3>1. hold[h].material \in Materials
        BY <2>3, SalesNumbers, SalesFacts DEF SalesAgree, RowsAgree, HoldsOfLines
      <3>2. hold'[h].version # 0 /\ Left(hold'[h]) >= 0
        BY <1>2, <2>1, <2>3
      <3> QED
        BY <1>2, <3>1, <3>2
    <2> QED
      BY <1>0, <2>2, <2>3, UsedRows
  <1>4. HoldsOK'
    BY <1>1, <1>3 DEF HoldsOK
  <1>5. hold' \in HoldTable
    BY <1>1, <1>3 DEF HoldTable
  <1>6. LineHoldsShrink
    BY <1>2 DEF LineHoldsShrink
  <1> QED
    BY <1>4, <1>5, <1>6

\* A shipped line uses its own holds up as far as they go; nobody else's are touched.
LEMMA UsedHeld ==
    ASSUME SalesIInv, NEW quantity \in [SalesLines -> Nat], Uses(quantity),
           NEW m \in Materials, NEW t \in Targets
    PROVE  Held(hold', m, {t}) = IF t \in SalesLines /\ LineMaterial[t] = m
                                 THEN AtLeast(0, Held(hold, m, {t}) - quantity[t])
                                 ELSE Held(hold, m, {t})
  <1>0. PICK left \in [HoldIds -> 0 .. MaxQuantity] : UseHolds(quantity, left)
    BY DEF Uses
  <1>1. \A h \in HoldIds :
           /\ Left(hold'[h]) = left[h]
           /\ hold'[h].material = hold[h].material /\ hold'[h].target = hold[h].target
           /\ hold'[h] = hold[h] \/ hold[h].target \in SalesLines
    BY <1>0, UsedRows
  <1>2. HoldsOfLines /\ HoldsOfLines'
    <2>1. HoldsOfLines
      BY SalesFacts DEF SalesAgree, RowsAgree
    <2> QED
      BY <2>1, UsedType, HoldsOfLinesKept
  <1>3. CASE t \in SalesLines /\ LineMaterial[t] = m
    <2> DEFINE f == LeftOn(hold, m, {t})
               n == LeftOn(hold', m, {t})
               after == [h \in HoldIds |-> IF hold[h].target = t THEN left[h] ELSE 0]
    <2>1. TakenInOrder(f, after, HoldIds, quantity[t])
      BY <1>0, <1>3 DEF UseHolds
    <2>2. Total(after, HoldIds) = AtLeast(0, Total(f, HoldIds) - quantity[t])
      BY <2>1 DEF TakenInOrder
    <2>3. \A h \in HoldIds : n[h] = after[h]
      BY <1>1, <1>2, <1>3 DEF LeftOn, HoldsOfLines
    <2> HIDE DEF f, n, after
    <2>4. Total(n, HoldIds) = Total(after, HoldIds)
      BY <2>3, TotalSame
    <2> QED
      BY <1>3, <2>2, <2>4 DEF Held, f, n
  <1>4. CASE t \in SalesLines /\ LineMaterial[t] # m
    <2>1. Held(hold, m, {t}) = 0 /\ Held(hold', m, {t}) = 0
      BY ZenonT(30), <1>2, <1>4, HeldForLine DEF HoldsOfLines
    <2> QED
      BY <1>4, <2>1
  <1>5. CASE t \notin SalesLines
    <2> DEFINE f == LeftOn(hold, m, {t})
               n == LeftOn(hold', m, {t})
    <2>1. \A h \in HoldIds : n[h] = f[h]
      BY <1>1, <1>5 DEF LeftOn
    <2> HIDE DEF f, n
    <2>2. Total(n, HoldIds) = Total(f, HoldIds)
      BY <2>1, TotalSame
    <2> QED
      BY <1>5, <2>2 DEF Held, f, n
  <1> QED
    BY <1>3, <1>4, <1>5

LEMMA PostedType ==
    ASSUME SalesIInv, NEW s \in ShipmentIds, NEW seen, PostShipment(s, seen)
    PROVE  /\ TypeOK' /\ RequestedAgrees'
           /\ shipment[s].quantity \in [SalesLines -> Nat] /\ Uses(shipment[s].quantity)
           /\ \A m \in Materials :
                 /\ stock[m] \in Int
                 /\ stock'[m] = IF m \in DOMAIN Carried(s) THEN stock[m] - Carried(s)[m]
                                ELSE stock[m]
  <1>1. TypeOK /\ shipment \in ShipTable
    BY SalesFacts
  <1> DEFINE q == Carried(s)
  <1>2. /\ stock' = Added(stock, q, -1) /\ SyncShortage(DOMAIN q, stock', hold', request)
        /\ UNCHANGED <<event, norm, request>>
    BY DEF PostShipment
  <1>3. shipment[s].quantity \in [SalesLines -> Nat] /\ Uses(shipment[s].quantity)
    BY <1>1 DEF PostShipment, Uses, ShipTable, ShipmentRow
  <1>4. DOMAIN q \subseteq Materials /\ \A m \in DOMAIN q : q[m] \in Nat
    BY <1>1, CarriedType
  <1> HIDE DEF q
  <1>5. \A m \in Materials : stock[m] \in Int
    BY <1>1 DEF TypeOK
  <1>6. \A m \in Materials :
           stock'[m] = IF m \in DOMAIN q THEN stock[m] - q[m] ELSE stock[m]
    <2> SUFFICES ASSUME NEW m \in Materials
                 PROVE  stock'[m] = IF m \in DOMAIN q THEN stock[m] - q[m] ELSE stock[m]
      OBVIOUS
    <2>1. stock'[m] = IF m \in DOMAIN q THEN stock[m] + (-1) * q[m] ELSE stock[m]
      BY <1>2 DEF Added
    <2> QED
      BY <1>4, <1>5, <2>1
  <1>7. stock' \in [Materials -> Int]
    <2>1. \A m \in Materials : stock'[m] \in Int
      BY <1>4, <1>5, <1>6
    <2>2. stock' = [m \in Materials |-> stock'[m]]
      BY <1>2 DEF Added
    <2> QED
      BY <2>1, <2>2
  <1>8. ShortagesOK'
    BY <1>1, <1>2, <1>4, SyncType DEF TypeOK, DecisionsStay
  <1>9. TypeOK'
    BY <1>1, <1>2, <1>3, <1>7, <1>8, UsedType DEF TypeOK, RequestsOK
  <1>10. RequestedAgrees'
    BY <1>2 DEF SalesIInv, IInv, RequestedAgrees, PendingOn
  <1> QED
    BY <1>3, <1>5, <1>6, <1>9, <1>10 DEF q

LEMMA PostShipmentAgrees ==
    ASSUME SalesIInv, NEW s \in ShipmentIds, NEW seen, PostShipment(s, seen)
    PROVE  SalesAgree' /\ CardsMove
  <1>0. shipment[s].order \in Orders /\ order[shipment[s].order].status # "none"
    BY SalesFacts
    DEF PostShipment, SalesAgree, RowsAgree, ShipmentsOfOrders
  <1> PICK o \in Orders : o = shipment[s].order
    BY <1>0
  <1>1. /\ shipment[s].status = "draft" /\ Active(o) /\ NotShippedElsewhere(s)
        /\ shipment' = [shipment EXCEPT ![s].status = "posted", ![s].version = @ + 1]
        /\ order' = [order EXCEPT ![o].version = @ + 1] /\ ordered' = ordered
    BY DEF PostShipment
  <1>2. /\ SalesAgree /\ hold \in HoldTable /\ shipment \in ShipTable
        /\ order \in [Orders -> OrderRow]
    BY SalesFacts
  <1>3. /\ order[o].status # "none"
        /\ \A l \in SalesLines : shipment[s].quantity[l] > 0 => o = OrderOf[l]
    BY <1>0, <1>2 DEF SalesAgree, RowsAgree, ShipmentsOfLines
  <1>4. /\ shipment' \in ShipTable
        /\ \A r \in ShipmentIds \ {s} : shipment'[r] = shipment[r]
        /\ shipment'[s].order = o /\ shipment'[s].status = "posted"
        /\ shipment'[s].quantity = shipment[s].quantity
    BY <1>1, <1>2 DEF ShipTable, ShipmentRow
  <1>5. /\ order' \in [Orders -> OrderRow] /\ order'[o].version = order[o].version + 1
        /\ \A p \in Orders : /\ order'[p].status = order[p].status
                             /\ order'[p].archived => order[p].archived
                             /\ p # o => order'[p] = order[p]
    BY <1>1, <1>2, <1>3 DEF OrderRow
  <1>6. ASSUME NEW l \in SalesLines
        PROVE  /\ Shipped(shipment', l) = Shipped(shipment, l) + shipment[s].quantity[l]
               /\ Shipped(shipment, l) \in Nat /\ shipment[s].quantity[l] \in Nat
               /\ OrderOf[l] # o => Shipped(shipment', l) = Shipped(shipment, l)
    <2>1. Shipped(shipment', l)
            = Shipped(shipment, l) - PostedOn(shipment, l)[s] + PostedOn(shipment', l)[s]
      BY <1>2, <1>4, ShippedMoves
    <2>2. PostedOn(shipment', l)[s] = shipment[s].quantity[l] /\ PostedOn(shipment, l)[s] = 0
      BY <1>1, <1>4 DEF PostedOn
    <2>3. shipment[s].quantity[l] \in Nat
      BY <1>2 DEF ShipTable, ShipmentRow
    <2>4. OrderOf[l] # o => shipment[s].quantity[l] = 0
      BY <1>3, <2>3
    <2>5. Shipped(shipment, l) \in Nat
      BY <1>2, ShippedType
    <2> QED
      BY <2>1, <2>2, <2>3, <2>4, <2>5
  <1>7. shipment[s].quantity \in [SalesLines -> Nat] /\ Uses(shipment[s].quantity)
    BY PostedType
  <1>8. LineHoldsShrink /\ hold' \in HoldTable
    BY <1>7, UsedType
  <1>9. ASSUME NEW l \in SalesLines
        PROVE  Shipped(shipment', l) + Held(hold', LineMaterial[l], {l}) <= ordered[l]
    <2>1. Held(hold', LineMaterial[l], {l})
            = AtLeast(0, Held(hold, LineMaterial[l], {l}) - shipment[s].quantity[l])
      <3>1. LineMaterial[l] \in Materials /\ l \in Targets
        BY SalesNumbers
      <3> QED
        BY <1>7, <3>1, UsedHeld
    <2>2. Shipped(shipment, l) + Held(hold, LineMaterial[l], {l}) <= ordered[l]
      BY <1>2 DEF SalesAgree, LinesCovered
    <2>3. shipment[s].quantity[l] > 0 => shipment[s].quantity[l] <= ordered[l] - Shipped(shipment, l)
      BY <1>1 DEF NotShippedElsewhere
    <2>4. ordered[l] \in Nat /\ Held(hold, LineMaterial[l], {l}) \in Nat
      BY SalesFacts
    <2>5. \/ Held(hold', LineMaterial[l], {l}) = 0
          \/ Held(hold', LineMaterial[l], {l})
               = Held(hold, LineMaterial[l], {l}) - shipment[s].quantity[l]
      BY <2>1 DEF AtLeast
    <2> QED
      BY <1>6, <2>2, <2>3, <2>4, <2>5
  <1>10. SalesAgree'
    <2>1. OrderRowsStay
      BY <1>1, <1>3, <1>5 DEF OrderRowsStay
    <2>2. LinesStayCovered
      <3>1. ASSUME NEW l \in SalesLines, order[OrderOf[l]].status = "cancelled"
            PROVE  Shipped(shipment', l) <= Shipped(shipment, l)
        <4>1. OrderOf[l] # o
          BY <1>1, <3>1 DEF Active
        <4>2. Shipped(shipment', l) = Shipped(shipment, l) /\ Shipped(shipment, l) \in Nat
          BY <1>6, <4>1
        <4> QED
          BY <4>2
      <3> QED
        BY <1>9, <3>1 DEF LinesStayCovered
    <2>3. /\ shipment' \in ShipTable /\ \A r \in ShipmentIds \ {s} : shipment'[r] = shipment[r]
          /\ shipment'[s].order \in Orders /\ order[shipment'[s].order].status # "none"
          /\ shipment'[s].status # "draft"
          /\ \A l \in SalesLines :
                shipment'[s].quantity[l] > 0 => shipment'[s].order = OrderOf[l]
      BY <1>3, <1>4
    <2>4. ShipmentMoved(s)
      BY <2>1, <2>2, <2>3 DEF ShipmentMoved
    <2> QED
      BY <1>8, <2>4, ShipmentAgrees
  <1>11. CardsMove
    <2>1. \A p \in Orders \ {o} : \A l \in LinesOf(p) : Shipped(shipment', l) = Shipped(shipment, l)
      BY <1>6 DEF LinesOf
    <2> QED
      BY <1>1, <1>5, <2>1 DEF CardsMove
  <1> QED
    BY <1>10, <1>11

------------------------------------------------------------------------------
(* Orders and shipments as steps of the ledger.                              *)

\* A line of the shipment takes its part of material m.
PartOf(s, m) ==
    [t \in Targets |-> IF t \in SalesLines /\ LineMaterial[t] = m THEN shipment[s].quantity[t]
                       ELSE 0]

\* What comes from the holds of the line itself.
OwnPart(s, m) == [t \in Targets |-> AtMost(PartOf(s, m)[t], Held(hold, m, {t}))]

LEMMA PartsAddUp ==
    ASSUME SalesIInv, NEW s \in ShipmentIds, NEW m \in DOMAIN Carried(s)
    PROVE  /\ PartOf(s, m) \in [Targets -> Nat] /\ OwnPart(s, m) \in [Targets -> Nat]
           /\ Total(PartOf(s, m), Targets) = Carried(s)[m]
           /\ Total(OwnPart(s, m), Targets)
                = Total([l \in SalesLines |-> AtMost(Held(hold, m, {l}),
                                                     shipment[s].quantity[l])],
                        {l \in SalesLines : LineMaterial[l] = m})
  <1> DEFINE q == shipment[s].quantity
             part == PartOf(s, m)
             own == OwnPart(s, m)
             lines == {l \in SalesLines : LineMaterial[l] = m}
             shipped == {l \in SalesLines : q[l] > 0 /\ LineMaterial[l] = m}
             covered == [l \in SalesLines |-> AtMost(Held(hold, m, {l}), q[l])]
  <1>1. /\ \A l \in SalesLines : q[l] \in Nat /\ l \in Targets
        /\ \A t \in Targets : Held(hold, m, {t}) \in Nat
    BY SalesFacts, SalesNumbers, HeldType DEF ShipTable, ShipmentRow
  <1>2. part \in [Targets -> Nat]
    BY <1>1 DEF PartOf
  <1>3. \A t \in Targets : /\ own[t] = AtMost(part[t], Held(hold, m, {t})) /\ own[t] \in Nat
                           /\ t \notin lines => own[t] = 0
    <2> SUFFICES ASSUME NEW t \in Targets
                 PROVE  /\ own[t] = AtMost(part[t], Held(hold, m, {t})) /\ own[t] \in Nat
                        /\ t \notin lines => own[t] = 0
      OBVIOUS
    <2>1. own[t] = AtMost(part[t], Held(hold, m, {t}))
      BY DEF OwnPart
    <2>2. part[t] \in Nat /\ Held(hold, m, {t}) \in Nat
      BY <1>1, <1>2
    <2>3. t \notin lines => part[t] = 0
      BY DEF PartOf
    <2> QED
      BY <2>1, <2>2, <2>3 DEF AtMost
  <1>4. own \in [Targets -> Nat]
    <2>1. own = [t \in Targets |-> own[t]]
      BY DEF OwnPart
    <2> QED
      BY <1>3, <2>1
  <1>5. Total(part, Targets) = Carried(s)[m]
    <2>1. shipped \subseteq Targets /\ \A t \in shipped : part[t] = q[t]
      BY <1>1 DEF PartOf
    <2>2. \A t \in Targets \ shipped : part[t] = 0
      BY <1>1 DEF PartOf
    <2>3. \A t \in Targets : part[t] \in Nat
      BY <1>2
    <2>4. Carried(s)[m] = Total(q, shipped)
      BY SalesFacts, CarriedType
    <2> HIDE DEF part, q, shipped
    <2> QED
      BY <2>1, <2>2, <2>3, <2>4, TargetsFinite, TotalOnPart
  <1>6. Total(own, Targets) = Total(covered, lines)
    <2>1. \A t \in lines : own[t] = covered[t]
      <3> SUFFICES ASSUME NEW t \in lines PROVE own[t] = covered[t]
        OBVIOUS
      <3>1. own[t] = AtMost(q[t], Held(hold, m, {t})) /\ q[t] \in Nat
            /\ Held(hold, m, {t}) \in Nat
        BY <1>1 DEF OwnPart, PartOf
      <3> QED
        BY <3>1 DEF AtMost
    <2>2. lines \subseteq Targets /\ \A t \in Targets \ lines : own[t] = 0
      BY <1>1, <1>3
    <2>3. \A t \in Targets : own[t] \in Nat
      BY <1>4
    <2> HIDE DEF own, covered, lines
    <2> QED
      BY <2>1, <2>2, <2>3, TargetsFinite, TotalOnPart
  <1> QED
    BY <1>2, <1>4, <1>5, <1>6

LEMMA PostOnLedger ==
    ASSUME SalesIInv, NEW s \in ShipmentIds, NEW seen, PostShipment(s, seen)
    PROVE  Ledger!Next
  <1> DEFINE q == shipment[s].quantity
  <1>1. /\ q \in [SalesLines -> Nat] /\ Uses(q)
        /\ \A m \in Materials :
              /\ stock[m] \in Int
              /\ stock'[m] = IF m \in DOMAIN Carried(s) THEN stock[m] - Carried(s)[m]
                             ELSE stock[m]
    BY PostedType
  <1>2. hold \in HoldTable /\ hold' \in HoldTable /\ shipment \in ShipTable
    BY <1>1, UsedType, SalesFacts
  <1>3. Covered(s, Carried(s))
    BY DEF PostShipment
  <1>4. \A m \in Materials, t \in Targets :
           /\ Held(hold, m, {t}) \in Nat
           /\ Held(hold', m, {t}) = IF t \in SalesLines /\ LineMaterial[t] = m
                                    THEN AtLeast(0, Held(hold, m, {t}) - q[t])
                                    ELSE Held(hold, m, {t})
    BY ZenonT(30), <1>1, <1>2, UsedHeld, HeldType
  <1>5. \A l \in SalesLines : q[l] \in Nat
    BY <1>1
  <1>6. ASSUME NEW m \in Materials, m \in DOMAIN Carried(s)
        PROVE  Ledger!HandOut(m)
    <2> DEFINE part == PartOf(s, m)
               own == OwnPart(s, m)
               out == Carried(s)[m]
    <2>1. /\ part \in [Targets -> Nat] /\ own \in [Targets -> Nat]
          /\ Total(part, Targets) = out
          /\ Total(own, Targets)
               = Total([l \in SalesLines |-> AtMost(Held(hold, m, {l}), q[l])],
                       {l \in SalesLines : LineMaterial[l] = m})
      BY <1>6, PartsAddUp
    <2>2. out \in Nat \ {0} /\ stock'[m] = stock[m] - out
      BY <1>1, <1>2, <1>6, CarriedType
    <2>3. out <= Available(stock, hold, m) + Total(own, Targets)
      BY <1>3, <1>6, <2>1 DEF Covered
    <2>4. \A t \in Targets : own[t] = AtMost(part[t], Held(hold, m, {t}))
      BY DEF OwnPart
    <2>5. ASSUME NEW t \in Targets
          PROVE  /\ Held(hold', m, {t}) = Held(hold, m, {t}) - own[t]
                 /\ own[t] <= part[t]
      <3>1. own[t] = AtMost(part[t], Held(hold, m, {t})) /\ Held(hold, m, {t}) \in Nat
        BY <1>4, <2>4
      <3>2. part[t] \in Nat
        BY <2>1
      <3>3. CASE t \in SalesLines /\ LineMaterial[t] = m
        <4>1. part[t] = q[t]
          BY <3>3 DEF PartOf
        <4>2. Held(hold', m, {t}) = AtLeast(0, Held(hold, m, {t}) - part[t])
          BY <1>4, <3>3, <4>1
        <4> HIDE DEF part, own, q
        <4> QED BY <3>1, <3>2, <4>2 DEF AtMost, AtLeast
      <3>4. CASE ~(t \in SalesLines /\ LineMaterial[t] = m)
        <4>1. part[t] = 0
          BY <3>4 DEF PartOf
        <4>2. Held(hold', m, {t}) = Held(hold, m, {t})
          BY <1>4, <3>4
        <4> HIDE DEF part, own, q
        <4> QED BY <3>1, <4>1, <4>2 DEF AtMost
      <3> QED
        BY <3>3, <3>4
    <2>6. \A t \in Targets : IF t = Null THEN own[t] <= part[t]
                             ELSE own[t] = AtMost(part[t], Held(hold, m, {t}))
      BY <2>4, <2>5
    <2>7. stock[m] \in Int
      BY <1>1
    <2> HIDE DEF part, own, out, q
    <2> QED
      BY <1>2, <2>1, <2>2, <2>3, <2>5, <2>6, <2>7, LedgerHandsOut
  <1>7. ASSUME NEW m \in Materials, m \notin DOMAIN Carried(s)
        PROVE  Ledger!Keep(m) \/ Ledger!Enter(m)
    <2>1. ASSUME NEW t \in Targets
          PROVE  Held(hold', m, {t}) = Held(hold, m, {t})
      <3>1. t \in SalesLines /\ LineMaterial[t] = m => q[t] = 0
        BY <1>2, <1>7, CarriedType
      <3>2. Held(hold, m, {t}) \in Nat
        BY <1>4
      <3> QED
        BY <1>4, <3>1, <3>2 DEF AtLeast
    <2>2. stock[m] \in Int /\ stock'[m] = stock[m]
      BY <1>1, <1>7
    <2> QED
      BY <1>2, <2>1, <2>2, LedgerKeeps
  <1> QED
    BY <1>6, <1>7 DEF Ledger!Next

LEMMA CancelOnLedger ==
    ASSUME SalesIInv, NEW s \in ShipmentIds, NEW seen, CancelShipment(s, seen)
    PROVE  Ledger!Next
  <1>1. TypeOK /\ TypeOK'
    BY SalesFacts, CancelledType
  <1>2. hold \in HoldTable /\ hold' = hold
    BY SalesFacts DEF CancelShipment
  <1>3. \A m \in Materials : stock[m] \in Int /\ stock'[m] \in Int /\ stock'[m] >= stock[m]
    BY CancelledType
  <1>4. ASSUME NEW m \in Materials
        PROVE  Ledger!Keep(m) \/ Ledger!Enter(m)
    <2>1. /\ hold' \in HoldTable /\ \A t \in Targets : Held(hold', m, {t}) = Held(hold, m, {t})
          /\ stock[m] \in Int /\ stock'[m] \in Int /\ stock'[m] >= stock[m]
      BY <1>2, <1>3
    <2> QED
      BY <1>2, <2>1, LedgerKeeps
  <1> QED
    BY <1>4 DEF Ledger!Next

------------------------------------------------------------------------------
(* The handlers of the warehouse beside them.                                *)

\* They make no hold for a line, and leave more of none.
LEMMA WarehouseShrinks ==
    ASSUME TypeOK, TypeOK', [Next]_vars
    PROVE  LineHoldsShrink
  <1>1. hold \in HoldTable /\ hold' \in HoldTable
    BY HoldTables DEF TypeOK
  <1>2. \A h \in HoldIds : Left(hold[h]) \in Int /\ Left(hold'[h]) \in Int
    BY <1>1 DEF HoldTable, HoldRow, Left
  <1>3. ASSUME hold' = hold
        PROVE  LineHoldsShrink
    BY <1>1, <1>3, SameHoldsShrink
  <1>4. ASSUME NEW u \in RequestIds, NEW h \in HoldIds, NEW m \in Materials,
               NEW t \in {Null} \cup Houses, NEW q \in Amounts, InsertHold(u, h, m, t, q)
        PROVE  LineHoldsShrink
    <2>1. /\ \A g \in HoldIds \ {h} : hold'[g] = hold[g]
          /\ hold'[h] = NewHold(m, t, q)
      BY <1>1, <1>4 DEF InsertHold, HoldTable
    <2>2. hold'[h].target \notin SalesLines
      BY <2>1, TablesAssumption DEF NewHold
    <2> QED
      BY <1>2, <2>1, <2>2 DEF LineHoldsShrink
  <1>5. ASSUME NEW h \in HoldIds, \A g \in HoldIds \ {h} : hold'[g] = hold[g],
               hold'[h].material = hold[h].material, hold'[h].target = hold[h].target,
               Left(hold'[h]) <= Left(hold[h])
        PROVE  LineHoldsShrink
    BY <1>2, <1>5 DEF LineHoldsShrink
  <1>6. ASSUME NEW u \in RequestIds, NEW h \in HoldIds, NEW seen \in 1 .. MaxVersion,
               NEW q \in Amounts, Release(u, h, seen, q) \/ Issue(u, h, seen, q)
        PROVE  LineHoldsShrink
    <2>1. /\ q \in Nat /\ \A g \in HoldIds \ {h} : hold'[g] = hold[g]
          /\ hold'[h].material = hold[h].material /\ hold'[h].target = hold[h].target
          /\ Left(hold'[h]) = Left(hold[h]) - q
      BY <1>6, ReleaseRow, IssueRow
    <2>2. Left(hold'[h]) <= Left(hold[h])
      BY <1>2, <2>1
    <2> QED
      BY <1>5, <2>1, <2>2
  <1>7. ASSUME NEW h \in HoldIds, NEW seen \in 1 .. MaxVersion, NEW flag \in BOOLEAN,
               Archive(h, seen, flag)
        PROVE  LineHoldsShrink
    <2>1. /\ \A g \in HoldIds \ {h} : hold'[g] = hold[g]
          /\ hold'[h].material = hold[h].material /\ hold'[h].target = hold[h].target
          /\ Left(hold'[h]) = Left(hold[h])
      BY <1>7, ArchiveRow
    <2>2. Left(hold'[h]) <= Left(hold[h])
      BY <1>2, <2>1
    <2> QED
      BY <1>5, <2>1, <2>2
  <1>8. ASSUME NEW p \in Houses, NEW q \in Documents, ConsumeHolds(p, q)
        PROVE  LineHoldsShrink
    <2>1. PICK left \in [HoldIds -> 0 .. MaxQuantity] : TakeFromHolds(p, q, left)
      BY <1>8 DEF ConsumeHolds
    <2>2. \A h \in HoldIds : /\ hold'[h].target = hold[h].target
                             /\ hold'[h] = hold[h] \/ hold[h].target = p
      BY <2>1, ConsumeRows
    <2>3. p \notin SalesLines
      BY TablesAssumption
    <2> QED
      BY <1>2, <2>2, <2>3 DEF LineHoldsShrink
  <1>9. CASE HoldStep
    <2>1. ASSUME NEW u \in RequestIds, NEW h \in HoldIds, NEW m \in Materials,
                 NEW q \in Amounts,
                 \/ ReserveForPurpose(u, h, m, q)
                 \/ \E p \in Houses : ReserveForHouse(u, h, m, p, q)
          PROVE  LineHoldsShrink
      BY <1>4, <2>1 DEF ReserveForPurpose, ReserveForHouse
    <2> QED
      BY <1>6, <1>7, <1>9, <2>1 DEF HoldStep
  <1>10. CASE DocumentStep
    BY <1>3, <1>8, <1>10 DEF DocumentStep, Receive, WriteOff, IssueByTechcard
  <1>11. ASSUME NEW r \in MaterialRequests, NEW s \in MaterialRequests, NEW q \in Amounts,
                ApproveRequest(r, s, q)
         PROVE  LineHoldsShrink
    <2> DEFINE b == request[r].block
               issue == [x \in {MaterialOf[b]} |-> q]
    <2>1. issue \in Documents /\ HouseOf[b] \in Houses
      BY <1>11, ApprovedDocument
    <2>2. ConsumeHolds(HouseOf[b], issue)
      BY <1>11 DEF ApproveRequest
    <2> HIDE DEF issue, b
    <2> QED
      BY <1>8, <2>1, <2>2
  <1>12. CASE HouseStep
    BY <1>3, <1>11, <1>12, LateLeaves
    DEF HouseStep, RequestMaterial, RejectRequest, UpdateRequired, SubmitsShortageTask
  <1>13. CASE UNCHANGED vars
    BY <1>3, <1>13 DEF vars
  <1> QED
    BY <1>9, <1>10, <1>12, <1>13 DEF Next

LEMMA WarehouseAgrees ==
    ASSUME SalesIInv, TypeOK', [Next]_vars, UNCHANGED salesVars
    PROVE  SalesAgree' /\ CardsMove
  <1>1. SalesAgree /\ TypeOK /\ hold \in HoldTable
    BY SalesFacts
  <1>2. /\ UNCHANGED <<order, ordered, shipment>> /\ hold' \in HoldTable
    BY <1>1, HoldTables DEF TypeOK, salesVars
  <1>3. LineHoldsShrink
    BY <1>1, WarehouseShrinks
  <1>4. SalesTables /\ SalesTables'
    BY <1>1, <1>2 DEF SalesAgree, SalesTables
  <1>5. LinesCovered'
    <2>1. ASSUME NEW l \in SalesLines
          PROVE  Shipped(shipment', l) + Held(hold', LineMaterial[l], {l}) <= ordered'[l]
      <3>1. Shipped(shipment, l) \in Nat
        BY SalesFacts
      <3>2. ordered'[l] = ordered[l] /\ Shipped(shipment', l) <= Shipped(shipment, l)
        BY <1>2, <3>1
      <3>3. LinesCovered
        BY <1>1 DEF SalesAgree
      <3> QED
        BY <1>1, <1>2, <1>3, <1>4, <3>2, <3>3, CoveredKept
    <2> QED
      BY <2>1 DEF LinesCovered
  <1>6. ClosedOrdersHoldNothing'
    <2>1. ASSUME NEW o \in Orders
          PROVE  HeldForOrder(o)' \subseteq HeldForOrder(o) /\ Drafts(o)' = Drafts(o)
      BY <1>1, <1>2, <1>3, OrdersHoldNoMore DEF Drafts, ShipmentsOf
    <2> QED
      BY <1>1, <1>2, <2>1 DEF SalesAgree, ClosedOrdersHoldNothing, LinesOf
  <1>7. RowsAgree'
    <2>1. HoldsOfLines'
      BY <1>1, <1>3, HoldsOfLinesKept DEF SalesAgree, RowsAgree
    <2> QED
      BY <1>1, <1>2, <2>1
      DEF SalesAgree, RowsAgree, ShipmentsOfLines, ShipmentsOfOrders, UnwrittenOrders
  <1>8. CardsMove
    BY <1>2 DEF CardsMove
  <1> QED
    BY <1>4, <1>5, <1>6, <1>7, <1>8 DEF SalesAgree

------------------------------------------------------------------------------
(* The theorems.                                                             *)

\* What every step of sales does.
SalesStepDone == IInv' /\ Ledger!Next /\ SalesAgree' /\ CardsMove

LEMMA WarehouseUntouched ==
    ASSUME SalesIInv, UNCHANGED vars
    PROVE  IInv' /\ Ledger!Next
  <1>1. IInv /\ TypeOK
    BY SalesFacts DEF SalesIInv
  <1>2. IInv'
    BY <1>1, StepInv
  <1>3. UNCHANGED <<stock, hold>>
    BY DEF vars
  <1> QED
    BY <1>1, <1>2, <1>3, StillOnLedger DEF IInv

LEMMA OrderStepDone ==
    ASSUME SalesIInv, OrderStep
    PROVE  SalesStepDone
  <1>1. ASSUME NEW o \in Orders, NEW q \in OrderLines(o), CreateOrder(o, q)
        PROVE  SalesStepDone
    <2>1. UNCHANGED vars
      BY <1>1 DEF CreateOrder
    <2> QED
      BY <1>1, <2>1, WarehouseUntouched, CreateOrderAgrees DEF SalesStepDone
  <1>2. ASSUME NEW o \in Orders, NEW seen \in 1 .. MaxOrderVersion, NEW q \in OrderLines(o),
               EditOrder(o, seen, q)
        PROVE  SalesStepDone
    <2>1. UNCHANGED vars
      BY <1>2 DEF EditOrder
    <2> QED
      BY <1>2, <2>1, WarehouseUntouched, EditOrderAgrees DEF SalesStepDone
  <1>3. ASSUME NEW o \in Orders, NEW seen \in 1 .. MaxOrderVersion,
               \/ ConfirmOrder(o, seen)
               \/ CancelOrder(o, seen)
               \/ \E flag \in BOOLEAN : ArchiveOrder(o, seen, flag)
        PROVE  SalesStepDone
    <2>1. UNCHANGED vars
      BY <1>3 DEF ConfirmOrder, CancelOrder, ArchiveOrder
    <2> QED
      BY <1>3, <2>1, WarehouseUntouched, OrderStatusAgrees DEF SalesStepDone
  <1> QED
    BY <1>1, <1>2, <1>3 DEF OrderStep

LEMMA ShipmentStepDone ==
    ASSUME SalesIInv, ShipmentStep
    PROVE  SalesStepDone
  <1>1. ASSUME NEW s \in ShipmentIds, NEW seen \in 1 .. MaxOrderVersion, NEW o \in Orders,
               NEW q \in [SalesLines -> 0 .. MaxOrdered], CreateShipment(s, o, seen, q)
        PROVE  SalesStepDone
    <2>1. UNCHANGED vars
      BY <1>1 DEF CreateShipment
    <2> QED
      BY <1>1, <2>1, WarehouseUntouched, CreateShipmentAgrees DEF SalesStepDone
  <1>2. ASSUME NEW s \in ShipmentIds, NEW seen \in 1 .. MaxVersion + 1, NEW flag \in BOOLEAN,
               ArchiveShipment(s, seen, flag)
        PROVE  SalesStepDone
    <2>1. UNCHANGED vars
      BY <1>2 DEF ArchiveShipment
    <2>2. seen \in Nat
      BY QuantitiesAssumption
    <2> QED
      BY <1>2, <2>1, <2>2, WarehouseUntouched, ArchiveShipmentAgrees DEF SalesStepDone
  <1>3. ASSUME NEW s \in ShipmentIds, NEW seen \in 1 .. MaxOrderVersion, PostShipment(s, seen)
        PROVE  SalesStepDone
    <2>1. IInv'
      BY <1>3, PostedType DEF IInv
    <2>2. Ledger!Next
      BY <1>3, PostOnLedger
    <2> QED
      BY <1>3, <2>1, <2>2, PostShipmentAgrees DEF SalesStepDone
  <1>4. ASSUME NEW s \in ShipmentIds, NEW seen \in 1 .. MaxVersion + 1, CancelShipment(s, seen)
        PROVE  SalesStepDone
    <2>1. IInv'
      BY <1>4, CancelledType DEF IInv
    <2>2. Ledger!Next
      BY <1>4, CancelOnLedger
    <2> QED
      BY <1>4, <2>1, <2>2, CancelShipmentAgrees DEF SalesStepDone
  <1> QED
    BY <1>1, <1>2, <1>3, <1>4 DEF ShipmentStep

LEMMA LineStepDone ==
    ASSUME SalesIInv, LineStep
    PROVE  SalesStepDone
  <1> PICK u \in RequestIds, h \in HoldIds, l \in SalesLines, q \in Amounts :
         ReserveForLine(u, h, l, q)
    BY DEF LineStep
  <1>1. /\ InsertHold(u, h, LineMaterial[l], l, q) /\ UNCHANGED <<stock, norm, request>>
        /\ LineMaterial[l] \in Materials /\ l \in Targets
    BY SalesNumbers DEF ReserveForLine
  <1>2. TypeOK /\ RequestedAgrees
    BY SalesFacts DEF SalesIInv, IInv
  <1>3. HoldsOK' /\ event' \in [RequestIds -> EventRow] /\ ShortagesOK'
    BY <1>1, <1>2, InsertType
  <1>4. TypeOK'
    BY <1>1, <1>2, <1>3 DEF TypeOK, RequestsOK
  <1>5. RequestedAgrees'
    BY <1>1, <1>2 DEF RequestedAgrees, PendingOn
  <1>6. Ledger!Next
    BY <1>1, <1>2, <1>4, InsertPromises
  <1>7. SalesAgree' /\ CardsMove
    BY <1>4, ReserveForLineAgrees
  <1> QED
    BY <1>4, <1>5, <1>6, <1>7 DEF SalesStepDone, IInv

LEMMA SalesStep ==
    ASSUME SalesIInv, [SalesNext]_<<vars, salesVars>>
    PROVE  SalesStepDone
  <1>1. ASSUME [Next]_vars, UNCHANGED salesVars
        PROVE  SalesStepDone
    <2>1. IInv /\ PromisesCovered /\ IInv'
      BY <1>1, StepInv DEF SalesIInv
    <2>2. TypeOK /\ TypeOK'
      BY <2>1 DEF IInv
    <2>3. Ledger!Next
      BY <1>1, <2>1, <2>2, StepOnLedger
    <2>4. SalesAgree' /\ CardsMove
      BY <1>1, <2>2, WarehouseAgrees
    <2> QED
      BY <2>1, <2>3, <2>4 DEF SalesStepDone
  <1> QED
    BY <1>1, OrderStepDone, ShipmentStepDone, LineStepDone DEF SalesNext, WarehouseStep

LEMMA SalesStepInv ==
    ASSUME SalesIInv, [SalesNext]_<<vars, salesVars>>
    PROVE  SalesIInv' /\ CardsMove /\ FreeStockKept /\ Ledger!Next
  <1>1. IInv' /\ Ledger!Next /\ SalesAgree' /\ CardsMove
    BY SalesStep DEF SalesStepDone
  <1>2. TypeOK /\ TypeOK' /\ PromisesCovered
    BY <1>1, SalesFacts DEF SalesIInv, IInv
  <1>3. PromisesCovered' /\ FreeStockKept
    BY <1>1, <1>2, LedgerCovers, LedgerGuards
  <1> QED
    BY <1>1, <1>3 DEF SalesIInv, SalesAgree

LEMMA SalesInitInv ==
    ASSUME SalesInit
    PROVE  SalesIInv /\ Ledger!Init
  <1>1. IInv /\ PromisesCovered /\ Ledger!Init
    BY InitInv, InitOnLedger DEF SalesInit
  <1>2. \A h \in HoldIds : hold[h].target = Null /\ Left(hold[h]) = 0
    BY DEF SalesInit, Init, NoHold, Left
  <1>3. Null \notin SalesLines
    BY TablesAssumption
  <1>4. SalesTables
    BY DEF SalesInit, SalesTables, OrderRow, ShipmentRow, NoShipment, Quantities0
  <1>5. ASSUME NEW l \in SalesLines
        PROVE  Shipped(shipment, l) = 0 /\ Held(hold, LineMaterial[l], {l}) = 0
    <2>1. \A s \in ShipmentIds : PostedOn(shipment, l)[s] = 0
      BY DEF SalesInit, NoShipment, PostedOn
    <2>2. shipment \in ShipTable
      BY <1>4 DEF SalesTables, ShipTable
    <2>3. \A h \in HoldIds : LeftOn(hold, LineMaterial[l], {l})[h] = 0
      BY <1>2 DEF LeftOn
    <2> QED
      BY <2>1, <2>2, <2>3, NothingShipped, TotalZero DEF Held
  <1>6. LinesCovered
    BY <1>5 DEF LinesCovered, SalesInit, Quantities0
  <1>7. ClosedOrdersHoldNothing
    BY DEF ClosedOrdersHoldNothing, SalesInit
  <1>8. RowsAgree
    BY <1>2, <1>3
    DEF RowsAgree, HoldsOfLines, ShipmentsOfLines, ShipmentsOfOrders, UnwrittenOrders,
        SalesInit, NoShipment, Quantities0, LinesOf
  <1> QED
    BY <1>1, <1>4, <1>6, <1>7, <1>8 DEF SalesIInv

LEMMA SalesInvariant == SalesSpec => []SalesIInv
  <1>1. SalesInit => SalesIInv
    BY SalesInitInv
  <1>2. SalesIInv /\ [SalesNext]_<<vars, salesVars>> => SalesIInv'
    BY SalesStepInv
  <1> QED
    BY <1>1, <1>2, PTL DEF SalesSpec

\* The lines, shipments and holds of orders tell the same, for any number of them and
\* with any handlers of the warehouse beside them: no line is shipped or held beyond
\* what was ordered, and a closed order keeps nothing from others.
THEOREM OrdersTellTheSame == SalesSpec => []OrdersAgree
  <1>1. SalesIInv => OrdersAgree
    BY DEF SalesIInv, IInv, SalesTables, OrdersAgree, SalesTypeOK
  <1> QED
    BY <1>1, SalesInvariant, PTL

\* Whatever changes what a card of an order says moves its version, and no shipment
\* takes what others were promised.
THEOREM OrdersPromisesKept == SalesSpec => OrdersKeepPromises
  <1>1. SalesIInv /\ [SalesNext]_<<vars, salesVars>>
           => [CardsMove]_<<vars, salesVars>> /\ [FreeStockKept]_<<vars, salesVars>>
    BY SalesStepInv
  <1> QED
    BY <1>1, SalesInvariant, PTL
    DEF SalesSpec, OrdersKeepPromises, OrderCardsMove, OrdersRespectFreeStock

\* Orders, shipments and the warehouse together implement the ledger of promises.
THEOREM SalesLedgerImplemented == SalesSpec => SalesImplementLedger
  <1>1. SalesInit => Ledger!Init
    BY SalesInitInv
  <1>2. SalesIInv /\ [SalesNext]_<<vars, salesVars>> => Ledger!Next
    BY SalesStepInv
  <1> QED
    BY <1>1, <1>2, SalesInvariant, PTL DEF SalesSpec, SalesImplementLedger, Ledger!Spec
==============================================================================
