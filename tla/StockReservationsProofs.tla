----------------------- MODULE StockReservationsProofs -----------------------
(***************************************************************************)
(* Theorems about the warehouse for any number of materials, houses, norms *)
(* and holds.  The type of the tables is not inductive alone: a rejected   *)
(* request takes its quantity back out of its norm, and that the norm has  *)
(* so much requested is RequestedAgrees.  The invariant is the two         *)
(* together.                                                               *)
(***************************************************************************)
EXTENDS StockReservations

IInv == TypeOK /\ RequestedAgrees

NormRow == [required : Nat, requested : Nat, provided : Nat]

LEMMA SmallNumbers ==
    /\ Amounts \subseteq Nat \ {0}
    /\ \A q \in Documents : \A m \in DOMAIN q : m \in Materials /\ q[m] \in Nat \ {0}
    /\ IsFiniteSet(HoldIds) /\ IsFiniteSet(MaterialRequests)
    /\ HoldIds \subseteq Nat
  <1>1. MaxHolds \in Nat /\ MaxRequests \in Nat /\ MaxQuantity \in Nat
    BY QuantitiesAssumption
  <1>2. Amounts \subseteq Nat \ {0} /\ HoldIds \subseteq Nat
    BY <1>1 DEF Amounts, HoldIds
  <1>3. \A q \in Documents : \A m \in DOMAIN q : m \in Materials /\ q[m] \in Amounts
    BY DEF Documents
  <1>4. IsFiniteSet(HoldIds) /\ IsFiniteSet(MaterialRequests)
    BY <1>1, FS_Interval DEF HoldIds, MaterialRequests
  <1> QED
    BY <1>2, <1>3, <1>4

\* A change to one column of a hold and its version.
LEMMA Consumed ==
    ASSUME NEW row \in HoldRow, NEW q \in Nat, q <= Left(row)
    PROVE  LET new == NextVersion([row EXCEPT !.consumed = @ + q]) IN
           /\ new \in HoldRow /\ Left(new) = Left(row) - q /\ Left(new) >= 0
           /\ new.material = row.material /\ new.target = row.target
           /\ new.version = row.version + 1 /\ new.quantity = row.quantity
           /\ new.consumed = row.consumed + q /\ new.released = row.released
  <1> DEFINE mid == [row EXCEPT !.consumed = @ + q]
  <1>1. mid \in HoldRow /\ Left(mid) = Left(row) - q /\ Left(row) \in Int
        /\ mid.material = row.material /\ mid.target = row.target
        /\ mid.version = row.version /\ mid.quantity = row.quantity
        /\ mid.consumed = row.consumed + q /\ mid.released = row.released
    BY DEF HoldRow, Left
  <1> HIDE DEF mid
  <1>2. /\ NextVersion(mid) \in HoldRow /\ Left(NextVersion(mid)) = Left(mid)
        /\ NextVersion(mid).material = mid.material /\ NextVersion(mid).target = mid.target
        /\ NextVersion(mid).version = mid.version + 1
        /\ NextVersion(mid).quantity = mid.quantity
        /\ NextVersion(mid).consumed = mid.consumed /\ NextVersion(mid).released = mid.released
    BY <1>1 DEF HoldRow, Left, NextVersion
  <1> QED
    BY <1>1, <1>2 DEF mid

LEMMA Released ==
    ASSUME NEW row \in HoldRow, NEW q \in Nat, q <= Left(row)
    PROVE  LET new == NextVersion([row EXCEPT !.released = @ + q]) IN
           /\ new \in HoldRow /\ Left(new) = Left(row) - q /\ Left(new) >= 0
           /\ new.material = row.material /\ new.target = row.target
           /\ new.version = row.version + 1 /\ new.quantity = row.quantity
           /\ new.released = row.released + q /\ new.consumed = row.consumed
  <1> DEFINE mid == [row EXCEPT !.released = @ + q]
  <1>1. mid \in HoldRow /\ Left(mid) = Left(row) - q /\ Left(row) \in Int
        /\ mid.material = row.material /\ mid.target = row.target
        /\ mid.version = row.version /\ mid.quantity = row.quantity
        /\ mid.released = row.released + q /\ mid.consumed = row.consumed
    BY DEF HoldRow, Left
  <1> HIDE DEF mid
  <1>2. /\ NextVersion(mid) \in HoldRow /\ Left(NextVersion(mid)) = Left(mid)
        /\ NextVersion(mid).material = mid.material /\ NextVersion(mid).target = mid.target
        /\ NextVersion(mid).version = mid.version + 1
        /\ NextVersion(mid).quantity = mid.quantity
        /\ NextVersion(mid).released = mid.released /\ NextVersion(mid).consumed = mid.consumed
    BY <1>1 DEF HoldRow, Left, NextVersion
  <1> QED
    BY <1>1, <1>2 DEF mid

LEMMA Archived ==
    ASSUME NEW row \in HoldRow, NEW flag \in BOOLEAN
    PROVE  LET new == NextVersion([row EXCEPT !.archived = flag]) IN
           /\ new \in HoldRow /\ Left(new) = Left(row)
           /\ new.material = row.material /\ new.target = row.target
           /\ new.version = row.version + 1 /\ new.quantity = row.quantity
           /\ new.released = row.released /\ new.consumed = row.consumed
  <1> DEFINE mid == [row EXCEPT !.archived = flag]
  <1>1. mid \in HoldRow /\ Left(mid) = Left(row)
        /\ mid.material = row.material /\ mid.target = row.target
        /\ mid.version = row.version /\ mid.quantity = row.quantity
        /\ mid.released = row.released /\ mid.consumed = row.consumed
    BY DEF HoldRow, Left
  <1> HIDE DEF mid
  <1>2. /\ NextVersion(mid) \in HoldRow /\ Left(NextVersion(mid)) = Left(mid)
        /\ NextVersion(mid).material = mid.material /\ NextVersion(mid).target = mid.target
        /\ NextVersion(mid).version = mid.version + 1
        /\ NextVersion(mid).quantity = mid.quantity
        /\ NextVersion(mid).released = mid.released /\ NextVersion(mid).consumed = mid.consumed
    BY <1>1 DEF HoldRow, Left, NextVersion
  <1> QED
    BY <1>1, <1>2 DEF mid

\* The row that an INSERT leaves.
LEMMA Inserted ==
    ASSUME NEW m \in Materials, NEW t \in Targets, NEW q \in Nat
    PROVE  LET new == NewHold(m, t, q) IN
           /\ new \in HoldRow /\ Left(new) = q
           /\ new.material = m /\ new.target = t /\ new.version = 1
  BY DEF NewHold, HoldRow, Left

------------------------------------------------------------------------------
(* The type invariant, table by table.                                       *)

\* No handler takes a decision on a request back.
DecisionsStay ==
    \A r \in MaterialRequests :
        request[r].status \in {"approved", "rejected"} => request'[r].status = request[r].status

LEMMA SyncType ==
    ASSUME ShortagesOK, DecisionsStay, NEW ms \in SUBSET Materials,
           NEW st, NEW hd, NEW rq, SyncShortage(ms, st, hd, rq)
    PROVE  ShortagesOK'
  BY DEF SyncShortage, ShortagesOK, DecisionsStay

LEMMA AnnouncedType ==
    ASSUME ShortagesOK, DecisionsStay, NEW s \in MaterialRequests, NEW m \in Materials,
           Announced(s, m), request'[s].status \in {"approved", "rejected"}
    PROVE  ShortagesOK'
  BY DEF Announced, ShortagesOK, DecisionsStay

LEMMA InsertType ==
    ASSUME TypeOK, NEW u \in RequestIds, NEW h \in HoldIds, NEW m \in Materials,
           NEW t \in Targets, NEW q \in Amounts, InsertHold(u, h, m, t, q),
           UNCHANGED request
    PROVE  HoldsOK' /\ event' \in [RequestIds -> EventRow] /\ ShortagesOK'
  <1>1. q \in Nat
    BY SmallNumbers
  <1> DEFINE row == NewHold(m, t, q)
  <1>2. row \in HoldRow /\ Left(row) = q /\ row.version = 1 /\ row.material = m
    BY <1>1, Inserted
  <1>3. hold' = [hold EXCEPT ![h] = row] /\ hold \in [HoldIds -> HoldRow]
    BY DEF InsertHold, TypeOK, HoldsOK
  <1>4. HoldsOK'
    <2> HIDE DEF row
    <2> QED BY <1>1, <1>2, <1>3 DEF TypeOK, HoldsOK
  <1>5. event' \in [RequestIds -> EventRow]
    BY <1>1 DEF InsertHold, TypeOK, EventRow
  <1>6. ShortagesOK'
    BY SyncType DEF InsertHold, TypeOK, DecisionsStay
  <1> QED
    BY <1>4, <1>5, <1>6

LEMMA ReleaseType ==
    ASSUME TypeOK, NEW u \in RequestIds, NEW h \in HoldIds, NEW seen \in 1 .. MaxVersion,
           NEW q \in Amounts, Release(u, h, seen, q)
    PROVE  TypeOK'
  <1>1. q \in Nat
    BY SmallNumbers
  <1>2. hold[h] \in HoldRow /\ hold[h].version > 0 /\ q <= Left(hold[h])
    BY DEF Release, MayChange, TypeOK, HoldsOK
  <1>3. hold[h].material \in Materials
    BY <1>2 DEF TypeOK, HoldsOK
  <1> DEFINE row == NextVersion([hold[h] EXCEPT !.released = @ + q])
  <1>4. row \in HoldRow /\ Left(row) >= 0 /\ row.version > 0 /\ row.material \in Materials
    BY <1>1, <1>2, <1>3, Released DEF HoldRow
  <1>5. hold' = [hold EXCEPT ![h] = row]
    BY DEF Release
  <1>6. HoldsOK'
    <2> HIDE DEF row
    <2> QED BY <1>4, <1>5, <1>2 DEF TypeOK, HoldsOK, HoldRow
  <1>7. event' \in [RequestIds -> EventRow]
    BY <1>1 DEF Release, TypeOK, EventRow
  <1>8. ShortagesOK'
    BY <1>3, SyncType DEF Release, TypeOK, DecisionsStay
  <1> QED
    BY <1>6, <1>7, <1>8 DEF Release, TypeOK, RequestsOK

LEMMA IssueType ==
    ASSUME TypeOK, NEW u \in RequestIds, NEW h \in HoldIds, NEW seen \in 1 .. MaxVersion,
           NEW q \in Amounts, Issue(u, h, seen, q)
    PROVE  TypeOK'
  <1>1. q \in Nat
    BY SmallNumbers
  <1>2. hold[h] \in HoldRow /\ hold[h].version > 0 /\ q <= Left(hold[h])
    BY DEF Issue, MayChange, TypeOK, HoldsOK
  <1>3. hold[h].material \in Materials
    BY <1>2 DEF TypeOK, HoldsOK
  <1> DEFINE row == NextVersion([hold[h] EXCEPT !.consumed = @ + q])
  <1>4. row \in HoldRow /\ Left(row) >= 0 /\ row.version > 0 /\ row.material \in Materials
    BY <1>1, <1>2, <1>3, Consumed DEF HoldRow
  <1>5. hold' = [hold EXCEPT ![h] = row]
    BY DEF Issue
  <1>6. HoldsOK'
    <2> HIDE DEF row
    <2> QED BY <1>4, <1>5, <1>2 DEF TypeOK, HoldsOK, HoldRow
  <1>7. event' \in [RequestIds -> EventRow]
    BY <1>1 DEF Issue, TypeOK, EventRow
  <1>8. ShortagesOK'
    BY <1>3, SyncType DEF Issue, TypeOK, DecisionsStay
  <1>9. stock' \in [Materials -> Int]
    BY <1>1, <1>3 DEF Issue, TypeOK
  <1> QED
    BY <1>6, <1>7, <1>8, <1>9 DEF Issue, TypeOK, RequestsOK

LEMMA ArchiveType ==
    ASSUME TypeOK, NEW h \in HoldIds, NEW seen \in 1 .. MaxVersion, NEW flag \in BOOLEAN,
           Archive(h, seen, flag)
    PROVE  TypeOK'
  <1>1. hold[h] \in HoldRow /\ hold[h].version > 0 /\ hold[h].material \in Materials
    BY DEF Archive, TypeOK, HoldsOK
  <1> DEFINE row == NextVersion([hold[h] EXCEPT !.archived = flag])
  <1>2. row \in HoldRow /\ Left(row) = Left(hold[h]) /\ row.version > 0
        /\ row.material \in Materials
    BY <1>1, Archived DEF HoldRow
  <1>3. hold' = [hold EXCEPT ![h] = row]
    BY DEF Archive
  <1>4. HoldsOK'
    <2> HIDE DEF row
    <2> QED BY <1>1, <1>2, <1>3 DEF TypeOK, HoldsOK, HoldRow
  <1> QED
    BY <1>4 DEF Archive, TypeOK, RequestsOK, ShortagesOK

\* What a house is given leaves its holds, and no hold is touched that it does not own.
LEMMA ConsumeRows ==
    ASSUME TypeOK, NEW p \in Houses, NEW q \in Documents,
           NEW left \in [HoldIds -> 0 .. MaxQuantity], TakeFromHolds(p, q, left),
           NEW h \in HoldIds
    PROVE  /\ hold'[h] \in HoldRow
           /\ Left(hold'[h]) >= 0 /\ Left(hold'[h]) = left[h]
           /\ hold'[h].material = hold[h].material /\ hold'[h].target = hold[h].target
           /\ hold'[h].quantity = hold[h].quantity /\ hold'[h].released = hold[h].released
           /\ \/ hold'[h] = hold[h]
              \/ /\ hold[h].target = p /\ hold[h].material \in DOMAIN q
                 /\ hold'[h].version = hold[h].version + 1
  <1>1. hold[h] \in HoldRow /\ Left(hold[h]) \in Nat
    BY DEF TypeOK, HoldsOK, HoldRow, Left
  <1>2. hold'[h] = IF left[h] = Left(hold[h]) THEN hold[h]
                   ELSE NextVersion([hold[h] EXCEPT !.consumed = @ + (Left(hold[h]) - left[h])])
    BY DEF TakeFromHolds
  <1>3. CASE left[h] = Left(hold[h])
    BY <1>1, <1>2, <1>3
  <1>4. CASE left[h] # Left(hold[h])
    <2>1. hold[h].target = p /\ hold[h].material \in DOMAIN q
      BY <1>4 DEF TakeFromHolds
    <2>2. left[h] <= Left(hold[h]) /\ left[h] \in Nat
      <3> DEFINE m == hold[h].material
                 before == LeftOn(hold, m, {p})
                 after == [g \in HoldIds |->
                             IF hold[g].material = m /\ hold[g].target = p
                             THEN left[g] ELSE 0]
      <3>1. TakenInOrder(before, after, HoldIds, q[m])
        BY <2>1 DEF TakeFromHolds
      <3>2. after[h] <= before[h]
        BY <3>1 DEF TakenInOrder
      <3>3. after[h] = left[h] /\ before[h] = Left(hold[h])
        BY <2>1 DEF LeftOn
      <3>4. left[h] \in Nat
        BY QuantitiesAssumption
      <3> QED
        BY <3>2, <3>3, <3>4
    <2> DEFINE d == Left(hold[h]) - left[h]
               new == NextVersion([hold[h] EXCEPT !.consumed = @ + d])
    <2>3. d \in Nat /\ d <= Left(hold[h]) /\ Left(hold[h]) - d = left[h]
      BY <1>1, <2>2
    <2>4. hold'[h] = new
      BY <1>2, <1>4
    <2>5. /\ new \in HoldRow /\ Left(new) = Left(hold[h]) - d
          /\ new.material = hold[h].material /\ new.target = hold[h].target
          /\ new.version = hold[h].version + 1
          /\ new.quantity = hold[h].quantity /\ new.released = hold[h].released
      <3> HIDE DEF d
      <3> QED BY <1>1, <2>3, Consumed
    <2> HIDE DEF d, new
    <2> QED BY <2>1, <2>2, <2>3, <2>4, <2>5
  <1> QED
    BY <1>3, <1>4

LEMMA ConsumeType ==
    ASSUME TypeOK, NEW p \in Houses, NEW q \in Documents, ConsumeHolds(p, q)
    PROVE  HoldsOK'
  <1>0. PICK left \in [HoldIds -> 0 .. MaxQuantity] : TakeFromHolds(p, q, left)
    BY DEF ConsumeHolds
  <1>1. hold' \in [HoldIds -> HoldRow]
    BY <1>0, ConsumeRows DEF TakeFromHolds
  <1>2. ASSUME NEW h \in HoldIds
        PROVE  /\ Left(hold'[h]) >= 0
               /\ IF hold'[h].version = 0 THEN hold'[h] = NoHold
                  ELSE hold'[h].material \in Materials
    <2>1. p # Null /\ \A m \in DOMAIN q : m \in Materials
      BY TablesAssumption, SmallNumbers
    <2>2. hold[h].version \in Nat
      BY DEF TypeOK, HoldsOK, HoldRow
    <2>3. CASE hold'[h] = hold[h]
      BY <2>3 DEF TypeOK, HoldsOK
    <2>4. CASE /\ hold[h].material \in DOMAIN q
               /\ hold'[h].version = hold[h].version + 1
      BY <1>0, <2>1, <2>2, <2>4, ConsumeRows
    <2> QED
      BY <1>0, <2>3, <2>4, ConsumeRows
  <1> QED
    BY <1>1, <1>2 DEF HoldsOK

LEMMA AddedType ==
    ASSUME stock \in [Materials -> Int], NEW q \in Documents
    PROVE  Added(stock, q, 1) \in [Materials -> Int] /\ Added(stock, q, -1) \in [Materials -> Int]
  BY SmallNumbers DEF Added

\* What approve_request issues is a document with one line, for the house that asked.
LEMMA ApprovedDocument ==
    ASSUME TypeOK, NEW r \in MaterialRequests, NEW s \in MaterialRequests, NEW q \in Amounts,
           ApproveRequest(r, s, q)
    PROVE  /\ [x \in {MaterialOf[request[r].block]} |-> q] \in Documents
           /\ request[r].block \in BlockMaterials
           /\ MaterialOf[request[r].block] \in Materials
           /\ HouseOf[request[r].block] \in Houses
  <1> DEFINE b == request[r].block
             m == MaterialOf[b]
             issue == [x \in {m} |-> q]
  <1>1. b \in BlockMaterials
    BY DEF ApproveRequest, TypeOK, RequestsOK
  <1>2. m \in Materials /\ HouseOf[b] \in Houses
    BY <1>1, TablesAssumption
  <1>3. {m} \in (SUBSET Materials) \ {{}} /\ issue \in [{m} -> Amounts]
    BY <1>2
  <1>4. issue \in Documents
    <2> HIDE DEF issue, m
    <2> QED BY <1>3 DEF Documents
  <1> QED
    BY <1>1, <1>2, <1>4

------------------------------------------------------------------------------
(* Norms and the requests drawn on them.                                     *)

LEMMA PendingType ==
    ASSUME RequestsOK, NEW b
    PROVE  /\ \A r \in MaterialRequests : PendingOn(b)[r] \in Nat
           /\ Total(PendingOn(b), MaterialRequests) \in Nat
  <1>1. \A r \in MaterialRequests : PendingOn(b)[r] \in Nat
    BY DEF PendingOn, RequestsOK, RequestRow
  <1> QED
    BY <1>1, SmallNumbers, TotalType

\* The norm shows at least what each open request asks of it.
LEMMA RequestedCovers ==
    ASSUME TypeOK, RequestedAgrees, NEW r \in MaterialRequests, request[r].status = "pending"
    PROVE  /\ request[r].block \in BlockMaterials
           /\ request[r].quantity \in Nat
           /\ request[r].quantity <= norm[request[r].block].requested
  <1> DEFINE b == request[r].block
  <1>1. b \in BlockMaterials /\ request[r].quantity \in Nat
    BY DEF TypeOK, RequestsOK, RequestRow
  <1>2. \A s \in MaterialRequests : PendingOn(b)[s] \in Nat
    BY PendingType DEF TypeOK
  <1>3. /\ Total(PendingOn(b), MaterialRequests)
              = Total(PendingOn(b), MaterialRequests \ {r}) + PendingOn(b)[r]
        /\ Total(PendingOn(b), MaterialRequests \ {r}) \in Nat
    <2> HIDE DEF b
    <2> QED BY <1>2, SmallNumbers, TotalSplit
  <1>4. PendingOn(b)[r] = request[r].quantity
    BY DEF PendingOn
  <1>5. norm[b].requested = Total(PendingOn(b), MaterialRequests)
    BY <1>1 DEF RequestedAgrees
  <1> QED
    BY <1>1, <1>3, <1>4, <1>5

\* One request moved: what is pending on a norm moves by that request.
LEMMA PendingMoves ==
    ASSUME RequestsOK, RequestsOK', NEW r \in MaterialRequests, NEW b,
           \A s \in MaterialRequests \ {r} : PendingOn(b)'[s] = PendingOn(b)[s]
    PROVE  Total(PendingOn(b)', MaterialRequests)
             = Total(PendingOn(b), MaterialRequests) - PendingOn(b)[r] + PendingOn(b)'[r]
  <1> DEFINE f == PendingOn(b)
             g == PendingOn(b)'
  <1>1. \A s \in MaterialRequests : f[s] \in Nat
    BY PendingType
  <1>2. \A s \in MaterialRequests : g[s] \in Nat
    BY DEF PendingOn, RequestsOK, RequestRow
  <1>3. \A s \in MaterialRequests \ {r} : g[s] = f[s]
    OBVIOUS
  <1> QED
    <2> HIDE DEF f, g
    <2>1. Total(g, MaterialRequests) = Total(f, MaterialRequests) - f[r] + g[r]
      BY <1>1, <1>2, <1>3, SmallNumbers, TotalUpdate
    <2> QED BY <2>1 DEF f, g

LEMMA RequestMaterialInv ==
    ASSUME IInv, NEW r \in MaterialRequests, NEW b \in BlockMaterials, NEW q \in Amounts,
           RequestMaterial(r, b, q)
    PROVE  IInv'
  <1>1. q \in Nat /\ q <= norm[b].required /\ norm[b] \in NormRow
    BY SmallNumbers DEF RequestMaterial, IInv, TypeOK, NormRow
  <1> DEFINE row == [block |-> b, quantity |-> q, status |-> "pending"]
             new == [norm[b] EXCEPT !.required = norm[b].required - q,
                                    !.requested = norm[b].requested + q]
  <1>2. norm' = [norm EXCEPT ![b] = new]
    BY DEF RequestMaterial
  <1>3. new \in NormRow /\ new.requested = norm[b].requested + q
    <2> DEFINE x == norm[b].required - q
               y == norm[b].requested + q
               old == norm[b]
    <2>1. x \in Nat /\ y \in Nat /\ old \in NormRow
      BY <1>1 DEF NormRow
    <2> HIDE DEF x, y, old
    <2>2. [old EXCEPT !.required = x, !.requested = y] \in NormRow
          /\ [old EXCEPT !.required = x, !.requested = y].requested = y
      BY <2>1 DEF NormRow
    <2> QED
      BY <2>2 DEF x, y, old
  <1>4. norm' \in [BlockMaterials -> NormRow]
    <2> HIDE DEF new
    <2> QED BY <1>2, <1>3 DEF IInv, TypeOK, NormRow
  <1>5. request' = [request EXCEPT ![r] = row] /\ request[r].status = "none"
    BY DEF RequestMaterial, NextRequest
  <1>6. row \in RequestRow
    BY <1>1 DEF RequestRow
  <1>7. RequestsOK'
    BY <1>5, <1>6 DEF IInv, TypeOK, RequestsOK
  <1>8. TypeOK'
    <2>1. \A t \in MaterialRequests : t # r => request'[t] = request[t]
      BY <1>5, <1>6 DEF IInv, TypeOK, RequestsOK
    <2>2. ShortagesOK'
      <3>1. \A d \in unsynced : d.decision \in MaterialRequests /\ d.decision # r
        BY <1>5 DEF IInv, TypeOK, ShortagesOK
      <3> QED BY <2>1, <3>1 DEF RequestMaterial, IInv, TypeOK, ShortagesOK
    <2> QED BY <1>4, <1>7, <2>2 DEF RequestMaterial, IInv, TypeOK, NormRow, HoldsOK
  <1>9. ASSUME NEW c \in BlockMaterials
        PROVE  norm'[c].requested = Total(PendingOn(c)', MaterialRequests)
    <2>1. \A s \in MaterialRequests \ {r} : PendingOn(c)'[s] = PendingOn(c)[s]
      BY <1>5 DEF PendingOn, IInv, TypeOK, RequestsOK
    <2>2. Total(PendingOn(c)', MaterialRequests)
            = Total(PendingOn(c), MaterialRequests) - PendingOn(c)[r] + PendingOn(c)'[r]
      BY <2>1, <1>7, PendingMoves DEF IInv, TypeOK
    <2>3. PendingOn(c)[r] = 0 /\ PendingOn(c)'[r] = IF c = b THEN q ELSE 0
      BY <1>5 DEF PendingOn, IInv, TypeOK, RequestsOK
    <2>4. norm'[c].requested = norm[c].requested + IF c = b THEN q ELSE 0
      <3> HIDE DEF new
      <3> QED BY <1>2, <1>3, <1>1 DEF IInv, TypeOK
    <2>5. norm[c].requested = Total(PendingOn(c), MaterialRequests)
          /\ Total(PendingOn(c), MaterialRequests) \in Nat
      BY PendingType DEF IInv, RequestedAgrees, TypeOK
    <2> QED
      BY <2>2, <2>3, <2>4, <2>5, <1>1
  <1> QED
    BY <1>8, <1>9 DEF IInv, RequestedAgrees

\* What is approved stops being pending: the request itself, or a part of it while
\* the rest stays, and the row that records the part was never pending.
LEMMA ApprovedPending ==
    ASSUME IInv, NEW r \in MaterialRequests, NEW s \in MaterialRequests, NEW q \in Amounts,
           ApproveRequest(r, s, q), NEW c \in BlockMaterials
    PROVE  /\ RequestsOK'
           /\ Total(PendingOn(c)', MaterialRequests)
                = Total(PendingOn(c), MaterialRequests)
                    - (IF c = request[r].block THEN q ELSE 0)
  <1> DEFINE b == request[r].block
  <1>1. /\ request[r].status = "pending" /\ q <= request[r].quantity
        /\ b \in BlockMaterials /\ request[r].quantity \in Nat /\ q \in Nat
        /\ request \in [MaterialRequests -> RequestRow]
    BY RequestedCovers, SmallNumbers DEF ApproveRequest, IInv, TypeOK, RequestsOK
  <1>2. CASE q = request[r].quantity /\ request' = [request EXCEPT ![r].status = "approved"]
    <2> DEFINE row == [request[r] EXCEPT !.status = "approved"]
    <2>1. row \in RequestRow /\ row.status = "approved" /\ row.block = b
      BY <1>1 DEF RequestRow
    <2>2. request' = [request EXCEPT ![r] = row]
      BY <1>2
    <2>3. RequestsOK'
      <3> HIDE DEF row
      <3> QED BY <1>1, <2>1, <2>2 DEF IInv, TypeOK, RequestsOK
    <2>4. /\ \A t \in MaterialRequests \ {r} : PendingOn(c)'[t] = PendingOn(c)[t]
          /\ PendingOn(c)'[r] = 0
      <3> HIDE DEF row
      <3> QED BY <1>1, <2>1, <2>2 DEF PendingOn
    <2>5. PendingOn(c)[r] = IF c = b THEN q ELSE 0
      BY <1>1, <1>2 DEF PendingOn
    <2>6. Total(PendingOn(c)', MaterialRequests)
            = Total(PendingOn(c), MaterialRequests) - PendingOn(c)[r] + PendingOn(c)'[r]
      BY <2>3, <2>4, PendingMoves DEF IInv, TypeOK
    <2> QED
      BY <2>3, <2>4, <2>5, <2>6, <1>1, PendingType DEF IInv, TypeOK
  <1>3. CASE /\ q < request[r].quantity /\ NextRequest(s)
             /\ request' = [request EXCEPT
                             ![r].quantity = @ - q,
                             ![s] = [block |-> b, quantity |-> q, status |-> "approved"]]
    <2> DEFINE rest == [request[r] EXCEPT !.quantity = request[r].quantity - q]
               part == [block |-> b, quantity |-> q, status |-> "approved"]
    <2>1. r # s
      BY <1>1, <1>3 DEF NextRequest
    <2>2. request[r].quantity - q \in Nat
      BY <1>1, <1>3
    <2>3. /\ rest \in RequestRow /\ rest.status = "pending" /\ rest.block = b
          /\ rest.quantity = request[r].quantity - q
      BY <1>1, <2>2 DEF RequestRow
    <2>4. part \in RequestRow /\ part.status = "approved" /\ part.block = b
      BY <1>1 DEF RequestRow
    <2>5. /\ request' \in [MaterialRequests -> RequestRow]
          /\ request'[r] = rest /\ request'[s] = part
          /\ \A t \in MaterialRequests \ {r, s} : request'[t] = request[t]
      <3>1. request' = [[request EXCEPT ![r] = rest] EXCEPT ![s] = part]
        BY <1>3
      <3> HIDE DEF rest, part
      <3> QED BY <3>1, <1>1, <2>1, <2>3, <2>4
    <2> HIDE DEF rest, part
    <2>6. RequestsOK'
      BY <1>1, <2>3, <2>4, <2>5 DEF IInv, TypeOK, RequestsOK
    <2>7. PendingOn(c)'[s] = 0 /\ PendingOn(c)[s] = 0
      BY <1>3, <2>4, <2>5 DEF PendingOn, NextRequest
    <2>8. \A t \in MaterialRequests \ {r} : PendingOn(c)'[t] = PendingOn(c)[t]
      BY <2>5, <2>7 DEF PendingOn
    <2>9. /\ PendingOn(c)[r] = IF c = b THEN request[r].quantity ELSE 0
          /\ PendingOn(c)'[r] = IF c = b THEN request[r].quantity - q ELSE 0
      BY <1>1, <2>3, <2>5 DEF PendingOn
    <2>10. Total(PendingOn(c)', MaterialRequests)
             = Total(PendingOn(c), MaterialRequests) - PendingOn(c)[r] + PendingOn(c)'[r]
      BY <2>6, <2>8, PendingMoves DEF IInv, TypeOK
    <2> QED
      BY <2>6, <2>9, <2>10, <1>1, PendingType DEF IInv, TypeOK
  <1> QED
    BY <1>2, <1>3 DEF ApproveRequest

LEMMA ApproveInv ==
    ASSUME IInv, NEW r \in MaterialRequests, NEW s \in MaterialRequests, NEW q \in Amounts,
           ApproveRequest(r, s, q)
    PROVE  IInv'
  <1> DEFINE b == request[r].block
             m == MaterialOf[b]
             issue == [x \in {m} |-> q]
             old == norm[b]
  <1>1. /\ b \in BlockMaterials /\ q \in Nat /\ old \in NormRow /\ q <= old.requested
        /\ norm \in [BlockMaterials -> NormRow]
    BY RequestedCovers, SmallNumbers DEF ApproveRequest, IInv, TypeOK, NormRow
  <1>2. issue \in Documents /\ m \in Materials /\ HouseOf[b] \in Houses
    BY ApprovedDocument DEF IInv
  <1>4. HoldsOK'
    BY <1>2, ConsumeType DEF ApproveRequest, IInv
  <1>5. stock' \in [Materials -> Int]
    BY <1>2, AddedType DEF ApproveRequest, IInv, TypeOK
  <1>6. ShortagesOK'
    <2>1. DecisionsStay /\ request'[s].status = "approved"
      <3>1. /\ request \in [MaterialRequests -> RequestRow] /\ request[r].status = "pending"
        BY DEF ApproveRequest, IInv, TypeOK, RequestsOK, RequestRow
      <3>2. CASE request' = [request EXCEPT ![r].status = "approved"] /\ s = r
        BY <3>1, <3>2 DEF DecisionsStay
      <3>3. ASSUME NEW before, NEW filed, filed.status = "approved", before.status = "pending",
                   request' = [[request EXCEPT ![r] = before] EXCEPT ![s] = filed],
                   request[s].status = "none"
            PROVE  DecisionsStay /\ request'[s].status = "approved"
        BY <3>1, <3>3 DEF DecisionsStay
      <3>4. CASE /\ NextRequest(s)
                 /\ request' = [request EXCEPT
                          ![r].quantity = @ - q,
                          ![s] = [block |-> b, quantity |-> q, status |-> "approved"]]
        <4>1. request[s].status = "none"
          BY <3>4 DEF NextRequest
        <4> DEFINE left == [request[r] EXCEPT !.quantity = request[r].quantity - q]
                   given == [block |-> b, quantity |-> q, status |-> "approved"]
        <4>2. request' = [[request EXCEPT ![r] = left] EXCEPT ![s] = given]
          BY <3>4
        <4>3. left.status = "pending" /\ given.status = "approved"
          BY <3>1 DEF RequestRow
        <4> HIDE DEF left, given
        <4> QED BY <3>3, <4>1, <4>2, <4>3
      <3> QED
        BY <3>2, <3>4 DEF ApproveRequest
    <2>2. \/ SyncShortage({m}, stock', hold', request')
          \/ Announced(s, m)
      BY DEF ApproveRequest
    <2> HIDE DEF m
    <2> QED BY <1>2, <2>1, <2>2, SyncType, AnnouncedType DEF IInv, TypeOK
  <1> DEFINE x == old.requested - q
             y == old.provided + q
             new == [old EXCEPT !.requested = x, !.provided = y]
  <1>7. x \in Nat /\ y \in Nat
    BY <1>1 DEF NormRow
  <1>8. new \in NormRow /\ new.requested = x
    <2> HIDE DEF x, y, old
    <2> QED BY <1>1, <1>7 DEF NormRow
  <1>9. norm' = [norm EXCEPT ![b] = new]
    BY DEF ApproveRequest
  <1>10. /\ norm' \in [BlockMaterials -> NormRow]
         /\ \A c \in BlockMaterials :
               norm'[c].requested = norm[c].requested - (IF c = b THEN q ELSE 0)
    <2> HIDE DEF new, b
    <2>1. norm'[b] = new /\ \A c \in BlockMaterials \ {b} : norm'[c] = norm[c]
      BY <1>1, <1>9
    <2>2. norm' \in [BlockMaterials -> NormRow]
      BY <1>1, <1>8, <1>9
    <2>3. \A c \in BlockMaterials : norm[c].requested \in Nat
      BY <1>1 DEF NormRow
    <2> QED
      BY <1>1, <1>8, <2>1, <2>2, <2>3
  <1>11. RequestsOK'
    BY <1>1, ApprovedPending
  <1>12. TypeOK'
    BY <1>4, <1>5, <1>6, <1>10, <1>11 DEF ApproveRequest, IInv, TypeOK, NormRow
  <1>13. ASSUME NEW c \in BlockMaterials
         PROVE  norm'[c].requested = Total(PendingOn(c)', MaterialRequests)
    BY <1>10, ApprovedPending DEF IInv, RequestedAgrees
  <1> QED
    BY <1>12, <1>13 DEF IInv, RequestedAgrees

LEMMA RejectInv ==
    ASSUME IInv, NEW r \in MaterialRequests, RejectRequest(r)
    PROVE  IInv'
  <1> DEFINE b == request[r].block
             q == request[r].quantity
             old == norm[b]
  <1>1. /\ b \in BlockMaterials /\ q \in Nat /\ old \in NormRow /\ q <= old.requested
        /\ norm \in [BlockMaterials -> NormRow]
        /\ request \in [MaterialRequests -> RequestRow] /\ request[r].status = "pending"
    BY RequestedCovers DEF RejectRequest, IInv, TypeOK, NormRow, RequestsOK
  <1>2. ShortagesOK'
    <2>1. DecisionsStay /\ request'[r].status = "rejected" /\ MaterialOf[b] \in Materials
      BY <1>1, TablesAssumption DEF RejectRequest, DecisionsStay, IInv, TypeOK, RequestsOK
    <2>2. \/ SyncShortage({MaterialOf[b]}, stock, hold, request')
          \/ Announced(r, MaterialOf[b])
      BY DEF RejectRequest
    <2> HIDE DEF b
    <2> QED BY <2>1, <2>2, SyncType, AnnouncedType DEF IInv, TypeOK
  <1> DEFINE x == old.requested - q
             y == old.required + q
             new == [old EXCEPT !.requested = x, !.required = y]
  <1>3. x \in Nat /\ y \in Nat
    BY <1>1 DEF NormRow
  <1>4. new \in NormRow /\ new.requested = x
    <2> HIDE DEF x, y, old
    <2> QED BY <1>1, <1>3 DEF NormRow
  <1>5. norm' = [norm EXCEPT ![b] = new]
    BY DEF RejectRequest
  <1>6. /\ norm' \in [BlockMaterials -> NormRow]
        /\ \A c \in BlockMaterials :
              norm'[c].requested = norm[c].requested - (IF c = b THEN q ELSE 0)
    <2> HIDE DEF new, b, q
    <2>1. norm'[b] = new /\ \A c \in BlockMaterials \ {b} : norm'[c] = norm[c]
      BY <1>1, <1>5
    <2>2. norm' \in [BlockMaterials -> NormRow]
      BY <1>1, <1>4, <1>5
    <2>3. \A c \in BlockMaterials : norm[c].requested \in Nat
      BY <1>1 DEF NormRow
    <2> QED
      BY <1>1, <1>4, <2>1, <2>2, <2>3
  <1> DEFINE row == [request[r] EXCEPT !.status = "rejected"]
  <1>7. row \in RequestRow /\ row.status = "rejected" /\ row.block = b
    BY <1>1 DEF RequestRow
  <1>8. request' = [request EXCEPT ![r] = row]
    BY DEF RejectRequest
  <1>9. RequestsOK'
    <2> HIDE DEF row
    <2> QED BY <1>1, <1>7, <1>8 DEF IInv, TypeOK, RequestsOK
  <1>10. ASSUME NEW c \in BlockMaterials
         PROVE  norm'[c].requested = Total(PendingOn(c)', MaterialRequests)
    <2>1. /\ \A t \in MaterialRequests \ {r} : PendingOn(c)'[t] = PendingOn(c)[t]
          /\ PendingOn(c)'[r] = 0
      <3> HIDE DEF row
      <3> QED BY <1>1, <1>7, <1>8 DEF PendingOn
    <2>2. PendingOn(c)[r] = IF c = b THEN q ELSE 0
      BY <1>1 DEF PendingOn
    <2>3. Total(PendingOn(c)', MaterialRequests)
            = Total(PendingOn(c), MaterialRequests) - PendingOn(c)[r] + PendingOn(c)'[r]
      BY <1>9, <2>1, PendingMoves DEF IInv, TypeOK
    <2>4. norm[c].requested = Total(PendingOn(c), MaterialRequests)
          /\ Total(PendingOn(c), MaterialRequests) \in Nat
      BY PendingType DEF IInv, RequestedAgrees, TypeOK
    <2> QED
      BY <1>1, <1>6, <2>1, <2>2, <2>3, <2>4
  <1>11. TypeOK'
    BY <1>2, <1>6, <1>9 DEF RejectRequest, IInv, TypeOK, NormRow, HoldsOK
  <1> QED
    BY <1>10, <1>11 DEF IInv, RequestedAgrees

\* The norm of a house is paid off by what is issued by its technical card.
LEMMA TechcardInv ==
    ASSUME IInv, NEW p \in Houses, NEW q \in Documents, IssueByTechcard(p, q)
    PROVE  IInv'
  <1>1. PICK required \in [BlockMaterials -> 0 .. MaxNorm] :
          /\ \A m \in DOMAIN q :
               TakenInOrder(NormOf(m, p, "required"),
                            [b \in BlockMaterials |->
                                IF MaterialOf[b] = m /\ HouseOf[b] = p
                                THEN required[b] ELSE 0],
                            BlockMaterials, q[m])
          /\ \A b \in BlockMaterials :
               ~(HouseOf[b] = p /\ MaterialOf[b] \in DOMAIN q)
                 => required[b] = norm[b].required
          /\ norm' = [b \in BlockMaterials |->
                        [norm[b] EXCEPT !.required = required[b],
                                        !.provided = @ + norm[b].required - required[b]]]
    BY DEF IssueByTechcard
  <1>2. ASSUME NEW b \in BlockMaterials
        PROVE  norm'[b] \in NormRow /\ norm'[b].requested = norm[b].requested
    <2> DEFINE old == norm[b]
               x == required[b]
               y == old.provided + old.required - x
    <2>1. old \in NormRow
      BY DEF IInv, TypeOK, NormRow
    <2>2. x \in Nat
      <3>1. required \in [BlockMaterials -> 0 .. MaxNorm]
        OBVIOUS
      <3>2. MaxNorm \in Nat
        BY QuantitiesAssumption
      <3> QED
        BY <3>1, <3>2
    <2>3. x <= old.required
      <3>1. CASE HouseOf[b] = p /\ MaterialOf[b] \in DOMAIN q
        <4> DEFINE m == MaterialOf[b]
                   before == NormOf(m, p, "required")
                   after == [c \in BlockMaterials |->
                               IF MaterialOf[c] = m /\ HouseOf[c] = p
                               THEN required[c] ELSE 0]
        <4>1. TakenInOrder(before, after, BlockMaterials, q[m])
          BY <1>1, <3>1
        <4>2. after[b] <= before[b]
          BY <4>1 DEF TakenInOrder
        <4>3. after[b] = x /\ before[b] = old.required
          BY <3>1 DEF NormOf
        <4> HIDE DEF after, before
        <4> QED
          BY <4>2, <4>3
      <3>2. CASE ~(HouseOf[b] = p /\ MaterialOf[b] \in DOMAIN q)
        <4>1. x = old.required
          BY <1>1, <3>2
        <4>2. old.required \in Nat
          BY <2>1 DEF NormRow
        <4> HIDE DEF x, old
        <4> QED
          BY <4>1, <4>2
      <3> QED
        BY <3>1, <3>2
    <2>4. y \in Nat
      <3> HIDE DEF x
      <3> QED BY <2>1, <2>2, <2>3 DEF NormRow
    <2>5. norm'[b] = [old EXCEPT !.required = x, !.provided = y]
      BY <1>1
    <2> HIDE DEF old, x, y
    <2>6. /\ [old EXCEPT !.required = x, !.provided = y] \in NormRow
          /\ [old EXCEPT !.required = x, !.provided = y].requested = old.requested
      BY <2>1, <2>2, <2>4 DEF NormRow
    <2> QED
      BY <2>5, <2>6 DEF old
  <1>3. norm' \in [BlockMaterials -> NormRow]
    BY <1>1, <1>2
  <1>4. HoldsOK' /\ stock' \in [Materials -> Int] /\ ShortagesOK'
    <2>1. DOMAIN q \subseteq Materials
      BY SmallNumbers
    <2> QED
      BY <2>1, ConsumeType, AddedType, SyncType DEF IssueByTechcard, IInv, TypeOK, DecisionsStay
  <1>5. TypeOK'
    BY <1>3, <1>4 DEF IssueByTechcard, IInv, TypeOK, NormRow, RequestsOK
  <1>6. \A b : PendingOn(b)' = PendingOn(b)
    BY DEF IssueByTechcard, PendingOn
  <1> QED
    BY <1>2, <1>5, <1>6 DEF IInv, RequestedAgrees

LEMMA UpdateRequiredInv ==
    ASSUME IInv, NEW b \in BlockMaterials, NEW q \in 0 .. MaxNorm, UpdateRequired(b, q)
    PROVE  IInv'
  <1>1. q \in Nat
    BY QuantitiesAssumption
  <1>2. /\ norm' \in [BlockMaterials -> NormRow]
        /\ \A c \in BlockMaterials : norm'[c].requested = norm[c].requested
    <2> DEFINE new == [norm[b] EXCEPT !.required = q]
    <2>1. new \in NormRow /\ new.requested = norm[b].requested
      BY <1>1 DEF IInv, TypeOK, NormRow
    <2>2. norm' = [norm EXCEPT ![b] = new] /\ norm \in [BlockMaterials -> NormRow]
      BY DEF UpdateRequired, IInv, TypeOK, NormRow
    <2> HIDE DEF new
    <2> QED BY <2>1, <2>2
  <1>3. TypeOK'
    BY <1>2 DEF UpdateRequired, IInv, TypeOK, NormRow, HoldsOK, RequestsOK, ShortagesOK
  <1>4. \A c : PendingOn(c)' = PendingOn(c)
    BY DEF UpdateRequired, PendingOn
  <1> QED
    BY <1>2, <1>3, <1>4 DEF IInv, RequestedAgrees

\* Handlers that write neither norms nor requests keep the two in agreement.
LEMMA AgreeUnchanged ==
    ASSUME RequestedAgrees, UNCHANGED <<norm, request>>
    PROVE  RequestedAgrees'
  BY DEF RequestedAgrees, PendingOn

\* What an announced decision does later writes nothing but the tasks of shortages.
LEMMA LateLeaves ==
    ASSUME NEW d, LooksAgain(d) \/ SyncsLate(d) \/ SyncNeverComes(d)
    PROVE  UNCHANGED <<stock, hold, event, norm, request>>
  BY DEF LooksAgain, SyncsLate, SyncNeverComes

LEMMA LateInv ==
    ASSUME IInv, NEW d \in unsynced, LooksAgain(d) \/ SyncsLate(d) \/ SyncNeverComes(d)
    PROVE  IInv'
  <1> DEFINE Rows == [decision : MaterialRequests, material : Materials,
                      step : {"announced", "opens", "closes"}]
  <1>1. d \in Rows /\ unsynced \subseteq Rows /\ shortage \subseteq Materials
    BY DEF IInv, TypeOK, ShortagesOK
  <1>2. UNCHANGED <<stock, hold, event, norm, request>>
    BY LateLeaves
  <1>3. /\ [d EXCEPT !.step = "opens"] \in Rows /\ [d EXCEPT !.step = "closes"] \in Rows
        /\ d.material \in Materials
    BY <1>1
  <1>4. unsynced' \subseteq Rows /\ shortage' \subseteq Materials
    <2> HIDE DEF Rows
    <2> QED BY <1>1, <1>3 DEF LooksAgain, SyncsLate, SyncNeverComes
  <1>5. ShortagesOK'
    <2>1. \A x \in unsynced' : \E y \in unsynced : x.decision = y.decision
      BY <1>1 DEF LooksAgain, SyncsLate, SyncNeverComes
    <2> QED BY <1>2, <1>4, <2>1 DEF IInv, TypeOK, ShortagesOK
  <1> QED
    BY <1>2, <1>5, AgreeUnchanged DEF IInv, TypeOK, HoldsOK, RequestsOK

\* Nor does the board, where the task of a shortage is submitted.
LEMMA BoardInv ==
    ASSUME IInv, NEW m \in Materials, SubmitsShortageTask(m)
    PROVE  IInv'
  <1>1. /\ UNCHANGED <<stock, hold, event, norm, request, unsynced>>
        /\ shortage' \subseteq shortage
    BY DEF SubmitsShortageTask
  <1> QED
    BY <1>1, AgreeUnchanged DEF IInv, TypeOK, HoldsOK, RequestsOK, ShortagesOK

LEMMA HoldStepInv ==
    ASSUME IInv, HoldStep
    PROVE  IInv'
  <1>1. ASSUME NEW u \in RequestIds, NEW h \in HoldIds, NEW m \in Materials,
               NEW q \in Amounts, ReserveForPurpose(u, h, m, q)
        PROVE  IInv'
    BY <1>1, InsertType, AgreeUnchanged
    DEF ReserveForPurpose, IInv, TypeOK, RequestsOK, Targets
  <1>2. ASSUME NEW u \in RequestIds, NEW h \in HoldIds, NEW m \in Materials,
               NEW q \in Amounts, NEW p \in Houses, ReserveForHouse(u, h, m, p, q)
        PROVE  IInv'
    BY <1>2, InsertType, AgreeUnchanged
    DEF ReserveForHouse, IInv, TypeOK, RequestsOK, Targets
  <1>3. ASSUME NEW u \in RequestIds, NEW h \in HoldIds, NEW seen \in 1 .. MaxVersion,
               NEW q \in Amounts, Release(u, h, seen, q)
        PROVE  IInv'
    BY <1>3, ReleaseType, AgreeUnchanged DEF Release, IInv
  <1>4. ASSUME NEW u \in RequestIds, NEW h \in HoldIds, NEW seen \in 1 .. MaxVersion,
               NEW q \in Amounts, Issue(u, h, seen, q)
        PROVE  IInv'
    BY <1>4, IssueType, AgreeUnchanged DEF Issue, IInv
  <1>5. ASSUME NEW h \in HoldIds, NEW seen \in 1 .. MaxVersion, NEW flag \in BOOLEAN,
               Archive(h, seen, flag)
        PROVE  IInv'
    BY <1>5, ArchiveType, AgreeUnchanged DEF Archive, IInv
  <1> QED
    BY <1>1, <1>2, <1>3, <1>4, <1>5 DEF HoldStep

LEMMA DocumentStepInv ==
    ASSUME IInv, DocumentStep
    PROVE  IInv'
  <1>1. ASSUME NEW q \in Documents, Receive(q) \/ WriteOff(q)
        PROVE  IInv'
    <2>1. DOMAIN q \subseteq Materials
      BY SmallNumbers
    <2>2. stock' \in [Materials -> Int]
      BY <1>1, AddedType DEF Receive, WriteOff, IInv, TypeOK
    <2>3. ShortagesOK'
      BY <1>1, <2>1, SyncType DEF Receive, WriteOff, IInv, TypeOK, DecisionsStay
    <2> QED
      BY <1>1, <2>2, <2>3, AgreeUnchanged
      DEF Receive, WriteOff, IInv, TypeOK, HoldsOK, RequestsOK, ShortagesOK
  <1> QED
    BY <1>1, TechcardInv DEF DocumentStep

LEMMA HouseStepInv ==
    ASSUME IInv, HouseStep
    PROVE  IInv'
  BY RequestMaterialInv, ApproveInv, RejectInv, UpdateRequiredInv, LateInv, BoardInv DEF HouseStep

LEMMA InitInv == Init => IInv
  <1> SUFFICES ASSUME Init PROVE IInv
    OBVIOUS
  <1>1. NoHold \in HoldRow /\ Left(NoHold) = 0 /\ NoHold.version = 0
    BY DEF NoHold, HoldRow, Left, Targets
  <1>2. HoldsOK
    BY <1>1 DEF Init, HoldsOK
  <1>3. NoRequest \in RequestRow /\ NoRequest.status = "none"
    BY DEF NoRequest, RequestRow
  <1>4. RequestsOK
    BY <1>3 DEF Init, RequestsOK
  <1>5. event \in [RequestIds -> EventRow]
    BY DEF Init, NoEvent, EventRow
  <1>6. stock \in [Materials -> Int] /\ ShortagesOK
    BY QuantitiesAssumption DEF Init, ShortagesOK
  <1>7. norm \in [BlockMaterials -> [required : Nat, requested : Nat, provided : Nat]]
    BY QuantitiesAssumption DEF Init
  <1>8. ASSUME NEW b \in BlockMaterials
        PROVE  norm[b].requested = Total(PendingOn(b), MaterialRequests)
    <2>1. \A r \in MaterialRequests : PendingOn(b)[r] = 0
      BY <1>3 DEF Init, PendingOn
    <2>2. Total(PendingOn(b), MaterialRequests) = 0
      BY <2>1, TotalZero
    <2>3. norm[b].requested = 0
      BY DEF Init
    <2> QED
      BY <2>2, <2>3
  <1> QED
    BY <1>2, <1>4, <1>5, <1>6, <1>7, <1>8 DEF IInv, TypeOK, RequestedAgrees

LEMMA StepInv ==
    ASSUME IInv, [Next]_vars
    PROVE  IInv'
  <1>1. CASE Next
    BY <1>1, HoldStepInv, DocumentStepInv, HouseStepInv DEF Next
  <1>2. CASE UNCHANGED vars
    BY <1>2 DEF vars, IInv, TypeOK, RequestedAgrees, HoldsOK, RequestsOK, ShortagesOK, PendingOn
  <1> QED
    BY <1>1, <1>2

\* The columns keep their meaning: no hold gives out more than it kept, no column of
\* a norm goes below zero, whatever the number of rows and the order of requests.
THEOREM TypeCorrect == Spec => []TypeOK
  <1>1. IInv => TypeOK
    BY DEF IInv
  <1> QED
    BY <1>1, InitInv, StepInv, PTL DEF Spec

\* approve_request never meets a request its norm does not show: the fault it
\* guards against ("Остаток заявки не совпадает с нормативом") cannot occur.
THEOREM RequestsMatchNorms == Spec => []RequestedAgrees
  <1>1. IInv => RequestedAgrees
    BY DEF IInv
  <1> QED
    BY <1>1, InitInv, StepInv, PTL DEF Spec

------------------------------------------------------------------------------
(* What is free.                                                             *)

HoldTable == {hd \in [HoldIds -> HoldRow] : \A h \in HoldIds : Left(hd[h]) >= 0}

LEMMA HeldType ==
    ASSUME NEW hd \in HoldTable, NEW m, NEW T
    PROVE  /\ \A h \in HoldIds : LeftOn(hd, m, T)[h] \in Nat
           /\ Held(hd, m, T) \in Nat
  <1>1. \A h \in HoldIds : LeftOn(hd, m, T)[h] \in Nat
    BY DEF HoldTable, LeftOn, Left, HoldRow
  <1>2. Total(LeftOn(hd, m, T), HoldIds) \in Nat
    <2> DEFINE f == LeftOn(hd, m, T)
    <2> HIDE DEF f
    <2>1. \A h \in HoldIds : f[h] \in Nat
      BY <1>1 DEF f
    <2>2. Total(f, HoldIds) \in Nat
      BY <2>1, SmallNumbers, TotalType
    <2> QED BY <2>2 DEF f
  <1> QED
    BY <1>1, <1>2 DEF Held

\* One hold moved: what is held moves by that hold.
LEMMA HeldMoves ==
    ASSUME NEW old \in HoldTable, NEW new \in HoldTable, NEW h \in HoldIds,
           \A g \in HoldIds \ {h} : new[g] = old[g], NEW m, NEW T
    PROVE  Held(new, m, T) = Held(old, m, T) - LeftOn(old, m, T)[h] + LeftOn(new, m, T)[h]
  <1> DEFINE f == LeftOn(old, m, T)
             n == LeftOn(new, m, T)
  <1>1. \A g \in HoldIds : f[g] \in Nat /\ n[g] \in Nat
    BY HeldType
  <1>2. \A g \in HoldIds \ {h} : n[g] = f[g]
    BY DEF LeftOn
  <1>3. Total(n, HoldIds) = Total(f, HoldIds) - f[h] + n[h]
    <2>1. \A g \in HoldIds : f[g] \in Nat
      BY <1>1
    <2>2. \A g \in HoldIds : n[g] \in Nat
      BY <1>1
    <2>3. IsFiniteSet(HoldIds)
      BY SmallNumbers
    <2> HIDE DEF f, n
    <2> QED BY <2>1, <2>2, <2>3, <1>2, TotalUpdate
  <1> QED
    BY <1>3 DEF Held

\* What is held of m is held for p or for somebody else.
LEMMA HeldSplit ==
    ASSUME NEW hd \in HoldTable, NEW m, NEW p \in Targets
    PROVE  Held(hd, m, Targets) = Held(hd, m, {p}) + Held(hd, m, Targets \ {p})
  <1> DEFINE R == {h \in HoldIds : hd[h].target = p}
             S == {h \in HoldIds : hd[h].target # p}
             f == LeftOn(hd, m, Targets)
             own == LeftOn(hd, m, {p})
             others == LeftOn(hd, m, Targets \ {p})
  <1>1. /\ \A h \in HoldIds : f[h] \in Nat /\ own[h] \in Nat /\ others[h] \in Nat
        /\ \A h \in R : own[h] = f[h] /\ others[h] = 0
        /\ \A h \in S : own[h] = 0 /\ others[h] = f[h]
    <2>1. \A h \in HoldIds : f[h] \in Nat /\ own[h] \in Nat /\ others[h] \in Nat
      BY HeldType
    <2>2. \A h \in HoldIds : hd[h].target \in Targets
      BY DEF HoldTable, HoldRow
    <2> QED
      BY <2>1, <2>2 DEF LeftOn
  <1>2. HoldIds = R \cup S /\ R \cap S = {} /\ IsFiniteSet(R) /\ IsFiniteSet(S)
    <2>1. R \in SUBSET HoldIds /\ S \in SUBSET HoldIds
      OBVIOUS
    <2>2. IsFiniteSet(R) /\ IsFiniteSet(S)
      <3> HIDE DEF R, S
      <3> QED BY <2>1, SmallNumbers, FS_Subset
    <2> QED BY <2>2
  <1> HIDE DEF R, S, f, own, others
  <1>3. /\ Total(f, HoldIds) = Total(f, R) + Total(f, S)
        /\ Total(own, HoldIds) = Total(own, R) + Total(own, S)
        /\ Total(others, HoldIds) = Total(others, R) + Total(others, S)
    BY <1>1, <1>2, TotalUnion
  <1>4. Total(own, R) = Total(f, R) /\ Total(others, S) = Total(f, S)
    BY <1>1, TotalSame
  <1>5. Total(own, S) = 0 /\ Total(others, R) = 0
    BY <1>1, TotalZero
  <1>6. Total(f, R) \in Nat /\ Total(f, S) \in Nat
    BY <1>1, <1>2, TotalType
  <1>7. Total(f, HoldIds) = Total(own, HoldIds) + Total(others, HoldIds)
    BY <1>3, <1>4, <1>5, <1>6
  <1> QED
    BY <1>7 DEF Held, f, own, others

\* consume_for_production takes what it is asked for from the holds of the house, as
\* far as they go, and nothing from the others.
LEMMA ConsumeHeld ==
    ASSUME TypeOK, hold \in HoldTable, hold' \in HoldTable, NEW p \in Houses,
           NEW q \in Documents, ConsumeHolds(p, q), NEW m \in Materials
    PROVE  /\ Held(hold', m, {p}) = IF m \in DOMAIN q
                                    THEN AtLeast(0, Held(hold, m, {p}) - q[m])
                                    ELSE Held(hold, m, {p})
           /\ Held(hold', m, Targets \ {p}) = Held(hold, m, Targets \ {p})
  <1>1. PICK left \in [HoldIds -> 0 .. MaxQuantity] : TakeFromHolds(p, q, left)
    BY DEF ConsumeHolds
  <1>2. \A h \in HoldIds :
           /\ Left(hold'[h]) = left[h]
           /\ hold'[h].material = hold[h].material /\ hold'[h].target = hold[h].target
           /\ hold'[h] = hold[h] \/ (hold[h].target = p /\ hold[h].material \in DOMAIN q)
    BY <1>1, ConsumeRows
  <1>3. ASSUME m \in DOMAIN q
        PROVE  Held(hold', m, {p}) = AtLeast(0, Held(hold, m, {p}) - q[m])
    <2> DEFINE after == [h \in HoldIds |->
                           IF hold[h].material = m /\ hold[h].target = p THEN left[h] ELSE 0]
    <2>1. TakenInOrder(LeftOn(hold, m, {p}), after, HoldIds, q[m])
      BY <1>1, <1>3 DEF TakeFromHolds
    <2>2. Total(after, HoldIds) = AtLeast(0, Total(LeftOn(hold, m, {p}), HoldIds) - q[m])
      BY <2>1 DEF TakenInOrder
    <2>3. \A h \in HoldIds : LeftOn(hold', m, {p})[h] = after[h]
      BY <1>2 DEF LeftOn
    <2>4. Total(LeftOn(hold', m, {p}), HoldIds) = Total(after, HoldIds)
      <3> DEFINE f == LeftOn(hold', m, {p})
      <3>1. \A h \in HoldIds : f[h] = after[h]
        BY <2>3
      <3> HIDE DEF f, after
      <3>2. Total(f, HoldIds) = Total(after, HoldIds)
        BY <3>1, TotalSame
      <3> QED BY <3>2 DEF f
    <2> QED
      BY <1>3, <2>2, <2>4 DEF Held
  <1>4. ASSUME m \notin DOMAIN q
        PROVE  Held(hold', m, {p}) = Held(hold, m, {p})
    <2> DEFINE f == LeftOn(hold', m, {p})
               g == LeftOn(hold, m, {p})
    <2>1. \A h \in HoldIds : f[h] = g[h]
      BY <1>2, <1>4 DEF LeftOn
    <2>2. Total(f, HoldIds) = Total(g, HoldIds)
      <3> HIDE DEF f, g
      <3> QED BY <2>1, TotalSame
    <2> QED
      BY <1>4, <2>2 DEF Held
  <1>5. Held(hold', m, Targets \ {p}) = Held(hold, m, Targets \ {p})
    <2> DEFINE f == LeftOn(hold', m, Targets \ {p})
               g == LeftOn(hold, m, Targets \ {p})
    <2>1. \A h \in HoldIds : f[h] = g[h]
      BY <1>2 DEF LeftOn
    <2>2. Total(f, HoldIds) = Total(g, HoldIds)
      <3> HIDE DEF f, g
      <3> QED BY <2>1, TotalSame
    <2> QED
      BY <2>2 DEF Held
  <1> QED
    BY <1>3, <1>4, <1>5

LEMMA AvailableType ==
    ASSUME NEW hd \in HoldTable, NEW st \in [Materials -> Int], NEW m \in Materials
    PROVE  Available(st, hd, m) \in Int /\ Available(st, hd, m) = st[m] - Held(hd, m, Targets)
  BY HeldType DEF Available

LEMMA HoldTables ==
    ASSUME HoldsOK, HoldsOK'
    PROVE  hold \in HoldTable /\ hold' \in HoldTable
  BY DEF HoldsOK, HoldTable

\* A hold is only made of what is free.
LEMMA InsertKeeps ==
    ASSUME TypeOK, TypeOK', NEW u \in RequestIds, NEW h \in HoldIds, NEW m \in Materials,
           NEW t \in Targets, NEW q \in Amounts, InsertHold(u, h, m, t, q), stock' = stock
    PROVE  FreeStockKept
  <1>1. hold \in HoldTable /\ hold' \in HoldTable
    BY HoldTables DEF TypeOK
  <1>2. q \in Nat
    BY SmallNumbers
  <1>3. /\ \A g \in HoldIds \ {h} : hold'[g] = hold[g]
        /\ hold'[h] = NewHold(m, t, q) /\ hold[h] = NoHold
    BY DEF InsertHold, NextHold, TypeOK, HoldsOK
  <1>4. ASSUME NEW n \in Materials
        PROVE  \/ Available(stock', hold', n) >= 0
               \/ Available(stock', hold', n) >= Available(stock, hold, n)
    <2>1. Held(hold', n, Targets)
            = Held(hold, n, Targets) - LeftOn(hold, n, Targets)[h] + LeftOn(hold', n, Targets)[h]
      BY <1>1, <1>3, HeldMoves
    <2>2. LeftOn(hold, n, Targets)[h] = 0
      BY <1>3 DEF LeftOn, NoHold, Left
    <2>3. LeftOn(hold', n, Targets)[h] = IF n = m THEN q ELSE 0
      BY <1>2, <1>3, Inserted DEF LeftOn
    <2>4. q <= Available(stock, hold, m)
      BY DEF InsertHold
    <2>5. /\ Held(hold, n, Targets) \in Nat /\ stock[n] \in Int
          /\ Available(stock, hold, n) = stock[n] - Held(hold, n, Targets)
          /\ Available(stock', hold', n) = stock[n] - Held(hold', n, Targets)
      BY <1>1, HeldType DEF Available, TypeOK
    <2> QED
      BY <1>2, <2>1, <2>2, <2>3, <2>4, <2>5
  <1> QED
    BY <1>4 DEF FreeStockKept

\* A release, an issue and an archived hold take nothing from anybody else.
LEMMA ChangeKeeps ==
    ASSUME TypeOK, TypeOK', NEW h \in HoldIds, NEW out \in Nat,
           \A g \in HoldIds \ {h} : hold'[g] = hold[g],
           hold'[h].material = hold[h].material, hold'[h].target = hold[h].target,
           Left(hold'[h]) <= Left(hold[h]) - out,
           \A m \in Materials :
              stock'[m] = IF m = hold[h].material THEN stock[m] - out ELSE stock[m]
    PROVE  FreeStockKept
  <1>1. hold \in HoldTable /\ hold' \in HoldTable
    BY HoldTables DEF TypeOK
  <1>2. ASSUME NEW n \in Materials
        PROVE  Available(stock', hold', n) >= Available(stock, hold, n)
    <2>1. Held(hold', n, Targets)
            = Held(hold, n, Targets) - LeftOn(hold, n, Targets)[h] + LeftOn(hold', n, Targets)[h]
      BY <1>1, HeldMoves
    <2>2. hold[h].target \in Targets /\ Left(hold[h]) \in Int /\ Left(hold'[h]) \in Int
      BY <1>1 DEF HoldTable, HoldRow, Left
    <2>3. /\ LeftOn(hold, n, Targets)[h] = IF hold[h].material = n THEN Left(hold[h]) ELSE 0
          /\ LeftOn(hold', n, Targets)[h] = IF hold[h].material = n THEN Left(hold'[h]) ELSE 0
      BY <2>2 DEF LeftOn
    <2>4. /\ Held(hold, n, Targets) \in Nat /\ stock[n] \in Int
          /\ Available(stock, hold, n) = stock[n] - Held(hold, n, Targets)
          /\ Available(stock', hold', n) = stock'[n] - Held(hold', n, Targets)
      BY <1>1, HeldType DEF Available, TypeOK
    <2>5. CASE hold[h].material = n
      BY <2>1, <2>2, <2>3, <2>4, <2>5
    <2>6. CASE hold[h].material # n
      BY <2>1, <2>2, <2>3, <2>4, <2>6
    <2> QED
      BY <2>5, <2>6
  <1> QED
    BY <1>2 DEF FreeStockKept

\* A document for nobody takes only what is free; goods that arrive free some.
LEMMA DocumentKeeps ==
    ASSUME TypeOK, TypeOK', NEW q \in Documents, Receive(q) \/ WriteOff(q)
    PROVE  FreeStockKept
  <1>1. hold \in HoldTable /\ hold' = hold
    BY HoldTables DEF TypeOK, Receive, WriteOff
  <1>2. ASSUME NEW m \in Materials
        PROVE  \/ Available(stock', hold', m) >= 0
               \/ Available(stock', hold', m) >= Available(stock, hold, m)
    <2>1. /\ Held(hold, m, Targets) \in Nat /\ stock[m] \in Int
          /\ Available(stock, hold, m) = stock[m] - Held(hold, m, Targets)
          /\ Available(stock', hold', m) = stock'[m] - Held(hold, m, Targets)
      BY <1>1, HeldType DEF Available, TypeOK
    <2>2. m \in DOMAIN q => q[m] \in Nat
      BY SmallNumbers
    <2>3. CASE Receive(q)
      <3>1. stock'[m] = IF m \in DOMAIN q THEN stock[m] + q[m] ELSE stock[m]
        BY <2>1, <2>2, <2>3 DEF Receive, Added
      <3> QED
        BY <2>1, <2>2, <3>1
    <2>4. CASE WriteOff(q)
      <3>1. stock'[m] = IF m \in DOMAIN q THEN stock[m] - q[m] ELSE stock[m]
        BY <2>1, <2>2, <2>4 DEF WriteOff, Added
      <3>2. Held(hold, m, {}) = 0
        <4>1. \A h \in HoldIds : LeftOn(hold, m, {})[h] = 0
          BY DEF LeftOn
        <4> QED
          BY <4>1, TotalZero DEF Held
      <3>3. m \in DOMAIN q => q[m] <= Available(stock, hold, m)
        BY <2>1, <2>4, <3>2 DEF WriteOff, EnoughFor
      <3> QED
        BY <2>1, <2>2, <3>1, <3>3
    <2> QED
      BY <2>3, <2>4
  <1> QED
    BY <1>2 DEF FreeStockKept

\* Goods for a house come from its own holds first, and past them only from what is
\* free: no other recipient's promise is touched.
LEMMA HouseIssueKeeps ==
    ASSUME TypeOK, TypeOK', NEW p \in Houses, NEW q \in Documents, EnoughFor(q, {p}),
           stock' = Added(stock, q, -1), ConsumeHolds(p, q)
    PROVE  FreeStockKept
  <1>1. hold \in HoldTable /\ hold' \in HoldTable
    BY HoldTables DEF TypeOK
  <1>2. ASSUME NEW m \in Materials
        PROVE  \/ Available(stock', hold', m) >= 0
               \/ Available(stock', hold', m) >= Available(stock, hold, m)
    <2> DEFINE own == Held(hold, m, {p})
               ownAfter == Held(hold', m, {p})
               others == Held(hold, m, Targets \ {p})
               othersAfter == Held(hold', m, Targets \ {p})
    <2>1. /\ Held(hold, m, Targets) = own + others
          /\ Held(hold', m, Targets) = ownAfter + othersAfter
      BY <1>1, HeldSplit DEF Targets
    <2>2. /\ ownAfter = IF m \in DOMAIN q THEN AtLeast(0, own - q[m]) ELSE own
          /\ othersAfter = others
      BY <1>1, ConsumeHeld
    <2>3. own \in Nat /\ others \in Nat /\ stock[m] \in Int
      BY <1>1, HeldType DEF TypeOK
    <2>4. /\ Available(stock, hold, m) = stock[m] - Held(hold, m, Targets)
          /\ Available(stock', hold', m) = stock'[m] - Held(hold', m, Targets)
      BY DEF Available
    <2>5. m \in DOMAIN q => q[m] \in Nat
      BY SmallNumbers
    <2>6. stock'[m] = IF m \in DOMAIN q THEN stock[m] - q[m] ELSE stock[m]
      BY <2>3, <2>5 DEF Added
    <2>7. m \in DOMAIN q => q[m] <= Available(stock, hold, m) + own
      BY DEF EnoughFor
    <2> HIDE DEF own, ownAfter, others, othersAfter
    <2>8. CASE m \in DOMAIN q
      BY <2>1, <2>2, <2>3, <2>4, <2>5, <2>6, <2>7, <2>8 DEF AtLeast
    <2>9. CASE m \notin DOMAIN q
      BY <2>1, <2>2, <2>3, <2>4, <2>6, <2>9
    <2> QED
      BY <2>8, <2>9
  <1> QED
    BY <1>2 DEF FreeStockKept

LEMMA ReleaseRow ==
    ASSUME TypeOK, NEW u \in RequestIds, NEW h \in HoldIds, NEW seen \in 1 .. MaxVersion,
           NEW q \in Amounts, Release(u, h, seen, q)
    PROVE  /\ q \in Nat /\ \A g \in HoldIds \ {h} : hold'[g] = hold[g]
           /\ hold'[h].material = hold[h].material /\ hold'[h].target = hold[h].target
           /\ Left(hold'[h]) = Left(hold[h]) - q
           /\ hold'[h].version = hold[h].version + 1 /\ hold'[h].quantity = hold[h].quantity
           /\ hold'[h].released = hold[h].released + q /\ hold'[h].consumed = hold[h].consumed
  <1> DEFINE row == NextVersion([hold[h] EXCEPT !.released = @ + q])
  <1>1. q \in Nat /\ hold[h] \in HoldRow /\ q <= Left(hold[h])
    BY SmallNumbers DEF Release, MayChange, TypeOK, HoldsOK
  <1>2. hold \in [HoldIds -> HoldRow] /\ hold' = [hold EXCEPT ![h] = row]
    BY DEF TypeOK, HoldsOK, Release
  <1>3. /\ row.material = hold[h].material /\ row.target = hold[h].target
        /\ Left(row) = Left(hold[h]) - q
        /\ row.version = hold[h].version + 1 /\ row.quantity = hold[h].quantity
        /\ row.released = hold[h].released + q /\ row.consumed = hold[h].consumed
    BY <1>1, Released
  <1> HIDE DEF row
  <1> QED BY <1>1, <1>2, <1>3

LEMMA IssueRow ==
    ASSUME TypeOK, NEW u \in RequestIds, NEW h \in HoldIds, NEW seen \in 1 .. MaxVersion,
           NEW q \in Amounts, Issue(u, h, seen, q)
    PROVE  /\ q \in Nat /\ \A g \in HoldIds \ {h} : hold'[g] = hold[g]
           /\ hold'[h].material = hold[h].material /\ hold'[h].target = hold[h].target
           /\ Left(hold'[h]) = Left(hold[h]) - q
           /\ hold'[h].version = hold[h].version + 1 /\ hold'[h].quantity = hold[h].quantity
           /\ hold'[h].consumed = hold[h].consumed + q /\ hold'[h].released = hold[h].released
  <1> DEFINE row == NextVersion([hold[h] EXCEPT !.consumed = @ + q])
  <1>1. q \in Nat /\ hold[h] \in HoldRow /\ q <= Left(hold[h])
    BY SmallNumbers DEF Issue, MayChange, TypeOK, HoldsOK
  <1>2. hold \in [HoldIds -> HoldRow] /\ hold' = [hold EXCEPT ![h] = row]
    BY DEF TypeOK, HoldsOK, Issue
  <1>3. /\ row.material = hold[h].material /\ row.target = hold[h].target
        /\ Left(row) = Left(hold[h]) - q
        /\ row.version = hold[h].version + 1 /\ row.quantity = hold[h].quantity
        /\ row.consumed = hold[h].consumed + q /\ row.released = hold[h].released
    BY <1>1, Consumed
  <1> HIDE DEF row
  <1> QED BY <1>1, <1>2, <1>3

LEMMA ArchiveRow ==
    ASSUME TypeOK, NEW h \in HoldIds, NEW seen \in 1 .. MaxVersion, NEW flag \in BOOLEAN,
           Archive(h, seen, flag)
    PROVE  /\ \A g \in HoldIds \ {h} : hold'[g] = hold[g]
           /\ hold'[h].material = hold[h].material /\ hold'[h].target = hold[h].target
           /\ Left(hold'[h]) = Left(hold[h])
           /\ hold'[h].version = hold[h].version + 1 /\ hold'[h].quantity = hold[h].quantity
           /\ hold'[h].released = hold[h].released /\ hold'[h].consumed = hold[h].consumed
  <1> DEFINE row == NextVersion([hold[h] EXCEPT !.archived = flag])
  <1>1. hold[h] \in HoldRow /\ hold \in [HoldIds -> HoldRow]
    BY DEF TypeOK, HoldsOK
  <1>2. hold' = [hold EXCEPT ![h] = row]
    BY DEF Archive
  <1>3. /\ row.material = hold[h].material /\ row.target = hold[h].target
        /\ Left(row) = Left(hold[h])
        /\ row.version = hold[h].version + 1 /\ row.quantity = hold[h].quantity
        /\ row.released = hold[h].released /\ row.consumed = hold[h].consumed
    BY <1>1, Archived
  <1> HIDE DEF row
  <1> QED BY <1>1, <1>2, <1>3

LEMMA StepKeeps ==
    ASSUME TypeOK, TypeOK', [Next]_vars
    PROVE  FreeStockKept
  <1>1. ASSUME NEW u \in RequestIds, NEW h \in HoldIds, NEW m \in Materials,
               NEW q \in Amounts,
               \/ ReserveForPurpose(u, h, m, q)
               \/ \E p \in Houses : ReserveForHouse(u, h, m, p, q)
        PROVE  FreeStockKept
    BY <1>1, InsertKeeps DEF ReserveForPurpose, ReserveForHouse, Targets
  <1>2. ASSUME NEW u \in RequestIds, NEW h \in HoldIds, NEW seen \in 1 .. MaxVersion,
               NEW q \in Amounts, Release(u, h, seen, q)
        PROVE  FreeStockKept
    <2>1. Left(hold[h]) \in Int /\ Left(hold'[h]) \in Int
      BY DEF TypeOK, HoldsOK, HoldRow, Left
    <2>2. q \in Nat /\ Left(hold'[h]) <= Left(hold[h]) - 0
      BY <1>2, <2>1, ReleaseRow
    <2>3. \A m \in Materials :
             stock'[m] = IF m = hold[h].material THEN stock[m] - 0 ELSE stock[m]
      BY <1>2 DEF Release, TypeOK
    <2> QED
      BY <1>2, <2>2, <2>3, ReleaseRow, ChangeKeeps
  <1>3. ASSUME NEW u \in RequestIds, NEW h \in HoldIds, NEW seen \in 1 .. MaxVersion,
               NEW q \in Amounts, Issue(u, h, seen, q)
        PROVE  FreeStockKept
    <2>1. Left(hold[h]) \in Int /\ q \in Nat
      BY SmallNumbers DEF TypeOK, HoldsOK, HoldRow, Left
    <2>2. Left(hold'[h]) <= Left(hold[h]) - q
      BY <1>3, <2>1, IssueRow
    <2>3. \A m \in Materials :
             stock'[m] = IF m = hold[h].material THEN stock[m] - q ELSE stock[m]
      BY <1>3 DEF Issue, TypeOK
    <2> QED
      BY <1>3, <2>1, <2>2, <2>3, IssueRow, ChangeKeeps
  <1>4. ASSUME NEW h \in HoldIds, NEW seen \in 1 .. MaxVersion, NEW flag \in BOOLEAN,
               Archive(h, seen, flag)
        PROVE  FreeStockKept
    <2>1. Left(hold[h]) \in Int /\ Left(hold'[h]) \in Int
      BY DEF TypeOK, HoldsOK, HoldRow, Left
    <2>2. Left(hold'[h]) <= Left(hold[h]) - 0
      BY <1>4, <2>1, ArchiveRow
    <2>3. \A m \in Materials :
             stock'[m] = IF m = hold[h].material THEN stock[m] - 0 ELSE stock[m]
      BY <1>4 DEF Archive, TypeOK
    <2> QED
      BY <1>4, <2>2, <2>3, ArchiveRow, ChangeKeeps
  <1>5. ASSUME NEW q \in Documents, NEW p \in Houses, IssueByTechcard(p, q)
        PROVE  FreeStockKept
    BY <1>5, HouseIssueKeeps DEF IssueByTechcard
  <1>6. ASSUME NEW r \in MaterialRequests, NEW s \in MaterialRequests, NEW q \in Amounts,
               ApproveRequest(r, s, q)
        PROVE  FreeStockKept
    <2> DEFINE b == request[r].block
               issue == [x \in {MaterialOf[b]} |-> q]
    <2>1. issue \in Documents /\ HouseOf[b] \in Houses
      BY <1>6, ApprovedDocument
    <2>2. /\ EnoughFor(issue, {HouseOf[b]}) /\ stock' = Added(stock, issue, -1)
          /\ ConsumeHolds(HouseOf[b], issue)
      BY <1>6 DEF ApproveRequest
    <2> HIDE DEF issue, b
    <2> QED
      BY <2>1, <2>2, HouseIssueKeeps
  <1>7. ASSUME UNCHANGED <<stock, hold>>
        PROVE  FreeStockKept
    <2>1. hold \in HoldTable
      BY HoldTables DEF TypeOK
    <2>2. \A m \in Materials : Available(stock, hold, m) \in Int
      BY <2>1, AvailableType DEF TypeOK
    <2>3. \A m \in Materials : Available(stock', hold', m) = Available(stock, hold, m)
      BY <1>7
    <2> QED
      BY <2>2, <2>3 DEF FreeStockKept
  <1>8. ASSUME \/ \E r \in MaterialRequests, b \in BlockMaterials, q \in Amounts :
                     RequestMaterial(r, b, q)
               \/ \E r \in MaterialRequests : RejectRequest(r)
               \/ \E b \in BlockMaterials, q \in 0 .. MaxNorm : UpdateRequired(b, q)
               \/ \E d \in unsynced : LooksAgain(d) \/ SyncsLate(d) \/ SyncNeverComes(d)
               \/ \E m \in Materials : SubmitsShortageTask(m)
               \/ UNCHANGED vars
        PROVE  FreeStockKept
    BY <1>7, <1>8, LateLeaves
    DEF RequestMaterial, RejectRequest, UpdateRequired, SubmitsShortageTask, vars
  <1>9. CASE HoldStep
    BY <1>1, <1>2, <1>3, <1>4, <1>9 DEF HoldStep
  <1>10. CASE DocumentStep
    BY <1>5, <1>10, DocumentKeeps DEF DocumentStep
  <1>11. CASE HouseStep
    BY <1>6, <1>8, <1>11 DEF HouseStep
  <1> QED
    BY <1>8, <1>9, <1>10, <1>11 DEF Next

\* Whatever handler runs, it promises or hands out only what is really free: no
\* material's free balance goes below zero, or further below where an import left it.
THEOREM FreeStockIsGuarded == Spec => FreeStockGuarded
  <1>1. IInv /\ IInv' /\ [Next]_vars => [FreeStockKept]_vars
    BY StepKeeps DEF IInv
  <1>2. Spec => []IInv
    BY InitInv, StepInv, PTL DEF Spec
  <1> QED
    BY <1>1, <1>2, PTL DEF Spec, FreeStockGuarded

LEMMA StepMovesVersions ==
    ASSUME TypeOK, [Next]_vars
    PROVE  VersionsMove
  <1>1. ASSUME NEW u \in RequestIds, NEW h \in HoldIds, NEW m, NEW t, NEW q,
               InsertHold(u, h, m, t, q)
        PROVE  VersionsMove
    BY <1>1 DEF InsertHold, NextHold, NewHold, VersionsMove, TypeOK, HoldsOK
  <1>2. ASSUME NEW h \in HoldIds, \A g \in HoldIds \ {h} : hold'[g] = hold[g],
               hold'[h].version = hold[h].version + 1
        PROVE  VersionsMove
    BY <1>2 DEF VersionsMove
  <1>3. ASSUME NEW p \in Houses, NEW q \in Documents, ConsumeHolds(p, q)
        PROVE  VersionsMove
    BY <1>3, ConsumeRows DEF ConsumeHolds, VersionsMove
  <1>4. CASE HoldStep
    BY ZenonT(30), <1>1, <1>2, <1>4, ReleaseRow, IssueRow, ArchiveRow DEF HoldStep, ReserveForPurpose, ReserveForHouse
  <1>5. CASE DocumentStep
    BY <1>3, <1>5 DEF DocumentStep, Receive, WriteOff, IssueByTechcard, VersionsMove
  <1>6. ASSUME NEW r \in MaterialRequests, NEW s \in MaterialRequests, NEW q \in Amounts,
               ApproveRequest(r, s, q)
        PROVE  VersionsMove
    <2> DEFINE b == request[r].block
               issue == [x \in {MaterialOf[b]} |-> q]
    <2>1. issue \in Documents /\ HouseOf[b] \in Houses
      BY <1>6, ApprovedDocument
    <2>2. ConsumeHolds(HouseOf[b], issue)
      BY <1>6 DEF ApproveRequest
    <2> HIDE DEF issue, b
    <2> QED
      BY <1>3, <2>1, <2>2
  <1>7. CASE HouseStep
    BY <1>6, <1>7, LateLeaves
    DEF HouseStep, RequestMaterial, RejectRequest, UpdateRequired, SubmitsShortageTask, VersionsMove
  <1>8. CASE UNCHANGED vars
    BY <1>8 DEF vars, VersionsMove
  <1> QED
    BY <1>4, <1>5, <1>7, <1>8 DEF Next

\* No handler changes a hold under the version a client may have seen, and none takes
\* a row out of the table.
THEOREM VersionsAreIdentities == Spec => VersionsIdentifyRows
  <1>1. IInv /\ [Next]_vars => [VersionsMove]_vars
    BY StepMovesVersions DEF IInv
  <1>2. Spec => []IInv
    BY InitInv, StepInv, PTL DEF Spec
  <1> QED
    BY <1>1, <1>2, PTL DEF Spec, VersionsIdentifyRows

------------------------------------------------------------------------------
(* The journal of client requests.                                           *)

\* Request u is answered by an event of its own.
Answers(u, k, h, q) ==
    /\ event[u] = NoEvent
    /\ event' = [event EXCEPT ![u] = [kind |-> k, hold |-> h, quantity |-> q]]

\* The journal of a hold moves by the one request that is answered.
LEMMA EventsMove ==
    ASSUME event \in [RequestIds -> EventRow], NEW u \in RequestIds,
           NEW k, NEW h, NEW q \in Nat, Answers(u, k, h, q),
           NEW g, NEW j, j # "none"
    PROVE  /\ EventsOn(g, j) \in Nat
           /\ EventsOn(g, j)' = EventsOn(g, j) + (IF g = h /\ j = k THEN q ELSE 0)
  <1> DEFINE f == [v \in RequestIds |->
                     IF event[v].hold = g /\ event[v].kind = j THEN event[v].quantity ELSE 0]
             n == [v \in RequestIds |->
                     IF event'[v].hold = g /\ event'[v].kind = j THEN event'[v].quantity ELSE 0]
  <1> USE DEF Answers
  <1>1. EventsOn(g, j) = Total(f, RequestIds) /\ EventsOn(g, j)' = Total(n, RequestIds)
    BY DEF EventsOn
  <1>2. \A v \in RequestIds : f[v] \in Nat
    BY DEF EventRow
  <1>3. f[u] = 0 /\ n[u] = IF g = h /\ j = k THEN q ELSE 0
    BY DEF NoEvent
  <1>4. \A v \in RequestIds \ {u} : n[v] = f[v]
    OBVIOUS
  <1>5. \A v \in RequestIds : n[v] \in Nat
    BY <1>2, <1>3, <1>4
  <1>6. IsFiniteSet(RequestIds)
    BY TablesAssumption
  <1> HIDE DEF f, n
  <1>7. Total(n, RequestIds) = Total(f, RequestIds) - f[u] + n[u]
    BY <1>2, <1>4, <1>5, <1>6, TotalUpdate
  <1>8. Total(f, RequestIds) \in Nat
    BY <1>2, <1>6, TotalType
  <1> QED
    BY <1>1, <1>3, <1>7, <1>8

\* A handler that answers no request with an identifier moves no column of the journal.
LEMMA JournalKept ==
    ASSUME JournalAgrees, event' = event,
           \A h \in HoldIds :
              /\ hold'[h].quantity = hold[h].quantity
              /\ hold'[h].released = hold[h].released
              /\ hold'[h].target = hold[h].target
              /\ hold[h].target = Null => hold'[h].consumed = hold[h].consumed
    PROVE  JournalAgrees'
  <1>1. \A g, j : EventsOn(g, j)' = EventsOn(g, j)
    BY DEF EventsOn
  <1> QED
    BY <1>1 DEF JournalAgrees

\* A handler that answers request u moves one column of one hold, by the quantity asked.
LEMMA JournalMoves ==
    ASSUME TypeOK, JournalAgrees, NEW u \in RequestIds, NEW h \in HoldIds, NEW q \in Nat,
           NEW k \in {"created", "released", "issued"}, Answers(u, k, h, q),
           \A g \in HoldIds \ {h} : hold'[g] = hold[g],
           hold'[h].quantity = hold[h].quantity + (IF k = "created" THEN q ELSE 0),
           hold'[h].released = hold[h].released + (IF k = "released" THEN q ELSE 0),
           hold'[h].consumed = hold[h].consumed + (IF k = "issued" THEN q ELSE 0),
           hold[h].target = Null \/ (hold'[h].target # Null /\ k # "issued")
    PROVE  JournalAgrees'
  <1>1. event \in [RequestIds -> EventRow] /\ hold \in [HoldIds -> HoldRow]
    BY DEF TypeOK, HoldsOK
  <1>2. ASSUME NEW g \in HoldIds
        PROVE  /\ hold'[g].quantity = EventsOn(g, "created")'
               /\ hold'[g].released = EventsOn(g, "released")'
               /\ hold'[g].target = Null => hold'[g].consumed = EventsOn(g, "issued")'
    <2>1. /\ EventsOn(g, "created") \in Nat
          /\ EventsOn(g, "created")'
               = EventsOn(g, "created") + (IF g = h /\ "created" = k THEN q ELSE 0)
      BY <1>1, EventsMove
    <2>2. /\ EventsOn(g, "released") \in Nat
          /\ EventsOn(g, "released")'
               = EventsOn(g, "released") + (IF g = h /\ "released" = k THEN q ELSE 0)
      BY <1>1, EventsMove
    <2>3. /\ EventsOn(g, "issued") \in Nat
          /\ EventsOn(g, "issued")'
               = EventsOn(g, "issued") + (IF g = h /\ "issued" = k THEN q ELSE 0)
      BY <1>1, EventsMove
    <2>4. CASE g = h
      BY <2>1, <2>2, <2>3, <2>4 DEF JournalAgrees
    <2>5. CASE g # h
      BY <2>1, <2>2, <2>3, <2>5 DEF JournalAgrees
    <2> QED
      BY <2>4, <2>5
  <1> QED
    BY <1>2 DEF JournalAgrees

LEMMA InsertJournal ==
    ASSUME TypeOK, JournalAgrees, NEW u \in RequestIds, NEW h \in HoldIds,
           NEW m \in Materials, NEW t \in Targets, NEW q \in Amounts, InsertHold(u, h, m, t, q)
    PROVE  JournalAgrees'
  <1>1. q \in Nat /\ hold \in [HoldIds -> HoldRow]
    BY SmallNumbers DEF TypeOK, HoldsOK
  <1>2. /\ Answers(u, "created", h, q)
        /\ hold[h] = NoHold /\ hold' = [hold EXCEPT ![h] = NewHold(m, t, q)]
    BY DEF InsertHold, NextHold, TypeOK, HoldsOK, Answers
  <1>3. \A g \in HoldIds \ {h} : hold'[g] = hold[g]
    BY <1>1, <1>2
  <1>4. /\ hold'[h].quantity = hold[h].quantity + q /\ hold'[h].released = hold[h].released + 0
        /\ hold'[h].consumed = hold[h].consumed + 0 /\ hold[h].target = Null
    BY <1>1, <1>2 DEF NewHold, NoHold
  <1> QED
    BY <1>1, <1>2, <1>3, <1>4, JournalMoves

LEMMA ChangeJournal ==
    ASSUME TypeOK, JournalAgrees, NEW u \in RequestIds, NEW h \in HoldIds,
           NEW seen \in 1 .. MaxVersion, NEW q \in Amounts,
           Release(u, h, seen, q) \/ Issue(u, h, seen, q)
    PROVE  JournalAgrees'
  <1>1. /\ hold[h].quantity \in Nat /\ hold[h].released \in Nat /\ hold[h].consumed \in Nat
        /\ q \in Nat
    BY SmallNumbers DEF TypeOK, HoldsOK, HoldRow
  <1>2. CASE Release(u, h, seen, q)
    <2>1. Answers(u, "released", h, q)
      BY <1>2 DEF Release, MayChange, Answers
    <2>2. /\ \A g \in HoldIds \ {h} : hold'[g] = hold[g]
          /\ hold'[h].quantity = hold[h].quantity + 0 /\ hold'[h].target = hold[h].target
          /\ hold'[h].released = hold[h].released + q
          /\ hold'[h].consumed = hold[h].consumed + 0
      BY <1>1, <1>2, ReleaseRow
    <2> QED
      BY <1>1, <2>1, <2>2, JournalMoves
  <1>3. CASE Issue(u, h, seen, q)
    <2>1. Answers(u, "issued", h, q) /\ hold[h].target = Null
      BY <1>3 DEF Issue, MayChange, Answers
    <2>2. /\ \A g \in HoldIds \ {h} : hold'[g] = hold[g]
          /\ hold'[h].quantity = hold[h].quantity + 0
          /\ hold'[h].released = hold[h].released + 0
          /\ hold'[h].consumed = hold[h].consumed + q
      BY <1>1, <1>3, IssueRow
    <2> QED
      BY <1>1, <2>1, <2>2, JournalMoves
  <1> QED
    BY <1>2, <1>3

\* A house is served by holds of its own, which are never without a target.
LEMMA ConsumeJournal ==
    ASSUME TypeOK, JournalAgrees, NEW p \in Houses, NEW q \in Documents,
           ConsumeHolds(p, q), event' = event
    PROVE  JournalAgrees'
  <1>1. PICK left \in [HoldIds -> 0 .. MaxQuantity] : TakeFromHolds(p, q, left)
    BY DEF ConsumeHolds
  <1>2. ASSUME NEW h \in HoldIds
        PROVE  /\ hold'[h].quantity = hold[h].quantity
               /\ hold'[h].released = hold[h].released
               /\ hold'[h].target = hold[h].target
               /\ hold[h].target = Null => hold'[h].consumed = hold[h].consumed
    BY <1>1, ConsumeRows, TablesAssumption
  <1> QED
    BY <1>2, JournalKept

LEMMA InitJournal == Init => JournalAgrees
  <1> SUFFICES ASSUME Init PROVE JournalAgrees
    OBVIOUS
  <1>1. ASSUME NEW h, NEW j, j # "none" PROVE EventsOn(h, j) = 0
    <2> DEFINE f == [u \in RequestIds |->
                       IF event[u].hold = h /\ event[u].kind = j THEN event[u].quantity ELSE 0]
    <2>1. \A u \in RequestIds : f[u] = 0
      BY DEF Init, NoEvent
    <2> HIDE DEF f
    <2>2. Total(f, RequestIds) = 0
      BY <2>1, TotalZero
    <2> QED
      BY <2>2 DEF f, EventsOn
  <1>2. \A h \in HoldIds : hold[h].quantity = 0 /\ hold[h].released = 0 /\ hold[h].consumed = 0
    BY DEF Init, NoHold
  <1> QED
    BY <1>1, <1>2 DEF JournalAgrees

LEMMA StepJournal ==
    ASSUME TypeOK, JournalAgrees, [Next]_vars
    PROVE  JournalAgrees'
  <1>1. ASSUME NEW u \in RequestIds, NEW h \in HoldIds, NEW m \in Materials,
               NEW q \in Amounts,
               \/ ReserveForPurpose(u, h, m, q)
               \/ \E p \in Houses : ReserveForHouse(u, h, m, p, q)
        PROVE  JournalAgrees'
    BY <1>1, InsertJournal DEF ReserveForPurpose, ReserveForHouse, Targets
  <1>2. ASSUME NEW h \in HoldIds, NEW seen \in 1 .. MaxVersion, NEW flag \in BOOLEAN,
               Archive(h, seen, flag)
        PROVE  JournalAgrees'
    BY <1>2, ArchiveRow, JournalKept DEF Archive
  <1>3. CASE HoldStep
    BY <1>1, <1>2, <1>3, ChangeJournal DEF HoldStep
  <1>4. CASE UNCHANGED <<hold, event>>
    BY <1>4, JournalKept
  <1>5. CASE DocumentStep
    BY <1>4, <1>5, ConsumeJournal DEF DocumentStep, Receive, WriteOff, IssueByTechcard
  <1>6. ASSUME NEW r \in MaterialRequests, NEW s \in MaterialRequests, NEW q \in Amounts,
               ApproveRequest(r, s, q)
        PROVE  JournalAgrees'
    <2> DEFINE issue == [x \in {MaterialOf[request[r].block]} |-> q]
    <2>1. issue \in Documents /\ HouseOf[request[r].block] \in Houses
      BY <1>6, ApprovedDocument
    <2>2. ConsumeHolds(HouseOf[request[r].block], issue) /\ event' = event
      BY <1>6 DEF ApproveRequest
    <2> HIDE DEF issue
    <2> QED
      BY <2>1, <2>2, ConsumeJournal
  <1>7. CASE HouseStep
    BY <1>4, <1>6, <1>7, LateLeaves
    DEF HouseStep, RequestMaterial, RejectRequest, UpdateRequired, SubmitsShortageTask
  <1> QED
    BY <1>3, <1>4, <1>5, <1>7 DEF Next, vars

\* A hold's whole story is on record: every change of a row has a version of its own,
\* and at every moment the events under the clients' identifiers account for what was
\* kept, given back and issued, so no request was carried out twice.
THEOREM HoldsAreOnRecord == Spec => HoldsAreRecorded
  <1> DEFINE JInv == IInv /\ JournalAgrees
  <1>1. Init => JInv
    BY InitInv, InitJournal
  <1>2. JInv /\ [Next]_vars => JInv'
    BY StepInv, StepJournal DEF IInv
  <1>3. JInv /\ [Next]_vars => [VersionsMove /\ JournalAgrees']_vars
    BY StepMovesVersions, StepJournal DEF IInv
  <1> QED
    BY <1>1, <1>2, <1>3, PTL DEF Spec, HoldsAreRecorded

------------------------------------------------------------------------------
(* The shortages.                                                            *)

LEMMA PendingOfType ==
    ASSUME RequestsOK, NEW m, NEW p
    PROVE  PendingOf(request, m, p) \in Nat
  <1> DEFINE f == [r \in MaterialRequests |->
                     IF /\ request[r].status = "pending"
                        /\ MaterialOf[request[r].block] = m /\ HouseOf[request[r].block] = p
                     THEN request[r].quantity ELSE 0]
  <1>1. \A r \in MaterialRequests : f[r] \in Nat
    BY DEF RequestsOK, RequestRow
  <1>2. PendingOf(request, m, p) = Total(f, MaterialRequests)
    BY DEF PendingOf
  <1> HIDE DEF f
  <1> QED
    BY <1>1, <1>2, SmallNumbers, TotalType

\* A hold that gives goods back asks for no more of them: the request it covered asks
\* for what the hold no longer keeps, and not for more.
LEMMA ShrunkDemand ==
    ASSUME RequestsOK, NEW old \in HoldTable, NEW new \in HoldTable, NEW h \in HoldIds,
           \A g \in HoldIds \ {h} : new[g] = old[g],
           new[h].material = old[h].material, new[h].target = old[h].target,
           Left(new[h]) <= Left(old[h]), NEW m \in Materials
    PROVE  /\ Demand(old, request, m) \in Int /\ Demand(new, request, m) \in Int
           /\ Demand(new, request, m) <= Demand(old, request, m)
  <1> DEFINE pend(p) == PendingOf(request, m, p)
             open(hd) == [p \in Houses |-> AtLeast(0, pend(p) - Held(hd, m, {p}))]
             f == open(old)
             n == open(new)
             t == old[h].target
             d == Left(old[h]) - Left(new[h])
  <1>1. /\ d \in Nat /\ t \in Targets
        /\ \A T : /\ LeftOn(old, m, T)[h] - LeftOn(new, m, T)[h]
                       = (IF old[h].material = m /\ t \in T THEN d ELSE 0)
                  /\ LeftOn(old, m, T)[h] \in Nat /\ LeftOn(new, m, T)[h] \in Nat
    <2>1. Left(old[h]) \in Nat /\ Left(new[h]) \in Nat /\ t \in Targets
      BY DEF HoldTable, HoldRow, Left
    <2> QED
      BY <2>1 DEF LeftOn
  <1>2. ASSUME NEW T
        PROVE  /\ Held(old, m, T) \in Nat /\ Held(new, m, T) \in Nat
               /\ Held(new, m, T)
                    = Held(old, m, T) - (IF old[h].material = m /\ t \in T THEN d ELSE 0)
    <2>1. Held(new, m, T) = Held(old, m, T) - LeftOn(old, m, T)[h] + LeftOn(new, m, T)[h]
      BY HeldMoves
    <2>2. Held(old, m, T) \in Nat /\ Held(new, m, T) \in Nat
      BY HeldType
    <2> HIDE DEF d, t
    <2> QED
      BY <1>1, <2>1, <2>2
  <1>3. \A p \in Houses : pend(p) \in Nat
    BY PendingOfType
  <1>4. \A p \in Houses : f[p] \in Nat /\ n[p] \in Nat
    BY <1>2, <1>3 DEF AtLeast
  <1>5. /\ Demand(old, request, m) = Held(old, m, Targets) + Total(f, Houses)
        /\ Demand(new, request, m) = Held(new, m, Targets) + Total(n, Houses)
    BY DEF Demand
  <1>6. IsFiniteSet(Houses)
    BY TablesAssumption
  <1>7. Total(f, Houses) \in Nat /\ Total(n, Houses) \in Nat
    <2> HIDE DEF f, n
    <2> QED BY <1>4, <1>6, TotalType
  <1>8. CASE old[h].material = m /\ t \in Houses
    <2>1. \A p \in Houses \ {t} : n[p] = f[p]
      BY <1>2
    <2>2. n[t] <= f[t] + d
      <3>1. Held(new, m, {t}) = Held(old, m, {t}) - d
        BY <1>2, <1>8
      <3> QED
        BY <1>1, <1>2, <1>3, <1>8, <3>1 DEF AtLeast
    <2>3. Total(n, Houses) = Total(f, Houses) - f[t] + n[t]
      <3> HIDE DEF f, n, t
      <3> QED BY <1>4, <1>6, <1>8, <2>1, TotalUpdate
    <2>4. Held(new, m, Targets) = Held(old, m, Targets) - d
      BY <1>1, <1>2, <1>8
    <2>5. f[t] \in Nat /\ n[t] \in Nat /\ Held(old, m, Targets) \in Nat
      BY <1>2, <1>4, <1>8
    <2> HIDE DEF f, n, t, d
    <2> QED
      BY <1>1, <1>5, <1>7, <2>2, <2>3, <2>4, <2>5
  <1>9. CASE ~(old[h].material = m /\ t \in Houses)
    <2>1. \A p \in Houses : n[p] = f[p]
      BY <1>2, <1>9
    <2>2. Total(n, Houses) = Total(f, Houses)
      <3> HIDE DEF f, n
      <3> QED BY <2>1, TotalSame
    <2>3. Held(new, m, Targets) <= Held(old, m, Targets)
      BY <1>1, <1>2
    <2>4. Held(new, m, Targets) \in Nat /\ Held(old, m, Targets) \in Nat
      BY <1>2
    <2> HIDE DEF f, n, t, d
    <2> QED
      BY <1>5, <1>7, <2>2, <2>3, <2>4
  <1> QED
    BY <1>8, <1>9

\* A handler that looks at every material it moves, with tables in which nothing that
\* is short looks well supplied, opens the tasks that are due and closes no other.
LEMMA SyncSees ==
    ASSUME NEW ms, NEW hd, SyncShortage(ms, stock', hd, request'),
           \A n \in Materials \ ms :
              stock'[n] = stock[n] /\ Held(hold', n, Targets) = Held(hold, n, Targets),
           \A n \in Materials \cap ms :
              NeedsSupply(stock', hold', request', n) => NeedsSupply(stock', hd, request', n)
    PROVE  ShortageSeen
  <1>1. ASSUME NEW n \in Materials, NeedsSupply(stock', hold', request', n),
               n \in ms \/ n \in shortage
        PROVE  n \in shortage'
    BY <1>1 DEF SyncShortage
  <1> QED
    BY <1>1 DEF ShortageSeen

LEMMA InsertSees ==
    ASSUME TypeOK, TypeOK', NEW u \in RequestIds, NEW h \in HoldIds, NEW m \in Materials,
           NEW t \in Targets, NEW q \in Amounts, InsertHold(u, h, m, t, q),
           UNCHANGED <<stock, request>>
    PROVE  ShortageSeen
  <1>1. hold \in HoldTable /\ hold' \in HoldTable
    BY HoldTables DEF TypeOK
  <1>2. /\ \A g \in HoldIds \ {h} : hold'[g] = hold[g]
        /\ hold'[h].material = m /\ hold[h] = NoHold
    BY DEF InsertHold, NextHold, NewHold, TypeOK, HoldsOK
  <1>3. ASSUME NEW n \in Materials, n # m
        PROVE  Held(hold', n, Targets) = Held(hold, n, Targets)
    <2>1. Held(hold', n, Targets)
            = Held(hold, n, Targets) - LeftOn(hold, n, Targets)[h] + LeftOn(hold', n, Targets)[h]
      BY <1>1, <1>2, HeldMoves
    <2>2. LeftOn(hold, n, Targets)[h] = 0 /\ LeftOn(hold', n, Targets)[h] = 0
      BY <1>2, <1>3 DEF LeftOn, NoHold, Left
    <2> QED
      BY <1>1, <2>1, <2>2, HeldType
  <1>4. SyncShortage({m}, stock', hold', request')
    BY DEF InsertHold
  <1> QED
    BY <1>3, <1>4, SyncSees

LEMMA ChangeSees ==
    ASSUME TypeOK, TypeOK', NEW h \in HoldIds,
           \A g \in HoldIds \ {h} : hold'[g] = hold[g],
           hold'[h].material = hold[h].material, hold'[h].target = hold[h].target,
           Left(hold'[h]) <= Left(hold[h]), request' = request,
           \A m \in Materials \ {hold[h].material} : stock'[m] = stock[m],
           SyncShortage({hold[h].material}, stock', hold, request)
    PROVE  ShortageSeen
  <1>1. hold \in HoldTable /\ hold' \in HoldTable
    BY HoldTables DEF TypeOK
  <1>2. ASSUME NEW n \in Materials, n # hold[h].material
        PROVE  Held(hold', n, Targets) = Held(hold, n, Targets)
    <2>1. Held(hold', n, Targets)
            = Held(hold, n, Targets) - LeftOn(hold, n, Targets)[h] + LeftOn(hold', n, Targets)[h]
      BY <1>1, HeldMoves
    <2>2. LeftOn(hold, n, Targets)[h] = 0 /\ LeftOn(hold', n, Targets)[h] = 0
      BY <1>2 DEF LeftOn
    <2> QED
      BY <1>1, <2>1, <2>2, HeldType
  <1>3. ASSUME NEW n \in Materials, NeedsSupply(stock', hold', request', n)
        PROVE  NeedsSupply(stock', hold, request', n)
    <2>1. /\ Demand(hold, request, n) \in Int /\ Demand(hold', request, n) \in Int
          /\ Demand(hold', request, n) <= Demand(hold, request, n)
      BY <1>1, ShrunkDemand DEF TypeOK
    <2>2. stock'[n] \in Int /\ Threshold[n] \in Int
      BY QuantitiesAssumption DEF TypeOK
    <2> QED
      BY <1>3, <2>1, <2>2 DEF NeedsSupply
  <1> QED
    BY <1>2, <1>3, SyncSees

\* What a house is given moves the materials it is given, and no others.
LEMMA GivenMoves ==
    ASSUME TypeOK, TypeOK', NEW p \in Houses, NEW q \in Documents,
           stock' = Added(stock, q, -1), ConsumeHolds(p, q),
           NEW n \in Materials, n \notin DOMAIN q
    PROVE  stock'[n] = stock[n] /\ Held(hold', n, Targets) = Held(hold, n, Targets)
  <1>1. hold \in HoldTable /\ hold' \in HoldTable
    BY HoldTables DEF TypeOK
  <1>2. /\ Held(hold, n, Targets) = Held(hold, n, {p}) + Held(hold, n, Targets \ {p})
        /\ Held(hold', n, Targets) = Held(hold', n, {p}) + Held(hold', n, Targets \ {p})
    BY <1>1, HeldSplit DEF Targets
  <1>3. /\ Held(hold', n, {p}) = Held(hold, n, {p})
        /\ Held(hold', n, Targets \ {p}) = Held(hold, n, Targets \ {p})
    BY <1>1, ConsumeHeld
  <1> QED
    BY <1>2, <1>3 DEF Added

LEMMA HouseIssueSees ==
    ASSUME TypeOK, TypeOK', NEW p \in Houses, NEW q \in Documents,
           stock' = Added(stock, q, -1), ConsumeHolds(p, q),
           SyncShortage(DOMAIN q, stock', hold', request')
    PROVE  ShortageSeen
  <1>1. ASSUME NEW n \in Materials, n \notin DOMAIN q
        PROVE  stock'[n] = stock[n] /\ Held(hold', n, Targets) = Held(hold, n, Targets)
    BY <1>1, GivenMoves
  <1> QED
    BY <1>1, SyncSees

\* A decision that announces itself leaves its material for later, and no other.
LEMMA AnnouncedSees ==
    ASSUME ShortagesOK, NEW s, NEW m, Announced(s, m),
           request[s].status \notin {"approved", "rejected"},
           \A n \in Materials \ {m} :
              stock'[n] = stock[n] /\ Held(hold', n, Targets) = Held(hold, n, Targets)
    PROVE  ShortageSeen
  <1> DEFINE d == [decision |-> s, material |-> m, step |-> "announced"]
  <1>1. unsynced' = unsynced \cup {d} /\ shortage' = shortage
    BY DEF Announced
  <1>2. d \notin unsynced /\ d.material = m /\ d.step = "announced"
    BY DEF ShortagesOK
  <1>3. LeftForLater(m)
    <2> HIDE DEF d
    <2> QED BY <1>1, <1>2 DEF LeftForLater
  <1> QED
    BY <1>1, <1>3 DEF ShortageSeen

LEMMA StepSees ==
    ASSUME TypeOK, TypeOK', [Next]_vars
    PROVE  ShortageSeen
  <1>1. ASSUME NEW u \in RequestIds, NEW h \in HoldIds, NEW m \in Materials,
               NEW q \in Amounts,
               \/ ReserveForPurpose(u, h, m, q)
               \/ \E p \in Houses : ReserveForHouse(u, h, m, p, q)
        PROVE  ShortageSeen
    BY <1>1, InsertSees DEF ReserveForPurpose, ReserveForHouse, Targets
  <1>2. ASSUME NEW u \in RequestIds, NEW h \in HoldIds, NEW seen \in 1 .. MaxVersion,
               NEW q \in Amounts, Release(u, h, seen, q) \/ Issue(u, h, seen, q)
        PROVE  ShortageSeen
    <2>1. /\ \A g \in HoldIds \ {h} : hold'[g] = hold[g]
          /\ hold'[h].material = hold[h].material /\ hold'[h].target = hold[h].target
          /\ Left(hold'[h]) = Left(hold[h]) - q /\ q \in Nat
      BY <1>2, ReleaseRow, IssueRow
    <2>2. Left(hold[h]) \in Int
      BY DEF TypeOK, HoldsOK, HoldRow, Left
    <2>3. /\ SyncShortage({hold[h].material}, stock', hold, request) /\ request' = request
          /\ \A m \in Materials \ {hold[h].material} : stock'[m] = stock[m]
      BY <1>2 DEF Release, Issue, TypeOK
    <2>4. Left(hold'[h]) <= Left(hold[h])
      BY <2>1, <2>2
    <2> QED
      BY <2>1, <2>3, <2>4, ChangeSees
  <1>3. ASSUME NEW h \in HoldIds, NEW seen \in 1 .. MaxVersion, NEW flag \in BOOLEAN,
               Archive(h, seen, flag)
        PROVE  ShortageSeen
    <2>1. hold \in HoldTable /\ hold' \in HoldTable
      BY HoldTables DEF TypeOK
    <2>2. ASSUME NEW n \in Materials
          PROVE  Held(hold', n, Targets) = Held(hold, n, Targets)
      <3>1. /\ \A g \in HoldIds \ {h} : hold'[g] = hold[g]
            /\ hold'[h].material = hold[h].material /\ hold'[h].target = hold[h].target
            /\ Left(hold'[h]) = Left(hold[h])
        BY <1>3, ArchiveRow
      <3>2. Held(hold', n, Targets)
              = Held(hold, n, Targets) - LeftOn(hold, n, Targets)[h] + LeftOn(hold', n, Targets)[h]
        BY <2>1, <3>1, HeldMoves
      <3>3. LeftOn(hold', n, Targets)[h] = LeftOn(hold, n, Targets)[h]
        BY <3>1 DEF LeftOn
      <3>4. LeftOn(hold, n, Targets)[h] \in Nat /\ Held(hold, n, Targets) \in Nat
        BY <2>1, HeldType
      <3> QED
        BY <3>2, <3>3, <3>4
    <2> QED
      BY <1>3, <2>2 DEF Archive, ShortageSeen
  <1>4. ASSUME NEW q \in Documents, Receive(q) \/ WriteOff(q)
        PROVE  ShortageSeen
    <2>1. \A n \in Materials : n \notin DOMAIN q => stock'[n] = stock[n]
      BY <1>4 DEF Receive, WriteOff, Added
    <2>2. hold' = hold /\ SyncShortage(DOMAIN q, stock', hold, request')
      BY <1>4 DEF Receive, WriteOff
    <2> QED
      BY <2>1, <2>2, SyncSees
  <1>5. ASSUME NEW q \in Documents, NEW p \in Houses, IssueByTechcard(p, q)
        PROVE  ShortageSeen
    BY <1>5, HouseIssueSees DEF IssueByTechcard
  <1>6. ASSUME NEW r \in MaterialRequests, NEW s \in MaterialRequests, NEW q \in Amounts,
               ApproveRequest(r, s, q)
        PROVE  ShortageSeen
    <2> DEFINE b == request[r].block
               issue == [x \in {MaterialOf[b]} |-> q]
    <2>1. issue \in Documents /\ HouseOf[b] \in Houses
      BY <1>6, ApprovedDocument
    <2>2. /\ stock' = Added(stock, issue, -1) /\ ConsumeHolds(HouseOf[b], issue)
          /\ \/ SyncShortage(DOMAIN issue, stock', hold', request')
             \/ Announced(s, MaterialOf[b])
          /\ DOMAIN issue = {MaterialOf[b]}
          /\ request[s].status \notin {"approved", "rejected"} /\ ShortagesOK
      BY <1>6 DEF ApproveRequest, NextRequest, TypeOK
    <2> DEFINE m == MaterialOf[b]
    <2>3. \A n \in Materials \ {m} :
             stock'[n] = stock[n] /\ Held(hold', n, Targets) = Held(hold, n, Targets)
      <3> HIDE DEF issue, b
      <3> QED BY <2>1, <2>2, GivenMoves
    <2> HIDE DEF issue, b, m
    <2>4. CASE SyncShortage(DOMAIN issue, stock', hold', request')
      BY <2>1, <2>2, <2>4, HouseIssueSees
    <2>5. CASE Announced(s, m)
      BY <2>2, <2>3, <2>5, AnnouncedSees
    <2> QED
      BY <2>2, <2>4, <2>5 DEF m
  <1>7. CASE UNCHANGED <<stock, hold>> /\ shortage \subseteq shortage'
    BY <1>7 DEF ShortageSeen
  <1>12. ASSUME NEW r \in MaterialRequests, RejectRequest(r)
         PROVE  ShortageSeen
    <2> DEFINE m == MaterialOf[request[r].block]
    <2>1. /\ UNCHANGED <<stock, hold>>
          /\ \/ SyncShortage({m}, stock', hold', request')
             \/ shortage' = shortage
      BY <1>12 DEF RejectRequest, Announced
    <2>2. CASE SyncShortage({m}, stock', hold', request')
      <3> HIDE DEF m
      <3> QED BY <2>1, <2>2, SyncSees
    <2> QED
      BY <1>7, <2>1, <2>2
  <1>13. ASSUME NEW d \in unsynced, LooksAgain(d) \/ SyncsLate(d) \/ SyncNeverComes(d)
         PROVE  ShortageSeen
    <2>1. UNCHANGED <<stock, hold>>
      BY <1>13, LateLeaves
    <2>2. CASE shortage \subseteq shortage'
      BY <1>7, <2>1, <2>2
    <2>3. CASE d.step = "closes" /\ shortage' = shortage \ {d.material} /\ unsynced' = unsynced \ {d}
      <3>1. OldLookCarriedOut(d.material)
        BY <2>3 DEF OldLookCarriedOut
      <3> QED
        BY <2>1, <2>3, <3>1 DEF ShortageSeen
    <2> QED
      BY <1>13, <2>2, <2>3 DEF LooksAgain, SyncsLate, SyncNeverComes
  <1>8. CASE HoldStep
    BY <1>1, <1>2, <1>3, <1>8 DEF HoldStep
  <1>9. CASE DocumentStep
    BY <1>4, <1>5, <1>9 DEF DocumentStep
  <1>14. ASSUME NEW m \in Materials, SubmitsShortageTask(m)
         PROVE  ShortageSeen
    BY <1>14 DEF SubmitsShortageTask, SubmittedOnBoard, ShortageSeen
  <1>10. CASE HouseStep
    BY <1>6, <1>7, <1>10, <1>12, <1>13, <1>14 DEF HouseStep, RequestMaterial, UpdateRequired
  <1>11. CASE UNCHANGED vars
    BY <1>7, <1>11 DEF vars
  <1> QED
    BY <1>8, <1>9, <1>10, <1>11 DEF Next

\* Whatever moves a balance or a hold looks at the shortage with tables fresh enough:
\* if the material is short afterwards, a task is open for it, and no handler closes
\* the task of a material that is short.  The exception is a decision that announced
\* itself: it looks after its commit, and closes by what it saw then.  Whoever has a
\* task may also submit it, and nothing but the task changes.
THEOREM ShortagesAreSeen == Spec => ShortagesSeen
  <1>1. IInv /\ IInv' /\ [Next]_vars => [ShortageSeen]_vars
    BY StepSees DEF IInv
  <1>2. Spec => []IInv
    BY InitInv, StepInv, PTL DEF Spec
  <1> QED
    BY <1>1, <1>2, PTL DEF Spec, ShortagesSeen

------------------------------------------------------------------------------
(* What houses need and what they are promised of it.                        *)

NormTable == [BlockMaterials -> NormRow]

\* What the rows of house p show of material m in one column.
Column(nm, m, p, column) ==
    [b \in BlockMaterials |->
        IF MaterialOf[b] = m /\ HouseOf[b] = p THEN nm[b][column] ELSE 0]

LEMMA NeedSums ==
    ASSUME NEW nm \in NormTable, NEW m, NEW p
    PROVE  /\ NeedOf(nm, m, p) = Total(Column(nm, m, p, "required"), BlockMaterials)
                                   + Total(Column(nm, m, p, "requested"), BlockMaterials)
           /\ \A b \in BlockMaterials : /\ Column(nm, m, p, "required")[b] \in Nat
                                        /\ Column(nm, m, p, "requested")[b] \in Nat
           /\ Total(Column(nm, m, p, "required"), BlockMaterials) \in Nat
           /\ Total(Column(nm, m, p, "requested"), BlockMaterials) \in Nat
           /\ NeedOf(nm, m, p) \in Nat
  <1> DEFINE f == Column(nm, m, p, "required")
             g == Column(nm, m, p, "requested")
             n == [b \in BlockMaterials |->
                     IF MaterialOf[b] = m /\ HouseOf[b] = p
                     THEN nm[b].required + nm[b].requested ELSE 0]
  <1>1. \A b \in BlockMaterials : f[b] \in Nat /\ g[b] \in Nat /\ n[b] = f[b] + g[b]
    BY DEF NormTable, NormRow, Column
  <1>2. NeedOf(nm, m, p) = Total(n, BlockMaterials)
    BY DEF NeedOf
  <1>3. IsFiniteSet(BlockMaterials)
    BY TablesAssumption
  <1> HIDE DEF f, g, n
  <1>4. Total(n, BlockMaterials) = Total(f, BlockMaterials) + Total(g, BlockMaterials)
    BY <1>1, <1>3, TotalAdd
  <1>5. Total(f, BlockMaterials) \in Nat /\ Total(g, BlockMaterials) \in Nat
    BY <1>1, <1>3, TotalType
  <1> QED
    BY <1>1, <1>2, <1>4, <1>5 DEF f, g

\* One row moved: what its house needs moves by that row.
LEMMA NeedMoves ==
    ASSUME NEW old \in NormTable, NEW new \in NormTable, NEW b \in BlockMaterials,
           \A c \in BlockMaterials \ {b} : new[c] = old[c], NEW m, NEW p
    PROVE  NeedOf(new, m, p)
             = NeedOf(old, m, p)
                 + (IF MaterialOf[b] = m /\ HouseOf[b] = p
                    THEN new[b].required + new[b].requested
                           - (old[b].required + old[b].requested)
                    ELSE 0)
  <1> DEFINE F(nm) == [c \in BlockMaterials |->
                         IF MaterialOf[c] = m /\ HouseOf[c] = p
                         THEN nm[c].required + nm[c].requested ELSE 0]
             f == F(old)
             n == F(new)
  <1>1. \A c \in BlockMaterials : f[c] \in Nat /\ n[c] \in Nat
    BY DEF NormTable, NormRow
  <1>2. \A c \in BlockMaterials \ {b} : n[c] = f[c]
    OBVIOUS
  <1>3. Total(n, BlockMaterials) = Total(f, BlockMaterials) - f[b] + n[b]
    <2> HIDE DEF f, n
    <2>1. \A c \in BlockMaterials : f[c] \in Nat
      BY <1>1
    <2>2. \A c \in BlockMaterials : n[c] \in Nat
      BY <1>1
    <2>3. IsFiniteSet(BlockMaterials)
      BY TablesAssumption
    <2> QED BY <2>1, <2>2, <2>3, <1>2, TotalUpdate
  <1>4. NeedOf(old, m, p) = Total(f, BlockMaterials) /\ NeedOf(new, m, p) = Total(n, BlockMaterials)
    BY DEF NeedOf
  <1>5. NeedOf(old, m, p) \in Nat
    BY NeedSums
  <1>6. f[b] = (IF MaterialOf[b] = m /\ HouseOf[b] = p
                THEN old[b].required + old[b].requested ELSE 0)
        /\ n[b] = (IF MaterialOf[b] = m /\ HouseOf[b] = p
                   THEN new[b].required + new[b].requested ELSE 0)
    OBVIOUS
  <1>7. /\ old[b].required \in Nat /\ old[b].requested \in Nat
        /\ new[b].required \in Nat /\ new[b].requested \in Nat
    BY DEF NormTable, NormRow
  <1> HIDE DEF f, n
  <1> QED
    BY <1>1, <1>3, <1>4, <1>5, <1>6, <1>7

LEMMA NormTables ==
    ASSUME TypeOK, TypeOK'
    PROVE  norm \in NormTable /\ norm' \in NormTable
  BY DEF TypeOK, NormTable, NormRow

\* The holds that consume_for_production leaves to the other houses.
LEMMA ConsumeOthers ==
    ASSUME TypeOK, NEW p \in Houses, NEW q \in Documents, ConsumeHolds(p, q),
           NEW m, NEW o, o # p
    PROVE  Held(hold', m, {o}) = Held(hold, m, {o})
  <1>1. PICK left \in [HoldIds -> 0 .. MaxQuantity] : TakeFromHolds(p, q, left)
    BY DEF ConsumeHolds
  <1>2. \A h \in HoldIds : /\ hold'[h].material = hold[h].material
                           /\ hold'[h].target = hold[h].target
                           /\ hold'[h] = hold[h] \/ hold[h].target = p
    BY <1>1, ConsumeRows
  <1> DEFINE f == LeftOn(hold', m, {o})
             g == LeftOn(hold, m, {o})
  <1>3. \A h \in HoldIds : f[h] = g[h]
    BY <1>2 DEF LeftOn
  <1>4. Total(f, HoldIds) = Total(g, HoldIds)
    <2> HIDE DEF f, g
    <2> QED BY <1>3, TotalSame
  <1> QED
    BY <1>4 DEF Held

\* A house is served: its holds fall by what it is given, as far as they go, and its
\* need falls by all of it.
LEMMA ServedKeeps ==
    ASSUME TypeOK, TypeOK', NEW p \in Houses, NEW q \in Documents, ConsumeHolds(p, q),
           \A m \in Materials :
              IF m \in DOMAIN q
              THEN /\ q[m] <= NeedOf(norm, m, p)
                   /\ NeedOf(norm', m, p) = NeedOf(norm, m, p) - q[m]
              ELSE NeedOf(norm', m, p) = NeedOf(norm, m, p),
           \A m \in Materials, o \in Houses \ {p} : NeedOf(norm', m, o) = NeedOf(norm, m, o)
    PROVE  SurplusKept
  <1>1. hold \in HoldTable /\ hold' \in HoldTable
    BY HoldTables DEF TypeOK
  <1>2. ASSUME NEW m \in Materials, NEW o \in Houses
        PROVE  Surplus(hold', norm', m, o) <= Surplus(hold, norm, m, o)
    <2> DEFINE x == Held(hold, m, {o})
               y == Held(hold', m, {o})
               n == NeedOf(norm, m, o)
               k == NeedOf(norm', m, o)
    <2>1. x \in Nat /\ y \in Nat /\ n \in Nat /\ k \in Nat
      BY <1>1, HeldType, NeedSums, NormTables
    <2>2. m \in DOMAIN q => q[m] \in Nat
      BY SmallNumbers
    <2>3. /\ Surplus(hold, norm, m, o) = AtLeast(0, x - n)
          /\ Surplus(hold', norm', m, o) = AtLeast(0, y - k)
      BY DEF Surplus
    <2>4. CASE o = p /\ m \in DOMAIN q
      <3>1. y = AtLeast(0, x - q[m]) /\ q[m] <= n /\ k = n - q[m]
        BY <1>1, <2>4, ConsumeHeld
      <3> HIDE DEF x, y, n, k
      <3> QED
        BY <2>1, <2>2, <2>3, <2>4, <3>1 DEF AtLeast
    <2>5. CASE ~(o = p /\ m \in DOMAIN q)
      <3>1. o = p => y = x /\ k = n
        BY <1>1, <2>5, ConsumeHeld
      <3>2. o # p => y = x /\ k = n
        BY <1>1, ConsumeOthers
      <3>3. y = x /\ k = n
        BY <3>1, <3>2
      <3> HIDE DEF x, y, n, k
      <3> QED
        BY <2>1, <2>3, <3>3 DEF AtLeast
    <2> QED
      BY <2>4, <2>5
  <1> QED
    BY <1>2 DEF SurplusKept

\* What the norm rows show is what the house is given against.
LEMMA TechcardKeepsNeed ==
    ASSUME TypeOK, TypeOK', NEW p \in Houses, NEW q \in Documents, IssueByTechcard(p, q)
    PROVE  SurplusKept
  <1>1. PICK required \in [BlockMaterials -> 0 .. MaxNorm] :
          /\ \A m \in DOMAIN q :
               TakenInOrder(NormOf(m, p, "required"),
                            [b \in BlockMaterials |->
                                IF MaterialOf[b] = m /\ HouseOf[b] = p
                                THEN required[b] ELSE 0],
                            BlockMaterials, q[m])
          /\ \A b \in BlockMaterials :
               ~(HouseOf[b] = p /\ MaterialOf[b] \in DOMAIN q)
                 => required[b] = norm[b].required
          /\ norm' = [b \in BlockMaterials |->
                        [norm[b] EXCEPT !.required = required[b],
                                        !.provided = @ + norm[b].required - required[b]]]
    BY DEF IssueByTechcard
  <1>2. norm \in NormTable /\ norm' \in NormTable
    BY NormTables
  <1>3. \A b \in BlockMaterials : /\ norm'[b].required = required[b]
                                  /\ norm'[b].requested = norm[b].requested
    BY <1>1, <1>2 DEF NormTable, NormRow
  <1>4. ASSUME NEW m, NEW o
        PROVE  /\ Total(Column(norm', m, o, "requested"), BlockMaterials)
                    = Total(Column(norm, m, o, "requested"), BlockMaterials)
               /\ ~(o = p /\ m \in DOMAIN q) =>
                    Total(Column(norm', m, o, "required"), BlockMaterials)
                      = Total(Column(norm, m, o, "required"), BlockMaterials)
    <2> DEFINE f == Column(norm, m, o, "requested")
               g == Column(norm', m, o, "requested")
               x == Column(norm, m, o, "required")
               y == Column(norm', m, o, "required")
    <2>1. \A b \in BlockMaterials : g[b] = f[b]
      BY <1>3 DEF Column
    <2>2. ~(o = p /\ m \in DOMAIN q) => \A b \in BlockMaterials : y[b] = x[b]
      BY <1>1, <1>3 DEF Column
    <2> HIDE DEF f, g, x, y
    <2>3. Total(g, BlockMaterials) = Total(f, BlockMaterials)
      BY <2>1, TotalSame
    <2>4. ~(o = p /\ m \in DOMAIN q) => Total(y, BlockMaterials) = Total(x, BlockMaterials)
      BY <2>2, TotalSame
    <2> QED
      BY <2>3, <2>4 DEF f, g, x, y
  <1>5. ASSUME NEW m \in DOMAIN q
        PROVE  /\ q[m] \in Nat /\ q[m] <= Total(Column(norm, m, p, "required"), BlockMaterials)
               /\ Total(Column(norm', m, p, "required"), BlockMaterials)
                    = Total(Column(norm, m, p, "required"), BlockMaterials) - q[m]
    <2> DEFINE x == Column(norm, m, p, "required")
               y == Column(norm', m, p, "required")
               after == [b \in BlockMaterials |->
                           IF MaterialOf[b] = m /\ HouseOf[b] = p THEN required[b] ELSE 0]
    <2>1. NormOf(m, p, "required") = x
      BY DEF NormOf, Column
    <2>2. q[m] \in Nat /\ q[m] <= Total(x, BlockMaterials)
      BY <2>1, SmallNumbers DEF IssueByTechcard
    <2>3. Total(after, BlockMaterials) = AtLeast(0, Total(x, BlockMaterials) - q[m])
      BY <1>1, <2>1 DEF TakenInOrder
    <2>4. \A b \in BlockMaterials : y[b] = after[b]
      BY <1>3 DEF Column
    <2>5. Total(x, BlockMaterials) \in Nat
      BY <1>2, NeedSums
    <2> HIDE DEF x, y, after
    <2>6. Total(y, BlockMaterials) = Total(after, BlockMaterials)
      BY <2>4, TotalSame
    <2>7. Total(y, BlockMaterials) = Total(x, BlockMaterials) - q[m]
      BY <2>2, <2>3, <2>5, <2>6 DEF AtLeast
    <2> QED
      BY <2>2, <2>7 DEF x, y
  <1>6. ASSUME NEW m \in Materials, NEW o \in Houses
        PROVE  IF o = p /\ m \in DOMAIN q
               THEN /\ q[m] <= NeedOf(norm, m, p)
                    /\ NeedOf(norm', m, p) = NeedOf(norm, m, p) - q[m]
               ELSE NeedOf(norm', m, o) = NeedOf(norm, m, o)
    <2>1. /\ NeedOf(norm, m, o) = Total(Column(norm, m, o, "required"), BlockMaterials)
                                    + Total(Column(norm, m, o, "requested"), BlockMaterials)
          /\ NeedOf(norm', m, o) = Total(Column(norm', m, o, "required"), BlockMaterials)
                                     + Total(Column(norm', m, o, "requested"), BlockMaterials)
          /\ Total(Column(norm, m, o, "required"), BlockMaterials) \in Nat
          /\ Total(Column(norm, m, o, "requested"), BlockMaterials) \in Nat
      BY <1>2, NeedSums
    <2> QED
      BY <1>4, <1>5, <2>1
  <1>7. ConsumeHolds(p, q)
    BY DEF IssueByTechcard
  <1> QED
    BY <1>6, <1>7, ServedKeeps

LEMMA ApproveKeepsNeed ==
    ASSUME TypeOK, TypeOK', NEW r \in MaterialRequests, NEW s \in MaterialRequests,
           NEW q \in Amounts, ApproveRequest(r, s, q)
    PROVE  SurplusKept
  <1> DEFINE b == request[r].block
             m == MaterialOf[b]
             p == HouseOf[b]
             issue == [x \in {m} |-> q]
  <1>1. issue \in Documents /\ b \in BlockMaterials /\ m \in Materials /\ p \in Houses
    BY ApprovedDocument
  <1>2. norm \in NormTable /\ norm' \in NormTable /\ norm[b] \in NormRow
    BY <1>1, NormTables DEF NormTable
  <1>3. /\ \A c \in BlockMaterials \ {b} : norm'[c] = norm[c]
        /\ norm'[b].required = norm[b].required /\ norm'[b].requested = norm[b].requested - q
        /\ q \in Nat /\ q <= norm[b].requested
    <2>1. norm' = [norm EXCEPT ![b].requested = @ - q, ![b].provided = @ + q]
          /\ q <= norm[b].requested
      BY DEF ApproveRequest
    <2> HIDE DEF b
    <2> QED
      BY <1>1, <1>2, <2>1, SmallNumbers DEF NormTable, NormRow
  <1>4. ASSUME NEW n, NEW o
        PROVE  /\ NeedOf(norm', n, o) = NeedOf(norm, n, o) - (IF n = m /\ o = p THEN q ELSE 0)
               /\ n = m /\ o = p => q <= NeedOf(norm, n, o)
    <2>1. NeedOf(norm', n, o)
            = NeedOf(norm, n, o)
                + (IF MaterialOf[b] = n /\ HouseOf[b] = o
                   THEN norm'[b].required + norm'[b].requested
                          - (norm[b].required + norm[b].requested)
                   ELSE 0)
      <3> HIDE DEF b
      <3> QED BY <1>1, <1>2, <1>3, NeedMoves
    <2>2. /\ NeedOf(norm, n, o) \in Nat /\ NeedOf(norm', n, o) \in Nat
          /\ norm[b].required \in Nat /\ norm[b].requested \in Nat
          /\ norm'[b].requested \in Nat
      BY <1>1, <1>2, NeedSums DEF NormTable, NormRow
    <2>3. n = m /\ o = p => norm[b].requested <= NeedOf(norm, n, o)
      <3> DEFINE g == Column(norm, m, p, "requested")
      <3>1. \A c \in BlockMaterials : g[c] \in Nat
        BY <1>2, NeedSums
      <3>2. g[b] = norm[b].requested
        BY <1>1 DEF Column
      <3>3. NeedOf(norm, m, p) >= Total(g, BlockMaterials)
        BY <1>2, NeedSums
      <3>4. IsFiniteSet(BlockMaterials) /\ b \in BlockMaterials
        BY <1>1, TablesAssumption
      <3> HIDE DEF g, b
      <3>5. /\ Total(g, BlockMaterials) = Total(g, BlockMaterials \ {b}) + g[b]
            /\ Total(g, BlockMaterials \ {b}) \in Nat
        BY <3>1, <3>4, TotalSplit
      <3>6. NeedOf(norm, m, p) \in Nat /\ g[b] \in Nat
        BY <1>2, <3>1, <3>4, NeedSums
      <3> QED
        BY <3>2, <3>3, <3>5, <3>6
    <2> QED
      BY <1>3, <2>1, <2>2, <2>3
  <1>5. ConsumeHolds(p, issue)
    BY DEF ApproveRequest
  <1>6. \A n \in Materials :
           IF n \in DOMAIN issue
           THEN /\ issue[n] <= NeedOf(norm, n, p)
                /\ NeedOf(norm', n, p) = NeedOf(norm, n, p) - issue[n]
           ELSE NeedOf(norm', n, p) = NeedOf(norm, n, p)
    <2>1. \A n \in Materials : NeedOf(norm, n, p) \in Nat
      BY <1>2, NeedSums
    <2> HIDE DEF m, p, b
    <2> QED BY <1>4, <2>1
  <1>7. \A n \in Materials, o \in Houses \ {p} : NeedOf(norm', n, o) = NeedOf(norm, n, o)
    <2>1. \A n \in Materials, o \in Houses : NeedOf(norm, n, o) \in Nat
      BY <1>2, NeedSums
    <2> HIDE DEF m, p, b
    <2> QED BY <1>4, <2>1
  <1> HIDE DEF issue, p, m, b
  <1> QED
    BY <1>1, <1>5, <1>6, <1>7, ServedKeeps

\* Nobody's holds grow and no house needs less.
LEMMA NoWider ==
    ASSUME TypeOK, TypeOK',
           \A m \in Materials, p \in Houses :
              /\ Held(hold', m, {p}) <= Held(hold, m, {p})
              /\ NeedOf(norm', m, p) >= NeedOf(norm, m, p)
    PROVE  SurplusKept
  <1>1. hold \in HoldTable /\ hold' \in HoldTable /\ norm \in NormTable /\ norm' \in NormTable
    BY HoldTables, NormTables DEF TypeOK
  <1>2. ASSUME NEW m \in Materials, NEW p \in Houses
        PROVE  Surplus(hold', norm', m, p) <= Surplus(hold, norm, m, p)
    <2>1. /\ Held(hold, m, {p}) \in Nat /\ Held(hold', m, {p}) \in Nat
          /\ NeedOf(norm, m, p) \in Nat /\ NeedOf(norm', m, p) \in Nat
      BY <1>1, HeldType, NeedSums
    <2> QED
      BY <2>1 DEF Surplus, AtLeast
  <1> QED
    BY <1>2 DEF SurplusKept

\* Quantities that move between the columns of one row, or add to it, or show that the
\* norm was lowered.
LEMMA NormKeeps ==
    ASSUME TypeOK, TypeOK', hold' = hold, NEW b \in BlockMaterials,
           \A c \in BlockMaterials \ {b} : norm'[c] = norm[c],
           norm'[b].required + norm'[b].requested >= norm[b].required + norm[b].requested
    PROVE  SurplusKept
  <1>1. /\ hold \in HoldTable /\ norm \in NormTable /\ norm' \in NormTable
        /\ norm[b] \in NormRow /\ norm'[b] \in NormRow
    BY HoldTables, NormTables DEF TypeOK, NormTable
  <1>2. ASSUME NEW m \in Materials, NEW p \in Houses
        PROVE  /\ Held(hold', m, {p}) <= Held(hold, m, {p})
               /\ NeedOf(norm', m, p) >= NeedOf(norm, m, p)
    <2>1. NeedOf(norm', m, p)
            = NeedOf(norm, m, p)
                + (IF MaterialOf[b] = m /\ HouseOf[b] = p
                   THEN norm'[b].required + norm'[b].requested
                          - (norm[b].required + norm[b].requested)
                   ELSE 0)
      BY <1>1, NeedMoves
    <2>2. NeedOf(norm, m, p) \in Nat /\ Held(hold, m, {p}) \in Nat
      BY <1>1, HeldType, NeedSums
    <2> QED
      BY <1>1, <2>1, <2>2 DEF NormRow
  <1> QED
    BY <1>2, NoWider

\* A hold for a house is made within what the house still needs.
LEMMA HouseHoldKeeps ==
    ASSUME TypeOK, TypeOK', NEW u \in RequestIds, NEW h \in HoldIds, NEW m \in Materials,
           NEW t \in Targets, NEW q \in Amounts, InsertHold(u, h, m, t, q), norm' = norm,
           t \in Houses => q <= NeedOf(norm, m, t) - Held(hold, m, {t})
    PROVE  SurplusKept
  <1>1. hold \in HoldTable /\ hold' \in HoldTable /\ norm \in NormTable
    BY HoldTables, NormTables DEF TypeOK
  <1>2. /\ \A g \in HoldIds \ {h} : hold'[g] = hold[g]
        /\ hold'[h] = NewHold(m, t, q) /\ hold[h] = NoHold /\ q \in Nat
    BY SmallNumbers DEF InsertHold, NextHold, TypeOK, HoldsOK
  <1>3. ASSUME NEW n \in Materials, NEW p \in Houses
        PROVE  Surplus(hold', norm', n, p) <= Surplus(hold, norm, n, p)
    <2>1. Held(hold', n, {p})
            = Held(hold, n, {p}) - LeftOn(hold, n, {p})[h] + LeftOn(hold', n, {p})[h]
      BY <1>1, <1>2, HeldMoves
    <2>2. LeftOn(hold, n, {p})[h] = 0
      BY <1>2 DEF LeftOn, NoHold, Left
    <2>3. LeftOn(hold', n, {p})[h] = IF n = m /\ p = t THEN q ELSE 0
      BY <1>2, Inserted DEF LeftOn
    <2>4. Held(hold, n, {p}) \in Nat /\ NeedOf(norm, n, p) \in Nat
      BY <1>1, HeldType, NeedSums
    <2>5. /\ Surplus(hold, norm, n, p) = AtLeast(0, Held(hold, n, {p}) - NeedOf(norm, n, p))
          /\ Surplus(hold', norm', n, p) = AtLeast(0, Held(hold', n, {p}) - NeedOf(norm, n, p))
      BY DEF Surplus
    <2>6. CASE n = m /\ p = t
      <3>1. q <= NeedOf(norm, n, p) - Held(hold, n, {p})
        BY <2>6
      <3>2. Held(hold', n, {p}) = Held(hold, n, {p}) + q
        BY <1>2, <2>1, <2>2, <2>3, <2>4, <2>6
      <3> QED
        BY <1>2, <2>4, <2>5, <3>1, <3>2 DEF AtLeast
    <2>7. CASE ~(n = m /\ p = t)
      <3>1. Held(hold', n, {p}) = Held(hold, n, {p})
        BY <2>1, <2>2, <2>3, <2>4, <2>7
      <3> QED
        BY <2>4, <2>5, <3>1 DEF AtLeast
    <2> QED
      BY <2>6, <2>7
  <1> QED
    BY <1>3 DEF SurplusKept

LEMMA StepKeepsNeed ==
    ASSUME TypeOK, TypeOK', [Next]_vars
    PROVE  SurplusKept
  <1>0. hold \in HoldTable /\ hold' \in HoldTable /\ norm \in NormTable /\ norm' \in NormTable
    BY HoldTables, NormTables DEF TypeOK
  <1>1. ASSUME NEW u \in RequestIds, NEW h \in HoldIds, NEW m \in Materials,
               NEW q \in Amounts, ReserveForPurpose(u, h, m, q)
        PROVE  SurplusKept
    BY <1>1, HouseHoldKeeps, TablesAssumption DEF ReserveForPurpose, Targets
  <1>2. ASSUME NEW u \in RequestIds, NEW h \in HoldIds, NEW m \in Materials,
               NEW q \in Amounts, NEW p \in Houses, ReserveForHouse(u, h, m, p, q)
        PROVE  SurplusKept
    <2>1. /\ NormOf(m, p, "required") = Column(norm, m, p, "required")
          /\ NormOf(m, p, "requested") = Column(norm, m, p, "requested")
      BY DEF NormOf, Column
    <2>2. /\ NeedOf(norm, m, p) = Total(Column(norm, m, p, "required"), BlockMaterials)
                                    + Total(Column(norm, m, p, "requested"), BlockMaterials)
          /\ Total(Column(norm, m, p, "required"), BlockMaterials) \in Nat
          /\ Total(Column(norm, m, p, "requested"), BlockMaterials) \in Nat
          /\ Held(hold, m, {p}) \in Nat /\ q \in Nat
      BY <1>0, NeedSums, HeldType, SmallNumbers
    <2>3. /\ q <= Total(NormOf(m, p, "required"), BlockMaterials)
                    + Total(NormOf(m, p, "requested"), BlockMaterials) - Held(hold, m, {p})
          /\ InsertHold(u, h, m, p, q) /\ norm' = norm
      BY <1>2 DEF ReserveForHouse
    <2>4. q <= NeedOf(norm, m, p) - Held(hold, m, {p})
      BY <2>1, <2>2, <2>3
    <2> QED
      BY <2>3, <2>4, HouseHoldKeeps DEF Targets
  <1>3. ASSUME NEW h \in HoldIds, \A g \in HoldIds \ {h} : hold'[g] = hold[g], norm' = norm,
               hold'[h].material = hold[h].material, hold'[h].target = hold[h].target,
               Left(hold'[h]) <= Left(hold[h])
        PROVE  SurplusKept
    <2>1. ASSUME NEW m \in Materials, NEW p \in Houses
          PROVE  /\ Held(hold', m, {p}) <= Held(hold, m, {p})
                 /\ NeedOf(norm', m, p) >= NeedOf(norm, m, p)
      <3>1. Held(hold', m, {p})
              = Held(hold, m, {p}) - LeftOn(hold, m, {p})[h] + LeftOn(hold', m, {p})[h]
        BY <1>0, <1>3, HeldMoves
      <3>2. /\ LeftOn(hold', m, {p})[h] <= LeftOn(hold, m, {p})[h]
            /\ LeftOn(hold', m, {p})[h] \in Nat /\ LeftOn(hold, m, {p})[h] \in Nat
        <4>1. LeftOn(hold', m, {p})[h] \in Nat /\ LeftOn(hold, m, {p})[h] \in Nat
          BY <1>0, HeldType
        <4> QED
          BY <1>3, <4>1 DEF LeftOn
      <3>3. Held(hold, m, {p}) \in Nat /\ NeedOf(norm, m, p) \in Nat
        BY <1>0, HeldType, NeedSums
      <3> QED
        BY <1>3, <3>1, <3>2, <3>3
    <2> QED
      BY <2>1, NoWider
  <1>4. ASSUME NEW u \in RequestIds, NEW h \in HoldIds, NEW seen \in 1 .. MaxVersion,
               NEW q \in Amounts, Release(u, h, seen, q) \/ Issue(u, h, seen, q)
        PROVE  SurplusKept
    <2>1. Left(hold[h]) \in Int
      BY DEF TypeOK, HoldsOK, HoldRow, Left
    <2>2. /\ \A g \in HoldIds \ {h} : hold'[g] = hold[g]
          /\ hold'[h].material = hold[h].material /\ hold'[h].target = hold[h].target
          /\ Left(hold'[h]) <= Left(hold[h]) /\ norm' = norm
      BY <1>4, <2>1, ReleaseRow, IssueRow DEF Release, Issue
    <2> QED
      BY <1>3, <2>2
  <1>5. ASSUME NEW h \in HoldIds, NEW seen \in 1 .. MaxVersion, NEW flag \in BOOLEAN,
               Archive(h, seen, flag)
        PROVE  SurplusKept
    <2>1. Left(hold[h]) \in Int /\ norm' = norm
      BY <1>5 DEF TypeOK, HoldsOK, HoldRow, Left, Archive
    <2>2. /\ \A g \in HoldIds \ {h} : hold'[g] = hold[g]
          /\ hold'[h].material = hold[h].material /\ hold'[h].target = hold[h].target
          /\ Left(hold'[h]) = Left(hold[h])
      BY <1>5, ArchiveRow
    <2>3. Left(hold'[h]) <= Left(hold[h])
      BY <2>1, <2>2
    <2> QED
      BY <1>3, <2>1, <2>2, <2>3
  <1>6. CASE UNCHANGED <<hold, norm>>
    <2>1. \A m \in Materials, p \in Houses :
             Held(hold, m, {p}) \in Nat /\ NeedOf(norm, m, p) \in Nat
      BY <1>0, HeldType, NeedSums
    <2> QED
      BY <1>6, <2>1, NoWider
  <1>7. ASSUME NEW r \in MaterialRequests, NEW b \in BlockMaterials, NEW q \in Amounts,
               RequestMaterial(r, b, q)
        PROVE  SurplusKept
    <2>1. /\ norm' = [norm EXCEPT ![b].required = @ - q, ![b].requested = @ + q]
          /\ q \in Nat /\ hold' = hold
      BY <1>7, SmallNumbers DEF RequestMaterial
    <2>2. /\ \A c \in BlockMaterials \ {b} : norm'[c] = norm[c]
          /\ norm'[b].required = norm[b].required - q
          /\ norm'[b].requested = norm[b].requested + q
      BY <1>0, <2>1 DEF NormTable, NormRow
    <2>3. norm[b].required \in Nat /\ norm[b].requested \in Nat
      BY <1>0 DEF NormTable, NormRow
    <2>4. norm'[b].required + norm'[b].requested >= norm[b].required + norm[b].requested
      BY <2>1, <2>2, <2>3
    <2> QED
      BY <2>1, <2>2, <2>4, NormKeeps
  <1>8. ASSUME NEW r \in MaterialRequests, RejectRequest(r)
        PROVE  SurplusKept
    <2> DEFINE b == request[r].block
               q == request[r].quantity
    <2>1. b \in BlockMaterials /\ q \in Nat
      BY <1>8 DEF RejectRequest, TypeOK, RequestsOK, RequestRow
    <2>2. /\ norm' = [norm EXCEPT ![b].requested = @ - q, ![b].required = @ + q]
          /\ hold' = hold
      BY <1>8 DEF RejectRequest
    <2> HIDE DEF b, q
    <2>3. /\ \A c \in BlockMaterials \ {b} : norm'[c] = norm[c]
          /\ norm'[b].required = norm[b].required + q
          /\ norm'[b].requested = norm[b].requested - q
      BY <1>0, <2>1, <2>2 DEF NormTable, NormRow
    <2>4. norm[b].required \in Nat /\ norm[b].requested \in Nat
      BY <1>0, <2>1 DEF NormTable, NormRow
    <2>5. norm'[b].required + norm'[b].requested >= norm[b].required + norm[b].requested
      BY <2>1, <2>3, <2>4
    <2> QED
      BY <2>1, <2>2, <2>3, <2>5, NormKeeps
  <1>9. ASSUME NEW b \in BlockMaterials, NEW q \in 0 .. MaxNorm, UpdateRequired(b, q)
        PROVE  SurplusKept
    <2>1. norm' = [norm EXCEPT ![b].required = q] /\ hold' = hold /\ q \in Nat
      BY <1>9, QuantitiesAssumption DEF UpdateRequired
    <2>2. /\ \A c \in BlockMaterials \ {b} : norm'[c] = norm[c]
          /\ norm'[b].required = q /\ norm'[b].requested = norm[b].requested
          /\ norm'[b].provided = norm[b].provided
      BY <1>0, <2>1 DEF NormTable, NormRow
    <2>3. /\ norm[b].required \in Nat /\ norm[b].requested \in Nat /\ norm[b].provided \in Nat
      BY <1>0 DEF NormTable, NormRow
    <2>4. CASE q < norm[b].required
      <3>1. Normed(norm', b) < Normed(norm, b)
        BY <2>1, <2>2, <2>3, <2>4 DEF Normed
      <3> QED
        BY <3>1 DEF SurplusKept
    <2>5. CASE q >= norm[b].required
      <3>1. norm'[b].required + norm'[b].requested >= norm[b].required + norm[b].requested
        BY <2>1, <2>2, <2>3, <2>5
      <3> QED
        BY <2>1, <2>2, <3>1, NormKeeps
    <2> QED
      BY <2>1, <2>3, <2>4, <2>5
  <1>10. CASE HoldStep
    BY <1>1, <1>2, <1>4, <1>5, <1>10 DEF HoldStep
  <1>11. CASE DocumentStep
    BY <1>6, <1>11, TechcardKeepsNeed DEF DocumentStep, Receive, WriteOff
  <1>12. CASE HouseStep
    BY <1>6, <1>7, <1>8, <1>9, <1>12, ApproveKeepsNeed, LateLeaves DEF HouseStep, SubmitsShortageTask
  <1>13. CASE UNCHANGED vars
    BY <1>6, <1>13 DEF vars
  <1> QED
    BY <1>10, <1>11, <1>12, <1>13 DEF Next

\* No handler widens the gap between what a house is promised and what it still needs:
\* the gap comes only from a norm that somebody lowered.
THEOREM HoldsKeepToNorms == Spec => HoldsFollowNorms
  <1>1. IInv /\ IInv' /\ [Next]_vars => [SurplusKept]_vars
    BY StepKeepsNeed DEF IInv
  <1>2. Spec => []IInv
    BY InitInv, StepInv, PTL DEF Spec
  <1> QED
    BY <1>1, <1>2, PTL DEF Spec, HoldsFollowNorms

------------------------------------------------------------------------------
(* The ledger of promises.                                                   *)

\* What is promised is on the shelf, except for goods that nothing was promised of
\* since an import left too few.
PromisesCovered ==
    \A m \in Materials : \/ Held(hold, m, Targets) = 0
                         \/ Available(stock, hold, m) >= 0

LEMMA LedgerTotal ==
    /\ \A f, S : Ledger!Total(f, S) = Total(f, S)
    /\ \A a, b : Ledger!AtMost(a, b) = AtMost(a, b)
  <1>1. \A S : Ledger!Cardinality(S) = Cardinality(S)
    BY DEF Ledger!Cardinality, Cardinality
  <1>2. \A f, S : Ledger!Units(f, S) = Units(f, S)
    BY DEF Ledger!Units, Units
  <1>3. \A f, S : Ledger!Total(f, S) = Total(f, S)
    BY <1>1, <1>2 DEF Ledger!Total, Total
  <1>4. \A a, b : Ledger!AtMost(a, b) = AtMost(a, b)
    BY DEF Ledger!AtMost, AtMost
  <1> QED
    BY <1>3, <1>4

LEMMA TargetsFinite == IsFiniteSet(Targets)
  <1>1. IsFiniteSet({Null}) /\ IsFiniteSet(Houses) /\ IsFiniteSet(SalesLines)
    BY FS_Singleton, TablesAssumption
  <1>2. IsFiniteSet({Null} \cup Houses)
    BY <1>1, FS_Union
  <1> QED
    BY <1>1, <1>2, FS_Union DEF Targets

\* The holds of one recipient are its share of all the holds.
LEMMA HeldOf ==
    ASSUME NEW hd \in HoldTable, NEW m, NEW t \in Targets
    PROVE  Held(hd, m, {t})
             = Total(LeftOn(hd, m, Targets), {h \in HoldIds : hd[h].target = t})
  <1> DEFINE R == {h \in HoldIds : hd[h].target = t}
             S == {h \in HoldIds : hd[h].target # t}
             f == LeftOn(hd, m, Targets)
             own == LeftOn(hd, m, {t})
  <1>1. /\ \A h \in HoldIds : own[h] \in Nat
        /\ \A h \in R : own[h] = f[h]
        /\ \A h \in S : own[h] = 0
    BY HeldType DEF LeftOn
  <1>2. HoldIds = R \cup S /\ R \cap S = {} /\ IsFiniteSet(R) /\ IsFiniteSet(S)
    <2>1. R \in SUBSET HoldIds /\ S \in SUBSET HoldIds
      OBVIOUS
    <2>2. IsFiniteSet(R) /\ IsFiniteSet(S)
      <3> HIDE DEF R, S
      <3> QED BY <2>1, SmallNumbers, FS_Subset
    <2> QED BY <2>2
  <1> HIDE DEF R, S, f, own
  <1>3. Total(own, HoldIds) = Total(own, R) + Total(own, S)
    BY <1>1, <1>2, TotalUnion
  <1>4. Total(own, R) = Total(f, R) /\ Total(own, S) = 0
    BY <1>1, TotalSame, TotalZero
  <1>5. Total(own, R) \in Nat
    BY <1>1, <1>2, TotalType
  <1>6. Total(own, HoldIds) = Total(f, R)
    BY <1>3, <1>4, <1>5
  <1> QED
    BY <1>6 DEF Held, own, f, R

\* What the recipients are promised is, together, what is held.
LEMMA PromisesTotal ==
    ASSUME NEW hd \in HoldTable, NEW m
    PROVE  Total([t \in Targets |-> Held(hd, m, {t})], Targets) = Held(hd, m, Targets)
  <1> DEFINE f == LeftOn(hd, m, Targets)
             g == [t \in Targets |-> Held(hd, m, {t})]
             owner == [h \in HoldIds |-> hd[h].target]
  <1>1. \A h \in HoldIds : f[h] \in Nat
    BY HeldType
  <1>2. \A h \in HoldIds : owner[h] \in Targets
    BY DEF HoldTable, HoldRow
  <1>3. \A t \in Targets : g[t] = Total(f, {h \in HoldIds : owner[h] = t})
    <2> SUFFICES ASSUME NEW t \in Targets
                 PROVE  g[t] = Total(f, {h \in HoldIds : owner[h] = t})
      OBVIOUS
    <2>1. {h \in HoldIds : owner[h] = t} = {h \in HoldIds : hd[h].target = t}
      OBVIOUS
    <2> QED
      BY ZenonT(30), <2>1, HeldOf
  <1>4. IsFiniteSet(HoldIds) /\ IsFiniteSet(Targets)
    BY SmallNumbers, TargetsFinite
  <1>5. GroupedBy(g, Targets, owner, f, HoldIds)
    BY <1>2, <1>3 DEF GroupedBy
  <1> HIDE DEF f, g, owner
  <1>6. Total(g, Targets) = Total(f, HoldIds)
    BY <1>1, <1>4, <1>5, TotalGrouped
  <1> QED
    BY <1>6 DEF f, g, Held

\* The row of the ledger for material m, and what is free of it.
LEMMA LedgerRow ==
    ASSUME NEW m \in Materials, hold \in HoldTable, hold' \in HoldTable
    PROVE  /\ Promises[m] = [t \in Targets |-> Held(hold, m, {t})]
           /\ Promises'[m] = [t \in Targets |-> Held(hold', m, {t})]
           /\ \A t \in Targets : Held(hold, m, {t}) \in Nat /\ Held(hold', m, {t}) \in Nat
           /\ Total(Promises[m], Targets) = Held(hold, m, Targets)
           /\ Total(Promises'[m], Targets) = Held(hold', m, Targets)
           /\ Ledger!Free(m) = Available(stock, hold, m)
  <1>1. /\ Promises[m] = [t \in Targets |-> Held(hold, m, {t})]
        /\ Promises'[m] = [t \in Targets |-> Held(hold', m, {t})]
    BY DEF Promises
  <1>2. \A t \in Targets : Held(hold, m, {t}) \in Nat /\ Held(hold', m, {t}) \in Nat
    BY HeldType
  <1>3. /\ Total(Promises[m], Targets) = Held(hold, m, Targets)
        /\ Total(Promises'[m], Targets) = Held(hold', m, Targets)
    BY <1>1, PromisesTotal
  <1>4. Ledger!Free(m) = Available(stock, hold, m)
    BY <1>3, LedgerTotal DEF Ledger!Free, Available
  <1> QED
    BY <1>1, <1>2, <1>3, <1>4

LEMMA LedgerKeeps ==
    ASSUME NEW m \in Materials, hold \in HoldTable, hold' \in HoldTable,
           \A t \in Targets : Held(hold', m, {t}) = Held(hold, m, {t}),
           stock[m] \in Int, stock'[m] \in Int, stock'[m] >= stock[m]
    PROVE  Ledger!Keep(m) \/ Ledger!Enter(m)
  <1>1. Promises'[m] = Promises[m]
    BY LedgerRow
  <1> QED
    BY <1>1 DEF Ledger!Keep, Ledger!Enter

LEMMA LedgerPromises ==
    ASSUME NEW m \in Materials, hold \in HoldTable, hold' \in HoldTable,
           NEW r \in Targets, NEW q \in Nat \ {0}, q <= Available(stock, hold, m),
           Held(hold', m, {r}) = Held(hold, m, {r}) + q,
           \A t \in Targets \ {r} : Held(hold', m, {t}) = Held(hold, m, {t}),
           stock'[m] = stock[m]
    PROVE  Ledger!Promise(m)
  <1> DEFINE P == Promises[m]
             N == Promises'[m]
  <1>1. /\ P = [t \in Targets |-> Held(hold, m, {t})]
        /\ N = [t \in Targets |-> Held(hold', m, {t})]
        /\ Held(hold, m, {r}) \in Nat /\ Ledger!Free(m) = Available(stock, hold, m)
    BY LedgerRow
  <1>2. P[r] = Held(hold, m, {r}) /\ N[r] = Held(hold', m, {r})
    BY <1>1
  <1>3. N[r] - P[r] = q
    BY <1>1, <1>2
  <1>4. N = [P EXCEPT ![r] = @ + (N[r] - P[r])]
    <2>1. N = [P EXCEPT ![r] = Held(hold', m, {r})]
      BY <1>1
    <2>2. P[r] + (N[r] - P[r]) = Held(hold', m, {r})
      BY <1>1, <1>2, <1>3
    <2> HIDE DEF P, N
    <2> QED BY <2>1, <2>2
  <1>5. \E s \in Targets :
          LET d == N[s] - P[s] IN
          /\ d > 0 /\ d <= Ledger!Free(m)
          /\ N = [P EXCEPT ![s] = @ + d]
          /\ stock'[m] = stock[m]
    <2> HIDE DEF P, N
    <2> WITNESS r \in Targets
    <2> QED BY <1>1, <1>3, <1>4
  <1> QED
    BY <1>5 DEF Ledger!Promise

LEMMA LedgerWithdraws ==
    ASSUME NEW m \in Materials, hold \in HoldTable, hold' \in HoldTable,
           NEW r \in Targets, NEW q \in Nat \ {0},
           Held(hold', m, {r}) = Held(hold, m, {r}) - q,
           \A t \in Targets \ {r} : Held(hold', m, {t}) = Held(hold, m, {t}),
           stock'[m] = stock[m]
    PROVE  Ledger!Withdraw(m)
  <1> DEFINE P == Promises[m]
             N == Promises'[m]
  <1>1. /\ P = [t \in Targets |-> Held(hold, m, {t})]
        /\ N = [t \in Targets |-> Held(hold', m, {t})]
        /\ Held(hold, m, {r}) \in Nat
    BY LedgerRow
  <1>2. P[r] = Held(hold, m, {r}) /\ N[r] = Held(hold', m, {r})
    BY <1>1
  <1>3. P[r] - N[r] = q
    BY <1>1, <1>2
  <1>4. N = [P EXCEPT ![r] = @ - (P[r] - N[r])]
    <2>1. N = [P EXCEPT ![r] = Held(hold', m, {r})]
      BY <1>1
    <2>2. P[r] - (P[r] - N[r]) = Held(hold', m, {r})
      BY <1>1, <1>2, <1>3
    <2> HIDE DEF P, N
    <2> QED BY <2>1, <2>2
  <1>5. \E s \in Targets :
          LET d == P[s] - N[s] IN
          /\ d > 0
          /\ N = [P EXCEPT ![s] = @ - d]
          /\ stock'[m] = stock[m]
    <2> HIDE DEF P, N
    <2> WITNESS r \in Targets
    <2> QED BY <1>1, <1>3, <1>4
  <1> QED
    BY <1>5 DEF Ledger!Withdraw

\* Goods leave in parts, each for a recipient, who is served from its own promise first.
LEMMA LedgerHandsOut ==
    ASSUME NEW m \in Materials, hold \in HoldTable, hold' \in HoldTable, stock[m] \in Int,
           NEW out \in Nat \ {0}, stock'[m] = stock[m] - out,
           NEW part \in [Targets -> Nat], Total(part, Targets) = out,
           NEW own \in [Targets -> Nat], out <= Available(stock, hold, m) + Total(own, Targets),
           \A t \in Targets : Held(hold', m, {t}) = Held(hold, m, {t}) - own[t],
           \A t \in Targets : IF t = Null THEN own[t] <= part[t]
                              ELSE own[t] = AtMost(part[t], Held(hold, m, {t}))
    PROVE  Ledger!HandOut(m)
  <1> DEFINE P == Promises[m]
             N == Promises'[m]
  <1>1. /\ P = [t \in Targets |-> Held(hold, m, {t})]
        /\ N = [t \in Targets |-> Held(hold', m, {t})]
        /\ \A t \in Targets : Held(hold, m, {t}) \in Nat /\ Held(hold', m, {t}) \in Nat
        /\ Ledger!Free(m) = Available(stock, hold, m)
    BY LedgerRow
  <1>0. \A t \in Targets : own[t] \in Nat /\ part[t] \in Nat
    OBVIOUS
  <1>2. \A t \in Targets : P[t] = Held(hold, m, {t}) /\ P[t] - N[t] = own[t]
    <2> SUFFICES ASSUME NEW t \in Targets
                 PROVE  P[t] = Held(hold, m, {t}) /\ P[t] - N[t] = own[t]
      OBVIOUS
    <2>1. /\ own[t] \in Nat /\ Held(hold, m, {t}) \in Nat
          /\ Held(hold', m, {t}) = Held(hold, m, {t}) - own[t]
      BY <1>0, <1>1
    <2>2. P[t] = Held(hold, m, {t}) /\ N[t] = Held(hold', m, {t})
      BY <1>1
    <2> HIDE DEF P, N
    <2> QED
      BY <2>1, <2>2
  <1>3. own = [t \in Targets |-> P[t] - N[t]]
    BY <1>2
  <1>4. N \in [Targets -> Nat]
    BY <1>1
  <1> HIDE DEF P, N
  <1>5. \A t \in Targets : own[t] <= part[t]
    <2> SUFFICES ASSUME NEW t \in Targets PROVE own[t] <= part[t]
      OBVIOUS
    <2>1. own[t] \in Nat /\ part[t] \in Nat /\ Held(hold, m, {t}) \in Nat
      BY <1>0, <1>1
    <2> QED
      BY <2>1 DEF AtMost
  <1>6. Total(own, Targets) <= out
    BY <1>5, TargetsFinite, TotalMonotonic
  <1>7. part \in [Targets -> 0 .. out]
    <2>1. ASSUME NEW t \in Targets
          PROVE  part[t] <= out
      <3>1. /\ Total(part, Targets) = Total(part, Targets \ {t}) + part[t]
            /\ Total(part, Targets \ {t}) \in Nat
        BY TargetsFinite, TotalSplit
      <3> QED
        BY <3>1
    <2> QED
      BY <2>1
  <1>8. stock[m] - stock'[m] = out
    OBVIOUS
  <1>9. \A t \in Targets : own[t] >= 0
    OBVIOUS
  <1>10. \E a \in [Targets -> 0 .. out] :
            /\ Ledger!Total(a, Targets) = out
            /\ \A t \in Targets :
                  IF t = Null THEN own[t] <= a[t]
                  ELSE own[t] = Ledger!AtMost(a[t], P[t])
    BY <1>2, <1>7, LedgerTotal
  <1>11. Ledger!Total(own, Targets) <= out /\ out <= Ledger!Free(m) + Ledger!Total(own, Targets)
    BY <1>1, <1>6, LedgerTotal
  <1> QED
    BY <1>3, <1>4, <1>8, <1>9, <1>10, <1>11 DEF Ledger!HandOut, P, N

\* What the ledger allows leaves nothing promised twice, or promises no more than before
\* and takes nothing from what is free.
LEMMA LedgerMoves ==
    ASSUME TypeOK, TypeOK', Ledger!Next, NEW m \in Materials
    PROVE  \/ Available(stock', hold', m) >= 0
           \/ /\ Available(stock', hold', m) >= Available(stock, hold, m)
              /\ Held(hold', m, Targets) <= Held(hold, m, Targets)
  <1> DEFINE P == Promises[m]
             N == Promises'[m]
             a == Total(P, Targets)
             b == Total(N, Targets)
  <1>0. hold \in HoldTable /\ hold' \in HoldTable
    BY HoldTables DEF TypeOK
  <1>1. /\ a = Held(hold, m, Targets) /\ b = Held(hold', m, Targets)
        /\ P \in [Targets -> Nat] /\ N \in [Targets -> Nat]
        /\ Ledger!Free(m) = Available(stock, hold, m)
    BY <1>0, LedgerRow
  <1>2. stock[m] \in Int /\ stock'[m] \in Int /\ a \in Nat /\ b \in Nat
    BY <1>0, <1>1, HeldType DEF TypeOK
  <1>3. /\ Available(stock, hold, m) = stock[m] - a
        /\ Available(stock', hold', m) = stock'[m] - b
    BY <1>1 DEF Available
  <1>4. ASSUME NEW r \in Targets, NEW x, N = [P EXCEPT ![r] = x]
        PROVE  b = a - P[r] + N[r]
    <2>1. /\ \A t \in Targets : P[t] \in Nat
          /\ \A t \in Targets : N[t] \in Nat
          /\ \A t \in Targets \ {r} : N[t] = P[t]
      BY <1>1, <1>4
    <2> HIDE DEF P, N
    <2> QED
      BY <2>1, TargetsFinite, TotalUpdate DEF a, b
  <1>5. CASE Ledger!Keep(m) \/ Ledger!Enter(m)
    <2>1. N = P /\ stock'[m] >= stock[m]
      BY <1>2, <1>5 DEF Ledger!Keep, Ledger!Enter
    <2> HIDE DEF P, N
    <2>2. b = a
      BY <2>1 DEF a, b
    <2> HIDE DEF a, b
    <2> QED
      BY <1>1, <1>2, <1>3, <2>1, <2>2
  <1>6. CASE Ledger!Promise(m)
    <2>1. PICK r \in Targets : /\ N[r] - P[r] <= Ledger!Free(m)
                               /\ N = [P EXCEPT ![r] = @ + (N[r] - P[r])]
                               /\ stock'[m] = stock[m]
      BY <1>6 DEF Ledger!Promise
    <2>2. b = a - P[r] + N[r] /\ P[r] \in Nat /\ N[r] \in Nat
      BY <1>1, <1>4, <2>1
    <2> HIDE DEF P, N, a, b
    <2> QED
      BY <1>1, <1>2, <1>3, <2>1, <2>2
  <1>7. CASE Ledger!Withdraw(m)
    <2>1. PICK r \in Targets : /\ P[r] - N[r] > 0
                               /\ N = [P EXCEPT ![r] = @ - (P[r] - N[r])]
                               /\ stock'[m] = stock[m]
      BY <1>7 DEF Ledger!Withdraw
    <2>2. b = a - P[r] + N[r] /\ P[r] \in Nat /\ N[r] \in Nat
      BY <1>1, <1>4, <2>1
    <2> HIDE DEF P, N, a, b
    <2> QED
      BY <1>1, <1>2, <1>3, <2>1, <2>2
  <1>8. CASE Ledger!HandOut(m)
    <2> DEFINE own == [t \in Targets |-> P[t] - N[t]]
               c == Total(own, Targets)
    <2>1. /\ \A t \in Targets : own[t] >= 0
          /\ stock[m] - stock'[m] <= Ledger!Free(m) + c
      BY <1>8, LedgerTotal DEF Ledger!HandOut
    <2>2. /\ \A t \in Targets : own[t] \in Nat
          /\ \A t \in Targets : N[t] \in Nat
          /\ \A t \in Targets : P[t] = N[t] + own[t]
      BY <1>1, <2>1
    <2> HIDE DEF own, P, N
    <2>3. Total(P, Targets) = Total(N, Targets) + Total(own, Targets)
      BY <2>2, TargetsFinite, TotalAdd
    <2>4. c \in Nat
      BY <2>2, TargetsFinite, TotalType
    <2>5. a = b + c
      BY <2>3
    <2> HIDE DEF a, b, c
    <2> QED
      BY <1>1, <1>2, <1>3, <2>1, <2>4, <2>5
  <1> QED
    BY <1>5, <1>6, <1>7, <1>8 DEF Ledger!Next

\* So every step of the ledger guards the free balance, and keeps promises covered.
LEMMA LedgerGuards ==
    ASSUME TypeOK, TypeOK', Ledger!Next
    PROVE  FreeStockKept
  BY LedgerMoves DEF FreeStockKept

LEMMA LedgerCovers ==
    ASSUME TypeOK, TypeOK', PromisesCovered, Ledger!Next
    PROVE  PromisesCovered'
  <1> SUFFICES ASSUME NEW m \in Materials
               PROVE  Held(hold', m, Targets) = 0 \/ Available(stock', hold', m) >= 0
    BY DEF PromisesCovered
  <1>1. hold \in HoldTable /\ hold' \in HoldTable
    BY HoldTables DEF TypeOK
  <1>2. /\ Held(hold, m, Targets) \in Nat /\ Held(hold', m, Targets) \in Nat
        /\ Available(stock, hold, m) \in Int /\ Available(stock', hold', m) \in Int
    BY <1>1, HeldType, AvailableType DEF TypeOK
  <1>3. Held(hold, m, Targets) = 0 \/ Available(stock, hold, m) >= 0
    BY DEF PromisesCovered
  <1> QED
    BY <1>2, <1>3, LedgerMoves

\* Goods that leave for one recipient.
LEMMA LedgerHandsOutTo ==
    ASSUME NEW m \in Materials, hold \in HoldTable, hold' \in HoldTable, stock[m] \in Int,
           NEW r \in Targets, NEW q \in Nat \ {0}, NEW k \in Nat,
           stock'[m] = stock[m] - q, q <= Available(stock, hold, m) + k,
           Held(hold', m, {r}) = Held(hold, m, {r}) - k,
           \A t \in Targets \ {r} : Held(hold', m, {t}) = Held(hold, m, {t}),
           IF r = Null THEN k <= q ELSE k = AtMost(q, Held(hold, m, {r}))
    PROVE  Ledger!HandOut(m)
  <1> DEFINE part == [t \in Targets |-> IF t = r THEN q ELSE 0]
             own == [t \in Targets |-> IF t = r THEN k ELSE 0]
  <1>1. /\ part \in [Targets -> Nat] /\ own \in [Targets -> Nat]
        /\ part[r] = q /\ own[r] = k
        /\ \A t \in Targets \ {r} : part[t] = 0 /\ own[t] = 0
    OBVIOUS
  <1>2. \A t \in Targets : Held(hold, m, {t}) \in Nat
    BY HeldType
  <1> HIDE DEF part, own
  <1>3. Total(part, Targets) = q /\ Total(own, Targets) = k
    BY <1>1, TargetsFinite, TotalPoint
  <1>4. \A t \in Targets : Held(hold', m, {t}) = Held(hold, m, {t}) - own[t]
    <2> SUFFICES ASSUME NEW t \in Targets
                 PROVE  Held(hold', m, {t}) = Held(hold, m, {t}) - own[t]
      OBVIOUS
    <2>1. CASE t = r
      BY <1>1, <2>1
    <2>2. CASE t # r
      <3>1. own[t] = 0 /\ Held(hold', m, {t}) = Held(hold, m, {t})
        BY <1>1, <2>2
      <3>2. Held(hold, m, {t}) \in Nat
        BY <1>2
      <3> QED
        BY <3>1, <3>2
    <2> QED
      BY <2>1, <2>2
  <1>5. \A t \in Targets : IF t = Null THEN own[t] <= part[t]
                           ELSE own[t] = AtMost(part[t], Held(hold, m, {t}))
    <2> SUFFICES ASSUME NEW t \in Targets
                 PROVE  IF t = Null THEN own[t] <= part[t]
                        ELSE own[t] = AtMost(part[t], Held(hold, m, {t}))
      OBVIOUS
    <2>1. CASE t = r
      BY <1>1, <2>1
    <2>2. CASE t # r
      <3>1. own[t] = 0 /\ part[t] = 0 /\ Held(hold, m, {t}) \in Nat
        BY <1>1, <1>2, <2>2
      <3> QED
        BY <3>1 DEF AtMost
    <2> QED
      BY <2>1, <2>2
  <1>6. stock'[m] = stock[m] - Total(part, Targets)
    BY <1>3
  <1>7. q <= Available(stock, hold, m) + Total(own, Targets)
    BY <1>3
  <1> QED
    BY <1>1, <1>3, <1>4, <1>5, <1>7, LedgerHandsOut

\* One hold of material m changed by nothing, or by a quantity that its target gains
\* or gives up.
LEMMA HoldMoved ==
    ASSUME hold \in HoldTable, hold' \in HoldTable, NEW h \in HoldIds,
           \A g \in HoldIds \ {h} : hold'[g] = hold[g],
           hold'[h].material = hold[h].material, hold'[h].target = hold[h].target,
           NEW m \in Materials, NEW t \in Targets
    PROVE  Held(hold', m, {t})
             = IF hold[h].material = m /\ hold[h].target = t
               THEN Held(hold, m, {t}) - Left(hold[h]) + Left(hold'[h])
               ELSE Held(hold, m, {t})
  <1>1. Held(hold', m, {t})
          = Held(hold, m, {t}) - LeftOn(hold, m, {t})[h] + LeftOn(hold', m, {t})[h]
    BY HeldMoves
  <1>2. /\ LeftOn(hold, m, {t})[h] = IF hold[h].material = m /\ hold[h].target = t
                                     THEN Left(hold[h]) ELSE 0
        /\ LeftOn(hold', m, {t})[h] = IF hold[h].material = m /\ hold[h].target = t
                                      THEN Left(hold'[h]) ELSE 0
    BY DEF LeftOn
  <1>3. Held(hold, m, {t}) \in Nat
    BY HeldType
  <1> QED
    BY <1>1, <1>2, <1>3

\* A new hold: what is held of its material for its target grows by it.
LEMMA InsertHeld ==
    ASSUME TypeOK, TypeOK', NEW u \in RequestIds, NEW h \in HoldIds, NEW m \in Materials,
           NEW t \in Targets, NEW q \in Amounts, InsertHold(u, h, m, t, q)
    PROVE  \A n \in Materials, r \in Targets :
              /\ Held(hold', n, {r}) = IF n = m /\ r = t THEN Held(hold, n, {r}) + q
                                       ELSE Held(hold, n, {r})
              /\ Held(hold, n, {r}) \in Nat
  <1>1. hold \in HoldTable /\ hold' \in HoldTable
    BY HoldTables DEF TypeOK
  <1>2. q \in Nat \ {0}
    BY SmallNumbers
  <1>3. /\ \A g \in HoldIds \ {h} : hold'[g] = hold[g]
        /\ hold'[h] = NewHold(m, t, q) /\ hold[h] = NoHold
    BY DEF InsertHold, NextHold, TypeOK, HoldsOK
  <1> SUFFICES ASSUME NEW n \in Materials, NEW r \in Targets
               PROVE  /\ Held(hold', n, {r}) = IF n = m /\ r = t THEN Held(hold, n, {r}) + q
                                               ELSE Held(hold, n, {r})
                      /\ Held(hold, n, {r}) \in Nat
    OBVIOUS
  <1>4. Held(hold', n, {r})
          = Held(hold, n, {r}) - LeftOn(hold, n, {r})[h] + LeftOn(hold', n, {r})[h]
    BY <1>1, <1>3, HeldMoves
  <1>5. LeftOn(hold, n, {r})[h] = 0
    BY <1>3 DEF LeftOn, NoHold, Left
  <1>6. LeftOn(hold', n, {r})[h] = IF n = m /\ r = t THEN q ELSE 0
    BY <1>2, <1>3, Inserted DEF LeftOn
  <1>7. Held(hold, n, {r}) \in Nat
    BY <1>1, HeldType
  <1> QED
    BY <1>2, <1>4, <1>5, <1>6, <1>7

LEMMA InsertPromises ==
    ASSUME TypeOK, TypeOK', NEW u \in RequestIds, NEW h \in HoldIds, NEW m \in Materials,
           NEW t \in Targets, NEW q \in Amounts, InsertHold(u, h, m, t, q), stock' = stock
    PROVE  Ledger!Next
  <1>1. hold \in HoldTable /\ hold' \in HoldTable
    BY HoldTables DEF TypeOK
  <1>0. \A n \in Materials, r \in Targets :
           /\ Held(hold', n, {r}) = IF n = m /\ r = t THEN Held(hold, n, {r}) + q
                                    ELSE Held(hold, n, {r})
           /\ Held(hold, n, {r}) \in Nat
    BY InsertHeld
  <1>2. q \in Nat \ {0} /\ q <= Available(stock, hold, m)
    BY SmallNumbers DEF InsertHold
  <1>3. Ledger!Promise(m)
    <2>1. Held(hold', m, {t}) = Held(hold, m, {t}) + q
      BY <1>0
    <2>2. \A r \in Targets \ {t} : Held(hold', m, {r}) = Held(hold, m, {r})
      BY <1>0
    <2>3. stock'[m] = stock[m]
      OBVIOUS
    <2> QED
      BY <1>1, <1>2, <2>1, <2>2, <2>3, LedgerPromises
  <1>4. ASSUME NEW n \in Materials, n # m
        PROVE  Ledger!Keep(n) \/ Ledger!Enter(n)
    <2>1. \A r \in Targets : Held(hold', n, {r}) = Held(hold, n, {r})
      BY <1>0, <1>4
    <2>2. stock[n] \in Int /\ stock'[n] \in Int /\ stock'[n] >= stock[n]
      BY DEF TypeOK
    <2> QED
      BY <1>1, <2>1, <2>2, LedgerKeeps
  <1> QED
    BY <1>3, <1>4 DEF Ledger!Next

\* A step of one hold of some material, as the ledger sees it, while the shelves of
\* the other materials stay as they are.
LEMMA HoldStepOnLedger ==
    ASSUME TypeOK, TypeOK', NEW h \in HoldIds,
           \A g \in HoldIds \ {h} : hold'[g] = hold[g],
           hold'[h].material = hold[h].material, hold'[h].target = hold[h].target,
           \A n \in Materials \ {hold[h].material} : stock'[n] = stock[n],
           \A m \in Materials :
              m = hold[h].material =>
                 \/ Ledger!Keep(m) \/ Ledger!Enter(m) \/ Ledger!Promise(m)
                 \/ Ledger!Withdraw(m) \/ Ledger!HandOut(m)
    PROVE  Ledger!Next
  <1>1. hold \in HoldTable /\ hold' \in HoldTable
    BY HoldTables DEF TypeOK
  <1>2. ASSUME NEW n \in Materials, n # hold[h].material
        PROVE  Ledger!Keep(n) \/ Ledger!Enter(n)
    <2>1. \A r \in Targets : Held(hold', n, {r}) = Held(hold, n, {r})
      BY <1>1, <1>2, HoldMoved
    <2>2. stock[n] \in Int /\ stock'[n] \in Int /\ stock'[n] >= stock[n]
      BY <1>2 DEF TypeOK
    <2> QED
      BY <1>1, <2>1, <2>2, LedgerKeeps
  <1> QED
    BY <1>2 DEF Ledger!Next

LEMMA ReleaseWithdraws ==
    ASSUME TypeOK, TypeOK', NEW u \in RequestIds, NEW h \in HoldIds,
           NEW seen \in 1 .. MaxVersion, NEW q \in Amounts, Release(u, h, seen, q)
    PROVE  Ledger!Next
  <1> DEFINE m == hold[h].material
             t == hold[h].target
  <1>1. hold \in HoldTable /\ hold' \in HoldTable
    BY HoldTables DEF TypeOK
  <1>2. /\ q \in Nat \ {0} /\ \A g \in HoldIds \ {h} : hold'[g] = hold[g]
        /\ hold'[h].material = m /\ hold'[h].target = t
        /\ Left(hold'[h]) = Left(hold[h]) - q /\ stock' = stock
    <2>1. stock' = stock
      BY DEF Release
    <2>2. q \in Nat \ {0}
      BY SmallNumbers
    <2>3. /\ \A g \in HoldIds \ {h} : hold'[g] = hold[g]
          /\ hold'[h].material = m /\ hold'[h].target = t
          /\ Left(hold'[h]) = Left(hold[h]) - q
      BY ReleaseRow
    <2> QED
      BY <2>1, <2>2, <2>3
  <1>3. m \in Materials /\ t \in Targets /\ Left(hold[h]) \in Nat
    BY <1>1 DEF Release, MayChange, TypeOK, HoldsOK, HoldTable, HoldRow, Left
  <1>4. Ledger!Withdraw(m)
    <2>1. Held(hold', m, {t}) = Held(hold, m, {t}) - q
      <3>1. Held(hold', m, {t}) = Held(hold, m, {t}) - Left(hold[h]) + Left(hold'[h])
        BY <1>1, <1>2, <1>3, HoldMoved
      <3>2. Held(hold, m, {t}) \in Nat
        BY <1>1, HeldType
      <3> QED
        BY <1>2, <1>3, <3>1, <3>2
    <2>2. \A r \in Targets \ {t} : Held(hold', m, {r}) = Held(hold, m, {r})
      BY <1>1, <1>2, <1>3, HoldMoved
    <2>3. stock'[m] = stock[m]
      BY <1>2
    <2> HIDE DEF m, t
    <2> QED
      BY <1>1, <1>2, <1>3, <2>1, <2>2, <2>3, LedgerWithdraws
  <1> QED
    BY <1>2, <1>4, HoldStepOnLedger

\* Goods issued by a hold without a recipient on file: the part they take out of the
\* hold is all of them, so what is promised must be on the shelf.
LEMMA IssueHandsOut ==
    ASSUME TypeOK, TypeOK', PromisesCovered, NEW u \in RequestIds, NEW h \in HoldIds,
           NEW seen \in 1 .. MaxVersion, NEW q \in Amounts, Issue(u, h, seen, q)
    PROVE  Ledger!Next
  <1> DEFINE m == hold[h].material
             t == hold[h].target
  <1>1. hold \in HoldTable /\ hold' \in HoldTable
    BY HoldTables DEF TypeOK
  <1>2. /\ q \in Nat \ {0} /\ \A g \in HoldIds \ {h} : hold'[g] = hold[g]
        /\ hold'[h].material = m /\ hold'[h].target = t
        /\ Left(hold'[h]) = Left(hold[h]) - q /\ stock' = [stock EXCEPT ![m] = @ - q]
    <2>1. stock' = [stock EXCEPT ![m] = @ - q]
      BY DEF Issue
    <2>2. q \in Nat \ {0}
      BY SmallNumbers
    <2>3. /\ \A g \in HoldIds \ {h} : hold'[g] = hold[g]
          /\ hold'[h].material = m /\ hold'[h].target = t
          /\ Left(hold'[h]) = Left(hold[h]) - q
      BY IssueRow
    <2> QED
      BY <2>1, <2>2, <2>3
  <1>3. m \in Materials /\ t \in Targets /\ Left(hold[h]) \in Nat /\ t = Null
        /\ q <= Left(hold[h])
    BY <1>1 DEF Issue, MayChange, TypeOK, HoldsOK, HoldTable, HoldRow, Left
  <1>4. /\ stock[m] \in Int /\ stock'[m] = stock[m] - q
        /\ \A n \in Materials \ {m} : stock'[n] = stock[n]
    <2>1. stock \in [Materials -> Int]
      BY DEF TypeOK
    <2> HIDE DEF m
    <2> QED
      BY <1>2, <1>3, <2>1
  <1>5. Held(hold, m, Targets) >= Left(hold[h])
    <2> DEFINE f == LeftOn(hold, m, Targets)
    <2>1. \A g \in HoldIds : f[g] \in Nat
      BY <1>1, HeldType
    <2>2. f[h] = Left(hold[h])
      BY <1>3 DEF LeftOn
    <2> HIDE DEF f
    <2>3. /\ Total(f, HoldIds) = Total(f, HoldIds \ {h}) + f[h]
          /\ Total(f, HoldIds \ {h}) \in Nat
      BY <2>1, SmallNumbers, TotalSplit
    <2>4. Total(f, HoldIds) >= f[h]
      BY <1>3, <2>2, <2>3
    <2> QED
      BY <2>2, <2>4 DEF Held, f
  <1>6. Available(stock, hold, m) >= 0 /\ Available(stock, hold, m) \in Int
    <2>1. Held(hold, m, Targets) \in Nat /\ Held(hold, m, Targets) # 0
      BY <1>1, <1>2, <1>3, <1>5, HeldType
    <2>2. Available(stock, hold, m) = stock[m] - Held(hold, m, Targets)
      BY DEF Available
    <2> QED
      BY <1>3, <1>4, <2>1, <2>2 DEF PromisesCovered
  <1>7. Ledger!HandOut(m)
    <2>1. Held(hold', m, {t}) = Held(hold, m, {t}) - q
      <3>1. Held(hold', m, {t}) = Held(hold, m, {t}) - Left(hold[h]) + Left(hold'[h])
        BY <1>1, <1>2, <1>3, HoldMoved
      <3>2. Held(hold, m, {t}) \in Nat
        BY <1>1, HeldType
      <3> QED
        BY <1>2, <1>3, <3>1, <3>2
    <2>2. \A r \in Targets \ {t} : Held(hold', m, {r}) = Held(hold, m, {r})
      BY <1>1, <1>2, <1>3, HoldMoved
    <2>3. q <= Available(stock, hold, m) + q /\ q <= q
      BY <1>2, <1>6
    <2>4. q \in Nat
      BY <1>2
    <2> HIDE DEF m, t
    <2> QED
      BY <1>1, <1>2, <1>3, <1>4, <2>1, <2>2, <2>3, <2>4, LedgerHandsOutTo
  <1> QED
    BY <1>2, <1>4, <1>7, HoldStepOnLedger

LEMMA NobodysHolds ==
    ASSUME NEW hd, NEW m
    PROVE  Held(hd, m, {}) = 0
  <1>1. \A h \in HoldIds : LeftOn(hd, m, {})[h] = 0
    BY DEF LeftOn
  <1> QED
    BY <1>1, TotalZero DEF Held

LEMMA DocumentOnLedger ==
    ASSUME TypeOK, TypeOK', NEW q \in Documents, Receive(q) \/ WriteOff(q)
    PROVE  Ledger!Next
  <1>1. hold \in HoldTable /\ hold' \in HoldTable /\ hold' = hold
    BY HoldTables DEF TypeOK, Receive, WriteOff
  <1>2. ASSUME NEW m \in Materials
        PROVE  Ledger!Keep(m) \/ Ledger!Enter(m) \/ Ledger!HandOut(m)
    <2>1. \A t \in Targets : /\ Held(hold', m, {t}) = Held(hold, m, {t})
                             /\ Held(hold, m, {t}) \in Nat
      BY <1>1, HeldType
    <2>2. stock[m] \in Int /\ stock'[m] \in Int /\ (m \in DOMAIN q => q[m] \in Nat \ {0})
      BY SmallNumbers DEF TypeOK
    <2>3. CASE WriteOff(q) /\ m \in DOMAIN q
      <3>1. stock'[m] = stock[m] - q[m] /\ q[m] \in Nat \ {0}
        BY <2>2, <2>3 DEF WriteOff, Added
      <3>2. q[m] <= Available(stock, hold, m)
        <4>1. q[m] <= Available(stock, hold, m) + 0
          BY <2>3, NobodysHolds DEF WriteOff, EnoughFor
        <4>2. Available(stock, hold, m) \in Int
          BY <1>1, AvailableType DEF TypeOK
        <4> QED
          BY <4>1, <4>2, <3>1
      <3> DEFINE x == q[m]
      <3>3. /\ Null \in Targets /\ 0 \in Nat /\ x \in Nat \ {0} /\ 0 <= x
            /\ x <= Available(stock, hold, m) + 0
            /\ Held(hold', m, {Null}) = Held(hold, m, {Null}) - 0
            /\ \A t \in Targets \ {Null} : Held(hold', m, {t}) = Held(hold, m, {t})
        <4>1. Null \in Targets
          BY DEF Targets
        <4>2. Available(stock, hold, m) \in Int
          BY <1>1, AvailableType DEF TypeOK
        <4> QED
          BY <2>1, <3>1, <3>2, <4>1, <4>2
      <3>4. stock'[m] = stock[m] - x
        BY <3>1
      <3> HIDE DEF x
      <3> QED
        BY <1>1, <2>2, <3>3, <3>4, LedgerHandsOutTo
    <2>4. CASE ~(WriteOff(q) /\ m \in DOMAIN q)
      <3>1. stock'[m] >= stock[m]
        BY <2>2, <2>4 DEF Receive, WriteOff, Added
      <3> QED
        BY <1>1, <2>1, <2>2, <3>1, LedgerKeeps
    <2> QED
      BY <2>3, <2>4
  <1> QED
    BY <1>2 DEF Ledger!Next

\* Goods for a house: from its own holds first, past them only what is free.  When
\* they all come out of its holds, what is promised must be on the shelf.
LEMMA HouseIssueHandsOut ==
    ASSUME TypeOK, TypeOK', PromisesCovered, NEW p \in Houses, NEW q \in Documents,
           EnoughFor(q, {p}), stock' = Added(stock, q, -1), ConsumeHolds(p, q)
    PROVE  Ledger!Next
  <1>1. hold \in HoldTable /\ hold' \in HoldTable
    BY HoldTables DEF TypeOK
  <1>2. p \in Targets /\ p # Null
    BY TablesAssumption DEF Targets
  <1>3. ASSUME NEW m \in Materials
        PROVE  Ledger!Keep(m) \/ Ledger!Enter(m) \/ Ledger!HandOut(m)
    <2>1. \A t \in Targets \ {p} : Held(hold', m, {t}) = Held(hold, m, {t})
      BY ConsumeOthers
    <2>2. stock[m] \in Int /\ stock'[m] \in Int /\ (m \in DOMAIN q => q[m] \in Nat \ {0})
      BY SmallNumbers DEF TypeOK
    <2>3. CASE m \notin DOMAIN q
      <3>1. Held(hold', m, {p}) = Held(hold, m, {p}) /\ stock'[m] = stock[m]
        BY ZenonT(30), <1>1, <2>3, ConsumeHeld DEF Added, TypeOK
      <3>2. \A t \in Targets : Held(hold', m, {t}) = Held(hold, m, {t})
        BY <2>1, <3>1
      <3>3. stock'[m] >= stock[m]
        BY <2>2, <3>1
      <3> QED
        BY <1>1, <2>2, <3>2, <3>3, LedgerKeeps
    <2>4. CASE m \in DOMAIN q
      <3> DEFINE x == q[m]
                 own == Held(hold, m, {p})
                 k == AtMost(x, own)
                 free == Available(stock, hold, m)
      <3>1. stock'[m] = stock[m] - x /\ x \in Nat \ {0} /\ x <= free + own
        <4>1. x \in Nat \ {0} /\ x <= free + own
          BY <2>2, <2>4 DEF EnoughFor
        <4>2. stock'[m] = stock[m] + (-1) * q[m]
          BY <2>4 DEF Added
        <4> QED
          BY <2>2, <2>4, <4>1, <4>2
      <3>2. own \in Nat /\ free \in Int
        BY <1>1, HeldType, AvailableType DEF TypeOK
      <3>3. Held(hold', m, {p}) = AtLeast(0, own - x)
        BY <1>1, <2>4, ConsumeHeld
      <3>4. own > 0 => free >= 0
        <4>1. /\ Held(hold, m, Targets) = own + Held(hold, m, Targets \ {p})
              /\ Held(hold, m, Targets \ {p}) \in Nat
          BY <1>1, <1>2, HeldSplit, HeldType
        <4>2. own > 0 => Held(hold, m, Targets) # 0
          BY <3>2, <4>1
        <4> QED
          BY <4>2 DEF PromisesCovered
      <3> HIDE DEF x, own, free
      <3>5. /\ k \in Nat /\ x <= free + k
            /\ Held(hold', m, {p}) = own - k
        BY <3>1, <3>2, <3>3, <3>4 DEF AtMost, AtLeast
      <3>6. k = AtMost(x, own)
        OBVIOUS
      <3> HIDE DEF k
      <3>7. /\ stock[m] \in Int /\ x \in Nat \ {0} /\ k \in Nat /\ stock'[m] = stock[m] - x
            /\ x <= Available(stock, hold, m) + k
            /\ Held(hold', m, {p}) = Held(hold, m, {p}) - k
            /\ k = AtMost(x, Held(hold, m, {p}))
        BY <2>2, <3>1, <3>5, <3>6 DEF own, free
      <3> QED
        BY <1>1, <1>2, <2>1, <3>7, LedgerHandsOutTo
    <2> QED
      BY <2>3, <2>4
  <1> QED
    BY <1>3 DEF Ledger!Next

LEMMA StillOnLedger ==
    ASSUME TypeOK, TypeOK', UNCHANGED <<stock, hold>>
    PROVE  Ledger!Next
  <1>1. hold \in HoldTable /\ hold' \in HoldTable
    BY HoldTables DEF TypeOK
  <1>2. ASSUME NEW m \in Materials
        PROVE  Ledger!Keep(m) \/ Ledger!Enter(m)
    <2>1. \A t \in Targets : Held(hold', m, {t}) = Held(hold, m, {t})
      OBVIOUS
    <2>2. stock[m] \in Int /\ stock'[m] \in Int /\ stock'[m] >= stock[m]
      BY DEF TypeOK
    <2> QED
      BY <1>1, <2>1, <2>2, LedgerKeeps
  <1> QED
    BY <1>2 DEF Ledger!Next

LEMMA ArchiveOnLedger ==
    ASSUME TypeOK, TypeOK', NEW h \in HoldIds, NEW seen \in 1 .. MaxVersion,
           NEW flag \in BOOLEAN, Archive(h, seen, flag)
    PROVE  Ledger!Next
  <1>1. hold \in HoldTable /\ hold' \in HoldTable
    BY HoldTables DEF TypeOK
  <1>2. /\ \A g \in HoldIds \ {h} : hold'[g] = hold[g]
        /\ hold'[h].material = hold[h].material /\ hold'[h].target = hold[h].target
        /\ Left(hold'[h]) = Left(hold[h])
    BY ArchiveRow
  <1>3. stock' = stock
    BY DEF Archive
  <1>4. Left(hold[h]) \in Int
    BY <1>1 DEF HoldTable, HoldRow, Left
  <1>5. ASSUME NEW m \in Materials
        PROVE  Ledger!Keep(m) \/ Ledger!Enter(m)
    <2>1. ASSUME NEW t \in Targets
          PROVE  Held(hold', m, {t}) = Held(hold, m, {t})
      <3>1. Held(hold', m, {t})
              = IF hold[h].material = m /\ hold[h].target = t
                THEN Held(hold, m, {t}) - Left(hold[h]) + Left(hold'[h])
                ELSE Held(hold, m, {t})
        BY <1>1, <1>2, HoldMoved
      <3>2. Held(hold, m, {t}) \in Nat
        BY <1>1, HeldType
      <3> QED
        BY <1>2, <1>4, <3>1, <3>2
    <2>2. stock[m] \in Int /\ stock'[m] \in Int /\ stock'[m] >= stock[m]
      BY <1>3 DEF TypeOK
    <2>3. \A t \in Targets : Held(hold', m, {t}) = Held(hold, m, {t})
      BY <2>1
    <2> QED
      BY <1>1, <2>2, <2>3, LedgerKeeps
  <1> QED
    BY <1>5 DEF Ledger!Next

\* Every handler is one step of the ledger.
LEMMA StepOnLedger ==
    ASSUME TypeOK, TypeOK', PromisesCovered, [Next]_vars
    PROVE  Ledger!Next
  <1>1. ASSUME NEW u \in RequestIds, NEW h \in HoldIds, NEW m \in Materials,
               NEW q \in Amounts,
               \/ ReserveForPurpose(u, h, m, q)
               \/ \E p \in Houses : ReserveForHouse(u, h, m, p, q)
        PROVE  Ledger!Next
    BY <1>1, InsertPromises DEF ReserveForPurpose, ReserveForHouse, Targets
  <1>2. CASE HoldStep
    BY <1>1, <1>2, ReleaseWithdraws, IssueHandsOut, ArchiveOnLedger DEF HoldStep
  <1>3. ASSUME NEW q \in Documents, NEW p \in Houses, IssueByTechcard(p, q)
        PROVE  Ledger!Next
    BY <1>3, HouseIssueHandsOut DEF IssueByTechcard
  <1>4. CASE DocumentStep
    BY <1>3, <1>4, DocumentOnLedger DEF DocumentStep
  <1>5. ASSUME NEW r \in MaterialRequests, NEW s \in MaterialRequests, NEW q \in Amounts,
               ApproveRequest(r, s, q)
        PROVE  Ledger!Next
    <2> DEFINE b == request[r].block
               issue == [x \in {MaterialOf[b]} |-> q]
    <2>1. issue \in Documents /\ HouseOf[b] \in Houses
      BY <1>5, ApprovedDocument
    <2>2. /\ EnoughFor(issue, {HouseOf[b]}) /\ stock' = Added(stock, issue, -1)
          /\ ConsumeHolds(HouseOf[b], issue)
      BY <1>5 DEF ApproveRequest
    <2> HIDE DEF issue, b
    <2> QED
      BY <2>1, <2>2, HouseIssueHandsOut
  <1>6. CASE HouseStep
    BY <1>5, <1>6, StillOnLedger, LateLeaves
    DEF HouseStep, RequestMaterial, RejectRequest, UpdateRequired, SubmitsShortageTask
  <1>7. CASE UNCHANGED vars
    BY <1>7, StillOnLedger DEF vars
  <1> QED
    BY <1>2, <1>4, <1>6, <1>7 DEF Next

LEMMA InitOnLedger ==
    ASSUME Init
    PROVE  Ledger!Init /\ PromisesCovered
  <1>1. ASSUME NEW m, NEW T
        PROVE  Held(hold, m, T) = 0
    <2>1. \A h \in HoldIds : LeftOn(hold, m, T)[h] = 0
      BY DEF Init, LeftOn, NoHold, Left
    <2> QED
      BY <2>1, TotalZero DEF Held
  <1>2. Promises = [m \in Materials |-> [t \in Targets |-> 0]]
    BY <1>1 DEF Promises
  <1>3. stock \in [Materials -> Int]
    BY QuantitiesAssumption DEF Init
  <1> QED
    BY <1>1, <1>2, <1>3 DEF Ledger!Init, PromisesCovered

\* The warehouse implements the ledger of promises: every handler promises, withdraws,
\* hands out or lets in as the ledger allows, whatever the tables hold.
THEOREM LedgerImplemented == Spec => ImplementsLedger
  <1>1. Init => IInv /\ PromisesCovered /\ Ledger!Init
    BY InitInv, InitOnLedger
  <1>2. IInv /\ IInv' /\ PromisesCovered /\ [Next]_vars => PromisesCovered' /\ Ledger!Next
    BY StepOnLedger, LedgerCovers DEF IInv
  <1>3. Spec => [](IInv /\ PromisesCovered)
    BY <1>1, <1>2, StepInv, PTL DEF Spec
  <1> QED
    BY <1>1, <1>2, <1>3, PTL DEF Spec, ImplementsLedger, Ledger!Spec
=============================================================================
