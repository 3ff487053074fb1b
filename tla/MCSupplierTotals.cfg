\* A refund that is posted.
CONSTANTS
    m1 = m1
    l1 = l1
    Materials = {m1}
    Houses = {}
    SalesLines = {}
    Null = Null
    BlockMaterials <- NoRows
    HouseOf <- Empty
    MaterialOf <- Empty
    InitialRequired <- Empty
    InitialStock <- MCInitialStock
    Threshold <- MCThreshold
    RequestIds = {}
    MaxHolds = 0
    MaxRequests = 0
    MaxQuantity = 0
    MaxStock = 2
    Storekeepers = {}
    MaxLate = 0
    MaxNorm = 0
    MaxVersion = 1
    SupplierOrders = {o1}
    Positions = {l1}
    GoodAt <- MCGoodAt
    Receipts = {r1}
    Returns = {t1}
    Movements = {k1, k2}
    Prices = {1}
    MaxOrdered = 2
    MaxAmount = 2
    MaxOrderVersion = 4
    MaxReturnVersion = 2
    MaxDue = 1
SYMMETRY Symmetry
SPECIFICATION PurchasingSpec
INVARIANTS SupplierPaidAgrees
CHECK_DEADLOCK FALSE
