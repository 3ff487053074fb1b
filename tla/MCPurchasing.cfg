\* An order of goods and a service, two receipts, two returns, one hold, no money.
CONSTANTS
    m1 = m1
    Materials = {m1}
    Houses = {}
    SalesLines = {}
    Null = Null
    BlockMaterials <- NoRows
    HouseOf <- Empty
    MaterialOf <- Empty
    InitialRequired <- Empty
    InitialStock <- MCInitialStock
    Threshold <- MCThreshold
    RequestIds = {u1}
    MaxHolds = 1
    MaxRequests = 0
    MaxQuantity = 1
    MaxStock = 2
    Storekeepers = {}
    MaxLate = 0
    MaxNorm = 0
    MaxVersion = 2
    SupplierOrders = {o1}
    Positions = {l1, l2}
    l1 = l1
    GoodAt <- MCGoodAt
    Receipts = {r1, r2}
    Returns = {t1, t2}
    Movements = {}
    Prices = {1, 2}
    MaxOrdered = 1
    MaxAmount = 2
    MaxOrderVersion = 5
    MaxReturnVersion = 2
    MaxDue = 1
SYMMETRY Symmetry
SPECIFICATION PurchasingSpec
PROPERTIES GoodsAgree
CHECK_DEADLOCK FALSE
