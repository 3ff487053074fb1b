\* An order of two lines, two shipments, two holds.
CONSTANTS
    m1 = m1
    o1 = o1
    l1 = l1
    l2 = l2
    Materials = {m1}
    Houses = {}
    SalesLines = {l1, l2}
    Null = Null
    BlockMaterials <- NoRows
    HouseOf <- Empty
    MaterialOf <- Empty
    InitialRequired <- Empty
    InitialStock <- MCInitialStock
    Threshold <- MCThreshold
    RequestIds = {u1, u2}
    MaxHolds = 2
    MaxRequests = 0
    MaxQuantity = 2
    MaxStock = 2
    Storekeepers = {}
    MaxLate = 0
    MaxNorm = 0
    MaxVersion = 2
    Orders = {o1}
    OrderOf <- MCOrderOf
    LineMaterial <- MCLineMaterial
    MaxShipments = 2
    MaxOrdered = 2
    MaxOrderVersion = 4
SYMMETRY Symmetry
SPECIFICATION SalesSpec
INVARIANTS OrdersAgree
PROPERTIES OrdersKeepPromises SalesImplementLedger
CHECK_DEADLOCK FALSE
