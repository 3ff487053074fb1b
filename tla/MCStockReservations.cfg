\* Two houses that need one material, two holds, two client requests.
CONSTANTS
    m1 = m1
    h1 = h1
    h2 = h2
    Materials = {m1}
    Houses = {h1, h2}
    SalesLines = {}
    Null = Null
    BlockMaterials <- MCBlockMaterials
    HouseOf <- MCHouseOf
    MaterialOf <- MCMaterialOf
    InitialRequired <- MCInitialRequired
    InitialStock <- MCInitialStock
    Threshold <- MCThreshold
    RequestIds = {u1, u2}
    MaxHolds = 2
    MaxRequests = 2
    MaxQuantity = 2
    MaxStock = 2
    Storekeepers = {}
    MaxLate = 0
    MaxNorm = 2
    MaxVersion = 2
SYMMETRY Symmetry
SPECIFICATION Spec
INVARIANTS RequestedAgrees
PROPERTIES FreeStockGuarded HoldsFollowNorms ImplementsLedger
CHECK_DEADLOCK FALSE
