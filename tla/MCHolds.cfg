\* A hold from its creation to its archive and back, and the decisions on requests that
\* announce themselves, two at once: one house, two client requests.
CONSTANTS
    m1 = m1
    h1 = h1
    h2 = h2
    Materials = {m1}
    Houses = {h1}
    SalesLines = {}
    Null = Null
    BlockMaterials <- OneNorm
    HouseOf <- OneHouseOf
    MaterialOf <- OneMaterialOf
    InitialRequired <- OneRequired
    InitialStock <- MCInitialStock
    Threshold <- MCThreshold
    RequestIds = {u1, u2}
    MaxHolds = 2
    MaxRequests = 2
    MaxQuantity = 2
    MaxStock = 2
    Storekeepers = {k1}
    MaxLate = 2
    MaxNorm = 2
    MaxVersion = 5
SYMMETRY Symmetry
SPECIFICATION Spec
PROPERTIES HoldsAreRecorded 
CHECK_DEADLOCK FALSE
