\* A second snapshot arrives after local operations moved the goods.
CONSTANTS
    m1 = m1
    m2 = m2
    w1 = w1
    w2 = w2
    Materials = {m1, m2}
    Houses = {}
    SalesLines = {}
    Null = Null
    BlockMaterials <- NoRows
    HouseOf <- Empty
    MaterialOf <- Empty
    InitialRequired <- Empty
    InitialStock <- MCInitialStock
    Threshold <- MCThreshold
    RequestIds = {u1}
    MaxHolds = 1
    MaxRequests = 0
    MaxQuantity = 1
    MaxStock = 1
    Storekeepers = {}
    MaxLate = 0
    MaxNorm = 0
    MaxVersion = 2
    Warehouses = {w1, w2}
    WarehouseOf <- MCWarehouseOf
    ProductOf <- MCProductOf
    ImportedBalances <- MCImportedBalances
    MaxDocuments = 2
    MaxCount = 1
    MaxMoves = 2
    MaxDocumentVersion = 3
SPECIFICATION MigrationSpec
PROPERTIES LocalBalancesStay
CHECK_DEADLOCK FALSE
