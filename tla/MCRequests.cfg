\* Any two handlers at the same time; a chat; two callers of a remote tool; two talks;
\* two runs of the agent that cross.
CONSTANTS
    Parts = {"locks", "chat", "remote", "transcript", "agents"}
    r1 = r1
    r2 = r2
    h1 = h1
    h2 = h2
    Null = Null
    Requests = {r1, r2}
    Materials = {1, 2}
    Houses = {h1, h2}
    Norms = {1, 2, 3}
    NormHouse <- MCNormHouse
    NormMaterial <- MCNormMaterial
    Holds = {1, 2, 3}
    HoldMaterial <- MCHoldMaterial
    HoldHouse <- MCHoldHouse
    HoldOrder <- MCHoldOrder
    SalesOrders = {1}
    OrderMaterials <- MCOrderMaterials
    Documents = {1}
    Purchases = {1, 2, 3}
    Goods <- MCGoods
    Ordered = {1, 2}
    Turns = {q1, q2}
    Reading = {read}
    Flushing = {write}
    Committing = {move}
    MaxMessages = 2
    MaxAsks = 3
    MaxChatStops = 1
    Callers = {k1, k2}
    GuardsAll = TRUE
    MaxRestarts = 1
    MaxLosses = 1
    Talks = {u1, u2}
    MAX_ITERATIONS = 2
    MaxSaid = 2
    MaxAnswers = 3
    MaxBreaks = 1
    stalled = stalled
    s1 = s1
    Keys = {stalled}
    Scenarios = {s1}
    ScenarioOf <- MCScenarioOf
    Says <- MCSays
    External = {}
    Messages = {}
    Escalating = {stalled}
    Runs = {loop, other}
    Daemon = loop
    MaxCards = 2
    REPEAT_LIMIT = 1
    MAX_OPEN_PROPOSALS = 2
    MAX_NEW_CARDS_PER_SCENARIO = 1
    Faults = 1
    Unset = Unset
SPECIFICATION RequestsSpec
INVARIANTS DeadlocksOverCachesOrUpgrades DecisionsAreKept ToolCallsAreKept CardsMatchFindings
PROPERTIES  RequestsEnd
CHECK_DEADLOCK FALSE
