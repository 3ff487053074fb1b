\* The path of a client; the blocks of a house; the autonomy of an agent; notices of
\* deadlines; the messenger; a meeting; the staff; kept answers.
CONSTANTS
    Parts = {"path", "blocks", "agents", "notices", "messenger", "meetings", "staff", "answers"}
    Managers = {m1, m2}
    Loop = loop
    MaxTasks = 4
    HousesCounts = {1}
    MaxActs = 3
    MaxStops = 1
    Starts = {"approval", "payment", "postpayment"}
    PaymentPlans = {"full_prepayment", "post_payment"}
    b1 = b1
    b2 = b2
    Blocks = {b1, b2}
    Desks = {d1, d2}
    MaxChanges = 2
    stalled = stalled
    s1 = s1
    Keys = {stalled}
    Scenarios = {s1}
    ScenarioOf <- MCScenarioOf
    Says <- MCSays
    External = {}
    Messages = {}
    Escalating = {stalled}
    Runs = {loop}
    Daemon = loop
    MaxCards = 2
    REPEAT_LIMIT = 1
    MAX_OPEN_PROPOSALS = 2
    MAX_NEW_CARDS_PER_SCENARIO = 1
    Faults = 1
    Unset = Unset
    Duties = {d1}
    Owners = {u1}
    Devices = {e1}
    MaxTouches = 2
    Chats = {c1}
    LinkedChats = {c1}
    Tabs = {w1}
    Senders = {k1}
    QueueSize = 1
    MaxDeltas = 2
    MaxRepeats = 1
    MaxDrops = 1
    Browsers = {w1, w2}
    NEW_LINES_THRESHOLD = 2
    MaxLines = 3
    MaxUses = 4
    Colleagues = {ann, bob, w1}
    Founder = ann
    Sections = {x1}
    MaxAccountChanges = 3
    Chores = {x1, x2}
    Visits = {u1, u2}
    MaxPriorities = 1
    MaxHour = 6
    MaxNews = 1
    MaxVisits = 2
SPECIFICATION SessionsSpec
INVARIANTS HousesAgree  NewsIsPassedOn AdminRemains AnswersStandOnFacts
PROPERTIES NotesNeverGoBack EventuallyMended
CHECK_DEADLOCK FALSE
