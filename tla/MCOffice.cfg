\* Tasks; messages and shifts of agents; sales, clients' cards and the records of the former
\* CRM; payments, statements and salaries; plans of stages; content; price lists, cards and
\* recipes of the warehouse, and its former sales; the board of directors; feedback.
CONSTANTS
    Parts = {"tasks", "outbox", "shifts", "crm", "card", "payments", "plan", "content",
             "prices", "materials", "statements", "history", "records", "recipes", "salaries",
             "board", "feedback"}
    ann = ann
    bob = bob
    t1 = t1
    t2 = t2
    t3 = t3
    None = None
    r1 = r1
    r2 = r2
    Tasks = {t1, t2, t3}
    BlockTasks = {t1}
    LinkedTasks = {t2}
    Planned = {t1, t2}
    People = {ann, bob}
    MayClaim <- MCMayClaim
    Teams <- MCTeams
    Requests = {r1, r2}
    MaxEdits = 1
    Proposals = {p1}
    Admins = {d1, d2}
    MaxSends = 2
    lawyer = lawyer
    finance = finance
    sales1 = sales1
    Roles = {lawyer, finance, sales1}
    Lawyer = lawyer
    CROSS_REVIEWERS <- MCReviewers
    Questions <- MCQuestions
    Administrators = {ann}
    MaxShifts = 1
    Sellers = {s1, s2}
    MaxSteps = 2
    MaxDeeds = 4
    Staff = {ann, bob}
    Editors = {e1, e2}
    Cards = {c1, c2}
    Partners = {n1}
    MaxFiles = 2
    MaxCardEdits = 4
    Clerks = {k1, k2}
    Employees = {m1}
    Accounts = {a1}
    Parties = {y1}
    Lines = {l1}
    RequestIds = {u1}
    NoOne = NoOne
    MaxPayments = 2
    MaxRequests = 3
    MaxStops = 1
    Stages = {1, 2, 3}
    MaxTemplates = 1
    Engineers = {g1, g2}
    MaxHouses = 1
    MaxPlans = 4
    ContentEditors = {e1, e2}
    Platforms = {p1}
    MaxMoves = 3
    MaxDeaths = 1
    Columns <- MCColumns
    MaxQty = 5
    Fillers = {f1}
    MaxItems = 2
    MaxPriceEdits = 3
    Codes = {c1, c2}
    Known = {c1}
    Desks = {d1, d2}
    MaxTurns = 5
    Layouts <- MCLayouts
    BankLines <- MCBankLines
    MAX_DATA_ROWS = 2
    MaxRows = 2
    MaxUploads = 2
    Orders = {o1}
    Demands = {d1}
    Storekeepers = {k1, k2}
    Ordered = 2
    MaxHolds = 2
    MaxWorks = 6
    Leads = {l1}
    Pipelines = {p1, p2}
    LeadStages = {s1}
    Managers = {u1, u2}
    NoStage = nostage
    MaxWrites = 4
    log = log
    glue = glue
    beam = beam
    shop = shop
    yard = yard
    kit = kit
    Materials = {log, glue, beam}
    Home <- MCHome
    LinkedTo <- MCLinkedTo
    Contents <- MCContents
    Makers = {k1, k2}
    RunIds = {u1, u2}
    OpeningStock = 2
    MaxVersion = 2
    MaxElsewhere = 1
    MaxTries = 2
    w1 = w1
    w2 = w2
    w3 = w3
    Payroll <- MCPayroll
    Jobs = {w1}
    Assigned <- MCAssigned
    Carried = {w1}
    Looks = {u1, u2}
    MonthLength = 1
    MaxDay = 1
    MaxJobChanges = 2
    MaxLooks = 2
    Root = root
    Directions = {d1, d2}
    Founding = {d1, d2}
    DIRECTION_MIN = 1
    DIRECTION_MAX = 2
    Directors = {u1, u2}
    MaxTexts = 2
    MaxSittings = 3
    MaxRounds = 2
    Readers = {u1, u2, u3}
    Authors = {u1}
    MaxEvents = 2
SYMMETRY Symmetry
SPECIFICATION OfficeSpec
INVARIANTS StagesLogged AgentsReportTruly ClientRecordsAgree  StockBooksAgree PlansAreWhole MovesAreWhole RowsQuoteTheirColumns NothingIsInvented HistoriesAreWhole
PROPERTIES CloserWakes ReadyWhenDone BlockTasksReviewed
CHECK_DEADLOCK FALSE
