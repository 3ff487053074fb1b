\* Two requests at the same time on a board that nobody edits.
CONSTANTS
    ann = ann
    bob = bob
    t1 = t1
    t2 = t2
    t3 = t3
    None = None
    r1 = r1
    r2 = r2
    Tasks = {t1, t2, t3}
    BlockTasks = {t1}
    LinkedTasks = {t2}
    Planned = {t1, t2}
    People = {ann, bob}
    MayClaim <- MCMayClaim
    Teams <- MCTeams
    Requests = {r1, r2}
    MaxEdits = 0
SPECIFICATION TasksSpec
INVARIANTS WaitsForSomething
CHECK_DEADLOCK FALSE
