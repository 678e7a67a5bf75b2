\* Two documents in one of two workspaces, two users, two questions, a worker that runs twice.
SPECIFICATION QuerySpec
CONSTANTS
    d1 = d1
    d2 = d2
    u1 = u1
    u2 = u2
    ws1 = ws1
    ws2 = ws2
    Docs = {d1, d2}
    Workers = {w1}
    Requests = {}
    Layouts <- OnePage
    MaxJobs = 2
    MaxRuns = 2
    CrashAllowed = FALSE
    NoDoc = NoDoc
    Users = {u1, u2}
    Workspaces = {ws1, ws2}
    WorkspaceOf <- OneWorkspace
    Members <- Everybody
    Askers = {a1}
    TopK = 2
    MaxAsks = 2
SYMMETRY DocSymmetry
INVARIANTS
    AskTypeOK
    CitesOneRun
    CitesWithinSession
    DeletedNotCited
