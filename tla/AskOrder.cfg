\* Two questions in one session.
SPECIFICATION QuerySpec
CONSTANTS
    d1 = d1
    d2 = d2
    u1 = u1
    u2 = u2
    ws1 = ws1
    ws2 = ws2
    Docs = {d1}
    Workers = {w1}
    Requests = {}
    Layouts <- OnePage
    MaxJobs = 1
    MaxRuns = 1
    CrashAllowed = FALSE
    NoDoc = NoDoc
    Users = {u1}
    Workspaces = {ws1}
    WorkspaceOf <- OneWorkspace
    Members <- Alone
    Askers = {a1}
    TopK = 1
    MaxAsks = 2
INVARIANTS
    AnswersFollowQuestions
