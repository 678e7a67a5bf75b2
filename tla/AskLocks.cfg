\* A question about a document that one run ingests and a reprocess request clears.
SPECIFICATION FairQuerySpec
CONSTANTS
    d1 = d1
    d2 = d2
    u1 = u1
    u2 = u2
    ws1 = ws1
    ws2 = ws2
    Docs = {d1}
    Workers = {w1}
    Requests = {r1}
    Layouts <- TwoChunks
    MaxJobs = 2
    MaxRuns = 1
    CrashAllowed = FALSE
    NoDoc = NoDoc
    Users = {u1}
    Workspaces = {ws1}
    WorkspaceOf <- OneWorkspace
    Members <- Alone
    Askers = {a1}
    TopK = 2
    MaxAsks = 1
PROPERTIES
    AsksEnd
    WorkEnds
