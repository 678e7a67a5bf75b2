\* A worker whose run fails, and nobody dies.
SPECIFICATION Spec
CONSTANTS
    Docs = {d1}
    Workers = {w1}
    Requests = {r1}
    Layouts <- OnePage
    MaxJobs = 1
    MaxRuns = 1
    CrashAllowed = FALSE
    NoDoc = NoDoc
INVARIANTS
    FailuresRecorded
