\* A reprocess request overlaps the run of a worker.
SPECIFICATION Spec
CONSTANTS
    Docs = {d1}
    Workers = {w1}
    Requests = {r1}
    Layouts <- OnePage
    MaxJobs = 2
    MaxRuns = 1
    CrashAllowed = FALSE
    NoDoc = NoDoc
INVARIANTS
    NoLeakedChunks
