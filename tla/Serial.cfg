\* One worker that may die, two reprocess requests.
SPECIFICATION Spec
CONSTANTS
    Docs = {d1}
    Workers = {w1}
    Requests = {r1, r2}
    Layouts <- AnyFile
    MaxJobs = 3
    MaxRuns = 3
    CrashAllowed = TRUE
    NoDoc = NoDoc
SYMMETRY ActorSymmetry
INVARIANTS
    TypeOK
    ChunksOfOneRun
    AttemptsCountRuns
    SettledIndexComplete
PROPERTIES
    ImplementsJobLifecycle
