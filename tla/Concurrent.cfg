\* Two workers and a reprocess request that stay alive, on one document.
SPECIFICATION Spec
CONSTANTS
    Docs = {d1}
    Workers = {w1, w2}
    Requests = {r1}
    Layouts <- TwoChunks
    MaxJobs = 2
    MaxRuns = 2
    CrashAllowed = FALSE
    NoDoc = NoDoc
SYMMETRY ActorSymmetry
INVARIANTS
    PagesOfOneRun
    RunsWhole
PROPERTIES
    RunsVanishWhole
