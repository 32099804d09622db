SPECIFICATION Spec
SYMMETRY MCSymmetry
CONSTANTS
    A = A
    B = B
    a1 = a1
    b1 = b1
    Workers = {A, B}
    Threads = {a1, b1}
    WorkerOf <- MCWorkerOf
    TTL = 1
    Versions = {1}
    MaxTime = 2
    NoLease = NoLease
    NoId = NoId
    NoOwner = NoOwner
    NoCheckpoint = NoCheckpoint
    MaxCheckpoints = 2
    Reports <- MCReports
INVARIANTS
    VersionsAreGapless
    BudgetNeverReset
