SPECIFICATION LeaseSpec
CONSTANTS
    A = A
    B = B
    a1 = a1
    a2 = a2
    b1 = b1
    Workers = {A, B}
    Threads = {a1, a2, b1}
    WorkerOf <- MCWorkerOf
    TTL = 1
    Versions = {1, 2}
    MaxTime = 2
    NoLease = NoLease
    NoId = NoId
    NoOwner = NoOwner
SYMMETRY TwinThreads
CONSTRAINT TwoInFlight
INVARIANTS
    SingleOwner
PROPERTIES
    ImplementsLock
