SPECIFICATION Spec
CONSTANTS
    r1 = r1
    r2 = r2
    t1 = t1
    w1 = w1
    w2 = w2
    e1 = e1
    e2 = e2
    NoWorker = NoWorker
    NoClaim = NoClaim
    Workers = {w1, w2}
    Executors = {e1, e2}
    Runs = {r1, r2}
    Threads = {t1}
    ThreadOf <- OneThread
    ExecutorOf <- OneExecutor
    Serves <- AllServing
    Priorities = {0, 1}
    MaxAttempts = 2
    LeaseSeconds = 2
    Delays = {0}
    LockWait = 0
    MaxTime = 2
CHECK_DEADLOCK FALSE
INVARIANTS
    TypeOK
    OneLiveRunPerThread
PROPERTIES
    NeverRevived
    LeaseSpec
