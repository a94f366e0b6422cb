SPECIFICATION FairSpec
CONSTANTS
    r1 = r1
    r2 = r2
    t1 = t1
    w1 = w1
    w2 = w2
    e1 = e1
    e2 = e2
    NoWorker = NoWorker
    NoClaim = NoClaim
    Workers = {w1, w2}
    Executors = {e1, e2}
    Runs = {r1, r2}
    Threads = {t1}
    ThreadOf <- OneThread
    ExecutorOf <- MixedExecutors
    Serves <- PartServing
    Priorities = {0}
    MaxAttempts = 2
    LeaseSeconds = 1
    Delays = {0, 1}
    LockWait = 1
    MaxTime = 1
CHECK_DEADLOCK FALSE
INVARIANTS
    FencedClaims
    QueuedCanRun
PROPERTIES
    NoStolenLease
    OnlyHolderSettles
    TerminalIsFinal
    JobsSettle
