SPECIFICATION ExecSpec
CONSTANTS
    r1 = r1
    r2 = r2
    t1 = t1
    w1 = w1
    w2 = w2
    e1 = e1
    e2 = e2
    main = main
    fork = fork
    NoWorker = NoWorker
    NoClaim = NoClaim
    NoRun = NoRun
    Invalid = Invalid
    Branches = {main, fork}
    MainBranch = main
    Runs = {r2}
    Threads = {t1}
    Executors = {e1, e2}
    ThreadOf <- LoneThread
    ExecutorOf <- LoneExecutor
    Workers = {w1, w2}
    Serves <- AllServing
    Verified = {e2}
    Priorities = {0}
    MaxAttempts = 2
    LeaseSeconds = 1
    Delays = {0}
    LockWait = 1
    MaxTime = 1
    MaxCheckpoints = 1
CHECK_DEADLOCK FALSE
SYMMETRY Alike
INVARIANTS
    HolderCanSettle
PROPERTIES
    StaleAttemptsAreFrozen
