SPECIFICATION ExecFairSpec
CONSTANTS
    r1 = r1
    r2 = r2
    t1 = t1
    w1 = w1
    w2 = w2
    e1 = e1
    e2 = e2
    main = main
    fork = fork
    NoWorker = NoWorker
    NoClaim = NoClaim
    NoRun = NoRun
    Invalid = Invalid
    Branches = {main, fork}
    MainBranch = main
    Runs = {r1, r2}
    Threads = {t1}
    Executors = {e1, e2}
    ThreadOf <- OneThread
    ExecutorOf <- OneExecutor
    Workers = {w1}
    Serves <- OneWorker
    Verified = {e2}
    Priorities = {0}
    MaxAttempts = 2
    LeaseSeconds = 1
    Delays = {0}
    LockWait = 0
    MaxTime = 0
    MaxCheckpoints = 0
CHECK_DEADLOCK FALSE
INVARIANTS
    RunningIsActive
PROPERTIES
    RunsSettle
