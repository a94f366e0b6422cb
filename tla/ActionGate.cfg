SPECIFICATION GateSpec
CONSTANTS
    r1 = r1
    r2 = r2
    i1 = i1
    c1 = c1
    c2 = c2
    NoIntent = NoIntent
    Runs = {r1, r2}
    Intents = {i1}
    Calls = {c1, c2}
    RunOf <- FirstRun
    Gated = {i1}
    ActionLease = 2
    ApprovalTTL = 1
    LockWait = 1
    MaxTime = 3
    MaxClaims = 3
CHECK_DEADLOCK FALSE
SYMMETRY Alike
INVARIANTS
    GateTypeOK
    RetriedOnlyIfNotFound
    InvokedOnlyIfApproved
    RefusedIsCancelled
    ReceiptsTellTheStatus
    NoStaleRequest
PROPERTIES
    SettledActionIsFinal
    ActionLeaseSpec
