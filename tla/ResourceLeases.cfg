SPECIFICATION Spec
CONSTANTS
    l1 = l1
    l2 = l2
    l3 = l3
    k1 = k1
    k2 = k2
    Leases = {l1, l2, l3}
    Keys = {k1, k2}
    Terms = {0, 1, 2}
    LockWait = 1
    MaxTime = 3
SYMMETRY Symmetry
CHECK_DEADLOCK FALSE
INVARIANTS
    ResourceTypeOK
    Uncontested
PROPERTIES
    NoStolenResource
    SharedLeaseSpec
