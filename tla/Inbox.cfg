SPECIFICATION InboxSpec
CONSTANTS
    m1 = m1
    m2 = m2
    m3 = m3
    c1 = c1
    c2 = c2
    main = main
    None = None
    NoRun = NoRun
    Invalid = Invalid
    Idle = Idle
    Messages = {m1, m2, m3}
    Threads = {m1}
    Runs <- AllRuns
    Branches = {m1, m2, m3, main}
    MainBranch = main
    Callers = {c1, c2}
    Commands <- SomeCommands
    Texts <- ThreeTexts
    Kinds = {}
    MaxCommanded = 6
    MaxWorked = 8
SYMMETRY Alike
CHECK_DEADLOCK FALSE
INVARIANTS
    InboxTypeOK
    ProjectionsReplay
    EventsTellTheirSource
    EffectAsRecorded
    HandledOnce
PROPERTIES
    SettledRouteIsFinal
    DurableInboxSpec
