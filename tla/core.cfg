SPECIFICATION Spec
CONSTANTS
    x = x
    y = y
    z = z
    a = a
    p = p
    q = q
    s1 = s1
    s2 = s2
    h1 = h1
    h2 = h2
    Absent = Absent
    NotValid = NotValid
    NoPlan = NoPlan
    NoOne = NoOne
    Unwritten = Unwritten
    Values = {Absent, NotValid, a}
    BootSteps <- MCBoot
    Keeps = {0, 1}
    Objects = {x, y, z}
    Plans = {p, q}
    Steps <- BothSteps
    Sessions = {s1, s2}
    Operators = {h1}
    OverrideLive = FALSE
    StagedPlans = {p}
    Checks = {y}
    Ops = {"apply", "baseline"}
    MaxCommands = 4
    MaxMoves = 1
    MaxCrashes = 1
INVARIANTS
    TypeOK
    OneWriter
    NothingElseRuns
    NoStatementSkipped
    AppliedAsPromised
PROPERTIES
    BaselineTakesAllOrNothing
    RefinesEnvironment
SYMMETRY SessionSymmetry
