SPECIFICATION Spec
CONSTANTS
    x = x
    y = y
    z = z
    a = a
    p = p
    q = q
    s1 = s1
    s2 = s2
    h1 = h1
    h2 = h2
    Absent = Absent
    NotValid = NotValid
    NoPlan = NoPlan
    NoOne = NoOne
    Unwritten = Unwritten
    Values = {Absent, NotValid, a}
    BootSteps <- MCBoot
    Keeps = {0, 1}
    Objects = {x, z}
    Plans = {p, q}
    Steps <- QuickSteps
    Sessions = {s1, s2}
    Operators = {h1}
    OverrideLive = FALSE
    StagedPlans = {}
    Checks = {}
    Ops = {"apply", "baseline", "bootstrap", "snapshot", "datawork", "prune"}
    MaxCommands = 4
    MaxMoves = 0
    MaxCrashes = 1
INVARIANTS
    ReportHasEvidence
PROPERTIES
    NewestSurvives
    RefinesEnvironment
SYMMETRY SessionSymmetry
