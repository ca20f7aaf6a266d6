SPECIFICATION Spec
CONSTANTS
    r1 = r1
    Runs = {r1}
    Kinds = {"repl", "lane", "child"}
    Gates = {"review", "poke", "recheck"}
    p1 = p1
    p2 = p2
    Projects = {p1, p2}
    Home = p1
    MaxIters = 1
    AutoExtendTo = 2
    MaxContinuations = 1
    MaxRecoveries = 1
    MaxVerify = 2
    MaxPokes = 1
    Retries = 2
    GoalRetries = 2
    PermanentRetries = 0
    FlatTurns = 1
    MaxPrompts = 2
    MaxGoals = 1
    MaxGoalSteps = 2
    MaxActs = 1
CHECK_DEADLOCK FALSE
INVARIANTS
    Verified
    ClaimStands
    Warned
PROPERTIES
    NothingStranded
    Ends
