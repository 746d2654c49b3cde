SPECIFICATION LiveSpec
CONSTANTS
    None = None
    Everything = Everything
    p1 = p1
    p2 = p2
    r1 = r1
    r2 = r2
    s1 = s1
    s2 = s2
    Resources = {r1, r2}
    Processes = {p1, p2}
    Selectors = {Everything, s1, s2}
    Deployments <- Fleets
    Specs <- OnlyOnce
    Concurrent = 2
    MaxGeneration <- FirstEditedOnce
    MaxFailures = 0
    MaxHangs = 1
    MaxExits = 1
    MaxLosses = 0
PROPERTIES EditsApplied
CHECK_DEADLOCK FALSE
