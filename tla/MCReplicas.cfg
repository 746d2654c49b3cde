SPECIFICATION Spec
CONSTANTS
    None = None
    Everything = Everything
    p1 = p1
    p2 = p2
    r1 = r1
    r2 = r2
    s1 = s1
    s2 = s2
    Resources = {r1}
    Processes = {p1, p2}
    Selectors = {Everything, s1, s2}
    Deployments <- Replicas
    Specs <- AllSpecs
    Concurrent = 2
    MaxGeneration <- EditedOnce
    MaxFailures = 1
    MaxHangs = 0
    MaxExits = 1
    MaxLosses = 1
INVARIANTS TypeOK SingleFlight OnePerResource EditsRemembered
PROPERTIES AppliedInOrder
CHECK_DEADLOCK FALSE
