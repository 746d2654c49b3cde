SPECIFICATION LiveSpec
CONSTANTS
    None = None
    i1 = i1
    i2 = i2
    i3 = i3
    c1 = c1
    c2 = c2
    n1 = n1
    n2 = n2
    InstanceIds = {i1, i2, i3}
    Configs = {c1, c2}
    SecretNames = {n1}
    DefaultSecretName = n1
    Specs <- OneSpec
    Troubles = {"reply", "inflight", "crash", "status", "secret", "read", "drift", "destroy"}
    MaxDisturbances = 2
    MaxGeneration = 1
    MaxUid = 1
    MaxLag = 1
INVARIANTS TypeOK SingleCreation
PROPERTIES Convergence
CHECK_DEADLOCK FALSE
