SPECIFICATION LiveSpec
CONSTANTS
    None = None
    i1 = i1
    i2 = i2
    i3 = i3
    c1 = c1
    c2 = c2
    n1 = n1
    n2 = n2
    InstanceIds = {i1}
    Configs = {c1, c2}
    SecretNames = {n1}
    DefaultSecretName = n1
    Specs <- NoInterval
    Troubles = {}
    MaxDisturbances = 0
    MaxGeneration = 2
    MaxUid = 1
    MaxLag = 0
PROPERTIES ReconcilingEnds
CHECK_DEADLOCK FALSE
