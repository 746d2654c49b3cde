SPECIFICATION LiveSpec
CONSTANTS
    None = None
    i1 = i1
    i2 = i2
    i3 = i3
    c1 = c1
    c2 = c2
    n1 = n1
    n2 = n2
    InstanceIds = {i1, i2}
    Configs = {c1}
    SecretNames = {n1}
    DefaultSecretName = n1
    Specs <- OneSpec
    Troubles = {"crash"}
    MaxDisturbances = 1
    MaxGeneration = 1
    MaxUid = 1
    MaxLag = 0
PROPERTIES ConnectionDetailsSaved
CHECK_DEADLOCK FALSE
