SPECIFICATION LiveSpec
CONSTANTS
    None = None
    i1 = i1
    i2 = i2
    i3 = i3
    c1 = c1
    c2 = c2
    n1 = n1
    n2 = n2
    InstanceIds = {i1, i2}
    Configs = {c1}
    SecretNames = {n1, n2}
    DefaultSecretName = n1
    Specs <- TwoNames
    Troubles = {"destroy"}
    MaxDisturbances = 1
    MaxGeneration = 3
    MaxUid = 1
    MaxLag = 0
PROPERTIES ConnectionSecretSettles
CHECK_DEADLOCK FALSE
