SPECIFICATION Spec
CONSTANTS
    None = None
    i1 = i1
    i2 = i2
    i3 = i3
    c1 = c1
    c2 = c2
    n1 = n1
    n2 = n2
    InstanceIds = {i1, i2, i3}
    Configs = {c1, c2}
    SecretNames = {n1}
    DefaultSecretName = n1
    Specs <- TwoConfigs
    Troubles = {"reply", "inflight", "crash", "status", "secret", "credentials", "drift", "destroy", "foreign"}
    MaxDisturbances = 2
    MaxGeneration = 2
    MaxUid = 1
    MaxLag = 0
SYMMETRY IdSymmetry
PROPERTIES BoundWhileLive LiveCredentialsKept ProvidesOneInstance
CHECK_DEADLOCK FALSE
