SPECIFICATION Spec
CONSTANTS
    None = None
    i1 = i1
    i2 = i2
    i3 = i3
    c1 = c1
    c2 = c2
    n1 = n1
    n2 = n2
    InstanceIds = {i1, i2}
    Configs = {c1, c2}
    SecretNames = {n1}
    DefaultSecretName = n1
    Specs <- TwoConfigs
    Troubles = {"crash", "status", "delete", "destroy", "occupy"}
    MaxDisturbances = 1
    MaxGeneration = 2
    MaxUid = 2
    MaxLag = 1
SYMMETRY IdSymmetry
INVARIANTS ObservedGenerationReal ReadyMeansConfigured NeverUnattended
PROPERTIES ObservedGenerationMonotone
CHECK_DEADLOCK FALSE
