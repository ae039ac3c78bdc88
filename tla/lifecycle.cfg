SPECIFICATION Spec
CONSTANTS
    s1 = s1
    s2 = s2
    n1 = n1
    n2 = n2
    exp = exp
    hbs = hbs
    dev = dev
    stg = stg
    k1 = k1
    Scenarios = {s1, s2}
    Namespaces = {n1, n2}
    Slugs = {n1, n2}
    Slug <- MCApart
    Suppliers = {exp, hbs}
    Envs = {dev, stg}
    SbEnvs = {dev}
    ExistingKeys = {k1}
    NoKey = NoKey
    Null = Null
    RequestsOf <- MCFaults
    Jobs = {j1, j2}
    MaxFailures = 1
    MaxCrashes = 1
    Overlap = FALSE
SYMMETRY JobSymmetry
INVARIANTS TypeOK ReadyServesItsMocks  NoOrphans NoDanglingRefs PrebookingRestored
CHECK_DEADLOCK FALSE
