SPECIFICATION Spec
CONSTANTS
    s1 = s1
    s2 = s2
    n1 = n1
    n2 = n2
    exp = exp
    hbs = hbs
    dev = dev
    stg = stg
    k1 = k1
    Scenarios = {s1, s2}
    Namespaces = {n1, n2}
    Slugs = {n1, n2}
    Slug <- MCApart
    Suppliers = {exp}
    Envs = {dev}
    SbEnvs = {dev}
    ExistingKeys = {k1}
    NoKey = NoKey
    Null = Null
    RequestsOf <- MCAttaching
    Jobs = {j1, j2}
    MaxFailures = 0
    MaxCrashes = 0
    Overlap = FALSE
SYMMETRY JobSymmetry
INVARIANTS ExistingKeySurvives
CHECK_DEADLOCK FALSE
