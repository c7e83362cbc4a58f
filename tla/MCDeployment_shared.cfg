\* Two servers on one store, two edits of the configuration while they start.
SPECIFICATION Spec
CONSTANTS
    None = None
    s1 = s1
    s2 = s2
    e1 = e1
    e2 = e2
    key1 = key1
    key2 = key2
    key3 = key3
    x = x
    y = y
    A = A
    B = B
    C = C
    Ids = {key1, key2, x}
    Values = {A, B}
    KeyNames <- TwoNames
    InitialBase = FALSE
    InitialKeys <- OneAuto
    Additions <- NewKeys
    Removals = {x}
    Cuts = {}
    Backends = {"sqlite", "redis"}
    EnvBaseUrl = TRUE
    EnvKeys <- OneFromEnv
    Servers = {s1, s2}
    Editors = {e1, e2}
    MaxStarts = 2
SYMMETRY BothSymmetry
INVARIANTS
    TypeOK
    ServersHaveRows
    AddingRenamesNothing
PROPERTIES
    UsedRowsStay
CHECK_DEADLOCK FALSE
