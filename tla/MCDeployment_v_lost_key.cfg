\* Two add-keys at once.
SPECIFICATION Spec
CONSTANTS
    None = None
    s1 = s1
    s2 = s2
    e1 = e1
    e2 = e2
    key1 = key1
    key2 = key2
    key3 = key3
    x = x
    y = y
    A = A
    B = B
    C = C
    Ids = {key1, key2, key3, x, y}
    Values = {A, B, C}
    KeyNames <- ThreeNames
    InitialBase = TRUE
    InitialKeys <- OneAuto
    Additions <- TwoNewKeys
    Removals = {}
    Cuts <- CutKey
    Backends = {"sqlite"}
    EnvBaseUrl = TRUE
    EnvKeys = {}
    Servers = {}
    Editors = {e1, e2}
    MaxStarts = 0
SYMMETRY EditorSymmetry
INVARIANT AddedKeysPersist
CHECK_DEADLOCK FALSE
