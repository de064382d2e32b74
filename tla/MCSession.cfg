SPECIFICATION Spec
CONSTANTS
    w1 = w1
    w2 = w2
    wall1 = wall1
    wall2 = wall2
    base1 = base1
    wall = wall
    base = base
    Element = {w1, w2}
    Key = {wall1, wall2, base1, wall, base}
    KeysOf <- Keys
    ExactKey <- Exact
    TypeKey <- ByType
    Dep = {}
    MaxSize = 1
    Policy = "lru"
    Value = {v1, v2}
    NoValue = NoValue
SYMMETRY Alike
INVARIANTS
    OriginalIsStored
    UnsavedIsDirty
    DeletedIsNotServed
CHECK_DEADLOCK FALSE
