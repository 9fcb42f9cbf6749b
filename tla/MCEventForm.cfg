SPECIFICATION Spec
CONSTANTS
    MaxTime = 3
    Nil = Nil
INVARIANTS
    TypeOK
PROPERTIES
    SavesOnlyValid
CHECK_DEADLOCK FALSE
