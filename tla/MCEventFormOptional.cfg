SPECIFICATION Spec
CONSTANTS
    MaxTime = 3
    Nil = Nil
INVARIANTS
    DescriptionIsOptional
CHECK_DEADLOCK FALSE
