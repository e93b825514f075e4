CONSTANTS
    w1 = w1
    Version = {1, 2, 3}
    Broken = {2}
    Write = {w1}
    Keep = 2
    MaxTime = 3

SPECIFICATION Spec

INVARIANTS
    TypeOK
    AppCanServe

PROPERTIES
    LossesNamed
    UntaggedNeedsCut
    ServedAgain

CHECK_DEADLOCK FALSE
