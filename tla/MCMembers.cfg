CONSTANTS
    m1 = m1
    m2 = m2
    m3 = m3
    r1 = r1
    r2 = r2
    Member = {m1, m2, m3}
    Request = {r1, r2}
    NoMember = NoMember

SPECIFICATION Spec

INVARIANTS
    TypeOK

PROPERTIES
    LockoutNeedsRace

CHECK_DEADLOCK FALSE

SYMMETRY Symmetric
