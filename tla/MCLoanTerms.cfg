CONSTANTS
    o1 = o1
    o2 = o2
    o3 = o3
    Observation = {o1, o2, o3}
    Principal = {0, 2, 38}
    Term = {0, 2, 4}
    Rate = {0, 1}
    BaseRate = {0, 5}
    RateUnit = 10
    Date = {1, 4, 7}
    Short = {2}
    None = None

SPECIFICATION TermsSpec

INVARIANTS
    FirstMonthKnown
    ScheduleSound

PROPERTIES
    PastUntouched

SYMMETRY Symmetric
