CONSTANTS
    i1 = i1
    i2 = i2
    t1 = t1
    t2 = t2
    p1 = p1
    p2 = p2
    jan = jan
    feb = feb
    r1 = r1
    r2 = r2
    Item = {i1, i2}
    Loan = {loan}
    Tx = {t1, t2}
    Payment = {p1, p2}
    Month = {jan, feb}
    Request = {r1, r2}
    None = None

SPECIFICATION Spec

INVARIANTS
    LoanDeletable

CHECK_DEADLOCK FALSE

SYMMETRY Symmetric
