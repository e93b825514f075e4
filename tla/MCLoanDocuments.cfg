CONSTANTS
    n1 = n1
    n2 = n2
    d1 = d1
    d2 = d2
    d3 = d3
    r1 = r1
    r2 = r2
    r3 = r3
    Loan = {n1, n2}
    Document = {d1, d2, d3}
    Request = {r1, r2, r3}
    MaxPerLoan = 1

SPECIFICATION Spec

INVARIANTS
    CapHolds

PROPERTIES
    ImplementsStore
    FilesAccounted

SYMMETRY Symmetric
