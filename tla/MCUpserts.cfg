SPECIFICATION Spec
CONSTANTS
    None = None
    Before = Before
    Uncategorized = Uncategorized
    TransferCategory = TransferCategory
    Request = {r1, r2, r3}
    Member = {ann}
    Category = {food, rent}
    Month = {202601}
    Merchant = {"tel"}
    Portfolio = {"fund"}
    Ticker = {"A", "B"}
    Day = {1}
    Tx = {1, 2}
    Limit = {10, 20}
    Verdict = {confirmed, dismissed}
    Worth = {1, 2}
SYMMETRY Symmetric
INVARIANTS TypeOK AsAsked CountInStep RefusedAfterRace
PROPERTIES RunYields
CHECK_DEADLOCK FALSE
