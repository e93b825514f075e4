CONSTANTS
    alice = alice
    joint = joint
    savings = savings
    out = out
    out2 = out2
    in = in
    food = food
    rent = rent
    b1 = b1
    b2 = b2
    None = None
    Member = {alice}
    Admin = {alice}
    Account = {joint, savings}
    InitialOwner <- InitialOwnerDef
    Content = {out, out2, in}
    Statement <- StatementDef
    Amount <- AmountDef
    Day <- DayDef
    Window = 3
    Category = {food, rent, transfer}
    TransferCategory = transfer
    Rule = {1, 2}
    Covers <- CoversDef
    Target <- TargetDef
    Priority <- PriorityDef
    MinSamples = 2
    Batch = {b1, b2}
    ManualBatch = manual
    ManualId = {}

SPECIFICATION Spec

CONSTRAINT FixedAccounts

INVARIANTS
    TransfersSound

PROPERTIES
    LayerPrecedence

SYMMETRY BatchSymmetry
