CONSTANTS
    bob = bob
    joint = joint
    bobs = bobs
    out = out
    in = in
    b1 = b1
    b2 = b2
    None = None
    Member = {alice, bob}
    Admin = {alice}
    Account = {joint, bobs}
    InitialOwner <- InitialOwnerDef
    Content = {out, in}
    Statement <- StatementDef
    Amount <- AmountDef
    Day <- DayDef
    Window = 3
    Category = {transfer}
    TransferCategory = transfer
    Rule = {}
    Covers <- CoversDef
    Target <- TargetDef
    Priority <- PriorityDef
    MinSamples = 2
    Batch = {b1, b2}
    ManualBatch = manual
    ManualId = {m1}

SPECIFICATION Spec

INVARIANTS
    TypeOK
    OwnersExist
    BatchesSound

PROPERTIES
    DeletedForGood
    RequestStaysInSight

SYMMETRY BatchSymmetry
