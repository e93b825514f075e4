SPECIFICATION Spec
CONSTANTS
    None = None
    Ticked = Ticked
    ann = ann
    bob = bob
    own = own
    joint = joint
    mortgage = mortgage
    fund = fund
    food = food
    transfer = transfer
    phone = phone
    rate = rate
    odd = odd
    loan = loan
    tiny = tiny
    Member = {ann, bob}
    Account = {own, joint, mortgage, fund}
    Category = {food, transfer}
    Item = {phone, rate, odd}
    Loan = {loan, tiny}
    Tx = {1, 2, 3}
    MaxRequests = 3
    Month = {0, 1}
    Line <- MCLine
    TransferCategory = transfer
    Window = 5
    Tolerance = 5
    TransferWindow = 3
    TxFact <- MCTxFact
    AccountFact <- MCAccountFact
    ItemFact <- MCItemFact
    LoanFact <- MCLoanFact
    Budget <- MCBudget
    Dismissed = {}
    Question <- MCQuestion
    Today = 36
    MinOccurrences = 2
    AmountTolerance = 15
    RiseThreshold = 10
    NewWindow = 35
INVARIANTS TypeOK PrivateStaysPrivate OwnRowsOnTop SuggestionsHold MembersAgree
CHECK_DEADLOCK FALSE
