------------------------------- MODULE Figures -------------------------------
(***************************************************************************)
(* What each member, and Home Assistant, is shown: the figures the pages   *)
(* and the sensors derive from the transactions, each through the eyes of  *)
(* one viewer, and the suggestions members confirm.  The viewer None is a  *)
(* background job.                                                         *)
(*                                                                         *)
(* A module of reads, each of the database it is given; Household has the  *)
(* requests that write it.  The rest of what the household set up          *)
(* (accounts, plan items, loans, budgets, verdicts) is fixed: all of it    *)
(* but the private budgets is shown to everyone.                           *)
(*                                                                         *)
(* Abstracted: months have 30 days, so no due day needs clamping; names,   *)
(* colours, order and paging of lists; how close suggestions rank, of      *)
(* which a page shows six; how a portfolio is valued.                      *)
(***************************************************************************)
EXTENDS Recurring, Sequences, FiniteSetsExt

CONSTANTS
    Member, Account, Category, Item, Loan,
    Tx,         \* statement lines, by the id their row gets
    Month,      \* the months looked at
    Line,       \* the item and month pairs members act on
    TransferCategory,
    Window, Tolerance,   \* loan_match_window_days, loan_match_amount_tolerance_pct
    TransferWindow,      \* transfer_window_days
    TxFact, AccountFact, ItemFact, LoanFact,  \* what a row, an account, ... is
    Budget,     \* table budget
    Dismissed,  \* the merchants with the verdict "dismissed"
    Question,   \* the questions asked in natural language, as they were understood
    Today,
    Ticked,     \* a payment row with paid_at set
    None        \* SQL NULL

Scope == {"private", "household"}
Lens == {"all", "private", "home"}
Viewer == Member \cup {None}

ASSUME FiguresAssumption ==
    /\ None \notin Member \cup Account \cup Category \cup Item \cup Loan \cup Tx \cup {Ticked}
    /\ None \notin Loan \X (Nat \ {0}) /\ Ticked \notin Tx
    /\ Tx \subseteq Nat /\ IsFiniteSet(Tx)
    /\ Month \subseteq Int /\ Line \subseteq Item \X Month
    /\ TransferCategory \in Category
    /\ Window \in Nat /\ Tolerance \in Nat /\ TransferWindow \in Nat /\ Today \in Int
    /\ TxFact \in [Tx -> [account : Account, day : Int, amount : Int,
                         merchant : STRING \cup {None}]]
    /\ DOMAIN AccountFact = Account /\ IsFiniteSet(Account)
    /\ \A a \in Account :
          AccountFact[a].owner \in Member \cup {None} /\ AccountFact[a].value \in Int
    /\ DOMAIN ItemFact = Item
    /\ \A i \in Item : ItemFact[i].loan \in Loan \cup {None}
    /\ LoanFact \in [Loan -> [account : Account, principal : Int,
                  schedule : Seq([day : Int, payment : Int, principal : Int])]]

-----------------------------------------------------------------------------
\* What a read works on: db.tx, table transaction, and db.payment, table
\* planned_item_payment.

\* An installment a transaction can be pinned to.
Pin == Loan \X (Nat \ {0})

Row == [status : {"absent", "live", "deleted"}, owner : Member \cup {None}, scope : Scope,
        category : Category \cup {None}, group : SUBSET Tx, pin : Pin \cup {None}]

NoRow == [status |-> "absent", owner |-> None, scope |-> "private",
          category |-> None, group |-> {}, pin |-> None]

Amount(t) == TxFact[t].amount
MonthOf(day) == day \div 30
In(t, month) == MonthOf(TxFact[t].day) = month
Magnitude(x) == IF x < 0 THEN -x ELSE x

Sum(S) == MapThenSumSet(Amount, S)
Total(f) == MapThenSumSet(LAMBDA i : f[i], DOMAIN f)

-----------------------------------------------------------------------------
(* Who sees which rows                                                     *)

\* Mutant: a viewer's own rows only.
OwnRowsOnly(row, v, lens) ==
    v # None /\ row.owner = v /\ (lens = "home" => row.scope = "household")

\* visible_to: a lens narrows what the viewer may see.  Without a viewer only
\* the shared rows are left.
InLens(row, v, lens) ==
    LET shared == row.scope = "household"
        mine == v # None /\ ~shared /\ row.owner = v
    IN  \/ lens # "private" /\ shared
        \/ lens # "home" /\ mine

Live(db, t) == db.tx[t].status = "live"

VisibleLive(db, v, lens) == {t \in Tx : Live(db, t) /\ InLens(db.tx[t], v, lens)}

Visible(db, t, v) == t \in VisibleLive(db, v, "all")

\* One page of transactions; None for a filter not set.
Listed(db, v, lens, month, category) ==
    {t \in VisibleLive(db, v, lens) :
        /\ month # None => In(t, month)
        /\ category # None => db.tx[t].category = category}

\* The same for who added them; None for nobody who is still a member.
AddedBy(db, v, lens, m) == {t \in VisibleLive(db, v, lens) : db.tx[t].owner = m}

-----------------------------------------------------------------------------
(* Transfers                                                               *)

Opposite(a, b) ==
    TxFact[a].account # TxFact[b].account /\ Amount(a) = -Amount(b) /\ Amount(a) # 0

Candidate(a, b) ==
    Opposite(a, b) /\ Magnitude(TxFact[a].day - TxFact[b].day) <= TransferWindow

Unmatched(db, v) == {t \in VisibleLive(db, v, "all") : db.tx[t].group = {}}

Out(S) == {t \in S : Amount(t) < 0}

\* Each outflow with each inflow it may be one transfer with.
Pairs(db, v) ==
    {p \in SUBSET Unmatched(db, v) : \E a \in Out(p), b \in p : p = {a, b} /\ Candidate(a, b)}

\* Linked unasked: uncategorized, and each leg the other's only candidate.
AutoPairs(db, v) ==
    {p \in Pairs(db, v) : /\ \A t \in p : db.tx[t].category = None
                         /\ \A q \in Pairs(db, v) : p \cap q # {} => p = q}

\* What a member is asked about.
SuggestPairs(db, v) == Pairs(db, v) \ AutoPairs(db, v)

\* The legs in sight of each transfer.
Groups(db, v) ==
    LET linked == {t \in VisibleLive(db, v, "all") : db.tx[t].group # {}}
    IN  {{t \in linked : db.tx[t].group = db.tx[u].group} : u \in linked}

-----------------------------------------------------------------------------
(* Spending and income                                                     *)

Spendable(db, v, lens) ==
    {t \in VisibleLive(db, v, lens) :
        db.tx[t].group = {} /\ db.tx[t].pin = None /\ db.tx[t].category # TransferCategory}

AvailableMonths(db, v, lens) == {MonthOf(TxFact[t].day) : t \in VisibleLive(db, v, lens)}

Spending(S, month) == -Sum({t \in Out(S) : In(t, month)})
Income(S, month) == Sum({t \in S : Amount(t) > 0 /\ In(t, month)})

\* For each category, and None, that has some.
ByCategory(db, S, month) ==
    LET spent == {t \in Out(S) : In(t, month)}
    IN  [c \in {db.tx[t].category : t \in spent} |-> -Sum({t \in spent : db.tx[t].category = c})]

ByOwner(db, S, month) ==
    LET spent == {t \in Out(S) : In(t, month)}
    IN  [m \in {db.tx[t].owner : t \in spent} |-> -Sum({t \in spent : db.tx[t].owner = m})]

\* The months with activity.
Trend(S) ==
    [m \in {MonthOf(TxFact[t].day) : t \in {u \in S : Amount(u) # 0}} |->
        <<Spending(S, m), Income(S, m)>>]

-----------------------------------------------------------------------------
(* Questions in natural language                                           *)

\* A question sets bounds, None where it sets none: what the LLM made of it
\* less what names no category, no account and no amount or date.
Matching(db, S, q) ==
    {t \in S :
        /\ q.start # None => TxFact[t].day >= q.start
        /\ q.end # None => TxFact[t].day <= q.end
        /\ q.atLeast # None => Magnitude(Amount(t)) >= q.atLeast
        /\ q.atMost # None => Magnitude(Amount(t)) <= q.atMost
        /\ q.category # None => db.tx[t].category = q.category
        /\ q.account # None => TxFact[t].account = q.account
        /\ q.direction = "expense" => Amount(t) < 0
        /\ q.direction = "income" => Amount(t) > 0}

Turnover(S) == MapThenSumSet(LAMBDA t : Magnitude(Amount(t)), S)

\* The total, broken down by category or by month.
Answer(db, v, lens, q) ==
    LET found == Matching(db, Spendable(db, v, lens), q)
    IN  [found |-> found, total |-> Turnover(found),
         byCategory |-> [c \in {db.tx[t].category : t \in found} |->
                            Turnover({t \in found : db.tx[t].category = c})],
         byMonth |-> Trend(found)]

-----------------------------------------------------------------------------
(* Budgets                                                                 *)

\* The budgets of a scope the viewer may see: its own private ones.
Budgets(v, scope) ==
    {b \in Budget : IF scope = "private" THEN b.owner # None /\ b.owner = v ELSE b.owner = None}

\* An override for the month wins over the recurring limit.
EffectiveLimits(budgets, month) ==
    LET inForce == {b \in budgets : b.month \in {None, month}}
        Of(c) == {b \in inForce : b.category = c}
    IN  [c \in {b.category : b \in inForce} |->
            (CHOOSE b \in Of(c) : (\E o \in Of(c) : o.month = month) => b.month = month).limit]

\* Limit and spending per budgeted category.
BudgetOverview(db, v, scope, month) ==
    LET limits == EffectiveLimits(Budgets(v, scope), month)
        spent == ByCategory(db,
            Spendable(db, v, IF scope = "household" THEN "home" ELSE "private"), month)
    IN  [c \in DOMAIN limits |-> [limit |-> limits[c],
                                  spent |-> IF c \in DOMAIN spent THEN spent[c] ELSE 0]]

-----------------------------------------------------------------------------
(* Subscriptions                                                           *)

\* A merchant's charges among the viewer's spendable rows.
Charges(db, v, merchant) ==
    {[id |-> t, day |-> TxFact[t].day, amount |-> -Amount(t), category |-> db.tx[t].category] :
        t \in {u \in Out(Spendable(db, v, "all")) : TxFact[u].merchant = merchant}}

Merchants == {TxFact[t].merchant : t \in Tx} \ {None}

Subscriptions(db, v) ==
    [m \in {n \in Merchants : IsSubscription(Charges(db, v, n))} |->
        Detected(Charges(db, v, m), Today, None)]

\* The dismissed ones do not count, the ended ones do.
FixedCosts(db, v) ==
    LET found == Subscriptions(db, v)
    IN  Total([m \in DOMAIN found \ Dismissed |-> found[m].monthly])

-----------------------------------------------------------------------------
(* Net worth                                                               *)

IsCash(a) == AccountFact[a].type \in {"bank", "cash"}

OnAccount(db, v, a) == {t \in VisibleLive(db, v, "all") : TxFact[t].account = a}

\* Mutant: another member's account is left out whatever is booked on it.
OwnAndSharedAccounts(db, v) == {a \in Account : IsCash(a) => AccountFact[a].owner \in {None, v}}

\* Another member's bank or cash account is left out while it shows the viewer
\* no row.
ShownAccounts(db, v) ==
    {a \in Account : IsCash(a) /\ AccountFact[a].owner \notin {None, v} => OnAccount(db, v, a) # {}}

LoansOn(a) == {n \in Loan : LoanFact[n].account = a}

HasSchedule(n) == LoanFact[n].schedule # <<>>

Installments(n) == DOMAIN LoanFact[n].schedule

\* The plan's view of the debt, whatever was paid.
Outstanding(n) ==
    LET due == {k \in Installments(n) : LoanFact[n].schedule[k].day <= Today}
    IN  LoanFact[n].principal - Total([k \in due |-> LoanFact[n].schedule[k].principal])

\* Nothing for a loan account without a loan or whose loan has no schedule.
LoanBalance(a) ==
    IF LoansOn(a) = {} THEN 0
    ELSE LET n == CHOOSE n \in LoansOn(a) : TRUE IN IF HasSchedule(n) THEN -Outstanding(n) ELSE 0

Balances(db, v) ==
    [a \in ShownAccounts(db, v) |->
        CASE IsCash(a) -> Sum(OnAccount(db, v, a))
          [] AccountFact[a].type = "portfolio" -> AccountFact[a].value
          [] AccountFact[a].type = "loan" -> LoanBalance(a)
          [] OTHER -> 0]

NetWorth(db, v) == Total(Balances(db, v))

-----------------------------------------------------------------------------
(* Loans: the plan and what was paid                                       *)

\* Mutant: the payments are read for the household, whoever looks.
SharedPayments(db, v, n) ==
    {t \in VisibleLive(db, None, "all") : db.tx[t].pin # None /\ db.tx[t].pin[1] = n}

LinkedPayments(db, v, n) ==
    {t \in VisibleLive(db, v, "all") : db.tx[t].pin # None /\ db.tx[t].pin[1] = n}

\* reconcile: of the payments pinned to an installment one is shown on its
\* row, whichever the database returns first.
PaidBy(db, v, n, k) == {t \in LinkedPayments(db, v, n) : db.tx[t].pin[2] = k}

Within(amount, target, pct) == Magnitude(amount - target) <= (target * pct) \div 100

\* suggest_payments: outflows from other accounts near an installment that
\* shows no payment, in time and in amount.
SuggestPayments(db, v, n) ==
    {e \in Installments(n) \X VisibleLive(db, v, "all") :
        LET due == LoanFact[n].schedule[e[1]]
            t == e[2]
        IN  /\ PaidBy(db, v, n, e[1]) = {}
            /\ db.tx[t].pin = None
            /\ Amount(t) < 0
            /\ TxFact[t].account # LoanFact[n].account
            /\ Magnitude(TxFact[t].day - due.day) <= Window
            /\ Within(Magnitude(Amount(t)), due.payment, Tolerance)}

-----------------------------------------------------------------------------
(* The month's plan                                                        *)

\* A line whose loan has no schedule is treated as one of no loan.
LoanBacked(i) == ItemFact[i].loan # None /\ HasSchedule(ItemFact[i].loan)

DueIn(i, month) ==
    {k \in Installments(ItemFact[i].loan) :
        MonthOf(LoanFact[ItemFact[i].loan].schedule[k].day) = month}

\* A loan-backed item is in the plan of the months with an installment.
InPlan(month) == {i \in Item : LoanBacked(i) => DueIn(i, month) # {}}

PaymentRow(db, l) == IF l \in Line THEN db.payment[l] ELSE None

\* The transaction linked to a line, if the viewer may see it, deleted or not.
LinkedTx(db, v, l) == {t \in Tx : PaymentRow(db, l) = t /\ InLens(db.tx[t], v, "all")}

DueDate(i, month, default) ==
    IF ItemFact[i].due = None THEN default ELSE 30 * month + ItemFact[i].due - 1

\* Mutant: the last amount whoever's transaction it was.
LastLinkedOfAnyone(db, v, i, month) ==
    LET before == {m \in Month : m < month /\ PaymentRow(db, <<i, m>>) \in Tx}
        t == PaymentRow(db, <<i, Max(before)>>)
    IN  IF before # {} /\ Live(db, t) THEN Magnitude(Amount(t)) ELSE None

\* The last month's linked transaction, if the viewer may see it.
LastLinkedAmount(db, v, i, month) ==
    LET before == {m \in Month : m < month /\ PaymentRow(db, <<i, m>>) \in Tx}
        t == PaymentRow(db, <<i, Max(before)>>)
    IN  IF before # {} /\ Visible(db, t, v) THEN Magnitude(Amount(t)) ELSE None

\* The expected amount, or that of the linked transaction; None if unknown.
EffectiveAmount(expected, by) ==
    IF expected # None THEN expected ELSE IF by # {} THEN Sum(by) ELSE None

LoanRow(db, v, i, month) ==
    LET n == ItemFact[i].loan
        k == Min(DueIn(i, month))
        due == LoanFact[n].schedule[k]
        by == PaidBy(db, v, n, k)
    IN  [item |-> i, loanBacked |-> TRUE, expected |-> -due.payment, amount |-> -due.payment,
         by |-> by, paid |-> by # {},
         overdue |-> by = {} /\ DueDate(i, month, due.day) < Today, hint |-> None]

ManualRow(db, v, i, month) ==
    LET by == LinkedTx(db, v, <<i, month>>)
        paid == PaymentRow(db, <<i, month>>) = Ticked \/ by # {}
        expected == ItemFact[i].expected
    IN  [item |-> i, loanBacked |-> FALSE, expected |-> expected,
         amount |-> EffectiveAmount(expected, by),
         by |-> by, paid |-> paid,
         overdue |-> ~paid /\ DueDate(i, month, Today) < Today,
         hint |-> IF expected = None /\ by = {} THEN LastLinkedAmount(db, v, i, month) ELSE None]

PlanRow(db, v, i, month) ==
    IF LoanBacked(i) THEN LoanRow(db, v, i, month) ELSE ManualRow(db, v, i, month)

PlanRows(db, v, month) == {PlanRow(db, v, i, month) : i \in InPlan(month)}

RowSum(lines) == MapThenSumSet(LAMBDA r : r.amount, lines)

\* The totals are of the rows whose amount is known.
PlanOverview(db, v, month) ==
    LET lines == PlanRows(db, v, month)
        known == {r \in lines : r.amount # None}
        income == {r \in known : r.amount > 0}
        charges == known \ income
    IN  [lines |-> lines,
         income |-> RowSum(income), charges |-> -RowSum(charges),
         forLiving |-> RowSum(known),
         leftToPay |-> -RowSum({r \in charges : ~r.paid}),
         unestimated |-> Cardinality(lines \ known)]

LinkedAnywhere(db) == {db.payment[l] : l \in Line}

Candidates(db, v, month) ==
    {t \in VisibleLive(db, v, "all") :
        /\ db.tx[t].pin = None
        /\ TxFact[t].day >= 30 * month - Window
        /\ TxFact[t].day < 30 * (month + 1) + Window
        /\ t \notin LinkedAnywhere(db)}

\* A fixed amount: the same sign, within tolerance.  None: the outflows of the
\* item's category, or if there are none all outflows.
Matches(db, i, expected, candidates) ==
    IF expected \notin {None, 0}
    THEN {t \in candidates :
            /\ (Amount(t) > 0) = (expected > 0)
            /\ Within(Magnitude(Amount(t)), Magnitude(expected), Tolerance)}
    ELSE LET same == {t \in Out(candidates) : db.tx[t].category = ItemFact[i].category}
         IN  IF ItemFact[i].category = None \/ same = {} THEN Out(candidates) ELSE same

\* suggest_links: for each unpaid row that is not loan-backed.
SuggestLinks(db, v, month) ==
    UNION {{r.item} \X Matches(db, r.item, r.expected, Candidates(db, v, month)) :
             r \in {q \in PlanRows(db, v, month) : ~q.paid /\ ~q.loanBacked}}

-----------------------------------------------------------------------------
(* All of it                                                               *)

MonthFigures(db, v, lens, month) ==
    LET S == Spendable(db, v, lens)
    IN  [spending |-> Spending(S, month), income |-> Income(S, month),
         byCategory |-> ByCategory(db, S, month), byOwner |-> ByOwner(db, S, month),
         list |-> Listed(db, v, lens, month, None)]

\* The money pages under a lens: the overview, the list of transactions, and
\* the answers to questions.
MoneyPages(db, v, lens) ==
    [months |-> AvailableMonths(db, v, lens),
     list |-> [c \in Category \cup {None} |-> Listed(db, v, lens, None, c)],
     addedBy |-> [m \in Member \cup {None} |-> AddedBy(db, v, lens, m)],
     month |-> [m \in Month |-> MonthFigures(db, v, lens, m)],
     trend |-> Trend(Spendable(db, v, lens)),
     answers |-> [q \in Question |-> Answer(db, v, lens, q)]]

PlanPage(db, v, month) ==
    [overview |-> PlanOverview(db, v, month), links |-> SuggestLinks(db, v, month),
     budgets |-> [s \in Scope |-> BudgetOverview(db, v, s, month)]]

LoanPage(db, v, n) ==
    [paid |-> [k \in Installments(n) |-> PaidBy(db, v, n, k)],
     linked |-> LinkedPayments(db, v, n),
     suggested |-> SuggestPayments(db, v, n)]

\* What a viewer's pages show; for None, what is published.
Shown(db, v) ==
    [money |-> [lens \in Lens |-> MoneyPages(db, v, lens)],
     plan |-> [m \in Month |-> PlanPage(db, v, m)],
     loans |-> [n \in Loan |-> LoanPage(db, v, n)],
     transfers |-> [suggested |-> SuggestPairs(db, v), linked |-> Groups(db, v)],
     balances |-> Balances(db, v), netWorth |-> NetWorth(db, v),
     subscriptions |-> Subscriptions(db, v), fixedCosts |-> FixedCosts(db, v)]
=============================================================================
