------------------------------ MODULE LoanTerms ------------------------------
(***************************************************************************)
(* The terms of one loan, the base rate observations of a variable one,    *)
(* and the repayment schedule that is recomputed from the two whenever it  *)
(* is looked at: nothing of the schedule is stored.                        *)
(*                                                                         *)
(* A request is one step; creating a loan commits twice and may stop in    *)
(* between.  A date is 2 * month + late, where late is 1 for the days that *)
(* the short months do not have.  Money is integer minor units, a rate is  *)
(* an integer of which RateUnit make a whole per month (120000 basis       *)
(* points), and Decimals are the fractions they stand for.                 *)
(*                                                                         *)
(* Abstracted: account, contract number, name of the base rate; negative   *)
(* rates.  Documents, payments and the deletion of the loan are modules    *)
(* LoanDocuments' and Planning's.                                          *)
(***************************************************************************)
EXTENDS Integers, FiniteSets, FiniteSetsExt

CONSTANTS
    Observation,   \* ids of observations, each used once (bounds their number)
    Principal,     \* amounts a form can say, those it should refuse included
    Term,          \* likewise, months
    Rate,          \* the annual rate of a fixed loan, the margin of a variable
    BaseRate,
    RateUnit,      \* basis points per unit, times months per year
    Date,          \* dates a form can say
    Short,         \* the short months
    None           \* no row

\* What the loan form can say, and the rate form.
RateType == {"fixed", "variable"}
InstallmentType == {"equal", "decreasing"}

LoanForm == [principal : Principal, rateType : RateType, rate : Rate,
             installments : InstallmentType, start : Date, term : Term]

RateChange == [date : Date, base : BaseRate]

\* A month of the schedule; level is the installment kept until the rate changes.
ScheduleRow == [interest : Int, paid : Int, balance : Int, level : Int]

ASSUME LoanTermsAssumption ==
    /\ IsFiniteSet(Observation)
    /\ Principal \subseteq Int /\ Term \subseteq Int
    /\ Rate \subseteq Nat /\ BaseRate \subseteq Nat
    /\ RateUnit \in Nat \ {0}
    /\ Date \subseteq Nat
    /\ \A d \in Date : d \div 2 \in Short => d % 2 = 0
    /\ None \notin LoanForm \cup RateChange
    /\ \A n \in Term : None \notin [0..n -> ScheduleRow]

VARIABLES
    loan,       \* the row of table loan, or None
    rates,      \* table loan_rate_change
    halfway     \* history: the loan's creation stopped before its first rate

termsVars == <<loan, rates, halfway>>

TermsTypeOK ==
    /\ loan # None => loan \in LoanForm /\ loan.principal > 0 /\ loan.term >= 1
    /\ rates \in [Observation -> RateChange \cup {None}]
    /\ halfway \in BOOLEAN

TermsInit ==
    /\ loan = None
    /\ rates = [o \in Observation |-> None]
    /\ halfway = FALSE

-----------------------------------------------------------------------------
(* Dates and rates                                                         *)

\* k months later, on the same day or on the last of a shorter month.
AddMonths(d, k) ==
    LET month == d \div 2 + k
    IN  IF month \in Short THEN 2 * month ELSE 2 * month + (d % 2)

Observed(table) == {o \in Observation : table[o] # None}

\* Mutant: an observation counts from the start of its month.
MadeInMonth(table, on) == {o \in Observed(table) : table[o].date <= on + 1}

Made(table, on) == {o \in Observed(table) : table[o].date <= on}

\* Of the observations made by a day the latest counts, and of two of one day
\* the higher, for sorted() compares pairs.
LatestBaseRate(table, on) ==
    LET latest == {o \in Made(table, on) :
                     \A p \in Made(table, on) : table[p].date <= table[o].date}
    IN  Max({table[o].base : o \in latest})

\* A variable loan needs a base rate by every due date.
HasRates(terms, table) ==
    terms.rateType = "variable" =>
        \A i \in 1..terms.term : Made(table, AddMonths(terms.start, i)) # {}

\* The annual rate of each installment.
ExpandMonthlyRates(terms, table) ==
    [i \in 1..terms.term |->
        IF terms.rateType = "fixed" THEN terms.rate
        ELSE terms.rate + LatestBaseRate(table, AddMonths(terms.start, i))]

-----------------------------------------------------------------------------
(* The schedule                                                            *)

\* num / den to the nearest integer, halves away from zero (den positive).
HalfUp(num, den) ==
    IF num >= 0 THEN (2 * num + den) \div (2 * den) ELSE -((den - 2 * num) \div (2 * den))

Powers(x) == LET power[n \in Nat] == IF n = 0 THEN 1 ELSE x * power[n - 1] IN power

\* The level installment that repays a balance over n months.
AnnuityPayment(balance, rate, n) ==
    IF rate = 0 THEN HalfUp(balance, n)
    ELSE LET grown == Powers(RateUnit + rate)[n]
         IN  HalfUp(balance * rate * grown, RateUnit * (grown - Powers(RateUnit)[n]))

\* Mutant: the last installment is like the others.
PrincipalPaidLevel(terms, i, balance, level, interest) ==
    IF terms.installments = "equal" THEN level - interest
    ELSE HalfUp(terms.principal, terms.term)

\* The last installment pays off the balance, whatever rounding left.
PrincipalPaid(terms, i, balance, level, interest) ==
    IF i = terms.term THEN balance
    ELSE IF terms.installments = "equal" THEN level - interest
    ELSE HalfUp(terms.principal, terms.term)

\* The level installment is computed again only when the rate changes.
LevelOf(rate, i, row, n) ==
    IF i > 1 /\ rate[i] = rate[i - 1] THEN row.level
    ELSE AnnuityPayment(row.balance, rate[i], n)

\* Row 0 is the loan paid out.
PaidOut(terms) == [interest |-> 0, paid |-> 0, balance |-> terms.principal, level |-> 0]

\* Installment i, from the row before it.
NextRow(terms, rate, i, before) ==
    LET interest == HalfUp(before.balance * rate[i], RateUnit)
        level    == LevelOf(rate, i, before, terms.term - i + 1)
        paid     == PrincipalPaid(terms, i, before.balance, level, interest)
    IN  [interest |-> interest, paid |-> paid, balance |-> before.balance - paid, level |-> level]

\* The installments one after the other.
Rows(terms, rate) ==
    LET row[i \in 0..terms.term] ==
            IF i = 0 THEN PaidOut(terms) ELSE NextRow(terms, rate, i, row[i - 1])
    IN  row

\* A row that would add to the debt makes the schedule an error.
Amortizes(row) == \A i \in DOMAIN row : row[i].paid >= 0

\* The rows of the schedule, or None where the page shows an error instead.
LoanSchedule(terms, table) ==
    IF ~HasRates(terms, table) THEN None
    ELSE LET row == Rows(terms, ExpandMonthlyRates(terms, table))
         IN  IF Amortizes(row) THEN row ELSE None

\* The principal parts of the installments that are due by a day, added up.
Repaid(terms, row, on) ==
    LET sum[i \in 0..terms.term] ==
            IF i = 0 THEN 0
            ELSE sum[i - 1] + (IF AddMonths(terms.start, i) <= on THEN row[i].paid ELSE 0)
    IN  sum[terms.term]

\* What is still owed on a day, by the plan.
OutstandingPrincipal(terms, row, on) == terms.principal - Repaid(terms, row, on)

-----------------------------------------------------------------------------
(* Requests                                                                *)

ParseLoanForm(form) == form.principal > 0 /\ form.term >= 1

Unused == {o \in Observation : rates[o] = None}

Add(o, date, base) == rates' = [rates EXCEPT ![o] = [date |-> date, base |-> base]]

\* The loan is committed before the first rate of a variable one.
CreateLoan(form, base) ==
    /\ loan = None
    /\ ParseLoanForm(form)
    /\ loan' = form
    /\ \/ /\ form.rateType = "fixed"
          /\ UNCHANGED <<rates, halfway>>
       \/ /\ form.rateType = "variable"
          /\ \E o \in Unused : Add(o, form.start, base)
          /\ UNCHANGED halfway
       \/ /\ form.rateType = "variable"
          /\ halfway' = TRUE
          /\ UNCHANGED rates

Earliest ==
    {o \in Observed(rates) : \A p \in Observed(rates) : rates[o].date <= rates[p].date}

\* The observation an edit takes for the one made at the start: one on the old
\* start date, or else the earliest.
Seeds ==
    LET atStart == {o \in Observed(rates) : rates[o].date = loan.start}
    IN  IF atStart # {} THEN atStart ELSE Earliest

\* Mutant: the observation gets its rate but stays where it is.
ReseedInPlace(o, date, base) == Add(o, rates[o].date, base)

Reseed(o, date, base) == Add(o, date, base)

\* An edit rewrites all terms; that of a variable loan moves the observation
\* made at the start, or makes it if there is none.
UpdateLoan(form, base) ==
    /\ loan # None
    /\ ParseLoanForm(form)
    /\ loan' = form
    /\ \/ /\ form.rateType = "fixed"
          /\ UNCHANGED <<rates, halfway>>
       \/ /\ form.rateType = "variable"
          /\ \/ \E o \in Seeds : Reseed(o, form.start, base)
             \/ Observed(rates) = {} /\ \E o \in Unused : Add(o, form.start, base)
          /\ halfway' = FALSE

AddRateChange(date, base) ==
    /\ loan # None
    /\ \E o \in Unused : Add(o, date, base)
    /\ UNCHANGED <<loan, halfway>>

TermsNext ==
    \/ \E form \in LoanForm, base \in BaseRate :
          CreateLoan(form, base) \/ UpdateLoan(form, base)
    \/ \E date \in Date, base \in BaseRate : AddRateChange(date, base)

TermsSpec == TermsInit /\ [][TermsNext]_termsVars

-----------------------------------------------------------------------------
(* What a schedule promises                                                *)

\* Whatever was edited and observed, a variable loan has a base rate from its
\* first installment on, unless its creation stopped before the first rate
\* and nobody has edited it since (create_loan: "so the schedule has a rate
\* from month 1"; update_loan moves that rate along with the start).
FirstMonthKnown == loan # None /\ ~halfway => HasRates(loan, rates)

\* What one unit a month grows to in n months, times RateUnit^n.
Grown(rate) ==
    LET grown[n \in Nat] ==
            IF n = 0 THEN 0 ELSE (RateUnit + rate) * grown[n - 1] + Powers(RateUnit)[n]
    IN  grown

Tiny(terms, table) ==
    \E i \in 1..terms.term :
        terms.principal * Powers(RateUnit)[terms.term]
            < terms.term * Grown(ExpandMonthlyRates(terms, table)[i])[terms.term]

\* Rounding leaves a loan without a schedule only if the loan is tiny: less, in
\* minor units, than its months times what one unit a month grows to by the end
\* of the term at the highest rate; its rounded installments can repay more than
\* there is (generate_schedule: "so the schedule always ends at a balance of
\* exactly zero regardless of rounding").
OnlyTinyLoansFail ==
    loan # None /\ HasRates(loan, rates) /\ ~Tiny(loan, rates)
        => LoanSchedule(loan, rates) # None

\* A schedule repays the loan exactly: the debt never grows and is never
\* overpaid, and the principal parts, of however many installments fall due on
\* one day or another, add up to the loan (generate_schedule,
\* outstanding_principal).
PaysOff ==
    loan # None /\ LoanSchedule(loan, rates) # None =>
        LET row  == LoanSchedule(loan, rates)
            owed == [i \in 0..loan.term |-> OutstandingPrincipal(loan, row, AddMonths(loan.start, i))]
        IN  /\ owed[loan.term] = 0
            /\ \A i \in 1..loan.term : owed[i] = row[i].balance /\ 0 <= owed[i] /\ owed[i] <= owed[i - 1]

\* To half a minor unit, a payment repays a balance with interest in n months.
RepaysIn(n, balance, rate, payment) ==
    LET left == 2 * (balance * Powers(RateUnit + rate)[n] - payment * Grown(rate)[n])
    IN  -Grown(rate)[n] <= left /\ left <= Grown(rate)[n]

\* From one change of the rate to the next, the installments of an equal loan
\* are, to half a minor unit, the one amount that paid every month would repay
\* what was owed at the change, with its interest, at the end of the term; only
\* the last installment takes what rounding left (generate_schedule).
LevelPayments ==
    loan # None /\ loan.installments = "equal" /\ LoanSchedule(loan, rates) # None =>
        LET row  == LoanSchedule(loan, rates)
            rate == ExpandMonthlyRates(loan, rates)
        IN  \A i \in 1..loan.term - 1 : \A since \in 1..i :
              /\ since = 1 \/ rate[since] # rate[since - 1]
              /\ \A k \in since..i : rate[k] = rate[i]
              => RepaysIn(loan.term - since + 1, row[since - 1].balance, rate[i],
                          row[i].interest + row[i].paid)

\* Whatever was edited and observed, the loan has a schedule unless it is tiny,
\* and the schedule repays it exactly in level installments.
ScheduleSound == OnlyTinyLoansFail /\ PaysOff /\ LevelPayments

PastKept ==
    \A o \in Observation : rates[o] = None /\ rates'[o] # None /\ loan' = loan =>
        LET before == LoanSchedule(loan, rates)
            after  == LoanSchedule(loan, rates')
        IN  before # None /\ after # None =>
              \A i \in 1..loan.term : AddMonths(loan.start, i) < rates'[o].date =>
                  before[i] = after[i]

\* An observation changes no installment that fell due before its date, nor
\* what was owed until then: the plan's past stays as it was
\* (expand_monthly_rates, generate_schedule).
PastUntouched == [][loan # None => PastKept]_termsVars

-----------------------------------------------------------------------------
(* Why they hold                                                           *)

\* Some observation was made by the day the loan was paid out.
RateAtStart ==
    loan # None /\ loan.rateType = "variable" /\ ~halfway =>
        \E o \in Observation : rates[o] # None /\ rates[o].date <= loan.start

TermsInv == TermsTypeOK /\ RateAtStart
=============================================================================
