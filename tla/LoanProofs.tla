----------------------------- MODULE LoanProofs -----------------------------
(***************************************************************************)
(* Theorems about the two modules of the loans.                            *)
(*                                                                         *)
(* LoanTerms, for all amounts, rates, terms and dates and any number of    *)
(* observations: a variable loan keeps a base rate from its first          *)
(* installment on, the schedule exists unless the loan is tiny, repays it  *)
(* exactly and in level installments, and an observation leaves the        *)
(* installments before it alone.  Sequences are met number by number, with *)
(* Counting and StepByStep, since nothing recursive can be unfolded here.  *)
(*                                                                         *)
(* LoanDocuments, for any number of loans, documents and overlapping       *)
(* requests: the rows and files implement the store of whole documents of  *)
(* module DocumentStore, no file is left behind without a cause, and the   *)
(* cap is passed by overlapping uploads only.                              *)
(***************************************************************************)
EXTENDS LoanTerms, LoanDocuments, FiniteSetTheorems, WellFoundedInduction, TLAPS

-----------------------------------------------------------------------------
(* The terms                                                               *)

LEMMA DatesAreNumbers == \A d \in Date : d \in Nat /\ d \in Int
BY LoanTermsAssumption

\* An installment does not fall due before the loan is paid out.
LEMMA DueAfterStart ==
    ASSUME NEW d \in Nat, NEW k \in Nat \ {0}
    PROVE  d <= AddMonths(d, k)
<1>1. d = 2 * (d \div 2) + (d % 2) /\ d % 2 \in {0, 1} /\ d \div 2 \in Nat
  OBVIOUS
<1> QED
  BY <1>1 DEF AddMonths

LEMMA AddType ==
    ASSUME TermsTypeOK, NEW o \in Observation, NEW date \in Date, NEW base \in BaseRate,
           Add(o, date, base)
    PROVE  /\ rates' \in [Observation -> RateChange \cup {None}]
           /\ rates'[o] # None /\ rates'[o].date = date
           /\ \A p \in Observation \ {o} : rates'[p] = rates[p]
<1>1. [date |-> date, base |-> base] \in RateChange
  BY DEF RateChange
<1>2. [date |-> date, base |-> base] # None
  BY <1>1, LoanTermsAssumption
<1> QED
  BY <1>1, <1>2 DEF TermsTypeOK, Add

LEMMA InitIInv == TermsInit => TermsInv
<1> SUFFICES ASSUME TermsInit PROVE TermsInv
  OBVIOUS
<1> QED
  BY DEF TermsInit, TermsInv, TermsTypeOK, RateAtStart

\* A form that was accepted is a loan of at least one month.
LEMMA ParsedType ==
    ASSUME NEW form \in LoanForm, ParseLoanForm(form)
    PROVE  /\ form.principal > 0 /\ form.term >= 1 /\ form # None
           /\ form.start \in Date /\ form.start \in Int
<1>1. form.start \in Date
  BY DEF LoanForm
<1>2. form # None
  BY LoanTermsAssumption
<1> QED
  BY <1>1, <1>2, DatesAreNumbers DEF ParseLoanForm

LEMMA NextIInv == TermsInv /\ [TermsNext]_termsVars => TermsInv'
<1> SUFFICES ASSUME TermsInv, [TermsNext]_termsVars PROVE TermsInv'
  OBVIOUS
<1> USE DEF TermsInv
<1>1. ASSUME NEW form \in LoanForm, NEW base \in BaseRate, CreateLoan(form, base)
      PROVE  TermsInv'
  <2>1. form.principal > 0 /\ form.term >= 1 /\ form # None
        /\ form.start \in Date /\ form.start \in Int
    BY <1>1, ParsedType DEF CreateLoan
  <2>2. loan' = form
    BY <1>1 DEF CreateLoan
  <2>3. CASE form.rateType = "fixed" /\ UNCHANGED <<rates, halfway>>
    BY <2>1, <2>2, <2>3 DEF TermsTypeOK, RateAtStart
  <2>4. CASE /\ form.rateType = "variable"
             /\ \E o \in Unused : Add(o, form.start, base)
             /\ UNCHANGED halfway
    <3>1. PICK o \in Unused : Add(o, form.start, base)
      BY <2>4
    <3>2. o \in Observation
      BY DEF Unused
    <3>3. /\ rates' \in [Observation -> RateChange \cup {None}]
          /\ rates'[o] # None /\ rates'[o].date = form.start
      BY <3>1, <3>2, <2>1, AddType
    <3> QED
      BY <2>1, <2>2, <2>4, <3>2, <3>3 DEF TermsTypeOK, RateAtStart
  <2>5. CASE halfway' = TRUE /\ UNCHANGED rates
    BY <2>1, <2>2, <2>5 DEF TermsTypeOK, RateAtStart
  <2> QED
    BY <1>1, <2>3, <2>4, <2>5 DEF CreateLoan
<1>2. ASSUME NEW form \in LoanForm, NEW base \in BaseRate, UpdateLoan(form, base)
      PROVE  TermsInv'
  <2>1. form.principal > 0 /\ form.term >= 1 /\ form # None
        /\ form.start \in Date /\ form.start \in Int
    BY <1>2, ParsedType DEF UpdateLoan
  <2>2. loan' = form
    BY <1>2 DEF UpdateLoan
  <2>3. CASE form.rateType = "fixed" /\ UNCHANGED <<rates, halfway>>
    BY <2>1, <2>2, <2>3 DEF TermsTypeOK, RateAtStart
  <2>4. CASE form.rateType # "fixed"
    <3>1. PICK o \in Observation : Add(o, form.start, base)
      BY <1>2, <2>4 DEF UpdateLoan, Reseed, Seeds, Earliest, Observed, Unused
    <3>2. /\ rates' \in [Observation -> RateChange \cup {None}]
          /\ rates'[o] # None /\ rates'[o].date = form.start
      BY <3>1, <2>1, AddType
    <3>3. halfway' = FALSE
      BY <1>2, <2>4 DEF UpdateLoan
    <3>4. TermsTypeOK'
      BY <2>1, <2>2, <3>2, <3>3 DEF TermsTypeOK
    <3>5. rates'[o].date <= loan'.start
      BY <2>1, <2>2, <3>2
    <3> QED
      BY <3>2, <3>4, <3>5 DEF RateAtStart
  <2> QED
    BY <1>2, <2>3, <2>4 DEF UpdateLoan
<1>3. ASSUME NEW date \in Date, NEW base \in BaseRate, AddRateChange(date, base)
      PROVE  TermsInv'
  <2>1. PICK o \in Unused : Add(o, date, base)
    BY <1>3 DEF AddRateChange
  <2>2. o \in Observation /\ rates[o] = None
    BY DEF Unused
  <2>3. /\ rates' \in [Observation -> RateChange \cup {None}]
        /\ \A p \in Observation \ {o} : rates'[p] = rates[p]
    BY <2>1, <2>2, AddType
  <2>4. loan' = loan /\ halfway' = halfway
    BY <1>3 DEF AddRateChange
  <2> QED
    BY <2>2, <2>3, <2>4 DEF TermsTypeOK, RateAtStart
<1>4. CASE UNCHANGED termsVars
  BY <1>4 DEF termsVars, TermsTypeOK, RateAtStart
<1> QED
  BY <1>1, <1>2, <1>3, <1>4 DEF TermsNext

\* The inductive invariant holds in every reachable state.
THEOREM LoanTermsInvariant == TermsSpec => []TermsInv
BY InitIInv, NextIInv, PTL DEF TermsSpec

\* Every state is of the right type: no form that says a loan of no months, or
\* of no money, gets through (_parse_loan_form).
THEOREM LoanTermsTypeCorrect == TermsSpec => []TermsTypeOK
<1>1. TermsInv => TermsTypeOK
  BY DEF TermsInv
<1> QED
  BY LoanTermsInvariant, <1>1, PTL

\* A variable loan has a base rate from its first installment on, whatever was
\* edited and observed, unless its creation stopped before the first rate
\* (create_loan, update_loan).
THEOREM FirstMonthAlwaysKnown == TermsSpec => []FirstMonthKnown
<1>1. TermsInv => FirstMonthKnown
  <2> SUFFICES ASSUME TermsInv, loan # None, ~halfway, loan.rateType = "variable",
                      NEW i \in 1..loan.term
               PROVE  Made(rates, AddMonths(loan.start, i)) # {}
    BY DEF FirstMonthKnown, HasRates
  <2>1. PICK o \in Observation : rates[o] # None /\ rates[o].date <= loan.start
    BY DEF TermsInv, RateAtStart
  <2>2. loan.start \in Nat /\ loan.term \in Int
    <3>1. loan.start \in Date /\ loan.term \in Int
      BY LoanTermsAssumption DEF TermsInv, TermsTypeOK, LoanForm
    <3> QED
      BY <3>1, DatesAreNumbers
  <2>3. loan.start <= AddMonths(loan.start, i) /\ AddMonths(loan.start, i) \in Int
    <3>1. i \in Nat \ {0}
      BY <2>2
    <3> QED
      BY <2>2, <3>1, DueAfterStart DEF AddMonths
  <2>4. rates[o].date \in Int
    <3>1. rates[o] \in RateChange
      BY <2>1 DEF TermsInv, TermsTypeOK
    <3> QED
      BY <3>1, DatesAreNumbers DEF RateChange
  <2>5. rates[o].date <= AddMonths(loan.start, i)
    BY <2>1, <2>2, <2>3, <2>4
  <2> QED
    BY <2>1, <2>5 DEF Made, Observed
<1> QED
  BY LoanTermsInvariant, <1>1, PTL

-----------------------------------------------------------------------------
(* Counting and sequences                                                  *)

\* A set of numbers that has 0 and with every number the next has them all.
LEMMA Counting ==
    ASSUME NEW A, 0 \in A, \A n \in Nat : n \in A => n + 1 \in A
    PROVE  \A n \in Nat : n \in A
<1> DEFINE B == {n \in Nat : n \notin A}
           R == OpToRel(<, Nat)
<1> SUFFICES ASSUME B # {} PROVE FALSE
  OBVIOUS
<1>1. IsWellFoundedOn(R, Nat)
  BY NatLessThanWellFounded
<1>2. PICK n \in B : \A m \in B : ~(<<m, n>> \in R)
  <2> HIDE DEF R
  <2> QED
    BY <1>1, WFMin, Zenon
<1>3. n \in Nat /\ n \notin A
  OBVIOUS
<1>4. n # 0
  BY <1>3
<1>5. n - 1 \in Nat /\ n - 1 < n /\ n = (n - 1) + 1
  BY <1>3, <1>4
<1>6. <<n - 1, n>> \in R
  BY <1>3, <1>5, Zenon DEF OpToRel
<1>7. n - 1 \in A
  BY <1>2, <1>5, <1>6
<1> QED
  BY <1>3, <1>5, <1>7

\* Two sequences that start alike and go on alike are alike.
LEMMA SameSteps ==
    ASSUME NEW n \in Nat, NEW f, NEW g, f[0] = g[0],
           \A k \in 0..n : k < n /\ f[k] = g[k] => f[k + 1] = g[k + 1]
    PROVE  \A k \in 0..n : f[k] = g[k]
<1> DEFINE A == {k \in Nat : k <= n => f[k] = g[k]}
<1>1. 0 \in A
  OBVIOUS
<1>2. ASSUME NEW k \in Nat, k \in A PROVE k + 1 \in A
  BY <1>2
<1> HIDE DEF A
<1>3. \A k \in Nat : k \in A
  BY <1>1, <1>2, Counting
<1> QED
  BY <1>3 DEF A

\* f starts with base and goes on by steps.
GoesOn(f, base, step) == f[0] = base /\ \A n \in Nat : f[n + 1] = step[<<n, f[n]>>]

\* What starts somewhere and has a next value at each number is a sequence.
LEMMA StepByStep ==
    ASSUME NEW S, NEW base \in S, NEW step \in [Nat \X S -> S]
    PROVE  \E f \in [Nat -> S] : GoesOn(f, base, step)
<1> DEFINE Starts(n, g) == g[0] = base /\ \A k \in 0..n : k < n => g[k + 1] = step[<<k, g[k]>>]
           A == {n \in Nat : \E g \in [0..n -> S] : Starts(n, g)}
<1>1. 0 \in A
  <2> DEFINE g == [k \in 0..0 |-> base]
  <2>1. g \in [0..0 -> S] /\ Starts(0, g)
    OBVIOUS
  <2> QED
    BY <2>1
<1>2. ASSUME NEW n \in Nat, n \in A PROVE n + 1 \in A
  <2>1. PICK g \in [0..n -> S] : Starts(n, g)
    BY <1>2
  <2> DEFINE h == [k \in 0..n + 1 |-> IF k <= n THEN g[k] ELSE step[<<n, g[n]>>]]
  <2>2. g[n] \in S /\ <<n, g[n]>> \in Nat \X S
    OBVIOUS
  <2>3. step[<<n, g[n]>>] \in S
    BY <2>2
  <2>4. \A k \in 0..n + 1 : h[k] \in S
    BY <2>3
  <2>5. h \in [0..n + 1 -> S]
    BY <2>4
  <2>6. h[0] = base
    BY <2>1
  <2>7. ASSUME NEW k \in 0..n + 1, k < n + 1 PROVE h[k + 1] = step[<<k, h[k]>>]
    <3>1. CASE k < n
      <4>1. k \in 0..n /\ k + 1 \in 0..n /\ k + 1 \in 0..n + 1 /\ k + 1 <= n /\ k <= n
        BY <3>1
      <4> QED
        BY <4>1, <3>1, <2>1
    <3>2. CASE k = n
      <4>1. k + 1 \in 0..n + 1 /\ ~(k + 1 <= n) /\ k <= n
        BY <3>2
      <4> QED
        BY <4>1, <3>2
    <3> QED
      BY <2>7, <3>1, <3>2
  <2>8. Starts(n + 1, h)
    BY <2>6, <2>7
  <2> HIDE DEF h
  <2> QED
    BY <2>5, <2>8
<1>3. \A n \in Nat : n \in A
  <2> HIDE DEF A
  <2> QED
    BY <1>1, <1>2, Counting
<1> DEFINE start == [n \in Nat |-> CHOOSE g \in [0..n -> S] : Starts(n, g)]
           f == [n \in Nat |-> start[n][n]]
<1>4. ASSUME NEW n \in Nat PROVE start[n] \in [0..n -> S] /\ Starts(n, start[n])
  <2>1. \E g \in [0..n -> S] : Starts(n, g)
    BY <1>3
  <2> HIDE DEF Starts
  <2> QED
    BY <2>1
<1> HIDE DEF start
<1>5. ASSUME NEW n \in Nat PROVE start[n + 1][n] = start[n][n]
  <2> DEFINE g == start[n]
             h == start[n + 1]
  <2>1. Starts(n, g) /\ Starts(n + 1, h)
    BY <1>4
  <2> HIDE DEF g, h
  <2>2. g[0] = h[0]
    BY <2>1
  <2>3. ASSUME NEW k \in 0..n, k < n, g[k] = h[k] PROVE g[k + 1] = h[k + 1]
    <3>1. k \in 0..n + 1 /\ k < n + 1
      BY <2>3
    <3>2. g[k + 1] = step[<<k, g[k]>>]
      BY <2>1, <2>3
    <3>3. h[k + 1] = step[<<k, h[k]>>]
      BY <2>1, <3>1
    <3> QED
      BY <2>3, <3>2, <3>3
  <2>4. \A k \in 0..n : g[k] = h[k]
    BY <2>2, <2>3, SameSteps
  <2> QED
    BY <2>4 DEF g, h
<1>6. f \in [Nat -> S]
  BY <1>4
<1>7. f[0] = base
  BY <1>4
<1>8. ASSUME NEW n \in Nat PROVE f[n + 1] = step[<<n, f[n]>>]
  <2>1. start[n + 1][n + 1] = step[<<n, start[n + 1][n]>>]
    <3>1. Starts(n + 1, start[n + 1])
      BY <1>4
    <3>2. n \in 0..n + 1 /\ n < n + 1
      OBVIOUS
    <3> QED
      BY <3>1, <3>2
  <2> QED
    BY <2>1, <1>5
<1> HIDE DEF f
<1>9. GoesOn(f, base, step)
  BY <1>7, <1>8 DEF GoesOn
<1> QED
  BY <1>6, <1>9

-----------------------------------------------------------------------------
(* Rounding and growth                                                     *)

LEMMA RateUnitType == RateUnit \in Nat /\ RateUnit > 0
BY LoanTermsAssumption

\* Rounding is off by half a unit at most.
LEMMA HalfUpNear ==
    ASSUME NEW num \in Int, NEW den \in Nat, den > 0
    PROVE  /\ HalfUp(num, den) \in Int
           /\ -den <= 2 * (num - den * HalfUp(num, den))
           /\ 2 * (num - den * HalfUp(num, den)) <= den
<1> DEFINE two == 2 * den
<1>1. two \in Nat /\ two > 0
  OBVIOUS
<1>2. \A a \in Int : a \div two \in Int /\ two * (a \div two) <= a /\ a < two * (a \div two) + two
  BY <1>1
<1>3. CASE num >= 0
  <2> DEFINE h == (2 * num + den) \div two
  <2>1. HalfUp(num, den) = h
    BY <1>3 DEF HalfUp
  <2>2. 2 * num + den \in Int
    OBVIOUS
  <2>3. h \in Int /\ two * h <= 2 * num + den /\ 2 * num + den < two * h + two
    BY <1>2, <2>2
  <2> HIDE DEF h
  <2>4. two * h = 2 * (den * h)
    BY <2>3
  <2> QED
    BY <2>1, <2>3, <2>4
<1>4. CASE ~(num >= 0)
  <2> DEFINE h == (den - 2 * num) \div two
  <2>1. HalfUp(num, den) = -h
    BY <1>4 DEF HalfUp
  <2>2. den - 2 * num \in Int
    OBVIOUS
  <2>3. h \in Int /\ two * h <= den - 2 * num /\ den - 2 * num < two * h + two
    BY <1>2, <2>2
  <2> HIDE DEF h
  <2>4. two * h = 2 * (den * h) /\ den * (-h) = -(den * h)
    BY <2>3
  <2> QED
    BY <2>1, <2>3, <2>4
<1> QED
  BY <1>3, <1>4

\* Powers is what it is written to be.
LEMMA PowersAre ==
    ASSUME NEW x \in Nat, x > 0
    PROVE  /\ Powers(x) \in [Nat -> Int]
           /\ Powers(x)[0] = 1
           /\ \A n \in Nat : Powers(x)[n + 1] = x * Powers(x)[n] /\ Powers(x)[n] > 0
<1> DEFINE Are(f) == f = [n \in Nat |-> IF n = 0 THEN 1 ELSE x * f[n - 1]]
           step == [p \in Nat \X Int |-> x * p[2]]
<1>1. step \in [Nat \X Int -> Int] /\ 1 \in Int
  OBVIOUS
<1>2. PICK f \in [Nat -> Int] : GoesOn(f, 1, step)
  <2> HIDE DEF step
  <2> QED
    BY <1>1, StepByStep
<1>3. \A n \in Nat : f[n + 1] = x * f[n]
  BY <1>2 DEF GoesOn
<1>4. Are(f)
  <2>1. ASSUME NEW n \in Nat PROVE f[n] = IF n = 0 THEN 1 ELSE x * f[n - 1]
    <3>1. CASE n = 0
      BY <3>1, <1>2 DEF GoesOn
    <3>2. CASE n # 0
      <4>1. n - 1 \in Nat /\ n = (n - 1) + 1
        BY <3>2
      <4> QED
        BY <4>1, <3>2, <1>3
    <3> QED
      BY <3>1, <3>2
  <2> QED
    BY <2>1
<1> DEFINE p == CHOOSE g : Are(g)
<1>5. Powers(x) = p
  BY DEF Powers
<1>6. Are(p)
  BY <1>4
<1> HIDE DEF p
<1>7. p[0] = 1
  BY <1>6
<1>8. ASSUME NEW n \in Nat PROVE p[n + 1] = x * p[n]
  <2>1. n + 1 \in Nat /\ n + 1 # 0 /\ (n + 1) - 1 = n
    OBVIOUS
  <2> QED
    BY <1>6, <2>1
<1> DEFINE A == {n \in Nat : p[n] \in Int /\ p[n] > 0}
<1>9. 0 \in A
  BY <1>7
<1>10. ASSUME NEW n \in Nat, n \in A PROVE n + 1 \in A
  <2>1. p[n] \in Int /\ p[n] > 0
    BY <1>10
  <2>2. x * p[n] \in Int /\ x * p[n] > 0
    BY <2>1
  <2> QED
    BY <2>2, <1>8
<1>11. \A n \in Nat : n \in A
  <2> HIDE DEF A
  <2> QED
    BY <1>9, <1>10, Counting
<1>12. p \in [Nat -> Int]
  BY <1>6, <1>11
<1> QED
  BY <1>5, <1>7, <1>8, <1>11, <1>12

LEMMA GrownIs ==
    ASSUME NEW rate \in Nat
    PROVE  /\ Grown(rate) \in [Nat -> Int]
           /\ Grown(rate)[0] = 0
           /\ \A n \in Nat :
                /\ Grown(rate)[n + 1] =
                     (RateUnit + rate) * Grown(rate)[n] + Powers(RateUnit)[n + 1]
                /\ Grown(rate)[n] >= 0
                /\ Grown(rate)[n + 1] > 0
<1> DEFINE x == RateUnit + rate
           U == Powers(RateUnit)
           Are(f) == f = [n \in Nat |-> IF n = 0 THEN 0 ELSE x * f[n - 1] + U[n]]
           step == [p \in Nat \X Int |-> x * p[2] + U[p[1] + 1]]
<1>0. /\ x \in Nat
      /\ U \in [Nat -> Int] /\ \A n \in Nat : U[n] \in Int /\ U[n] > 0
  BY RateUnitType, PowersAre
<1>p. Grown(rate) = CHOOSE g : Are(g)
  BY DEF Grown
<1> HIDE DEF U, x
<1>1. step \in [Nat \X Int -> Int] /\ 0 \in Int
  BY <1>0
<1>2. PICK f \in [Nat -> Int] : GoesOn(f, 0, step)
  <2> HIDE DEF step
  <2> QED
    BY <1>1, StepByStep
<1>3. \A n \in Nat : f[n + 1] = x * f[n] + U[n + 1]
  BY <1>2 DEF GoesOn
<1>4. Are(f)
  <2>1. ASSUME NEW n \in Nat PROVE f[n] = IF n = 0 THEN 0 ELSE x * f[n - 1] + U[n]
    <3>1. CASE n = 0
      BY <3>1, <1>2 DEF GoesOn
    <3>2. CASE n # 0
      <4>1. n - 1 \in Nat /\ n = (n - 1) + 1
        BY <3>2
      <4> QED
        BY <4>1, <3>2, <1>3
    <3> QED
      BY <3>1, <3>2
  <2> QED
    BY <2>1
<1> DEFINE p == CHOOSE g : Are(g)
<1>6. Are(p)
  BY <1>4
<1> HIDE DEF p
<1>7. p[0] = 0
  BY <1>6
<1>8. ASSUME NEW n \in Nat PROVE p[n + 1] = x * p[n] + U[n + 1]
  <2>1. n + 1 \in Nat /\ n + 1 # 0 /\ (n + 1) - 1 = n
    OBVIOUS
  <2> QED
    BY <1>6, <2>1
<1> DEFINE A == {n \in Nat : p[n] \in Int /\ p[n] >= 0}
<1>9. 0 \in A
  BY <1>7
<1>10. ASSUME NEW n \in Nat, p[n] \in Int, p[n] >= 0
       PROVE  p[n + 1] \in Int /\ p[n + 1] > 0
  <2>2. x * p[n] \in Int /\ x * p[n] >= 0
    BY <1>10, <1>0
  <2>3. U[n + 1] \in Int /\ U[n + 1] > 0
    BY <1>0
  <2> QED
    BY <2>2, <2>3, <1>8
<1>11. \A n \in Nat : n \in A
  <2>1. ASSUME NEW n \in Nat, n \in A PROVE n + 1 \in A
    BY <2>1, <1>10
  <2> HIDE DEF A
  <2> QED
    BY <1>9, <2>1, Counting
<1>12. p \in [Nat -> Int]
  BY <1>6, <1>11
<1>13. Grown(rate) = p
  BY <1>p DEF p
<1> QED
  BY <1>7, <1>8, <1>10, <1>11, <1>12, <1>13 DEF x, U

\* The powers of a sum of exponents are products.
LEMMA PowersAdd ==
    ASSUME NEW x \in Nat, x > 0, NEW j \in Nat, NEW m \in Nat
    PROVE  Powers(x)[j + m] = Powers(x)[j] * Powers(x)[m]
<1> DEFINE P == Powers(x)
           A == {n \in Nat : P[j + n] = P[j] * P[n]}
<1>1. P[0] = 1 /\ \A n \in Nat : P[n] \in Int /\ P[n + 1] = x * P[n]
  BY PowersAre
<1> HIDE DEF P
<1>2. 0 \in A
  BY <1>1
<1>3. ASSUME NEW n \in Nat, n \in A PROVE n + 1 \in A
  <2>1. P[j + n] = P[j] * P[n]
    BY <1>3
  <2>2. j + n \in Nat /\ (j + n) + 1 = j + (n + 1)
    OBVIOUS
  <2>3. P[j + (n + 1)] = x * (P[j] * P[n]) /\ P[n + 1] = x * P[n]
    BY <1>1, <2>1, <2>2
  <2>4. x * (P[j] * P[n]) = P[j] * (x * P[n])
    BY <1>1
  <2> QED
    BY <2>3, <2>4
<1>4. \A n \in Nat : n \in A
  <2> HIDE DEF A
  <2> QED
    BY <1>2, <1>3, Counting
<1> QED
  BY <1>4 DEF P

\* A greater base has greater powers.
LEMMA PowersMonotone ==
    ASSUME NEW x \in Nat, x > 0, NEW y \in Nat, x <= y, NEW m \in Nat
    PROVE  Powers(x)[m] <= Powers(y)[m]
<1> DEFINE P == Powers(x)
           Q == Powers(y)
           A == {n \in Nat : P[n] <= Q[n]}
<1>1. /\ P[0] = 1 /\ \A n \in Nat : P[n] \in Int /\ P[n] > 0 /\ P[n + 1] = x * P[n]
      /\ Q[0] = 1 /\ \A n \in Nat : Q[n] \in Int /\ Q[n] > 0 /\ Q[n + 1] = y * Q[n]
  <2>1. y > 0
    OBVIOUS
  <2> QED
    BY <2>1, PowersAre
<1> HIDE DEF P, Q
<1>2. 0 \in A
  BY <1>1
<1>3. ASSUME NEW n \in Nat, n \in A PROVE n + 1 \in A
  <2>1. P[n] \in Int /\ P[n] > 0 /\ Q[n] \in Int /\ P[n] <= Q[n]
    BY <1>1, <1>3
  <2>2. x * P[n] <= y * Q[n]
    BY <2>1
  <2> QED
    BY <1>1, <2>2
<1>4. \A n \in Nat : n \in A
  <2> HIDE DEF A
  <2> QED
    BY <1>2, <1>3, Counting
<1> QED
  BY <1>4 DEF P, Q

\* The numbers of one rate: what they start with, their type, how they go on.
LEMMA NumbersStart ==
    ASSUME NEW r \in Nat
    PROVE  Powers(RateUnit + r)[0] = 1 /\ Powers(RateUnit)[0] = 1 /\ Grown(r)[0] = 0
<1>1. RateUnit + r \in Nat /\ RateUnit + r > 0
  BY RateUnitType
<1> QED
  BY <1>1, RateUnitType, PowersAre, GrownIs

LEMMA NumbersType ==
    ASSUME NEW r \in Nat
    PROVE  \A n \in Nat :
              /\ Powers(RateUnit + r)[n] \in Int /\ Powers(RateUnit + r)[n] > 0
              /\ Powers(RateUnit)[n] \in Int /\ Powers(RateUnit)[n] > 0
              /\ Grown(r)[n] \in Int /\ Grown(r)[n] >= 0
              /\ Grown(r)[n + 1] > 0
<1>1. RateUnit + r \in Nat /\ RateUnit + r > 0
  BY RateUnitType
<1> QED
  BY <1>1, RateUnitType, PowersAre, GrownIs

LEMMA NumbersGrow ==
    ASSUME NEW r \in Nat
    PROVE  \A n \in Nat :
              /\ Powers(RateUnit + r)[n + 1] = (RateUnit + r) * Powers(RateUnit + r)[n]
              /\ Powers(RateUnit)[n + 1] = RateUnit * Powers(RateUnit)[n]
              /\ Grown(r)[n + 1] = (RateUnit + r) * Grown(r)[n] + Powers(RateUnit)[n + 1]
<1>1. RateUnit + r \in Nat /\ RateUnit + r > 0
  BY RateUnitType
<1> QED
  BY <1>1, RateUnitType, PowersAre, GrownIs

\* The growth of a unit a month is a geometric sum.
LEMMA GrownSum ==
    ASSUME NEW r \in Nat, NEW m \in Nat
    PROVE  r * Grown(r)[m] = RateUnit * (Powers(RateUnit + r)[m] - Powers(RateUnit)[m])
<1> DEFINE P == Powers(RateUnit + r)
           U == Powers(RateUnit)
           G == Grown(r)
           A == {n \in Nat : r * G[n] = RateUnit * (P[n] - U[n])}
<1>0. P[0] = 1 /\ U[0] = 1 /\ G[0] = 0
  BY NumbersStart
<1>t. \A n \in Nat : /\ P[n] \in Int /\ P[n] > 0 /\ U[n] \in Int /\ U[n] > 0
                     /\ G[n] \in Int /\ G[n] >= 0
  BY NumbersType
<1>g. \A n \in Nat : /\ P[n + 1] = (RateUnit + r) * P[n] /\ U[n + 1] = RateUnit * U[n]
                     /\ G[n + 1] = (RateUnit + r) * G[n] + U[n + 1]
  BY NumbersGrow
<1> HIDE DEF P, U, G
<1>2. 0 \in A
  BY <1>0, <1>t, RateUnitType
<1>3. ASSUME NEW n \in Nat, n \in A PROVE n + 1 \in A
  <2> DEFINE g == G[n]
             p == P[n]
             u == U[n]
             R == RateUnit
  <2>1. g \in Int /\ p \in Int /\ u \in Int /\ R \in Int /\ r * g = R * (p - u)
    BY <1>t, <1>3, RateUnitType
  <2>2. /\ G[n + 1] = (R + r) * g + R * u
        /\ P[n + 1] = (R + r) * p /\ U[n + 1] = R * u
    BY <1>g
  <2> HIDE DEF g, p, u, R
  <2>3. r * ((R + r) * g + R * u) = (R + r) * (r * g) + r * (R * u)
    BY <2>1
  <2>4. (R + r) * (R * (p - u)) + r * (R * u) = R * ((R + r) * p - R * u)
    BY <2>1
  <2>5. r * G[n + 1] = (R + r) * (R * (p - u)) + r * (R * u)
    BY <2>1, <2>2, <2>3
  <2>6. R * (P[n + 1] - U[n + 1]) = R * ((R + r) * p - R * u)
    BY <2>2
  <2> QED
    BY <2>4, <2>5, <2>6 DEF R
<1>4. \A n \in Nat : n \in A
  <2> HIDE DEF A
  <2> QED
    BY <1>2, <1>3, Counting
<1> QED
  BY <1>4 DEF P, U, G

\* What grows for j months goes on growing for m more.
LEMMA GrownAdd ==
    ASSUME NEW r \in Nat, NEW j \in Nat, NEW m \in Nat
    PROVE  Grown(r)[j + m] = Powers(RateUnit)[m] * Grown(r)[j] + Powers(RateUnit + r)[j] * Grown(r)[m]
<1> DEFINE P == Powers(RateUnit + r)
           U == Powers(RateUnit)
           G == Grown(r)
           A == {i \in Nat : G[i + m] = U[m] * G[i] + P[i] * G[m]}
<1>0. P[0] = 1 /\ U[0] = 1 /\ G[0] = 0
  BY NumbersStart
<1>t. \A n \in Nat : /\ P[n] \in Int /\ P[n] > 0 /\ U[n] \in Int /\ U[n] > 0
                     /\ G[n] \in Int /\ G[n] >= 0
  BY NumbersType
<1>g. \A n \in Nat : /\ P[n + 1] = (RateUnit + r) * P[n] /\ U[n + 1] = RateUnit * U[n]
                     /\ G[n + 1] = (RateUnit + r) * G[n] + U[n + 1]
  BY NumbersGrow
<1>s. \A i \in Nat : U[i + m] = U[i] * U[m]
  BY PowersAdd, RateUnitType
<1> HIDE DEF P, U, G
<1>2. 0 \in A
  BY <1>0, <1>t, RateUnitType
<1>3. ASSUME NEW n \in Nat, n \in A PROVE n + 1 \in A
  <2> DEFINE g == G[n]
             p == P[n]
             u == U[n]
             gm == G[m]
             um == U[m]
             R == RateUnit
  <2>1. g \in Int /\ p \in Int /\ u \in Int /\ gm \in Int /\ um \in Int /\ R \in Int
    BY <1>t, RateUnitType
  <2>2. G[n + m] = um * g + p * gm
    BY <1>3
  <2>3. G[n + 1] = (R + r) * g + R * u /\ P[n + 1] = (R + r) * p
    BY <1>g
  <2>4. n + m \in Nat /\ (n + m) + 1 = (n + 1) + m
    OBVIOUS
  <2>5. G[(n + 1) + m] = (R + r) * (um * g + p * gm) + R * (u * um)
    <3>1. U[n + m] = u * um
      BY <1>s
    <3> QED
      BY <1>g, <2>2, <2>4, <3>1
  <2> HIDE DEF g, p, u, gm, um, R
  <2>6. (R + r) * (um * g + p * gm) + R * (u * um)
          = um * ((R + r) * g + R * u) + ((R + r) * p) * gm
    BY <2>1
  <2>7. G[(n + 1) + m] = um * G[n + 1] + P[n + 1] * gm
    BY <2>3, <2>5, <2>6
  <2> QED
    BY <2>7 DEF um, gm
<1>4. \A n \in Nat : n \in A
  <2> HIDE DEF A
  <2> QED
    BY <1>2, <1>3, Counting
<1> QED
  BY <1>4 DEF P, U, G

\* A unit a month grows to no less than the months, and no more than the months
\* times what the first one grows to.
LEMMA GrownBetween ==
    ASSUME NEW r \in Nat, NEW m \in Nat
    PROVE  /\ m * Powers(RateUnit)[m] <= Grown(r)[m]
           /\ Grown(r)[m] <= m * Powers(RateUnit + r)[m]
<1> DEFINE P == Powers(RateUnit + r)
           U == Powers(RateUnit)
           G == Grown(r)
           A == {n \in Nat : n * U[n] <= G[n] /\ G[n] <= n * P[n]}
<1>0. P[0] = 1 /\ U[0] = 1 /\ G[0] = 0
  BY NumbersStart
<1>t. \A n \in Nat : /\ P[n] \in Int /\ P[n] > 0 /\ U[n] \in Int /\ U[n] > 0
                     /\ G[n] \in Int /\ G[n] >= 0
  BY NumbersType
<1>g. \A n \in Nat : /\ P[n + 1] = (RateUnit + r) * P[n] /\ U[n + 1] = RateUnit * U[n]
                     /\ G[n + 1] = (RateUnit + r) * G[n] + U[n + 1]
  BY NumbersGrow
<1>s. \A n \in Nat : U[n] <= P[n]
  <2>1. RateUnit + r \in Nat /\ RateUnit <= RateUnit + r
    BY RateUnitType
  <2> QED
    BY <2>1, PowersMonotone, RateUnitType
<1> HIDE DEF P, U, G
<1>2. 0 \in A
  BY <1>0, <1>t, RateUnitType
<1>3. ASSUME NEW n \in Nat, n \in A PROVE n + 1 \in A
  <2> DEFINE g == G[n]
             p == P[n]
             u == U[n]
             R == RateUnit
  <2>1. g \in Int /\ p \in Int /\ u \in Int /\ R \in Int /\ R > 0 /\ g >= 0 /\ u > 0 /\ p > 0
    BY <1>t, RateUnitType
  <2>2. n * u <= g /\ g <= n * p /\ R * u <= (R + r) * p
    <3>1. U[n + 1] <= P[n + 1]
      BY <1>s
    <3> QED
      BY <1>g, <1>3, <3>1
  <2>3. G[n + 1] = (R + r) * g + R * u /\ P[n + 1] = (R + r) * p /\ U[n + 1] = R * u
    BY <1>g
  <2> HIDE DEF g, p, u, R
  <2>4. R * (n * u) <= R * g /\ R * g <= (R + r) * g
    BY <2>1, <2>2
  <2>5. (R + r) * g <= (R + r) * (n * p)
    BY <2>1, <2>2
  <2>6. (n + 1) * (R * u) = R * (n * u) + R * u
    BY <2>1
  <2>7. (n + 1) * ((R + r) * p) = (R + r) * (n * p) + (R + r) * p
    BY <2>1
  <2>8. n * u \in Int /\ n * p \in Int
    BY <2>1
  <2>9. (n + 1) * U[n + 1] <= G[n + 1] /\ G[n + 1] <= (n + 1) * P[n + 1]
    BY <2>1, <2>2, <2>3, <2>4, <2>5, <2>6, <2>7, <2>8
  <2> QED
    BY <2>9
<1>4. \A n \in Nat : n \in A
  <2> HIDE DEF A
  <2> QED
    BY <1>2, <1>3, Counting
<1> QED
  BY <1>4 DEF P, U, G

\* More of what grows came in by the end than in the first months alone.
LEMMA GrownSpread ==
    ASSUME NEW r \in Nat, NEW j \in Nat, NEW m \in Nat
    PROVE  (j + m) * (Grown(r)[j] * Powers(RateUnit)[m]) <= j * Grown(r)[j + m]
<1> DEFINE P == Powers(RateUnit + r)
           U == Powers(RateUnit)
           G == Grown(r)
           A == {n \in Nat : (j + n) * (G[j] * U[n]) <= j * G[j + n]}
<1>0. P[0] = 1 /\ U[0] = 1 /\ G[0] = 0
  BY NumbersStart
<1>t. \A n \in Nat : /\ P[n] \in Int /\ P[n] > 0 /\ U[n] \in Int /\ U[n] > 0
                     /\ G[n] \in Int /\ G[n] >= 0
  BY NumbersType
<1>g. \A n \in Nat : /\ P[n + 1] = (RateUnit + r) * P[n] /\ U[n + 1] = RateUnit * U[n]
                     /\ G[n + 1] = (RateUnit + r) * G[n] + U[n + 1]
  BY NumbersGrow
<1>s. \A n \in Nat : U[n] <= P[n] /\ P[j + n] = P[j] * P[n]
  <2>1. RateUnit + r \in Nat /\ RateUnit + r > 0 /\ RateUnit <= RateUnit + r
    BY RateUnitType
  <2> QED
    BY <2>1, PowersMonotone, PowersAdd, RateUnitType
<1>b. G[j] <= j * P[j]
  BY GrownBetween
<1>c. \A n \in Nat : r * G[n] = RateUnit * (P[n] - U[n])
  BY GrownSum
<1> HIDE DEF P, U, G
<1>2. 0 \in A
  BY <1>0, <1>t
<1>3. ASSUME NEW n \in Nat, n \in A PROVE n + 1 \in A
  <2> DEFINE gj == G[j]
             gs == G[j + n]
             un == U[n]
             ps == P[j + n]
             us == U[j + n]
             R == RateUnit
  <2>0. j + n \in Nat /\ (j + n) + 1 = j + (n + 1)
    OBVIOUS
  <2>1. /\ gj \in Int /\ gs \in Int /\ un \in Int /\ ps \in Int /\ us \in Int /\ R \in Int
        /\ gj >= 0 /\ un > 0 /\ R > 0
    BY <1>t, <2>0, RateUnitType
  <2>2. (j + n) * (gj * un) <= j * gs
    BY <1>3
  <2>3. U[n + 1] = R * un /\ G[j + (n + 1)] = (R + r) * gs + R * us
    BY <1>g, <2>0
  <2>4. r * gs = R * (ps - us)
    BY <1>c, <2>0
  <2>5. gj * un <= j * ps
    <3> DEFINE pj == P[j]
               pn == P[n]
    <3>1. pj \in Int /\ pj > 0 /\ pn \in Int /\ un <= pn /\ ps = pj * pn /\ gj <= j * pj
      BY <1>t, <1>s, <1>b
    <3> HIDE DEF pj, pn, gj, un, ps
    <3>2. gj * un <= (j * pj) * un
      BY <2>1, <3>1
    <3>3. pj * un <= pj * pn
      BY <2>1, <3>1
    <3>4. j * (pj * un) <= j * (pj * pn)
      BY <2>1, <3>1, <3>3
    <3>5. (j * pj) * un = j * (pj * un)
      BY <2>1, <3>1
    <3> QED
      BY <2>1, <3>1, <3>2, <3>4, <3>5
  <2>6. (j + (n + 1)) * (gj * (R * un)) <= j * ((R + r) * gs + R * us)
    <3> HIDE DEF gj, gs, un, ps, us, R
    <3> DEFINE a == gj * un
    <3>1. a \in Int /\ gj * (R * un) = R * a
      BY <2>1
    <3>2. (j + n) * a <= j * gs /\ a <= j * ps
      BY <2>2, <2>5
    <3> HIDE DEF a
    <3>3. (j + (n + 1)) * (R * a) = R * ((j + n) * a) + R * a
      BY <2>1, <3>1
    <3>4. R * ((j + n) * a) <= R * (j * gs) /\ R * a <= R * (j * ps)
      BY <2>1, <3>1, <3>2
    <3>5. j * ((R + r) * gs + R * us) = R * (j * gs) + j * (r * gs) + j * (R * us)
      BY <2>1
    <3>6. j * (r * gs) + j * (R * us) = R * (j * ps)
      <4>1. j * (r * gs) = j * (R * (ps - us))
        BY <2>4
      <4>2. j * (R * (ps - us)) + j * (R * us) = R * (j * ps)
        BY <2>1
      <4> QED
        BY <4>1, <4>2
    <3> QED
      BY <2>1, <3>1, <3>3, <3>4, <3>5, <3>6
  <2> QED
    BY <2>3, <2>6
<1>4. \A n \in Nat : n \in A
  <2> HIDE DEF A
  <2> QED
    BY <1>2, <1>3, Counting
<1> QED
  BY <1>4 DEF P, U, G

\* It grows to more at a higher rate.
LEMMA GrownMonotone ==
    ASSUME NEW r \in Nat, NEW h \in Nat, r <= h, NEW m \in Nat
    PROVE  Grown(r)[m] <= Grown(h)[m]
<1> DEFINE G == Grown(r)
           H == Grown(h)
           U == Powers(RateUnit)
           A == {n \in Nat : G[n] <= H[n]}
<1>0. G[0] = 0 /\ H[0] = 0
  BY NumbersStart
<1>t. \A n \in Nat : /\ G[n] \in Int /\ G[n] >= 0 /\ H[n] \in Int /\ H[n] >= 0
                     /\ U[n + 1] \in Int
  BY NumbersType
<1>g. \A n \in Nat : /\ G[n + 1] = (RateUnit + r) * G[n] + U[n + 1]
                     /\ H[n + 1] = (RateUnit + h) * H[n] + U[n + 1]
  BY NumbersGrow
<1> HIDE DEF G, H, U
<1>2. 0 \in A
  BY <1>0
<1>3. ASSUME NEW n \in Nat, n \in A PROVE n + 1 \in A
  <2> DEFINE g == G[n]
             k == H[n]
             x == RateUnit + r
             y == RateUnit + h
  <2>1. /\ g \in Int /\ k \in Int /\ g >= 0 /\ g <= k /\ x \in Int /\ y \in Int /\ x >= 0 /\ x <= y
    BY <1>t, <1>3, RateUnitType
  <2>2. G[n + 1] = x * g + U[n + 1] /\ H[n + 1] = y * k + U[n + 1] /\ U[n + 1] \in Int
    BY <1>g, <1>t
  <2> HIDE DEF g, k, x, y
  <2>3. x * g <= y * k
    BY <2>1
  <2> QED
    BY <2>1, <2>2, <2>3
<1>4. \A n \in Nat : n \in A
  <2> HIDE DEF A
  <2> QED
    BY <1>2, <1>3, Counting
<1> QED
  BY <1>4 DEF G, H

\* Without interest a unit a month grows to as many units as there are months.
LEMMA GrownFlat ==
    ASSUME NEW m \in Nat
    PROVE  Grown(0)[m] = m * Powers(RateUnit)[m]
<1>1. 0 \in Nat /\ RateUnit + 0 = RateUnit
  BY RateUnitType
<1>2. m * Powers(RateUnit)[m] <= Grown(0)[m] /\ Grown(0)[m] <= m * Powers(RateUnit + 0)[m]
  BY <1>1, GrownBetween
<1>3. Grown(0)[m] \in Int /\ Powers(RateUnit)[m] \in Int
  BY <1>1, NumbersType
<1> QED
  BY <1>1, <1>2, <1>3

\* The level installment repays the balance with interest, to half a unit.
LEMMA AnnuityNear ==
    ASSUME NEW b \in Int, NEW r \in Nat, NEW n \in Nat, n > 0
    PROVE  AnnuityPayment(b, r, n) \in Int /\ RepaysIn(n, b, r, AnnuityPayment(b, r, n))
<1> DEFINE P == Powers(RateUnit + r)[n]
           U == Powers(RateUnit)[n]
           G == Grown(r)[n]
           L == AnnuityPayment(b, r, n)
<1>1. P \in Int /\ U \in Int /\ G \in Int /\ U > 0 /\ G > 0
  <2>1. n - 1 \in Nat /\ n = (n - 1) + 1
    OBVIOUS
  <2> QED
    BY <2>1, NumbersType
<1>2. CASE r = 0
  <2>1. L = HalfUp(b, n)
    BY <1>2 DEF AnnuityPayment
  <2>2. L \in Int /\ -n <= 2 * (b - n * L) /\ 2 * (b - n * L) <= n
    BY <2>1, HalfUpNear
  <2>3. P = U /\ G = n * U
    <3>1. RateUnit + r = RateUnit
      BY <1>2, RateUnitType
    <3> QED
      BY <1>2, <3>1, GrownFlat
  <2> HIDE DEF L, P, U, G
  <2> DEFINE d == b - n * L
  <2>4. d \in Int /\ b * P - L * G = d * U
    BY <1>1, <2>2, <2>3
  <2>5. -n <= 2 * d /\ 2 * d <= n
    BY <2>2
  <2> HIDE DEF d
  <2>6. -(n * U) <= 2 * (d * U) /\ 2 * (d * U) <= n * U
    BY <1>1, <2>4, <2>5
  <2> QED
    BY <2>2, <2>3, <2>4, <2>6 DEF RepaysIn, P, G, L
<1>3. CASE r > 0
  <2> DEFINE num == b * r * P
             den == RateUnit * (P - U)
  <2>1. L = HalfUp(num, den)
    BY <1>3 DEF AnnuityPayment
  <2>2. den = r * G
    BY GrownSum
  <2> HIDE DEF L, P, U, G
  <2>3. num \in Int /\ num = r * (b * P)
    BY <1>1
  <2>4. den \in Nat /\ den > 0
    <3>1. r * G \in Int /\ r * G > 0
      BY <1>1, <1>3
    <3> QED
      BY <2>2, <3>1
  <2> HIDE DEF num, den
  <2>5. L \in Int /\ -den <= 2 * (num - den * L) /\ 2 * (num - den * L) <= den
    BY <2>1, <2>3, <2>4, HalfUpNear
  <2> DEFINE d == b * P - L * G
  <2>6. d \in Int /\ num - den * L = r * d
    BY <1>1, <2>2, <2>3, <2>5
  <2> HIDE DEF d
  <2>7. -(r * G) <= 2 * (r * d) /\ 2 * (r * d) <= r * G
    BY <2>2, <2>5, <2>6
  <2>8. -G <= 2 * d /\ 2 * d <= G
    <3>1. 2 * (r * d) = r * (2 * d) /\ -(r * G) = r * (-G)
      BY <1>1, <2>6
    <3>2. \A a, c \in Int : r * a <= r * c => a <= c
      BY <1>3
    <3>3. 2 * d \in Int /\ -G \in Int
      BY <1>1, <2>6
    <3> QED
      BY <1>1, <2>7, <3>1, <3>2, <3>3
  <2> QED
    BY <2>5, <2>8 DEF RepaysIn, d, P, G, L
<1> QED
  BY <1>2, <1>3

-----------------------------------------------------------------------------
(* The rows of a schedule                                                  *)

\* What a schedule is computed from.
Schedulable(terms, rate) ==
    /\ terms.principal \in Int /\ terms.principal > 0
    /\ terms.term \in Nat /\ terms.term >= 1
    /\ terms.installments \in InstallmentType
    /\ rate \in [1..terms.term -> Nat]

\* The row after a row.
LEMMA NextRowIs ==
    ASSUME NEW terms, NEW rate, Schedulable(terms, rate),
           NEW i \in 1..terms.term, NEW before \in ScheduleRow
    PROVE  LET next == NextRow(terms, rate, i, before) IN
           /\ next \in ScheduleRow
           /\ next.interest = HalfUp(before.balance * rate[i], RateUnit)
           /\ next.level = LevelOf(rate, i, before, terms.term - i + 1)
           /\ next.paid = PrincipalPaid(terms, i, before.balance, next.level, next.interest)
           /\ next.balance = before.balance - next.paid
<1> DEFINE T == terms.term
           b == before.balance
           I == HalfUp(b * rate[i], RateUnit)
           L == LevelOf(rate, i, before, T - i + 1)
           p == PrincipalPaid(terms, i, b, L, I)
<1>1. /\ T \in Nat /\ i \in Nat /\ i >= 1 /\ i <= T /\ rate[i] \in Nat /\ b \in Int
      /\ before.level \in Int /\ terms.principal \in Int
  BY DEF Schedulable, ScheduleRow
<1>2. I \in Int
  <2>1. b * rate[i] \in Int
    BY <1>1
  <2> QED
    BY <2>1, RateUnitType, HalfUpNear
<1>3. L \in Int
  <2>1. T - i + 1 \in Nat /\ T - i + 1 > 0
    BY <1>1
  <2>2. AnnuityPayment(b, rate[i], T - i + 1) \in Int
    BY <1>1, <2>1, AnnuityNear
  <2> QED
    BY <1>1, <2>2 DEF LevelOf
<1>4. HalfUp(terms.principal, T) \in Int
  <2>1. T > 0
    BY <1>1
  <2> QED
    BY <1>1, <2>1, HalfUpNear
<1> HIDE DEF I, L
<1>5. p \in Int
  BY <1>1, <1>2, <1>3, <1>4 DEF PrincipalPaid
<1>6. NextRow(terms, rate, i, before) =
          [interest |-> I, paid |-> p, balance |-> b - p, level |-> L]
  BY DEF NextRow, I, L
<1> HIDE DEF p, b
<1>7. NextRow(terms, rate, i, before) \in ScheduleRow
  BY <1>1, <1>2, <1>3, <1>5, <1>6 DEF ScheduleRow
<1> QED
  BY <1>6, <1>7 DEF I, L, p, b

\* The rows are what they are written to be.
LEMMA RowsAre ==
    ASSUME NEW terms, NEW rate, Schedulable(terms, rate)
    PROVE  /\ Rows(terms, rate) \in [0..terms.term -> ScheduleRow]
           /\ Rows(terms, rate)[0] = PaidOut(terms)
           /\ \A i \in 1..terms.term :
                 Rows(terms, rate)[i] = NextRow(terms, rate, i, Rows(terms, rate)[i - 1])
<1> DEFINE T == terms.term
           Are(f) == f = [i \in 0..T |-> IF i = 0 THEN PaidOut(terms)
                                         ELSE NextRow(terms, rate, i, f[i - 1])]
           next(k, row) == IF k < T THEN NextRow(terms, rate, k + 1, row) ELSE row
           step == [p \in Nat \X ScheduleRow |-> next(p[1], p[2])]
<1>0. T \in Nat /\ T >= 1 /\ PaidOut(terms) \in ScheduleRow
  BY DEF Schedulable, PaidOut, ScheduleRow
<1>1. Rows(terms, rate) = CHOOSE f : Are(f)
  BY DEF Rows
<1>2. \A i \in 1..T, before \in ScheduleRow : NextRow(terms, rate, i, before) \in ScheduleRow
  BY NextRowIs
<1> HIDE DEF T, ScheduleRow
<1>3. step \in [Nat \X ScheduleRow -> ScheduleRow]
  <2>1. ASSUME NEW k \in Nat, NEW row \in ScheduleRow PROVE next(k, row) \in ScheduleRow
    <3>1. CASE k < T
      <4>1. k + 1 \in 1..T
        BY <1>0, <3>1
      <4> QED
        BY <1>2, <3>1, <4>1
    <3>2. CASE ~(k < T)
      BY <3>2
    <3> QED
      BY <3>1, <3>2
  <2> HIDE DEF next
  <2> QED
    BY <2>1
<1>4. PICK f \in [Nat -> ScheduleRow] : GoesOn(f, PaidOut(terms), step)
  <2> HIDE DEF step
  <2> QED
    BY <1>0, <1>3, StepByStep
<1> DEFINE r == [i \in 0..T |-> f[i]]
<1>5. r \in [0..T -> ScheduleRow] /\ r[0] = PaidOut(terms)
  BY <1>0, <1>4 DEF GoesOn
<1>6. ASSUME NEW i \in 1..T PROVE r[i] = NextRow(terms, rate, i, r[i - 1])
  <2>1. /\ i \in Nat /\ i - 1 \in Nat /\ (i - 1) + 1 = i /\ i - 1 < T
        /\ i \in 0..T /\ i - 1 \in 0..T
    BY <1>0
  <2>2. f[(i - 1) + 1] = step[<<i - 1, f[i - 1]>>]
    BY <1>4, <2>1 DEF GoesOn
  <2>3. f[i - 1] \in ScheduleRow
    BY <2>1
  <2>4. step[<<i - 1, f[i - 1]>>] = next(i - 1, f[i - 1])
    BY <2>1, <2>3
  <2> QED
    BY <2>1, <2>2, <2>4
<1>7. Are(r)
  <2>1. ASSUME NEW i \in 0..T
        PROVE  r[i] = IF i = 0 THEN PaidOut(terms) ELSE NextRow(terms, rate, i, r[i - 1])
    <3>1. CASE i = 0
      BY <3>1, <1>5
    <3>2. CASE i # 0
      <4>1. i \in 1..T
        BY <1>0, <3>2
      <4> QED
        BY <3>2, <4>1, <1>6
    <3> QED
      BY <3>1, <3>2
  <2> HIDE DEF r
  <2>2. DOMAIN r = 0..T /\ r = [i \in 0..T |-> r[i]]
    BY <1>5
  <2> QED
    BY <2>1, <2>2
<1> DEFINE row == CHOOSE g : Are(g)
<1>8. Are(row)
  <2> HIDE DEF r, Are
  <2> QED
    BY <1>7
<1> HIDE DEF row
<1>9. row[0] = PaidOut(terms)
  BY <1>0, <1>8
<1>10. ASSUME NEW i \in 1..T PROVE row[i] = NextRow(terms, rate, i, row[i - 1])
  <2>1. i \in 0..T /\ i # 0
    BY <1>0
  <2> QED
    BY <1>8, <2>1
<1>11. \A i \in 0..T : row[i] \in ScheduleRow
  <2> DEFINE A == {n \in Nat : n <= T => row[n] \in ScheduleRow}
  <2>1. 0 \in A
    BY <1>0, <1>9
  <2>2. ASSUME NEW n \in Nat, n \in A PROVE n + 1 \in A
    <3>1. CASE n < T
      <4>1. n + 1 \in 1..T /\ (n + 1) - 1 = n /\ row[n] \in ScheduleRow
        BY <1>0, <2>2, <3>1
      <4>2. row[n + 1] = NextRow(terms, rate, n + 1, row[n])
        BY <1>10, <4>1
      <4> QED
        BY <1>2, <4>1, <4>2
    <3>2. CASE ~(n < T)
      BY <1>0, <3>2
    <3> QED
      BY <3>1, <3>2
  <2> HIDE DEF A
  <2>3. \A n \in Nat : n \in A
    BY <2>1, <2>2, Counting
  <2> QED
    BY <1>0, <2>3 DEF A
<1>12. DOMAIN row = 0..T /\ row = [i \in 0..T |-> row[i]]
  BY <1>8
<1>13. row \in [0..T -> ScheduleRow]
  BY <1>11, <1>12
<1>14. Rows(terms, rate) = row
  BY <1>1 DEF row
<1> QED
  BY <1>9, <1>10, <1>13, <1>14 DEF T

\* A row and the one before it.
LEMMA RowSteps ==
    ASSUME NEW terms, NEW rate, Schedulable(terms, rate), NEW i \in 1..terms.term
    PROVE  LET row == Rows(terms, rate) IN
           /\ row[i - 1].balance \in Int /\ row[i].balance \in Int
           /\ row[i].interest \in Int /\ row[i].paid \in Int /\ row[i].level \in Int
           /\ row[i].interest = HalfUp(row[i - 1].balance * rate[i], RateUnit)
           /\ row[i].level = LevelOf(rate, i, row[i - 1], terms.term - i + 1)
           /\ row[i].paid = PrincipalPaid(terms, i, row[i - 1].balance, row[i].level, row[i].interest)
           /\ row[i].balance = row[i - 1].balance - row[i].paid
<1> DEFINE row == Rows(terms, rate)
           T == terms.term
<1>1. row \in [0..T -> ScheduleRow] /\ row[i] = NextRow(terms, rate, i, row[i - 1])
  BY RowsAre
<1>2. i \in 0..T /\ i - 1 \in 0..T
  BY DEF Schedulable
<1> HIDE DEF row
<1>3. row[i] \in ScheduleRow /\ row[i - 1] \in ScheduleRow
  BY <1>1, <1>2
<1>4. /\ row[i].interest = HalfUp(row[i - 1].balance * rate[i], RateUnit)
      /\ row[i].level = LevelOf(rate, i, row[i - 1], terms.term - i + 1)
      /\ row[i].paid = PrincipalPaid(terms, i, row[i - 1].balance, row[i].level, row[i].interest)
      /\ row[i].balance = row[i - 1].balance - row[i].paid
  BY <1>1, <1>3, NextRowIs
<1>5. /\ row[i - 1].balance \in Int /\ row[i].balance \in Int
      /\ row[i].interest \in Int /\ row[i].paid \in Int /\ row[i].level \in Int
  BY <1>3 DEF ScheduleRow
<1> QED
  BY <1>4, <1>5 DEF row

\* From since on the rate has been what it is at i.
InForce(rate, since, i) ==
    /\ since = 1 \/ rate[since] # rate[since - 1]
    /\ \A k \in since..i : rate[k] = rate[i]

\* Every installment has a last change of the rate before it.
LEMMA SomeSince ==
    ASSUME NEW T \in Nat, NEW rate, NEW i \in 1..T
    PROVE  \E since \in 1..i : InForce(rate, since, i)
<1> DEFINE A == {n \in Nat : n + 1 <= T => \E since \in 1..n + 1 : InForce(rate, since, n + 1)}
<1>1. 0 \in A
  <2>1. 1 \in 1..0 + 1 /\ InForce(rate, 1, 0 + 1)
    BY DEF InForce
  <2> QED
    BY <2>1
<1>2. ASSUME NEW n \in Nat, n \in A PROVE n + 1 \in A
  <2> SUFFICES ASSUME (n + 1) + 1 <= T
               PROVE  \E since \in 1..(n + 1) + 1 : InForce(rate, since, (n + 1) + 1)
    OBVIOUS
  <2>1. CASE rate[(n + 1) + 1] = rate[n + 1]
    <3>1. PICK since \in 1..n + 1 : InForce(rate, since, n + 1)
      BY <1>2
    <3>2. since \in 1..(n + 1) + 1
      OBVIOUS
    <3>3. ASSUME NEW k \in since..(n + 1) + 1 PROVE rate[k] = rate[(n + 1) + 1]
      <4>1. k \in since..n + 1 \/ k = (n + 1) + 1
        OBVIOUS
      <4> QED
        BY <2>1, <3>1, <4>1 DEF InForce
    <3> QED
      BY <3>1, <3>2, <3>3 DEF InForce
  <2>2. CASE rate[(n + 1) + 1] # rate[n + 1]
    <3>1. (n + 1) + 1 \in 1..(n + 1) + 1 /\ ((n + 1) + 1) - 1 = n + 1
      OBVIOUS
    <3>2. \A k \in (n + 1) + 1..(n + 1) + 1 : k = (n + 1) + 1
      OBVIOUS
    <3>3. InForce(rate, (n + 1) + 1, (n + 1) + 1)
      BY <2>2, <3>1, <3>2 DEF InForce
    <3> QED
      BY <3>1, <3>3
  <2> QED
    BY <2>1, <2>2
<1>3. \A n \in Nat : n \in A
  <2> HIDE DEF A
  <2> QED
    BY <1>1, <1>2, Counting
<1>4. i - 1 \in Nat /\ (i - 1) + 1 = i /\ (i - 1) + 1 <= T
  OBVIOUS
<1> QED
  BY <1>3, <1>4

\* As long as the rate stays, so does the level.
LEMMA LevelInForce ==
    ASSUME NEW terms, NEW rate, Schedulable(terms, rate),
           NEW since \in 1..terms.term, NEW i \in since..terms.term, InForce(rate, since, i)
    PROVE  Rows(terms, rate)[i].level =
             AnnuityPayment(Rows(terms, rate)[since - 1].balance, rate[i], terms.term - since + 1)
<1> DEFINE T == terms.term
           row == Rows(terms, rate)
           L == AnnuityPayment(row[since - 1].balance, rate[i], T - since + 1)
           A == {n \in Nat : since + n <= i => row[since + n].level = L}
<1>0. T \in Nat
  BY DEF Schedulable
<1>s. \A k \in 1..T : row[k].level = LevelOf(rate, k, row[k - 1], T - k + 1)
  BY RowSteps
<1> HIDE DEF row
<1>1. 0 \in A
  <2>1. since + 0 = since /\ since \in since..i
    BY <1>0
  <2>2. rate[since] = rate[i] /\ (since = 1 \/ rate[since] # rate[since - 1])
    BY <2>1 DEF InForce
  <2>3. row[since].level = LevelOf(rate, since, row[since - 1], T - since + 1)
    BY <1>s
  <2>4. row[since].level = L
    BY <2>2, <2>3 DEF LevelOf
  <2> QED
    BY <2>1, <2>4
<1>2. ASSUME NEW n \in Nat, n \in A PROVE n + 1 \in A
  <2> SUFFICES ASSUME since + (n + 1) <= i PROVE row[since + (n + 1)].level = L
    OBVIOUS
  <2> DEFINE k == since + (n + 1)
  <2>1. k \in 1..T /\ k > 1 /\ k - 1 = since + n /\ k \in since..i /\ k - 1 \in since..i
    BY <1>0
  <2>2. rate[k] = rate[k - 1]
    BY <2>1 DEF InForce
  <2>3. row[k - 1].level = L
    BY <1>2, <2>1
  <2>4. row[k].level = LevelOf(rate, k, row[k - 1], T - k + 1)
    BY <1>s, <2>1
  <2> HIDE DEF L, k
  <2>5. row[k].level = L
    BY <2>1, <2>2, <2>3, <2>4 DEF LevelOf
  <2> QED
    BY <2>5 DEF k
<1>3. \A n \in Nat : n \in A
  <2> HIDE DEF A
  <2> QED
    BY <1>1, <1>2, Counting
<1>4. i - since \in Nat /\ since + (i - since) = i /\ since + (i - since) <= i
  BY <1>0
<1> QED
  BY <1>3, <1>4 DEF row

\* The installments between two changes of the rate repay what was owed at the
\* first, to half a unit.
LEMMA LevelRepays ==
    ASSUME NEW terms, NEW rate, Schedulable(terms, rate), terms.installments = "equal",
           NEW i \in 1..terms.term - 1, NEW since \in 1..i, InForce(rate, since, i)
    PROVE  LET row == Rows(terms, rate) IN
           /\ row[i].interest + row[i].paid = row[i].level
           /\ RepaysIn(terms.term - since + 1, row[since - 1].balance, rate[i], row[i].level)
<1> DEFINE T == terms.term
           row == Rows(terms, rate)
<1>0. T \in Nat /\ i \in 1..T /\ i # T /\ since \in 1..T /\ i \in since..T /\ rate[i] \in Nat
      /\ T - since + 1 \in Nat /\ T - since + 1 > 0
  BY DEF Schedulable
<1>1. /\ row[i].paid = PrincipalPaid(terms, i, row[i - 1].balance, row[i].level, row[i].interest)
      /\ row[i].interest \in Int /\ row[i].level \in Int
  BY <1>0, RowSteps
<1>2. row[since - 1].balance \in Int
  BY <1>0, RowSteps
<1>3. row[i].level = AnnuityPayment(row[since - 1].balance, rate[i], T - since + 1)
  BY <1>0, LevelInForce
<1> HIDE DEF row, T
<1>4. row[i].paid = row[i].level - row[i].interest
  <2>1. i # terms.term
    BY <1>0 DEF T
  <2> QED
    BY <1>1, <2>1 DEF PrincipalPaid
<1>5. row[i].interest + row[i].paid = row[i].level
  BY <1>1, <1>4
<1>6. RepaysIn(T - since + 1, row[since - 1].balance, rate[i], row[i].level)
  BY <1>0, <1>2, <1>3, AnnuityNear
<1> QED
  BY <1>5, <1>6 DEF row, T

\* Later installments fall due later.
LEMMA DueInOrder ==
    ASSUME NEW d \in Nat, NEW j \in Nat, NEW k \in Nat
    PROVE  AddMonths(d, j) \in Int /\ (AddMonths(d, j) <= AddMonths(d, k) <=> j <= k)
<1>1. d \div 2 \in Int /\ d % 2 \in {0, 1}
  OBVIOUS
<1> DEFINE m == d \div 2
           late == d % 2
<1>2. /\ AddMonths(d, j) \in {2 * (m + j), 2 * (m + j) + late}
      /\ AddMonths(d, k) \in {2 * (m + k), 2 * (m + k) + late}
  BY DEF AddMonths
<1>3. CASE j = k
  BY <1>1, <1>2, <1>3
<1>4. CASE j # k
  <2> HIDE DEF m, late
  <2>1. m \in Int /\ late \in {0, 1}
    BY <1>1 DEF m, late
  <2> QED
    BY <1>2, <1>4, <2>1
<1> QED
  BY <1>3, <1>4

\* As long as nothing negative is paid the balance does not grow.
LEMMA BalanceFalls ==
    ASSUME NEW terms, NEW rate, Schedulable(terms, rate), NEW m \in 0..terms.term,
           \A k \in 1..m : Rows(terms, rate)[k].paid >= 0,
           NEW i \in 0..m, NEW j \in i..m
    PROVE  Rows(terms, rate)[j].balance <= Rows(terms, rate)[i].balance
<1> DEFINE row == Rows(terms, rate)
           A == {n \in Nat : i + n <= m => row[i + n].balance <= row[i].balance}
<1>0. terms.term \in Nat
  BY DEF Schedulable
<1>s. \A k \in 1..terms.term :
        /\ row[k].balance = row[k - 1].balance - row[k].paid
        /\ row[k].paid \in Int /\ row[k - 1].balance \in Int /\ row[k].balance \in Int
  BY RowSteps
<1>b. \A k \in 0..terms.term : row[k].balance \in Int
  BY RowsAre DEF ScheduleRow
<1> HIDE DEF row
<1>1. 0 \in A
  BY <1>0, <1>b
<1>2. ASSUME NEW n \in Nat, n \in A PROVE n + 1 \in A
  <2> SUFFICES ASSUME i + (n + 1) <= m PROVE row[i + (n + 1)].balance <= row[i].balance
    OBVIOUS
  <2> DEFINE k == i + (n + 1)
  <2>1. k \in 1..m /\ k \in 1..terms.term /\ k - 1 = i + n /\ i + n <= m /\ i \in 0..terms.term
    BY <1>0
  <2>2. row[k - 1].balance <= row[i].balance
    BY <1>2, <2>1
  <2>3. /\ row[k].balance = row[k - 1].balance - row[k].paid
        /\ row[k].paid \in Int /\ row[k].paid >= 0 /\ row[k - 1].balance \in Int
    BY <1>s, <2>1 DEF row
  <2>4. row[i].balance \in Int
    BY <1>b, <2>1
  <2> HIDE DEF k
  <2>5. row[k].balance <= row[i].balance
    BY <2>2, <2>3, <2>4
  <2> QED
    BY <2>5 DEF k
<1>3. \A n \in Nat : n \in A
  <2> HIDE DEF A
  <2> QED
    BY <1>1, <1>2, Counting
<1>4. j - i \in Nat /\ i + (j - i) = j /\ i + (j - i) <= m
  BY <1>0
<1> QED
  BY <1>3, <1>4 DEF row

\* The last installment leaves nothing.
LEMMA LastPaysAll ==
    ASSUME NEW terms, NEW rate, Schedulable(terms, rate)
    PROVE  /\ Rows(terms, rate)[terms.term].balance = 0
           /\ Rows(terms, rate)[terms.term].paid = Rows(terms, rate)[terms.term - 1].balance
<1> DEFINE T == terms.term
           row == Rows(terms, rate)
<1>1. T \in 1..T
  BY DEF Schedulable
<1>2. /\ row[T].paid = PrincipalPaid(terms, T, row[T - 1].balance, row[T].level, row[T].interest)
      /\ row[T].balance = row[T - 1].balance - row[T].paid
      /\ row[T - 1].balance \in Int
  BY <1>1, RowSteps
<1>3. row[T].paid = row[T - 1].balance
  BY <1>2 DEF PrincipalPaid
<1> QED
  BY <1>2, <1>3

\* The principal parts due by a day, added up one after the other.
AddsUp(terms, row, on, sum) ==
    /\ sum[0] = 0
    /\ \A k \in 1..terms.term :
          sum[k] = sum[k - 1] + (IF AddMonths(terms.start, k) <= on THEN row[k].paid ELSE 0)

LEMMA RepaidIs ==
    ASSUME NEW terms, NEW row, NEW on, terms.term \in Nat,
           \A k \in 1..terms.term : row[k].paid \in Int
    PROVE  \E sum \in [0..terms.term -> Int] :
              AddsUp(terms, row, on, sum) /\ Repaid(terms, row, on) = sum[terms.term]
<1> DEFINE T == terms.term
           part(k) == IF AddMonths(terms.start, k) <= on THEN row[k].paid ELSE 0
           Are(f) == f = [i \in 0..T |-> IF i = 0 THEN 0 ELSE f[i - 1] + part(i)]
           next(k, s) == IF k < T THEN s + part(k + 1) ELSE s
           step == [p \in Nat \X Int |-> next(p[1], p[2])]
<1>1. \A k \in 1..T : part(k) \in Int
  OBVIOUS
<1>p. Repaid(terms, row, on) = (CHOOSE f : Are(f))[T]
  BY DEF Repaid
<1> HIDE DEF part
<1>2. step \in [Nat \X Int -> Int] /\ 0 \in Int
  <2>1. ASSUME NEW k \in Nat, NEW s \in Int PROVE next(k, s) \in Int
    <3>1. CASE k < T
      <4>1. k + 1 \in 1..T
        BY <3>1
      <4> QED
        BY <1>1, <3>1, <4>1
    <3>2. CASE ~(k < T)
      BY <3>2
    <3> QED
      BY <3>1, <3>2
  <2> HIDE DEF next
  <2> QED
    BY <2>1
<1>3. PICK f \in [Nat -> Int] : GoesOn(f, 0, step)
  <2> HIDE DEF step
  <2> QED
    BY <1>2, StepByStep
<1> DEFINE r == [i \in 0..T |-> f[i]]
<1>4. r \in [0..T -> Int] /\ r[0] = 0
  BY <1>3 DEF GoesOn
<1>5. ASSUME NEW i \in 1..T PROVE r[i] = r[i - 1] + part(i)
  <2>1. /\ i \in Nat /\ i - 1 \in Nat /\ (i - 1) + 1 = i /\ i - 1 < T
        /\ i \in 0..T /\ i - 1 \in 0..T
    OBVIOUS
  <2>2. f[(i - 1) + 1] = step[<<i - 1, f[i - 1]>>]
    BY <1>3, <2>1 DEF GoesOn
  <2>3. f[i - 1] \in Int
    BY <2>1
  <2>4. step[<<i - 1, f[i - 1]>>] = next(i - 1, f[i - 1])
    BY <2>1, <2>3
  <2> QED
    BY <2>1, <2>2, <2>4
<1>6. Are(r)
  <2>1. ASSUME NEW i \in 0..T PROVE r[i] = IF i = 0 THEN 0 ELSE r[i - 1] + part(i)
    <3>1. CASE i = 0
      BY <3>1, <1>4
    <3>2. CASE i # 0
      <4>1. i \in 1..T
        BY <3>2
      <4> QED
        BY <3>2, <4>1, <1>5
    <3> QED
      BY <3>1, <3>2
  <2> HIDE DEF r
  <2>2. DOMAIN r = 0..T /\ r = [i \in 0..T |-> r[i]]
    BY <1>4
  <2> QED
    BY <2>1, <2>2
<1> DEFINE sum == CHOOSE g : Are(g)
<1>7. Are(sum)
  <2> HIDE DEF r, Are
  <2> QED
    BY <1>6
<1>q. Repaid(terms, row, on) = sum[T]
  BY <1>p
<1> HIDE DEF sum
<1>8. sum[0] = 0
  BY <1>7
<1>9. ASSUME NEW k \in 1..T PROVE sum[k] = sum[k - 1] + part(k)
  <2>1. k \in 0..T /\ k # 0
    OBVIOUS
  <2> QED
    BY <1>7, <2>1
<1>10. \A i \in 0..T : sum[i] \in Int
  <2> DEFINE A == {n \in Nat : n <= T => sum[n] \in Int}
  <2>1. 0 \in A
    BY <1>8
  <2>2. ASSUME NEW n \in Nat, n \in A PROVE n + 1 \in A
    <3>1. CASE n < T
      <4>1. n + 1 \in 1..T /\ (n + 1) - 1 = n /\ sum[n] \in Int
        BY <2>2, <3>1
      <4>2. sum[n + 1] = sum[n] + part(n + 1) /\ part(n + 1) \in Int
        BY <1>1, <1>9, <4>1
      <4> QED
        BY <4>1, <4>2
    <3>2. CASE ~(n < T)
      BY <3>2
    <3> QED
      BY <3>1, <3>2
  <2> HIDE DEF A
  <2>3. \A n \in Nat : n \in A
    BY <2>1, <2>2, Counting
  <2> QED
    BY <2>3 DEF A
<1>11. DOMAIN sum = 0..T /\ sum = [i \in 0..T |-> sum[i]]
  BY <1>7
<1>12. sum \in [0..T -> Int]
  BY <1>10, <1>11
<1> QED
  BY <1>8, <1>9, <1>12, <1>q DEF part, AddsUp

\* On the day an installment falls due, what is owed is its balance.
LEMMA OwedIsBalance ==
    ASSUME NEW terms, NEW rate, Schedulable(terms, rate), terms.start \in Nat,
           NEW i \in 0..terms.term
    PROVE  OutstandingPrincipal(terms, Rows(terms, rate), AddMonths(terms.start, i))
             = Rows(terms, rate)[i].balance
<1> DEFINE T == terms.term
           row == Rows(terms, rate)
           on == AddMonths(terms.start, i)
           upto(k) == IF k <= i THEN k ELSE i
<1>0. T \in Nat /\ terms.principal \in Int
  BY DEF Schedulable
<1>s. \A k \in 1..T :
        /\ row[k].balance = row[k - 1].balance - row[k].paid
        /\ row[k].paid \in Int /\ row[k - 1].balance \in Int /\ row[k].balance \in Int
  BY RowSteps
<1>b. \A k \in 0..T : row[k].balance \in Int
  BY RowsAre DEF ScheduleRow
<1>o. row[0].balance = terms.principal
  <2>1. row[0] = PaidOut(terms)
    BY RowsAre
  <2> QED
    BY <2>1 DEF PaidOut
<1> HIDE DEF row
<1>1. PICK sum \in [0..T -> Int] :
         AddsUp(terms, row, on, sum) /\ Repaid(terms, row, on) = sum[T]
  <2> HIDE DEF on
  <2> QED
    BY <1>0, <1>s, RepaidIs
<1>2. ASSUME NEW k \in 1..T
      PROVE  sum[k] = sum[k - 1] + (IF k <= i THEN row[k].paid ELSE 0)
  <2>1. k \in Nat /\ i \in Nat
    BY <1>0
  <2>2. AddMonths(terms.start, k) <= on <=> k <= i
    BY <2>1, DueInOrder
  <2> HIDE DEF on
  <2> QED
    BY <1>1, <2>2 DEF AddsUp
<1> DEFINE A == {n \in Nat : n <= T => sum[n] = terms.principal - row[upto(n)].balance}
<1>3. 0 \in A
  <2>1. upto(0) = 0
    BY <1>0
  <2> HIDE DEF upto
  <2> QED
    BY <1>0, <1>1, <1>o, <2>1 DEF AddsUp
<1>4. ASSUME NEW n \in Nat, n \in A PROVE n + 1 \in A
  <2> SUFFICES ASSUME n + 1 <= T
               PROVE  sum[n + 1] = terms.principal - row[upto(n + 1)].balance
    OBVIOUS
  <2>1. n + 1 \in 1..T /\ (n + 1) - 1 = n /\ n <= T /\ n \in 0..T /\ i \in Int /\ i \in 0..T
    BY <1>0
  <2>2. sum[n] = terms.principal - row[upto(n)].balance
    BY <1>4, <2>1
  <2>3. sum[n + 1] = sum[n] + (IF n + 1 <= i THEN row[n + 1].paid ELSE 0)
    BY <1>2, <2>1
  <2>4. CASE n + 1 <= i
    <3>1. upto(n) = n /\ upto(n + 1) = n + 1
      BY <2>1, <2>4
    <3>2. /\ row[n + 1].balance = row[n].balance - row[n + 1].paid
          /\ row[n + 1].paid \in Int /\ row[n].balance \in Int
      BY <1>s, <2>1
    <3> HIDE DEF upto
    <3> QED
      BY <1>0, <2>2, <2>3, <2>4, <3>1, <3>2
  <2>5. CASE ~(n + 1 <= i)
    <3>1. upto(n) = i /\ upto(n + 1) = i
      BY <2>1, <2>5
    <3>2. sum[n] \in Int
      BY <2>1
    <3> HIDE DEF upto
    <3> QED
      BY <2>2, <2>3, <2>5, <3>1, <3>2
  <2> QED
    BY <2>4, <2>5
<1>5. \A n \in Nat : n \in A
  <2> HIDE DEF A
  <2> QED
    BY <1>3, <1>4, Counting
<1>6. sum[T] = terms.principal - row[i].balance
  <2>1. upto(T) = i
    BY <1>0
  <2> HIDE DEF upto
  <2> QED
    BY <1>0, <1>5, <2>1
<1>7. row[i].balance \in Int
  BY <1>b
<1> QED
  BY <1>0, <1>1, <1>6, <1>7 DEF OutstandingPrincipal, row, on

\* What is owed falls from the principal to nothing.
LEMMA OwedFalls ==
    ASSUME NEW terms, NEW rate, Schedulable(terms, rate), terms.start \in Nat,
           Amortizes(Rows(terms, rate))
    PROVE  /\ Rows(terms, rate)[terms.term].balance = 0
           /\ \A i \in 1..terms.term :
                 /\ 0 <= Rows(terms, rate)[i].balance
                 /\ Rows(terms, rate)[i].balance <= Rows(terms, rate)[i - 1].balance
<1> DEFINE T == terms.term
           row == Rows(terms, rate)
<1>1. T \in Nat /\ T \in 0..T /\ \A i \in 1..T : i \in 0..T /\ i - 1 \in 0..T /\ T \in i..T /\ i \in i - 1..T
  BY DEF Schedulable
<1>2. \A k \in 1..T : row[k].paid >= 0
  <2>1. row \in [0..T -> ScheduleRow]
    BY RowsAre
  <2> HIDE DEF row
  <2>2. DOMAIN row = 0..T
    BY <2>1
  <2>3. Amortizes(row)
    BY DEF row
  <2> QED
    BY <1>1, <2>2, <2>3 DEF Amortizes
<1>3. row[T].balance = 0
  BY LastPaysAll
<1>4. ASSUME NEW i \in 1..T
      PROVE  row[T].balance <= row[i].balance /\ row[i].balance <= row[i - 1].balance
  BY <1>1, <1>2, BalanceFalls
<1> QED
  BY <1>3, <1>4

LEMMA Cancel ==
    ASSUME NEW k \in Int, k > 0, NEW a \in Int, NEW c \in Int, k * a <= k * c
    PROVE  a <= c
OBVIOUS

LEMMA Scale ==
    ASSUME NEW k \in Int, k >= 0, NEW a \in Int, NEW c \in Int, a <= c
    PROVE  k * a <= k * c
OBVIOUS

\* Part of a time in force.
LEMMA InForceEarlier ==
    ASSUME NEW rate, NEW since \in Nat, NEW i \in Nat, InForce(rate, since, i), NEW k \in since..i
    PROVE  InForce(rate, since, k) /\ rate[k] = rate[i]
BY DEF InForce

\* A balance between two changes of the rate is what the one at the first grows to,
\* less the level installments and what they grow to; each month rounds the
\* interest by half a unit.
LEMMA BalanceNear ==
    ASSUME NEW terms, NEW rate, Schedulable(terms, rate), terms.installments = "equal",
           NEW i \in 1..terms.term - 1, NEW since \in 1..i, InForce(rate, since, i),
           NEW j \in 0..i - since + 1
    PROVE  LET row  == Rows(terms, rate)
               left == 2 * (Powers(RateUnit)[j] * row[since - 1 + j].balance
                              - Powers(RateUnit + rate[i])[j] * row[since - 1].balance
                              + row[i].level * Grown(rate[i])[j])
           IN  -Grown(rate[i])[j] <= left /\ left <= Grown(rate[i])[j]
<1> DEFINE T == terms.term
           row == Rows(terms, rate)
           r == rate[i]
           R == RateUnit
           U == Powers(RateUnit)
           P == Powers(RateUnit + r)
           G == Grown(r)
           s == since - 1
           Bs == row[s].balance
           L == row[i].level
           d(n) == U[n] * row[s + n].balance - P[n] * Bs + L * G[n]
           A == {n \in Nat : s + n <= i => -G[n] <= 2 * d(n) /\ 2 * d(n) <= G[n]}
<1>0. /\ T \in Nat /\ i \in Nat /\ since \in Nat /\ i \in 1..T /\ i < T /\ r \in Nat
      /\ R \in Nat /\ R > 0 /\ s \in Nat /\ s <= i /\ s \in 0..T /\ since <= i /\ since >= 1
  BY RateUnitType DEF Schedulable
<1>b. \A k \in 0..T : row[k].balance \in Int
  BY RowsAre DEF ScheduleRow
<1>l. L \in Int /\ Bs \in Int
  <2>1. L \in Int
    BY <1>0, RowSteps
  <2> QED
    BY <1>0, <1>b, <2>1
<1>t. \A n \in Nat : /\ P[n] \in Int /\ P[n] > 0 /\ U[n] \in Int /\ U[n] > 0
                     /\ G[n] \in Int /\ G[n] >= 0
  BY <1>0, NumbersType
<1>g. \A n \in Nat : /\ P[n + 1] = (RateUnit + r) * P[n] /\ U[n + 1] = RateUnit * U[n]
                     /\ G[n + 1] = (RateUnit + r) * G[n] + U[n + 1]
  BY <1>0, NumbersGrow
<1>z. P[0] = 1 /\ U[0] = 1 /\ G[0] = 0
  BY <1>0, NumbersStart
<1>s. ASSUME NEW k \in since..i
      PROVE  LET I == HalfUp(row[k - 1].balance * r, R) IN
             /\ row[k].balance = row[k - 1].balance - (L - I)
             /\ row[k - 1].balance \in Int /\ row[k].balance \in Int
             /\ I \in Int
             /\ -R <= 2 * (row[k - 1].balance * r - R * I)
             /\ 2 * (row[k - 1].balance * r - R * I) <= R
  <2>1. k \in 1..T /\ k < T /\ k \in since..T /\ i \in since..T /\ since \in 1..T
    BY <1>0
  <2>2. rate[k] = r /\ InForce(rate, since, k)
    BY <1>0, InForceEarlier
  <2>3. row[k].level = L
    <3>1. row[k].level = AnnuityPayment(row[since - 1].balance, rate[k], T - since + 1)
      BY <2>1, <2>2, LevelInForce
    <3>2. row[i].level = AnnuityPayment(row[since - 1].balance, rate[i], T - since + 1)
      BY <2>1, LevelInForce
    <3> QED
      BY <2>2, <3>1, <3>2
  <2>4. /\ row[k].interest = HalfUp(row[k - 1].balance * rate[k], R)
        /\ row[k].paid = PrincipalPaid(terms, k, row[k - 1].balance, row[k].level, row[k].interest)
        /\ row[k].balance = row[k - 1].balance - row[k].paid
        /\ row[k - 1].balance \in Int /\ row[k].balance \in Int
    BY <2>1, RowSteps
  <2> HIDE DEF row, L, r
  <2>5. row[k].paid = row[k].level - row[k].interest
    <3>1. k # terms.term
      BY <2>1
    <3> QED
      BY <2>4, <3>1 DEF PrincipalPaid
  <2>6. row[k - 1].balance * r \in Int
    BY <1>0, <2>4
  <2> QED
    BY <1>0, <2>2, <2>3, <2>4, <2>5, <2>6, HalfUpNear
<1> HIDE DEF row, r, R, U, P, G, s, Bs, L
<1>1. 0 \in A
  <2>1. s + 0 = s /\ row[s].balance = Bs
    BY <1>0 DEF Bs
  <2> QED
    BY <1>l, <1>z, <2>1
<1>2. ASSUME NEW n \in Nat, n \in A PROVE n + 1 \in A
  <2> SUFFICES ASSUME s + (n + 1) <= i
               PROVE  -G[n + 1] <= 2 * d(n + 1) /\ 2 * d(n + 1) <= G[n + 1]
    OBVIOUS
  <2> DEFINE k == s + (n + 1)
             b == row[s + n].balance
             I == HalfUp(b * r, R)
             u == U[n]
             p == P[n]
             g == G[n]
             D == u * b - p * Bs + L * g
             e == b * r - R * I
  <2>0. k \in since..i /\ k - 1 = s + n /\ s + n <= i
    BY <1>0 DEF s
  <2>1. -g <= 2 * D /\ 2 * D <= g
    BY <1>2, <2>0
  <2>2. /\ row[k].balance = b - (L - I) /\ b \in Int /\ I \in Int
        /\ -R <= 2 * e /\ 2 * e <= R
    BY <1>s, <2>0
  <2>3. /\ u \in Int /\ u > 0 /\ p \in Int /\ g \in Int /\ r \in Int /\ r >= 0 /\ R \in Int /\ R > 0
        /\ L \in Int /\ Bs \in Int
    BY <1>t, <1>0, <1>l
  <2>4. P[n + 1] = (R + r) * p /\ U[n + 1] = R * u /\ G[n + 1] = (R + r) * g + R * u
    BY <1>g DEF R
  <2>5. d(n + 1) = (R * u) * (b - (L - I)) - ((R + r) * p) * Bs + L * ((R + r) * g + R * u)
    BY <2>2, <2>4
  <2> HIDE DEF b, I, u, p, g, k
  <2>6. (R * u) * (b - (L - I)) - ((R + r) * p) * Bs + L * ((R + r) * g + R * u)
          = (R + r) * D - u * e
    BY <2>2, <2>3
  <2>7. D \in Int /\ e \in Int
    BY <2>2, <2>3
  <2>8. d(n + 1) = (R + r) * D - u * e
    BY <2>5, <2>6
  <2> HIDE DEF D, e, d
  <2>9. /\ (R + r) * (-g) <= (R + r) * (2 * D) /\ (R + r) * (2 * D) <= (R + r) * g
        /\ u * (-R) <= u * (2 * e) /\ u * (2 * e) <= u * R
    BY <2>1, <2>2, <2>3, <2>7, Scale
  <2>10. /\ (R + r) * (-g) = -((R + r) * g) /\ (R + r) * (2 * D) = 2 * ((R + r) * D)
         /\ u * (-R) = -(R * u) /\ u * (2 * e) = 2 * (u * e) /\ u * R = R * u
    BY <2>3, <2>7
  <2>11. (R + r) * g \in Int /\ (R + r) * D \in Int /\ u * e \in Int /\ R * u \in Int
    BY <2>3, <2>7
  <2>12. /\ -((R + r) * g + R * u) <= 2 * ((R + r) * D - u * e)
         /\ 2 * ((R + r) * D - u * e) <= (R + r) * g + R * u
    BY <2>9, <2>10, <2>11
  <2> QED
    BY <2>4, <2>8, <2>12
<1>3. \A n \in Nat : n \in A
  <2> HIDE DEF A
  <2> QED
    BY <1>1, <1>2, Counting
<1>4. j \in Nat /\ s + j <= i /\ since - 1 + j = s + j
  BY <1>0 DEF s
<1>5. -G[j] <= 2 * d(j) /\ 2 * d(j) <= G[j]
  BY <1>3, <1>4
<1> QED
  BY <1>4, <1>5 DEF row, r, R, U, P, G, s, Bs, L

\* What is owed with m months to go is worth, undiscounted, m units a month.
Enough(terms, rate, h, i) ==
    (terms.term - i) * Grown(h)[terms.term - i]
        <= Rows(terms, rate)[i].balance * Powers(RateUnit)[terms.term - i]

\* The installments leave enough for those that follow: of a loan that was not
\* tiny at the highest rate, they never repay too much.
LEMMA EnoughLeft ==
    ASSUME NEW terms, NEW rate, Schedulable(terms, rate), terms.installments = "equal",
           NEW h \in Nat, \A k \in 1..terms.term : rate[k] <= h,
           NEW i \in 1..terms.term - 1, NEW since \in 1..i, InForce(rate, since, i),
           Enough(terms, rate, h, since - 1)
    PROVE  Enough(terms, rate, h, i)
<1> DEFINE T == terms.term
           row == Rows(terms, rate)
           r == rate[i]
           j == i - since + 1
           m == T - i
           n == T - since + 1
           Uj == Powers(RateUnit)[j]
           Um == Powers(RateUnit)[m]
           Un == Powers(RateUnit)[n]
           Pj == Powers(RateUnit + r)[j]
           Pm == Powers(RateUnit + r)[m]
           Wm == Powers(RateUnit + h)[m]
           Gj == Grown(r)[j]
           Gm == Grown(r)[m]
           Gn == Grown(r)[n]
           Hj == Grown(h)[j]
           Hm == Grown(h)[m]
           Hn == Grown(h)[n]
           B == row[i].balance
           Bs == row[since - 1].balance
           L == row[i].level
<1>t. /\ T \in Nat /\ r \in Nat /\ r <= h /\ i \in 1..T
      /\ j \in Nat /\ m \in Nat /\ m > 0 /\ n \in Nat /\ n = j + m /\ n = m + j /\ n > 0
      /\ since \in 1..T /\ i \in since..T /\ j \in 0..i - since + 1 /\ since - 1 + j = i
      /\ T - (since - 1) = n
  <2>1. T \in Nat /\ i \in Int /\ since \in Int /\ 1 <= since /\ since <= i /\ i <= T - 1
    BY DEF Schedulable
  <2>2. i \in 1..T /\ since \in 1..T /\ i \in since..T
    BY <2>1
  <2>3. r \in Nat /\ r <= h
    BY <2>2 DEF Schedulable
  <2> HIDE DEF T, r
  <2> QED
    BY <2>1, <2>2, <2>3
<1>k. (m * Hm <= B * Um) => Enough(terms, rate, h, i)
  BY DEF Enough
<1>h. n * Hn <= Bs * Un
  BY <1>t DEF Enough
<1> HIDE DEF T, r, j, m, n
<1>u. /\ RateUnit + r \in Nat /\ RateUnit + r > 0 /\ RateUnit + h \in Nat /\ RateUnit + h > 0
      /\ RateUnit <= RateUnit + h /\ RateUnit \in Nat /\ RateUnit > 0
  BY <1>t, RateUnitType
<1>v. B \in Int /\ Bs \in Int /\ L \in Int
  <2>1. B \in Int /\ L \in Int
    BY <1>t, RowSteps DEF T
  <2>2. Bs \in Int
    BY <1>t, RowSteps DEF T
  <2> QED
    BY <2>1, <2>2
<1>w. /\ Uj \in Int /\ Um \in Int /\ Un \in Int /\ Uj > 0 /\ Um > 0
      /\ Pj \in Int /\ Pm \in Int /\ Wm \in Int
      /\ Gj \in Int /\ Gj >= 0 /\ Gm \in Int /\ Gn \in Int
      /\ Hj \in Int /\ Hm \in Int /\ Hn \in Int /\ Hn >= 0
  BY <1>t, NumbersType
<1>x. Gn > 0
  <2>1. n - 1 \in Nat /\ n = (n - 1) + 1
    BY <1>t
  <2> QED
    BY <1>t, <2>1, NumbersType
<1>a. Un = Uj * Um
  BY <1>t, <1>u, PowersAdd
<1>p. Powers(RateUnit + r)[n] = Pj * Pm
  BY <1>t, <1>u, PowersAdd
<1>e. Gn = Um * Gj + Pj * Gm /\ Gn = Pm * Gj + Uj * Gm /\ Hn = Wm * Hj + Uj * Hm
  <2>1. Gn = Um * Gj + Pj * Gm
    BY <1>t, GrownAdd
  <2>2. Gn = Uj * Gm + Pm * Gj
    BY <1>t, GrownAdd
  <2>3. Hn = Uj * Hm + Wm * Hj
    BY <1>t, GrownAdd
  <2> HIDE DEF Gn, Um, Gj, Pj, Gm, Pm, Uj, Hn, Wm, Hj, Hm
  <2> QED
    BY <1>w, <2>1, <2>2, <2>3
<1>m. Um <= Wm /\ Gj <= Hj
  BY <1>t, <1>u, PowersMonotone, GrownMonotone
<1>d. -Gj <= 2 * (Uj * B - Pj * Bs + L * Gj) /\ -Gn <= 2 * (Bs * (Pj * Pm) - L * Gn)
  <2>1. -Gj <= 2 * (Uj * B - Pj * Bs + L * Gj)
    BY <1>t, BalanceNear DEF r
  <2>2. RepaysIn(n, Bs, r, L)
    BY <1>t, LevelRepays DEF r, n, T
  <2>3. -Gn <= 2 * (Bs * Powers(RateUnit + r)[n] - L * Gn)
    BY <2>2 DEF RepaysIn
  <2> QED
    BY <1>p, <2>1, <2>3
<1>g. n * (Gj * Um) <= j * Gn
  BY <1>t, GrownSpread
<1> HIDE DEF row, Uj, Um, Un, Pj, Pm, Wm, Gj, Gm, Gn, Hj, Hm, Hn, B, Bs, L
<1>n. /\ j \in Int /\ j >= 0 /\ m \in Int /\ m > 0 /\ n \in Int /\ n = j + m
      /\ B \in Int /\ Bs \in Int /\ L \in Int
      /\ Uj \in Int /\ Um \in Int /\ Un \in Int /\ Uj > 0 /\ Um > 0
      /\ Pj \in Int /\ Pm \in Int /\ Wm \in Int
      /\ Gj \in Int /\ Gj >= 0 /\ Gm \in Int /\ Gn \in Int /\ Gn > 0
      /\ Hj \in Int /\ Hm \in Int /\ Hn \in Int /\ Hn >= 0
  BY <1>t, <1>v, <1>w, <1>x
<1>0. Un > 0 /\ n > 0 /\ Bs >= 0
  <2>1. Un > 0 /\ n > 0
    BY <1>n, <1>a
  <2>2. n * Hn >= 0 /\ n * Hn <= Bs * Un
    BY <2>1, <1>n, <1>h
  <2>3. ~(Bs < 0)
    <3>1. ASSUME Bs < 0 PROVE Bs * Un < 0
      BY <2>1, <3>1, <1>n
    <3> QED
      BY <2>2, <3>1, <1>n
  <2> QED
    BY <2>1, <2>3, <1>n
<1>1. Bs * (Uj * (Gn - Um * Gj)) - Gj * Gn <= Uj * B * Gn
  <2> DEFINE x == Uj * B - Pj * Bs + L * Gj
             y == Bs * (Pj * Pm) - L * Gn
  <2>1. x \in Int /\ y \in Int /\ -Gj <= 2 * x /\ -Gn <= 2 * y
    BY <1>n, <1>d
  <2>2. Gn * x + Gj * y = Uj * B * Gn - Bs * (Pj * (Gn - Pm * Gj))
    BY <1>n
  <2>3. Pj * (Gn - Pm * Gj) = Uj * (Gn - Um * Gj)
    <3>1. Gn - Pm * Gj = Uj * Gm /\ Gn - Um * Gj = Pj * Gm
      BY <1>n, <1>e
    <3>2. Pj * (Uj * Gm) = Uj * (Pj * Gm)
      BY <1>n
    <3> QED
      BY <3>1, <3>2, <1>n
  <2> HIDE DEF x, y
  <2>4. Gn * (-Gj) <= Gn * (2 * x) /\ Gj * (-Gn) <= Gj * (2 * y)
    BY <2>1, <1>n
  <2>5. -(Gj * Gn) <= Gn * x + Gj * y
    <3>1. /\ Gn * (2 * x) = 2 * (Gn * x) /\ Gj * (2 * y) = 2 * (Gj * y)
          /\ Gn * (-Gj) = -(Gj * Gn) /\ Gj * (-Gn) = -(Gj * Gn)
      BY <2>1, <1>n
    <3>2. Gn * x \in Int /\ Gj * y \in Int /\ Gj * Gn \in Int
      BY <2>1, <1>n
    <3> QED
      BY <2>4, <3>1, <3>2, <1>n
  <2> DEFINE a == Uj * B * Gn
             c == Pj * (Gn - Pm * Gj)
  <2>6. -(Gj * Gn) <= a - Bs * c /\ c = Uj * (Gn - Um * Gj)
    BY <2>2, <2>3, <2>5, <1>n
  <2>7. a \in Int /\ c \in Int /\ Bs * c \in Int /\ Gj * Gn \in Int
    BY <1>n
  <2> HIDE DEF a, c
  <2>8. Bs * c - Gj * Gn <= a
    BY <2>6, <2>7, <1>n
  <2> QED
    BY <2>6, <2>8, <1>n DEF a
<1>2. m * (Uj * Bs) - n * Gj <= n * (Uj * B)
  <2> DEFINE k == Uj * Bs
             a == Uj * B
  <2>1. k \in Int /\ k >= 0 /\ a \in Int
    BY <1>0, <1>n
  <2>2. k * (Gn - Um * Gj) - Gj * Gn <= Gn * a
    <3>1. Bs * (Uj * (Gn - Um * Gj)) = k * (Gn - Um * Gj) /\ Uj * B * Gn = Gn * a
      BY <1>n
    <3> QED
      BY <1>1, <3>1, <1>n
  <2> HIDE DEF k, a
  <2>3. n * (k * (Gn - Um * Gj) - Gj * Gn) <= n * (Gn * a)
    BY <2>1, <2>2, Scale, <1>n
  <2>4. m * Gn <= n * (Gn - Um * Gj)
    <3>1. n * (Gn - Um * Gj) = j * Gn + m * Gn - n * (Gj * Um)
      BY <1>n
    <3> QED
      BY <3>1, <1>n, <1>g
  <2>5. k * (m * Gn) <= k * (n * (Gn - Um * Gj))
    BY <2>1, <2>4, Scale, <1>n
  <2>6. /\ n * (k * (Gn - Um * Gj) - Gj * Gn) = k * (n * (Gn - Um * Gj)) - n * (Gj * Gn)
        /\ n * (Gn * a) = Gn * (n * a)
        /\ Gn * (m * k - n * Gj) = k * (m * Gn) - n * (Gj * Gn)
    BY <2>1, <1>n
  <2>7. Gn * (m * k - n * Gj) <= Gn * (n * a)
    BY <2>1, <2>3, <2>5, <2>6, <1>n
  <2>8. m * k - n * Gj \in Int /\ n * a \in Int
    BY <2>1, <1>n
  <2>9. m * k - n * Gj <= n * a
    BY <2>7, <2>8, Cancel, <1>n
  <2> QED
    BY <2>9, <1>n DEF k, a
<1>3. Uj * (m * Hn) - Gj * Un <= Uj * (B * Un)
  <2> DEFINE a == m * (Uj * Bs) - n * Gj
             b == n * (Uj * B)
             v == Bs * Un
  <2>1. a \in Int /\ b \in Int /\ a <= b /\ v \in Int /\ n * Hn <= v
    BY <1>2, <1>n, <1>h
  <2>2. Un * a = (m * Uj) * v - n * (Gj * Un) /\ Un * b = n * (Uj * (B * Un))
    BY <1>n
  <2> HIDE DEF a, b, v
  <2>3. Un * a <= Un * b
    BY <1>0, <2>1, Scale, <1>n
  <2>4. (m * Uj) * (n * Hn) <= (m * Uj) * v
    <3>1. m * Uj \in Int /\ m * Uj >= 0 /\ n * Hn \in Int
      BY <1>n
    <3> QED
      BY <2>1, <3>1, Scale, <1>n
  <2>5. n * (Uj * (m * Hn) - Gj * Un) = (m * Uj) * (n * Hn) - n * (Gj * Un)
    BY <1>n
  <2>6. n * (Uj * (m * Hn) - Gj * Un) <= n * (Uj * (B * Un))
    BY <2>1, <2>2, <2>3, <2>4, <2>5, <1>n
  <2>7. Uj * (m * Hn) - Gj * Un \in Int /\ Uj * (B * Un) \in Int
    BY <1>n
  <2> QED
    BY <1>0, <2>6, <2>7, Cancel, <1>n
<1>4. m * Hn - Gj * Um <= B * Un
  <2>1. Uj * (m * Hn - Gj * Um) = Uj * (m * Hn) - Gj * Un
    BY <1>n, <1>a
  <2>2. Uj * (m * Hn - Gj * Um) <= Uj * (B * Un)
    BY <1>3, <2>1, <1>n
  <2>3. m * Hn - Gj * Um \in Int /\ B * Un \in Int
    BY <1>n
  <2> QED
    BY <2>2, <2>3, Cancel, <1>n
<1>5. Gj * Um <= m * (Wm * Hj)
  <2>1. Gj * Um <= Hj * Wm /\ Hj * Wm >= 0
    BY <1>n, <1>m
  <2>2. Hj * Wm \in Int /\ Hj * Wm <= m * (Hj * Wm)
    BY <2>1, <1>n
  <2> QED
    BY <2>1, <2>2, <1>n
<1>6. Uj * (m * Hm) <= Uj * (B * Um)
  <2>1. m * Hn = m * (Wm * Hj) + Uj * (m * Hm) /\ B * Un = Uj * (B * Um)
    BY <1>n, <1>a, <1>e
  <2>2. m * Hn \in Int /\ m * (Wm * Hj) \in Int /\ Gj * Um \in Int
    BY <1>n
  <2> QED
    BY <1>4, <1>5, <2>1, <2>2, <1>n
<1>7. m * Hm <= B * Um
  BY <1>6, <1>n, Cancel
<1> QED
  BY <1>7, <1>k

-----------------------------------------------------------------------------
(* When there is a schedule                                                *)

\* Where enough was owed, the level installment is more than the interest.
LEMMA PaysMoreThanInterest ==
    ASSUME NEW terms, NEW rate, Schedulable(terms, rate), terms.installments = "equal",
           NEW h \in Nat, NEW i \in 1..terms.term - 1, NEW since \in 1..i,
           InForce(rate, since, i), Enough(terms, rate, h, since - 1),
           Rows(terms, rate)[i - 1].balance <= Rows(terms, rate)[since - 1].balance
    PROVE  Rows(terms, rate)[i].paid >= 0
<1> DEFINE T == terms.term
           row == Rows(terms, rate)
           r == rate[i]
           n == T - since + 1
           R == RateUnit
           U == Powers(RateUnit)[n]
           P == Powers(RateUnit + r)[n]
           G == Grown(r)[n]
           H == Grown(h)[n]
           B == row[i - 1].balance
           Bs == row[since - 1].balance
           I == row[i].interest
           L == row[i].level
           p == row[i].paid
<1>t. /\ T \in Nat /\ i \in 1..T /\ since \in 1..T /\ n \in Nat /\ n > 0
      /\ n - 1 \in Nat /\ n = (n - 1) + 1 /\ T - (since - 1) = n
  BY DEF Schedulable
<1>r. r \in Nat
  BY <1>t DEF Schedulable
<1>1. /\ B \in Int /\ I \in Int /\ L \in Int /\ p \in Int /\ I = HalfUp(B * r, R)
  BY <1>t, RowSteps
<1>2. Bs \in Int
  BY <1>t, RowSteps
<1>3. B <= Bs
  OBVIOUS
<1>4. I + p = L /\ RepaysIn(n, Bs, r, L)
  BY LevelRepays
<1>5. 2 * (Bs * P - L * G) <= G
  BY <1>4 DEF RepaysIn
<1>6. n * H <= Bs * U
  BY <1>t DEF Enough
<1> HIDE DEF n, r, T
<1>7. P \in Int /\ U \in Int /\ G \in Int /\ G > 0 /\ U > 0
  BY <1>t, <1>r, NumbersType
<1>8. H \in Int /\ H > 0
  BY <1>t, NumbersType
<1>9. r * G = R * (P - U)
  BY <1>t, <1>r, GrownSum
<1>10. R \in Int /\ R > 0
  BY RateUnitType
<1> HIDE DEF row, R, U, P, G, H, B, Bs, I, L, p
<1>11. 2 * (B * r - R * I) >= -R
  <2>1. B * r \in Int /\ R \in Nat
    BY <1>1, <1>r, <1>10
  <2> QED
    BY <1>1, <1>10, <2>1, HalfUpNear
<1>12. Bs * U > 0
  <2>1. n * H > 0 /\ n * H \in Int
    BY <1>t, <1>8
  <2> QED
    BY <1>2, <1>6, <1>7, <2>1
<1>13. ASSUME p < 0 PROVE FALSE
  <2>1. L + 1 <= I
    BY <1>1, <1>4, <1>13
  <2>2. R * (L + 1) <= R * I
    BY <1>1, <1>10, <2>1, Scale
  <2>3. r * B <= r * Bs
    BY <1>1, <1>2, <1>3, <1>r, Scale
  <2>4. 2 * (R * L) + R <= 2 * (r * Bs)
    <3>1. R * (L + 1) = R * L + R /\ B * r = r * B
      BY <1>1, <1>10, <1>r
    <3>2. R * L \in Int /\ R * I \in Int /\ r * B \in Int /\ r * Bs \in Int
      BY <1>1, <1>2, <1>10, <1>r
    <3> QED
      BY <1>10, <1>11, <2>2, <2>3, <3>1, <3>2
  <2>5. G * (2 * (R * L) + R) <= G * (2 * (r * Bs))
    <3>1. 2 * (R * L) + R \in Int /\ 2 * (r * Bs) \in Int
      BY <1>1, <1>2, <1>10, <1>r
    <3> QED
      BY <1>7, <2>4, <3>1, Scale
  <2>6. R * (2 * (Bs * P)) <= R * (2 * (L * G) + G)
    <3>1. 2 * (Bs * P) \in Int /\ 2 * (L * G) + G \in Int /\ 2 * (Bs * P) <= 2 * (L * G) + G
      <4>1. Bs * P \in Int /\ L * G \in Int
        BY <1>1, <1>2, <1>7
      <4> QED
        BY <1>5, <1>7, <4>1
    <3> QED
      BY <1>10, <3>1, Scale
  <2>7. G * (2 * (R * L) + R) = R * (2 * (L * G) + G)
    BY <1>1, <1>7, <1>10
  <2>8. G * (2 * (r * Bs)) = 2 * (Bs * (R * (P - U)))
    <3>1. G * (2 * (r * Bs)) = 2 * (Bs * (r * G))
      BY <1>2, <1>7, <1>r
    <3> QED
      BY <1>9, <3>1
  <2>9. 2 * (Bs * (R * (P - U))) = R * (2 * (Bs * P)) - R * (2 * (Bs * U))
    BY <1>2, <1>7, <1>10
  <2>10. R * (2 * (Bs * U)) <= 0
    <3>1. R * (2 * (Bs * P)) \in Int /\ R * (2 * (Bs * U)) \in Int /\ R * (2 * (L * G) + G) \in Int
      BY <1>1, <1>2, <1>7, <1>10
    <3> QED
      BY <2>5, <2>6, <2>7, <2>8, <2>9, <3>1
  <2>11. 2 * (Bs * U) \in Int /\ 2 * (Bs * U) > 0
    BY <1>2, <1>7, <1>12
  <2>12. R * (2 * (Bs * U)) \in Int /\ R * (2 * (Bs * U)) > 0
    BY <1>10, <2>11
  <2> QED
    BY <2>10, <2>12
<1> QED
  BY <1>1, <1>13 DEF p, row

\* An equal loan that is not tiny at its highest rate has a schedule.
LEMMA EqualFits ==
    ASSUME NEW terms, NEW rate, Schedulable(terms, rate), terms.installments = "equal",
           NEW h \in Nat, \A k \in 1..terms.term : rate[k] <= h,
           terms.term * Grown(h)[terms.term] <= terms.principal * Powers(RateUnit)[terms.term]
    PROVE  \A i \in 1..terms.term : Rows(terms, rate)[i].paid >= 0
<1> DEFINE T == terms.term
           row == Rows(terms, rate)
           A == {n \in Nat : n <= T - 1 =>
                    /\ \A k \in 0..n : Enough(terms, rate, h, k)
                    /\ \A k \in 1..n : row[k].paid >= 0}
<1>0. T \in Nat /\ T >= 1
  BY DEF Schedulable
<1>1. 0 \in A
  <2>1. row[0].balance = terms.principal
    <3>1. row[0] = PaidOut(terms)
      BY RowsAre
    <3> QED
      BY <3>1 DEF PaidOut
  <2>2. T - 0 = T
    BY <1>0
  <2>3. Enough(terms, rate, h, 0)
    BY <2>1, <2>2 DEF Enough
  <2>4. \A k \in 0..0 : k = 0
    OBVIOUS
  <2> HIDE DEF row, T
  <2> QED
    BY <2>3, <2>4
<1>2. ASSUME NEW n \in Nat, n \in A PROVE n + 1 \in A
  <2> SUFFICES ASSUME n + 1 <= T - 1
               PROVE  /\ \A k \in 0..n + 1 : Enough(terms, rate, h, k)
                      /\ \A k \in 1..n + 1 : row[k].paid >= 0
    OBVIOUS
  <2> DEFINE i == n + 1
  <2>1. /\ n <= T - 1 /\ i \in 1..T - 1 /\ i \in 1..T /\ i - 1 = n /\ n \in 0..T
    BY <1>0
  <2>2. /\ \A k \in 0..n : Enough(terms, rate, h, k)
        /\ \A k \in 1..n : row[k].paid >= 0
    BY <1>2, <2>1
  <2>3. PICK since \in 1..i : InForce(rate, since, i)
    BY <1>0, <2>1, SomeSince
  <2>4. since - 1 \in 0..n /\ n \in since - 1..n
    BY <2>1
  <2>5. Enough(terms, rate, h, since - 1)
    BY <2>2, <2>4
  <2>6. row[n].balance <= row[since - 1].balance
    BY <2>1, <2>2, <2>4, BalanceFalls
  <2>7. row[i - 1].balance <= row[since - 1].balance
    BY <2>1, <2>6
  <2>8. Enough(terms, rate, h, i)
    BY <2>1, <2>3, <2>5, EnoughLeft
  <2>9. row[i].paid >= 0
    BY <2>1, <2>3, <2>5, <2>7, PaysMoreThanInterest
  <2>10. \A k \in 0..n + 1 : k \in 0..n \/ k = i
    OBVIOUS
  <2>11. \A k \in 1..n + 1 : k \in 1..n \/ k = i
    OBVIOUS
  <2> HIDE DEF i, row
  <2> QED
    BY <2>2, <2>8, <2>9, <2>10, <2>11
<1>3. \A n \in Nat : n \in A
  <2> HIDE DEF A
  <2> QED
    BY <1>1, <1>2, Counting
<1>4. /\ Enough(terms, rate, h, T - 1)
      /\ \A k \in 1..T - 1 : row[k].paid >= 0
  <2>1. T - 1 \in Nat /\ T - 1 \in 0..T - 1
    BY <1>0
  <2> QED
    BY <1>3, <2>1
<1>5. row[T - 1].balance >= 0
  <2> DEFINE b == row[T - 1].balance
             u == Powers(RateUnit)[1]
             g == Grown(h)[1]
  <2>1. T - (T - 1) = 1 /\ T - 1 \in 0..T
    BY <1>0
  <2>2. 1 * g <= b * u
    BY <1>4, <2>1 DEF Enough
  <2>3. u \in Int /\ u > 0 /\ g \in Int /\ g >= 0
    BY NumbersType
  <2>4. b \in Int
    BY <1>0, <2>1, RowsAre DEF ScheduleRow
  <2> HIDE DEF b, u, g
  <2>5. b >= 0
    BY <2>2, <2>3, <2>4
  <2> QED
    BY <2>5 DEF b
<1>6. row[T].paid >= 0
  BY <1>5, LastPaysAll
<1>7. \A k \in 1..T : k \in 1..T - 1 \/ k = T
  BY <1>0
<1> QED
  BY <1>4, <1>6, <1>7

\* Some month has the highest rate.
LEMMA HighestRate ==
    ASSUME NEW T \in Nat, T >= 1, NEW rate \in [1..T -> Nat]
    PROVE  \E h \in 1..T : \A k \in 1..T : rate[k] <= rate[h]
<1> DEFINE A == {n \in Nat : n + 1 <= T => \E h \in 1..n + 1 : \A k \in 1..n + 1 : rate[k] <= rate[h]}
<1>1. 0 \in A
  <2>1. \A k \in 1..0 + 1 : k = 1
    OBVIOUS
  <2>2. 1 \in 1..0 + 1 /\ rate[1] \in Nat
    OBVIOUS
  <2> QED
    BY <2>1, <2>2
<1>2. ASSUME NEW n \in Nat, n \in A PROVE n + 1 \in A
  <2> SUFFICES ASSUME (n + 1) + 1 <= T
               PROVE  \E h \in 1..(n + 1) + 1 : \A k \in 1..(n + 1) + 1 : rate[k] <= rate[h]
    OBVIOUS
  <2>1. PICK g \in 1..n + 1 : \A k \in 1..n + 1 : rate[k] <= rate[g]
    BY <1>2
  <2> DEFINE m == (n + 1) + 1
  <2>2. /\ g \in 1..m /\ m \in 1..m /\ \A k \in 1..m : k \in 1..n + 1 \/ k = m
        /\ \A k \in 1..m : rate[k] \in Nat
    OBVIOUS
  <2> HIDE DEF m
  <2>3. CASE rate[m] <= rate[g]
    BY <2>1, <2>2, <2>3 DEF m
  <2>4. CASE ~(rate[m] <= rate[g])
    <3>1. \A k \in 1..m : rate[k] <= rate[m]
      <4>1. ASSUME NEW k \in 1..m PROVE rate[k] <= rate[m]
        <5>1. rate[k] \in Nat /\ rate[m] \in Nat /\ rate[g] \in Nat
          BY <2>2
        <5>2. CASE k = m
          BY <5>1, <5>2
        <5>3. CASE k \in 1..n + 1
          BY <2>1, <2>4, <5>1, <5>3
        <5> QED
          BY <2>2, <5>2, <5>3
      <4> QED
        BY <4>1
    <3> QED
      BY <2>2, <3>1 DEF m
  <2> QED
    BY <2>3, <2>4
<1>3. \A n \in Nat : n \in A
  <2> HIDE DEF A
  <2> QED
    BY <1>1, <1>2, Counting
<1> DEFINE m == T - 1
<1>4. m \in Nat /\ m + 1 = T
  OBVIOUS
<1> HIDE DEF m
<1>5. m \in A
  BY <1>3, <1>4
<1>6. \E h \in 1..m + 1 : \A k \in 1..m + 1 : rate[k] <= rate[h]
  BY <1>4, <1>5
<1> QED
  BY <1>4, <1>6

\* A decreasing loan of at least a unit a month and month has a schedule.
LEMMA DecreasingFits ==
    ASSUME NEW terms, NEW rate, Schedulable(terms, rate), terms.installments = "decreasing",
           terms.term * terms.term <= terms.principal
    PROVE  \A i \in 1..terms.term : Rows(terms, rate)[i].paid >= 0
<1> DEFINE T == terms.term
           row == Rows(terms, rate)
           p == terms.principal
           F == HalfUp(p, T)
           A == {n \in Nat : n <= T - 1 => row[n].balance = p - n * F}
<1>0. T \in Nat /\ T >= 1 /\ T > 0 /\ p \in Int /\ p > 0 /\ T * T <= p
  BY DEF Schedulable
<1>1. F \in Int /\ -T <= 2 * (p - T * F) /\ 2 * (p - T * F) <= T
  BY <1>0, HalfUpNear
<1>2. ASSUME NEW i \in 1..T - 1
      PROVE  /\ row[i].paid = F
             /\ row[i].balance = row[i - 1].balance - F
             /\ row[i - 1].balance \in Int
  <2>1. i \in 1..T /\ i # T
    BY <1>0
  <2>2. /\ row[i].paid = PrincipalPaid(terms, i, row[i - 1].balance, row[i].level, row[i].interest)
        /\ row[i].balance = row[i - 1].balance - row[i].paid
        /\ row[i - 1].balance \in Int
    BY <2>1, RowSteps
  <2> HIDE DEF row
  <2> QED
    BY <2>1, <2>2 DEF PrincipalPaid
<1>o. row[0].balance = p
  <2>1. row[0] = PaidOut(terms)
    BY RowsAre
  <2> QED
    BY <2>1 DEF PaidOut
<1>l. row[T].paid = row[T - 1].balance
  BY LastPaysAll
<1> HIDE DEF F, p, row, T
<1>3. F >= 0
  <2>1. ~(F < 0)
    <3>1. ASSUME F < 0 PROVE FALSE
      <4>1. F <= -1
        BY <1>1, <3>1
      <4>2. T * F <= T * (-1)
        BY <1>0, <1>1, <4>1, Scale
      <4>3. T * F \in Int
        BY <1>0, <1>1
      <4> QED
        BY <1>0, <1>1, <4>2, <4>3
    <3> QED
      BY <3>1
  <2> QED
    BY <1>1, <2>1
<1>4. 0 \in A
  BY <1>0, <1>1, <1>o
<1>5. ASSUME NEW n \in Nat, n \in A PROVE n + 1 \in A
  <2> SUFFICES ASSUME n + 1 <= T - 1 PROVE row[n + 1].balance = p - (n + 1) * F
    OBVIOUS
  <2>1. n <= T - 1 /\ n + 1 \in 1..T - 1 /\ (n + 1) - 1 = n
    BY <1>0
  <2>2. row[n].balance = p - n * F /\ row[n + 1].balance = row[n].balance - F
    BY <1>2, <1>5, <2>1
  <2>3. (n + 1) * F = n * F + F /\ n * F \in Int
    BY <1>1
  <2> QED
    BY <1>0, <1>1, <2>2, <2>3
<1>6. \A n \in Nat : n \in A
  <2> HIDE DEF A
  <2> QED
    BY <1>4, <1>5, Counting
<1>7. row[T - 1].balance = p - (T - 1) * F
  BY <1>0, <1>6
<1>8. p - (T - 1) * F >= 0
  <2> DEFINE f == T * F
             q == (T - 1) * F
  <2>1. f \in Int /\ q \in Int /\ T * q = (T - 1) * f
    BY <1>0, <1>1
  <2>2. 2 * f <= 2 * p + T
    BY <1>0, <1>1, <2>1
  <2>3. (T - 1) * (2 * f) <= (T - 1) * (2 * p + T)
    BY <1>0, <2>1, <2>2, Scale
  <2>4. (T - 1) * (2 * p + T) = T * (2 * p) - 2 * p + T * T - T
    BY <1>0
  <2>5. (T - 1) * (2 * f) = T * (2 * q)
    BY <1>0, <2>1
  <2> HIDE DEF f, q
  <2>6. T * (2 * q) <= T * (2 * p)
    <3>1. T * (2 * q) \in Int /\ T * (2 * p) \in Int /\ T * T \in Int
      BY <1>0, <2>1
    <3> QED
      BY <1>0, <2>3, <2>4, <2>5, <3>1
  <2>7. 2 * q <= 2 * p
    <3>1. 2 * q \in Int /\ 2 * p \in Int
      BY <1>0, <2>1
    <3> QED
      BY <1>0, <2>6, <3>1, Cancel
  <2>8. p - q >= 0
    BY <1>0, <2>1, <2>7
  <2> QED
    BY <2>8 DEF q
<1>9. row[T].paid >= 0
  BY <1>7, <1>8, <1>l
<1>10. \A i \in 1..T : i \in 1..T - 1 \/ i = T
  BY <1>0
<1> QED
  BY <1>2, <1>3, <1>9, <1>10 DEF T, row

\* A loan that is not tiny has a schedule.
LEMMA ScheduleFits ==
    ASSUME NEW terms, NEW rate, Schedulable(terms, rate),
           \A i \in 1..terms.term :
              terms.term * Grown(rate[i])[terms.term] <= terms.principal * Powers(RateUnit)[terms.term]
    PROVE  Amortizes(Rows(terms, rate))
<1> DEFINE T == terms.term
           row == Rows(terms, rate)
<1>0. T \in Nat /\ T >= 1 /\ rate \in [1..T -> Nat] /\ terms.principal \in Int
  BY DEF Schedulable
<1>1. row \in [0..T -> ScheduleRow] /\ row[0] = PaidOut(terms)
  BY RowsAre
<1>2. \A i \in 1..T : row[i].paid >= 0
  <2>1. CASE terms.installments = "equal"
    <3>1. PICK k \in 1..T : \A i \in 1..T : rate[i] <= rate[k]
      BY <1>0, HighestRate
    <3>2. rate[k] \in Nat
      BY <1>0
    <3>3. T * Grown(rate[k])[T] <= terms.principal * Powers(RateUnit)[T]
      OBVIOUS
    <3> QED
      BY <2>1, <3>1, <3>2, <3>3, EqualFits
  <2>2. CASE terms.installments = "decreasing"
    <3> DEFINE u == Powers(RateUnit)[T]
               g == Grown(rate[1])[T]
    <3>1. 1 \in 1..T /\ rate[1] \in Nat
      BY <1>0
    <3>2. T * g <= terms.principal * u
      BY <3>1
    <3>3. T * u <= g
      BY <1>0, <3>1, GrownBetween
    <3>4. u \in Int /\ u > 0 /\ g \in Int
      BY <1>0, <3>1, NumbersType
    <3> HIDE DEF u, g
    <3>5. T * (T * u) <= T * g
      <4>1. T * u \in Int
        BY <1>0, <3>4
      <4> QED
        BY <1>0, <3>3, <3>4, <4>1, Scale
    <3>6. u * (T * T) <= u * terms.principal
      <4>1. u * (T * T) = T * (T * u) /\ u * terms.principal = terms.principal * u
        BY <1>0, <3>4
      <4>2. T * (T * u) \in Int /\ T * g \in Int /\ terms.principal * u \in Int
        BY <1>0, <3>4
      <4> QED
        BY <3>2, <3>5, <4>1, <4>2
    <3>7. T * T <= terms.principal
      <4>1. T * T \in Int
        BY <1>0
      <4> QED
        BY <1>0, <3>4, <3>6, <4>1, Cancel
    <3> QED
      BY <2>2, <3>7, DecreasingFits
  <2> QED
    BY <2>1, <2>2 DEF Schedulable, InstallmentType
<1> HIDE DEF row
<1>3. DOMAIN row = 0..T /\ row[0].paid = 0 /\ \A i \in 0..T : i = 0 \/ i \in 1..T
  BY <1>0, <1>1 DEF PaidOut
<1>4. Amortizes(row)
  BY <1>2, <1>3 DEF Amortizes
<1> QED
  BY <1>4 DEF row

-----------------------------------------------------------------------------
(* What is promised of the schedule                                        *)

\* Of finitely many numbers one is the highest.
LEMMA FiniteHasHighest ==
    ASSUME NEW S, IsFiniteSet(S), S # {}, NEW v \in [S -> Nat]
    PROVE  \E s \in S : \A t \in S : v[t] <= v[s]
<1>1. PICK n \in Nat : ExistsSurjection(1..n, S)
  BY FS_NatSurjection
<1>2. PICK e \in Surjection(1..n, S) : TRUE
  BY <1>1 DEF ExistsSurjection
<1>3. e \in [1..n -> S] /\ \A s \in S : \E k \in 1..n : e[k] = s
  BY <1>2 DEF Surjection
<1>4. n >= 1
  <2>1. PICK s \in S : TRUE
    OBVIOUS
  <2>2. PICK k \in 1..n : e[k] = s
    BY <1>3
  <2> QED
    BY <2>2
<1> DEFINE w == [k \in 1..n |-> v[e[k]]]
<1>5. w \in [1..n -> Nat]
  BY <1>3
<1>6. PICK h \in 1..n : \A k \in 1..n : w[k] <= w[h]
  <2> HIDE DEF w
  <2> QED
    BY <1>4, <1>5, HighestRate
<1>7. e[h] \in S /\ \A t \in S : v[t] <= v[e[h]]
  BY <1>3, <1>6
<1> QED
  BY <1>7

\* The rate that counts on a day is a number, if there is one.
LEMMA LatestType ==
    ASSUME NEW table \in [Observation -> RateChange \cup {None}], NEW on,
           Made(table, on) # {}
    PROVE  LatestBaseRate(table, on) \in Nat
<1> DEFINE M == Made(table, on)
           latest == {o \in M : \A p \in M : table[p].date <= table[o].date}
           B == {table[o].base : o \in latest}
<1>1. M \subseteq Observation /\ IsFiniteSet(M)
  <2>1. M \subseteq Observation
    BY DEF Made, Observed
  <2> QED
    BY <2>1, LoanTermsAssumption, FS_Subset
<1>2. \A o \in M : table[o].date \in Nat /\ table[o].base \in Nat
  <2>1. \A o \in M : table[o] \in RateChange
    BY <1>1 DEF Made, Observed
  <2>2. Date \subseteq Nat /\ BaseRate \subseteq Nat
    BY LoanTermsAssumption
  <2> QED
    BY <2>1, <2>2 DEF RateChange
<1> HIDE DEF M
<1>3. latest # {}
  <2> DEFINE v == [o \in M |-> table[o].date]
  <2>1. v \in [M -> Nat]
    BY <1>2
  <2>2. M # {}
    BY DEF M
  <2>3. PICK s \in M : \A t \in M : v[t] <= v[s]
    <3> HIDE DEF v
    <3> QED
      BY <1>1, <2>1, <2>2, FiniteHasHighest
  <2> QED
    BY <2>3
<1>4. latest \subseteq M /\ IsFiniteSet(latest)
  BY <1>1, FS_Subset
<1> HIDE DEF latest
<1>5. PICK s \in latest : \A t \in latest : table[t].base <= table[s].base
  <2> DEFINE v == [o \in latest |-> table[o].base]
  <2>1. v \in [latest -> Nat]
    BY <1>2, <1>4
  <2>2. PICK s \in latest : \A t \in latest : v[t] <= v[s]
    <3> HIDE DEF v
    <3> QED
      BY <1>3, <1>4, <2>1, FiniteHasHighest
  <2> QED
    BY <2>2
<1>6. B \subseteq Nat /\ table[s].base \in B /\ \A y \in B : table[s].base >= y
  BY <1>2, <1>4, <1>5
<1> HIDE DEF B
<1>7. Max(B) \in B
  BY <1>6 DEF Max
<1>8. LatestBaseRate(table, on) = Max(B)
  BY DEF LatestBaseRate, B, latest, M
<1> QED
  BY <1>6, <1>7, <1>8

\* With a rate for every installment there is something to compute from.
LEMMA KnownIsSchedulable ==
    ASSUME TermsTypeOK, loan # None, NEW table \in [Observation -> RateChange \cup {None}],
           HasRates(loan, table)
    PROVE  Schedulable(loan, ExpandMonthlyRates(loan, table)) /\ loan.start \in Nat
<1>1. /\ loan \in LoanForm /\ loan.principal > 0 /\ loan.term >= 1
      /\ loan.principal \in Int /\ loan.term \in Nat /\ loan.start \in Nat
      /\ loan.rate \in Nat /\ loan.installments \in InstallmentType
      /\ loan.rateType \in RateType
  <2>1. loan \in LoanForm /\ loan.principal > 0 /\ loan.term >= 1
    BY DEF TermsTypeOK
  <2>2. Principal \subseteq Int /\ Term \subseteq Int /\ Rate \subseteq Nat /\ Date \subseteq Nat
    BY LoanTermsAssumption
  <2>3. /\ loan.principal \in Principal /\ loan.term \in Term /\ loan.start \in Date
        /\ loan.rate \in Rate /\ loan.installments \in InstallmentType
        /\ loan.rateType \in RateType
    BY <2>1 DEF LoanForm
  <2>4. loan.term \in Int /\ loan.principal \in Int
    BY <2>2, <2>3
  <2>5. loan.term \in Nat
    BY <2>1, <2>4
  <2> QED
    BY <2>1, <2>2, <2>3, <2>4, <2>5
<1> DEFINE due(i) == AddMonths(loan.start, i)
<1>2. ASSUME NEW i \in 1..loan.term PROVE ExpandMonthlyRates(loan, table)[i] \in Nat
  <2>1. CASE loan.rateType = "fixed"
    BY <1>1, <2>1 DEF ExpandMonthlyRates
  <2>2. CASE loan.rateType = "variable"
    <3>1. Made(table, due(i)) # {}
      BY <2>2 DEF HasRates
    <3> HIDE DEF due
    <3>2. LatestBaseRate(table, due(i)) \in Nat
      BY <3>1, LatestType
    <3>3. ExpandMonthlyRates(loan, table)[i] = loan.rate + LatestBaseRate(table, due(i))
      BY <2>2 DEF ExpandMonthlyRates, due
    <3> QED
      BY <1>1, <3>2, <3>3
  <2> QED
    BY <1>1, <2>1, <2>2 DEF RateType
<1>3. ExpandMonthlyRates(loan, table)
        = [i \in 1..loan.term |-> ExpandMonthlyRates(loan, table)[i]]
  BY DEF ExpandMonthlyRates
<1>4. ExpandMonthlyRates(loan, table) \in [1..loan.term -> Nat]
  <2> DEFINE r == ExpandMonthlyRates(loan, table)
  <2> HIDE DEF r
  <2>1. r = [i \in 1..loan.term |-> r[i]] /\ \A i \in 1..loan.term : r[i] \in Nat
    BY <1>2, <1>3 DEF r
  <2>2. r \in [1..loan.term -> Nat]
    BY <2>1
  <2> QED
    BY <2>2 DEF r
<1> QED
  BY <1>1, <1>4 DEF Schedulable

\* A schedule is the rows, none of which adds to the debt.
LEMMA ScheduleIs ==
    ASSUME TermsTypeOK, loan # None, NEW table \in [Observation -> RateChange \cup {None}],
           LoanSchedule(loan, table) # None
    PROVE  LET rate == ExpandMonthlyRates(loan, table) IN
           /\ HasRates(loan, table)
           /\ Schedulable(loan, rate) /\ loan.start \in Nat
           /\ Amortizes(Rows(loan, rate))
           /\ LoanSchedule(loan, table) = Rows(loan, rate)
<1> DEFINE row == Rows(loan, ExpandMonthlyRates(loan, table))
<1>1. HasRates(loan, table)
  BY DEF LoanSchedule
<1>2. LoanSchedule(loan, table) = IF Amortizes(row) THEN row ELSE None
  BY <1>1 DEF LoanSchedule
<1> HIDE DEF row
<1>3. Amortizes(row) /\ LoanSchedule(loan, table) = row
  BY <1>2
<1> QED
  BY <1>1, <1>3, KnownIsSchedulable DEF row

LEMMA FittingIsSound == TermsTypeOK => OnlyTinyLoansFail
<1> SUFFICES ASSUME TermsTypeOK, loan # None, HasRates(loan, rates), ~Tiny(loan, rates)
             PROVE  LoanSchedule(loan, rates) # None
  BY DEF OnlyTinyLoansFail
<1> DEFINE rate == ExpandMonthlyRates(loan, rates)
           T == loan.term
           row == Rows(loan, rate)
<1>1. rates \in [Observation -> RateChange \cup {None}]
  BY DEF TermsTypeOK
<1>2. Schedulable(loan, rate)
  BY <1>1, KnownIsSchedulable
<1>3. \A i \in 1..T : ~(loan.principal * Powers(RateUnit)[T] < T * Grown(rate[i])[T])
  BY DEF Tiny
<1> HIDE DEF rate
<1>4. T \in Nat /\ loan.principal \in Int /\ \A i \in 1..T : rate[i] \in Nat
  BY <1>2 DEF Schedulable
<1>5. ASSUME NEW i \in 1..T
      PROVE  T * Grown(rate[i])[T] <= loan.principal * Powers(RateUnit)[T]
  <2> DEFINE g == Grown(rate[i])[T]
             u == Powers(RateUnit)[T]
  <2>1. g \in Int /\ u \in Int
    BY <1>4, NumbersType
  <2>2. ~(loan.principal * u < T * g)
    BY <1>3
  <2> HIDE DEF g, u
  <2>3. T * g \in Int /\ loan.principal * u \in Int
    BY <1>4, <2>1
  <2>4. T * g <= loan.principal * u
    BY <2>2, <2>3
  <2> QED
    BY <2>4 DEF g, u
<1>6. Amortizes(row)
  BY <1>2, <1>5, ScheduleFits
<1>7. LoanSchedule(loan, rates) = row
  BY <1>6 DEF LoanSchedule, rate
<1>8. row \in [0..T -> ScheduleRow]
  BY <1>2, RowsAre
<1> HIDE DEF row
<1>9. T \in Term
  BY DEF TermsTypeOK, LoanForm
<1> QED
  BY <1>7, <1>8, <1>9, LoanTermsAssumption

LEMMA RepayingIsSound == TermsTypeOK => PaysOff
<1> SUFFICES ASSUME TermsTypeOK, loan # None, LoanSchedule(loan, rates) # None
             PROVE  PaysOff
  BY DEF PaysOff
<1> DEFINE rate == ExpandMonthlyRates(loan, rates)
           row == Rows(loan, rate)
           owed == [i \in 0..loan.term |->
                       OutstandingPrincipal(loan, row, AddMonths(loan.start, i))]
<1>1. rates \in [Observation -> RateChange \cup {None}]
  BY DEF TermsTypeOK
<1>2. /\ Schedulable(loan, rate) /\ loan.start \in Nat /\ Amortizes(row)
      /\ LoanSchedule(loan, rates) = row
  BY <1>1, ScheduleIs
<1>3. loan.term \in Nat
  BY <1>2 DEF Schedulable
<1> HIDE DEF rate
<1>4. \A i \in 0..loan.term : owed[i] = row[i].balance
  BY <1>2, OwedIsBalance
<1>5. /\ row[loan.term].balance = 0
      /\ \A i \in 1..loan.term : 0 <= row[i].balance /\ row[i].balance <= row[i - 1].balance
  BY <1>2, OwedFalls
<1> HIDE DEF owed
<1>6. owed[loan.term] = 0
  BY <1>3, <1>4, <1>5
<1>7. \A i \in 1..loan.term : owed[i] = row[i].balance /\ 0 <= owed[i] /\ owed[i] <= owed[i - 1]
  <2> TAKE i \in 1..loan.term
  <2>1. i \in 0..loan.term /\ i - 1 \in 0..loan.term
    BY <1>3
  <2> QED
    BY <1>4, <1>5, <2>1
<1> HIDE DEF row
<1> QED
  BY <1>2, <1>6, <1>7 DEF PaysOff, owed

LEMMA LevelIsSound == TermsTypeOK => LevelPayments
<1> SUFFICES ASSUME TermsTypeOK, loan # None, loan.installments = "equal",
                    LoanSchedule(loan, rates) # None
             PROVE  LevelPayments
  BY DEF LevelPayments
<1> DEFINE rate == ExpandMonthlyRates(loan, rates)
           row == Rows(loan, rate)
<1>1. rates \in [Observation -> RateChange \cup {None}]
  BY DEF TermsTypeOK
<1>2. Schedulable(loan, rate) /\ LoanSchedule(loan, rates) = row
  BY <1>1, ScheduleIs
<1> HIDE DEF rate
<1>3. ASSUME NEW i \in 1..loan.term - 1, NEW since \in 1..i,
             since = 1 \/ rate[since] # rate[since - 1],
             \A k \in since..i : rate[k] = rate[i]
      PROVE  RepaysIn(loan.term - since + 1, row[since - 1].balance, rate[i],
                      row[i].interest + row[i].paid)
  <2>1. InForce(rate, since, i)
    BY <1>3 DEF InForce
  <2>2. /\ row[i].interest + row[i].paid = row[i].level
        /\ RepaysIn(loan.term - since + 1, row[since - 1].balance, rate[i], row[i].level)
    BY <1>2, <2>1, LevelRepays
  <2> HIDE DEF row
  <2> QED
    BY <2>2
<1> HIDE DEF row
<1> QED
  BY <1>2, <1>3 DEF LevelPayments, rate

\* An observation leaves the rates of earlier installments as they were.
LEMMA EarlierRateKept ==
    ASSUME TermsTypeOK, loan # None, NEW table \in [Observation -> RateChange \cup {None}],
           NEW o \in Observation, rates[o] = None, table[o] # None,
           \A p \in Observation \ {o} : table[p] = rates[p],
           NEW i \in 1..loan.term, AddMonths(loan.start, i) < table[o].date
    PROVE  ExpandMonthlyRates(loan, table)[i] = ExpandMonthlyRates(loan, rates)[i]
<1> DEFINE due == AddMonths(loan.start, i)
<1>1. due \in Int /\ ~(table[o].date <= due)
  <2>1. loan.start \in Date /\ loan.term \in Int /\ table[o].date \in Date
    BY LoanTermsAssumption DEF TermsTypeOK, LoanForm, RateChange
  <2>2. loan.start \in Nat /\ i \in Nat /\ table[o].date \in Int
    <3>1. \A d \in Date : d \in Nat /\ d \in Int
      BY LoanTermsAssumption
    <3>2. i \in Nat
      BY <2>1
    <3> QED
      BY <2>1, <3>1, <3>2
  <2>3. due \in Int
    BY <2>2, DueInOrder
  <2> HIDE DEF due
  <2> QED
    BY <2>2, <2>3 DEF due
<1> HIDE DEF due
<1>2. Made(table, due) = Made(rates, due)
  BY <1>1 DEF Made, Observed
<1>3. \A p \in Made(rates, due) : table[p] = rates[p]
  BY DEF Made, Observed
<1>4. LatestBaseRate(table, due) = LatestBaseRate(rates, due)
  <2> DEFINE latest(t) == {p \in Made(rates, due) :
                              \A q \in Made(rates, due) : t[q].date <= t[p].date}
  <2>1. latest(table) = latest(rates)
    BY <1>3
  <2>2. {table[p].base : p \in latest(table)} = {rates[p].base : p \in latest(rates)}
    BY <1>3, <2>1
  <2> QED
    BY <1>2, <2>2 DEF LatestBaseRate
<1> QED
  BY <1>4 DEF ExpandMonthlyRates, due

\* As long as the rates agree so do the rows.
LEMMA RowsAgree ==
    ASSUME NEW terms, NEW rate, NEW other, Schedulable(terms, rate), Schedulable(terms, other),
           NEW n \in 1..terms.term, \A k \in 1..n : rate[k] = other[k]
    PROVE  Rows(terms, rate)[n] = Rows(terms, other)[n]
<1> DEFINE f == Rows(terms, rate)
           g == Rows(terms, other)
<1>0. terms.term \in Nat /\ n \in Nat
  BY DEF Schedulable
<1>1. /\ f[0] = g[0]
      /\ \A i \in 1..terms.term : f[i] = NextRow(terms, rate, i, f[i - 1])
      /\ \A i \in 1..terms.term : g[i] = NextRow(terms, other, i, g[i - 1])
  BY RowsAre
<1> HIDE DEF f, g
<1>2. ASSUME NEW k \in 0..n, k < n, f[k] = g[k] PROVE f[k + 1] = g[k + 1]
  <2> DEFINE i == k + 1
  <2>1. i \in 1..terms.term /\ i - 1 = k /\ i \in 1..n /\ (i > 1 => i - 1 \in 1..n)
    BY <1>0, <1>2
  <2> HIDE DEF i
  <2>2. rate[i] = other[i] /\ (i > 1 => rate[i - 1] = other[i - 1])
    BY <2>1
  <2>3. NextRow(terms, rate, i, g[k]) = NextRow(terms, other, i, g[k])
    <3>1. \A m : LevelOf(rate, i, g[k], m) = LevelOf(other, i, g[k], m)
      BY <2>2 DEF LevelOf
    <3> QED
      BY <2>2, <3>1 DEF NextRow
  <2>4. f[i] = g[i]
    BY <1>1, <1>2, <2>1, <2>3
  <2> QED
    BY <2>4 DEF i
<1>3. \A k \in 0..n : f[k] = g[k]
  <2>1. \A k \in 0..n : k < n /\ f[k] = g[k] => f[k + 1] = g[k + 1]
    BY <1>2
  <2>2. f[0] = g[0]
    BY <1>1
  <2> QED
    BY <1>0, <2>1, <2>2, SameSteps
<1> QED
  BY <1>0, <1>3 DEF f, g

\* An observation leaves the rates of the installments that fall due before its
\* date as they were, schedule or none: what a late entry changes of the plan
\* begins where it says (expand_monthly_rates).
PastRatesKept ==
    \A date \in Date, base \in BaseRate : loan # None /\ AddRateChange(date, base) =>
        \A i \in 1..loan.term : AddMonths(loan.start, i) < date =>
            ExpandMonthlyRates(loan, rates)'[i] = ExpandMonthlyRates(loan, rates)[i]

THEOREM PastRatesUntouched == TermsSpec => [][PastRatesKept]_termsVars
<1>1. TermsInv => PastRatesKept
  <2> SUFFICES ASSUME TermsInv, loan # None, NEW date \in Date, NEW base \in BaseRate,
                      AddRateChange(date, base), NEW i \in 1..loan.term,
                      AddMonths(loan.start, i) < date
               PROVE  ExpandMonthlyRates(loan, rates)'[i] = ExpandMonthlyRates(loan, rates)[i]
    BY DEF PastRatesKept
  <2>1. PICK o \in Unused : Add(o, date, base)
    BY DEF AddRateChange
  <2>2. o \in Observation /\ rates[o] = None /\ TermsTypeOK
    BY DEF Unused, TermsInv
  <2>3. /\ rates' \in [Observation -> RateChange \cup {None}]
        /\ rates'[o] # None /\ rates'[o].date = date
        /\ \A p \in Observation \ {o} : rates'[p] = rates[p]
    BY <2>1, <2>2, AddType
  <2>4. loan' = loan
    BY DEF AddRateChange
  <2>5. ExpandMonthlyRates(loan, rates')[i] = ExpandMonthlyRates(loan, rates)[i]
    BY <2>2, <2>3, EarlierRateKept
  <2> QED
    BY <2>4, <2>5 DEF ExpandMonthlyRates, AddMonths, LatestBaseRate, Made, Observed
<1> QED
  BY LoanTermsInvariant, <1>1, PTL

\* Whatever was edited and observed, a loan has a schedule unless it is tiny in
\* minor units, and the schedule repays it exactly, in installments that are
\* level from one change of the rate to the next (generate_schedule,
\* outstanding_principal): for every amount, term, rate and date.
THEOREM SchedulesAreSound == TermsSpec => []ScheduleSound
<1>1. TermsInv => ScheduleSound
  BY FittingIsSound, RepayingIsSound, LevelIsSound DEF TermsInv, ScheduleSound
<1> QED
  BY LoanTermsInvariant, <1>1, PTL

\* An observation, entered or moved by an edit, changes no installment that
\* fell due before its date (expand_monthly_rates, generate_schedule).
THEOREM PastIsUntouched == TermsSpec => PastUntouched
<1>1. TermsInv /\ TermsInv' /\ [TermsNext]_termsVars => (loan # None => PastKept)
  <2> SUFFICES ASSUME TermsInv, TermsInv', [TermsNext]_termsVars, loan # None,
                      NEW o \in Observation, rates[o] = None, rates'[o] # None, loan' = loan,
                      LoanSchedule(loan, rates) # None, LoanSchedule(loan, rates') # None,
                      NEW i \in 1..loan.term, AddMonths(loan.start, i) < rates'[o].date
               PROVE  LoanSchedule(loan, rates)[i] = LoanSchedule(loan, rates')[i]
    BY DEF PastKept
  <2> DEFINE rate == ExpandMonthlyRates(loan, rates)
             other == ExpandMonthlyRates(loan, rates')
  <2>1. /\ TermsTypeOK
        /\ rates \in [Observation -> RateChange \cup {None}]
        /\ rates' \in [Observation -> RateChange \cup {None}]
    BY DEF TermsInv, TermsTypeOK
  <2>2. \A p \in Observation \ {o} : rates'[p] = rates[p]
    <3>1. \E date \in Date, base \in BaseRate : \E p \in Observation : Add(p, date, base)
      <4>1. ASSUME NEW form \in LoanForm, NEW base \in BaseRate, UpdateLoan(form, base)
            PROVE  \E p \in Observation : Add(p, form.start, base)
        BY <4>1 DEF UpdateLoan, Reseed, Seeds, Earliest, Observed, Unused
      <4>2. \A form \in LoanForm : form.start \in Date
        BY DEF LoanForm
      <4>3. ASSUME NEW date \in Date, NEW base \in BaseRate, AddRateChange(date, base)
            PROVE  \E p \in Observation : Add(p, date, base)
        BY <4>3 DEF AddRateChange, Unused
      <4>4. TermsNext
        BY DEF termsVars
      <4>5. \A form \in LoanForm, base \in BaseRate : ~CreateLoan(form, base)
        BY DEF CreateLoan
      <4> QED
        BY <4>1, <4>2, <4>3, <4>4, <4>5 DEF TermsNext
    <3>2. PICK p \in Observation, date \in Date, base \in BaseRate : Add(p, date, base)
      BY <3>1
    <3>3. \A q \in Observation \ {p} : rates'[q] = rates[q]
      BY <2>1, <3>2, AddType
    <3>4. p = o
      BY <3>3
    <3> QED
      BY <3>3, <3>4
  <2>3. /\ Schedulable(loan, rate) /\ LoanSchedule(loan, rates) = Rows(loan, rate)
        /\ loan.start \in Nat
    BY <2>1, ScheduleIs
  <2>4. Schedulable(loan, other) /\ LoanSchedule(loan, rates') = Rows(loan, other)
    BY <2>1, ScheduleIs
  <2>5. ASSUME NEW k \in 1..i PROVE rate[k] = other[k]
    <3>1. k \in 1..loan.term /\ k \in Nat /\ i \in Nat /\ k <= i
      BY <2>3 DEF Schedulable
    <3>2. AddMonths(loan.start, k) < rates'[o].date
      <4>1. AddMonths(loan.start, k) \in Int /\ AddMonths(loan.start, i) \in Int
            /\ AddMonths(loan.start, k) <= AddMonths(loan.start, i)
        BY <2>3, <3>1, DueInOrder
      <4>2. rates'[o].date \in Int
        <5>1. rates'[o] \in RateChange
          BY <2>1
        <5> QED
          BY <5>1, DatesAreNumbers DEF RateChange
      <4> QED
        BY <4>1, <4>2
    <3> HIDE DEF rate, other
    <3>3. other[k] = rate[k]
      BY <2>1, <2>2, <3>1, <3>2, EarlierRateKept DEF rate, other
    <3> QED
      BY <3>3
  <2> HIDE DEF rate, other
  <2>6. Rows(loan, rate)[i] = Rows(loan, other)[i]
    BY <2>3, <2>4, <2>5, RowsAgree
  <2> QED
    BY <2>3, <2>4, <2>6
<1> QED
  BY LoanTermsInvariant, <1>1, PTL DEF TermsSpec, PastUntouched


-----------------------------------------------------------------------------
(* The documents                                                           *)

\* What a request in flight carries at each step.
LEMMA RequestShape ==
    ASSUME TypeOK, NEW r \in Request
    PROVE  /\ request[r].step = "reading" => request[r].loan \in Loan
           /\ request[r].step \in {"stored", "loaded", "forgotten"} => request[r].doc \in Doc
           /\ request[r].step = "dropping" =>
                request[r].loan \in Loan /\ request[r].seen \subseteq Doc
           /\ request[r].step = "dropped" => request[r].loan \in Loan
           /\ request[r].step \in {"idle", "stopped"} <=> request[r] \in Free
  BY DEF TypeOK, InFlight, Free, Idle, Stopped

\* A step of one request leaves the others where they are.
LEMMA BecomesOne ==
    ASSUME TypeOK, NEW r \in Request, NEW q \in InFlight \cup Free, Becomes(r, q)
    PROVE  /\ request' \in [Request -> InFlight \cup Free]
           /\ request'[r] = q
           /\ \A s \in Request \ {r} : request'[s] = request[s]
  BY DEF TypeOK, Becomes

-----------------------------------------------------------------------------
\* The initial states are sound.
LEMMA InitSound == Init => IInv
  BY DEF Init, IInv, TypeOK, StoreSound, RequestsSound, Free, Idle

\* Starting a request changes nothing it relies on.
LEMMA StartsKeep ==
    ASSUME IInv, NEW r \in Request,
           \/ \E n \in Loan : StartUpload(r, n) \/ StartDeleteLoan(r, n)
           \/ \E d \in Doc : StartDelete(r, d)
           \/ Stop(r)
    PROVE  IInv' /\ UNCHANGED <<loans, rows, files, named>>
  <1> USE DEF IInv
  <1>1. UNCHANGED <<loans, rows, files, named>>
    BY DEF StartUpload, StartDeleteLoan, StartDelete, Stop
  <1> DEFINE Starting(q) ==
               /\ Becomes(r, q)
               /\ \/ q.step = "stopped"
                  \/ q.step = "reading" /\ loans[q.loan] = "live"
                  \/ q.step = "loaded" /\ q.doc \in rows
                  \/ q.step = "dropping" /\ loans[q.loan] = "live" /\ q.seen = RowsOf(q.loan)
                  \/ q.step = "dropped" /\ loans[q.loan] = "gone"
  <1>2. \E q \in InFlight \cup Free : Starting(q)
    <2>1. ASSUME NEW n \in Loan, StartUpload(r, n) PROVE <1>2
      <3>1. [step |-> "reading", loan |-> n] \in InFlight
        BY DEF InFlight
      <3> QED
        BY <2>1, <3>1 DEF StartUpload
    <2>2. ASSUME NEW d \in Doc, StartDelete(r, d) PROVE <1>2
      <3>1. [step |-> "loaded", doc |-> d] \in InFlight
        BY DEF InFlight
      <3> QED
        BY <2>2, <3>1 DEF StartDelete
    <2>3. ASSUME NEW n \in Loan, StartDeleteLoan(r, n), loans[n] = "live" PROVE <1>2
      <3>1. [step |-> "dropping", loan |-> n, seen |-> RowsOf(n)] \in InFlight
        BY DEF TypeOK, RowsOf, InFlight
      <3> QED
        BY <2>3, <3>1 DEF StartDeleteLoan
    <2>4. ASSUME NEW n \in Loan, StartDeleteLoan(r, n), loans[n] # "live" PROVE <1>2
      <3>1. [step |-> "dropped", loan |-> n] \in InFlight
        BY DEF InFlight
      <3>2. loans[n] = "gone"
        BY <2>4 DEF StartDeleteLoan, TypeOK
      <3> QED
        BY <2>4, <3>1, <3>2 DEF StartDeleteLoan
    <2>5. ASSUME Stop(r) PROVE <1>2
      BY <2>5 DEF Stop, Free, Stopped
    <2> QED
      BY <2>1, <2>2, <2>3, <2>4, <2>5
  <1>3. PICK q \in InFlight \cup Free : Starting(q)
    BY <1>2
  <1>4. /\ request' \in [Request -> InFlight \cup Free]
        /\ request'[r] = q
        /\ \A s \in Request \ {r} : request'[s] = request[s]
    BY <1>3, BecomesOne
  <1>5. RequestsSound'
    BY <1>1, <1>3, <1>4 DEF RequestsSound, StoreSound, TypeOK, RowsOf
  <1> QED
    BY <1>1, <1>4, <1>5 DEF TypeOK, StoreSound

\* A new loan has no documents yet.
LEMMA AddLoanKeeps ==
    ASSUME IInv, NEW n \in Loan, AddLoan(n)
    PROVE  IInv'
  <1> USE DEF IInv
  <1>1. /\ loans' \in [Loan -> {"unused", "live", "gone"}]
        /\ loans'[n] = "live" /\ loans[n] = "unused"
        /\ \A m \in Loan \ {n} : loans'[m] = loans[m]
        /\ UNCHANGED <<rows, files, named, request>>
    BY DEF AddLoan, TypeOK
  <1>2. StoreSound'
    BY <1>1 DEF StoreSound, TypeOK, Doc
  <1>3. RequestsSound'
    BY <1>1, RequestShape DEF RequestsSound, Doc
  <1> QED
    BY <1>1, <1>2, <1>3 DEF TypeOK

\* The stored file is new, so nothing that goes on concerns it.
LEMMA StoreFileKeeps ==
    ASSUME IInv, NEW r \in Request, NEW name \in Document, StoreFile(r, name)
    PROVE  /\ IInv'
           /\ UNCHANGED <<loans, rows>>
           /\ files \subseteq files'
           /\ request'[r].step = "stored" /\ request'[r].doc \notin files
           /\ request'[r].doc[1] = request[r].loan
           /\ files' = files \cup {request'[r].doc}
           /\ \A s \in Request \ {r} : request'[s] = request[s]
  <1> USE DEF IInv
  <1> DEFINE d == <<request[r].loan, name>>
             q == [step |-> "stored", doc |-> d]
  <1>1. /\ request[r].step = "reading" /\ name \notin named
        /\ files' = files \cup {d} /\ Becomes(r, q)
        /\ named' = named \cup {name}
        /\ UNCHANGED <<loans, rows>>
        /\ LoopFree
    BY DEF StoreFile, Path
  <1>2. d \in Doc
    BY <1>1, RequestShape DEF Doc
  <1>3. q \in InFlight
    BY <1>2 DEF InFlight
  <1>4. /\ request' \in [Request -> InFlight \cup Free]
        /\ request'[r] = q
        /\ \A s \in Request \ {r} : request'[s] = request[s]
    BY <1>1, <1>3, BecomesOne
  <1>5. /\ d[2] = name /\ d \notin files /\ d \notin rows
        /\ loans[d[1]] # "unused"
    BY <1>1 DEF StoreSound, RequestsSound
  <1>6. StoreSound'
    BY <1>1, <1>5 DEF StoreSound
  <1>7. \A s \in Request : request[s].step \in {"loaded", "forgotten"} => request[s].doc # d
    BY <1>1, <1>5 DEF RequestsSound
  <1>8. \A s \in Request : request[s].step # "stored"
    BY <1>1 DEF LoopFree
  <1> HIDE DEF d
  <1>9. RequestsSound'
    BY <1>1, <1>4, <1>5, <1>7, <1>8 DEF RequestsSound
  <1> QED
    BY <1>1, <1>2, <1>4, <1>5, <1>6, <1>9 DEF TypeOK, d

\* The row of a live loan finds its file; nobody else is at work on it.
LEMMA InsertRowKeeps ==
    ASSUME IInv, NEW r \in Request, InsertRow(r)
    PROVE  /\ IInv'
           /\ UNCHANGED <<loans, files>>
           /\ request[r].step = "stored" /\ request'[r] = Idle
           /\ \A s \in Request \ {r} : request'[s] = request[s]
           /\ request[r].doc \in Doc /\ request[r].doc \notin rows
           /\ rows' = IF loans[request[r].doc[1]] = "live" THEN rows \cup {request[r].doc} ELSE rows
  <1> USE DEF IInv
  <1> DEFINE d == request[r].doc
  <1>1. /\ request[r].step = "stored"
        /\ rows' = IF loans[d[1]] = "live" THEN rows \cup {d} ELSE rows
        /\ Becomes(r, Idle)
        /\ UNCHANGED <<loans, files, named>>
    BY DEF InsertRow
  <1>2. d \in Doc
    BY <1>1, RequestShape
  <1>3. /\ request' \in [Request -> InFlight \cup Free]
        /\ request'[r] = Idle
        /\ \A s \in Request \ {r} : request'[s] = request[s]
    BY <1>1, BecomesOne DEF Free
  <1>4. /\ d \notin rows /\ d[2] \in named
        /\ loans[d[1]] = "live" => d \in files
        /\ \A s \in Request \ {r} :
              request[s].step \in {"stored", "loaded", "forgotten"} => request[s].doc # d
    BY <1>1 DEF RequestsSound
  <1>5. StoreSound'
    BY <1>1, <1>4 DEF StoreSound
  <1> HIDE DEF d
  <1>6. RequestsSound'
    BY <1>1, <1>3, <1>4 DEF RequestsSound, Idle
  <1> QED
    BY <1>1, <1>2, <1>3, <1>4, <1>5, <1>6 DEF TypeOK, d

\* Deleting a row, and later its file, leaves every other row with its file.
LEMMA DeleteKeeps ==
    ASSUME IInv, NEW r \in Request, DeleteRow(r) \/ UnlinkFile(r)
    PROVE  /\ IInv'
           /\ UNCHANGED loans
           /\ request[r].doc \in Doc
           /\ \A s \in Request \ {r} : request'[s] = request[s]
           /\ DeleteRow(r) => /\ files' = files
                              /\ request'[r].step = "forgotten"
                              /\ request'[r].doc = request[r].doc
           /\ UnlinkFile(r) => /\ rows' = rows
                               /\ request[r].step = "forgotten"
                               /\ request[r].doc \notin rows
                               /\ request'[r] = Idle
  <1> USE DEF IInv
  <1> DEFINE d == request[r].doc
  <1>1. UNCHANGED <<loans, named>> /\ request[r].step \in {"loaded", "forgotten"}
    BY DEF DeleteRow, UnlinkFile
  <1>2. d \in Doc
    BY <1>1, RequestShape
  <1>3. /\ d[2] \in named
        /\ request[r].step = "forgotten" => d \notin rows
        /\ \A s \in Request : request[s].step = "stored" => request[s].doc # d
    BY <1>1 DEF RequestsSound
  <1>4. CASE DeleteRow(r)
    <2> DEFINE q == [step |-> "forgotten", doc |-> d]
    <2>1. rows' = rows \ {d} /\ Becomes(r, q) /\ files' = files /\ request[r].step = "loaded"
      BY <1>4 DEF DeleteRow
    <2>2. q \in InFlight
      BY <1>2 DEF InFlight
    <2>3. /\ request' \in [Request -> InFlight \cup Free]
          /\ request'[r] = q
          /\ \A s \in Request \ {r} : request'[s] = request[s]
      BY <2>1, <2>2, BecomesOne
    <2>4. StoreSound'
      BY <1>1, <2>1 DEF StoreSound
    <2>5. ~UnlinkFile(r)
      BY <2>1 DEF UnlinkFile
    <2> HIDE DEF d
    <2>6. RequestsSound'
      BY <1>1, <1>3, <2>1, <2>3 DEF RequestsSound
    <2> QED
      BY <1>1, <1>2, <2>1, <2>3, <2>4, <2>5, <2>6 DEF TypeOK, d
  <1>5. CASE UnlinkFile(r)
    <2>1. files' = files \ {d} /\ Becomes(r, Idle) /\ rows' = rows /\ request[r].step = "forgotten"
      BY <1>5 DEF UnlinkFile
    <2>2. /\ request' \in [Request -> InFlight \cup Free]
          /\ request'[r] = Idle
          /\ \A s \in Request \ {r} : request'[s] = request[s]
      BY <2>1, BecomesOne DEF Free
    <2>3. d \notin rows
      BY <1>3, <2>1
    <2>4. StoreSound'
      BY <1>1, <2>1, <2>3 DEF StoreSound
    <2>5. ~DeleteRow(r)
      BY <2>1 DEF DeleteRow
    <2> HIDE DEF d
    <2>6. RequestsSound'
      BY <1>1, <1>3, <2>1, <2>2 DEF RequestsSound, Idle
    <2> QED
      BY <1>1, <1>2, <2>1, <2>2, <2>3, <2>4, <2>5, <2>6 DEF TypeOK, d
  <1> QED
    BY <1>4, <1>5

\* A loan is dropped with the rows that were loaded, and those are all it has.
LEMMA DropLoanKeeps ==
    ASSUME IInv, NEW r \in Request, DropLoan(r)
    PROVE  /\ IInv'
           /\ UNCHANGED files
           /\ request[r].loan \in Loan /\ loans[request[r].loan] # "unused"
           /\ loans' = [loans EXCEPT ![request[r].loan] = "gone"]
           /\ rows' = rows \ RowsOf(request[r].loan)
           /\ request'[r] = [step |-> "dropped", loan |-> request[r].loan]
           /\ \A s \in Request \ {r} : request'[s] = request[s]
  <1> USE DEF IInv
  <1> DEFINE n == request[r].loan
             seen == request[r].seen
             q == [step |-> "dropped", loan |-> n]
  <1>1. /\ request[r].step = "dropping"
        /\ RowsOf(n) \subseteq seen
        /\ loans' = [loans EXCEPT ![n] = "gone"]
        /\ rows' = rows \ seen
        /\ Becomes(r, q)
        /\ UNCHANGED <<files, named>>
    BY DEF DropLoan
  <1>2. n \in Loan /\ seen \subseteq Doc
    BY <1>1, RequestShape
  <1>3. loans[n] # "unused" /\ \A d \in seen : d[1] = n
    BY <1>1 DEF RequestsSound
  <1>4. q \in InFlight
    BY <1>2 DEF InFlight
  <1>5. /\ request' \in [Request -> InFlight \cup Free]
        /\ request'[r] = q
        /\ \A s \in Request \ {r} : request'[s] = request[s]
    BY <1>1, <1>4, BecomesOne
  <1>6. rows' = rows \ RowsOf(n)
    BY <1>1, <1>3 DEF RowsOf
  <1>7. /\ loans' \in [Loan -> {"unused", "live", "gone"}]
        /\ loans'[n] = "gone"
        /\ \A m \in Loan \ {n} : loans'[m] = loans[m]
    BY <1>1, <1>2 DEF TypeOK
  <1>8. StoreSound'
    BY <1>1, <1>6, <1>7 DEF StoreSound, TypeOK, Doc, RowsOf
  <1> HIDE DEF n, seen
  <1>9. RequestsSound'
    BY <1>1, <1>3, <1>5, <1>6, <1>7, RequestShape DEF RequestsSound, Doc
  <1> QED
    BY <1>1, <1>2, <1>3, <1>5, <1>6, <1>7, <1>8, <1>9 DEF TypeOK, n

\* The directory of a dropped loan holds no file a row or an upload counts on.
LEMMA RemoveDirectoryKeeps ==
    ASSUME IInv, NEW r \in Request, RemoveDirectory(r)
    PROVE  /\ IInv'
           /\ UNCHANGED <<loans, rows>>
           /\ request[r].step = "dropped" /\ request'[r] = Idle
           /\ files' = files \ FilesOf(request[r].loan)
           /\ \A s \in Request \ {r} : request'[s] = request[s]
  <1> USE DEF IInv
  <1> DEFINE n == request[r].loan
  <1>1. /\ request[r].step = "dropped"
        /\ files' = files \ FilesOf(n)
        /\ Becomes(r, Idle)
        /\ UNCHANGED <<loans, rows, named>>
    BY DEF RemoveDirectory
  <1>2. loans[n] = "gone"
    BY <1>1 DEF RequestsSound
  <1>3. /\ request' \in [Request -> InFlight \cup Free]
        /\ request'[r] = Idle
        /\ \A s \in Request \ {r} : request'[s] = request[s]
    BY <1>1, BecomesOne DEF Free
  <1>4. StoreSound'
    BY <1>1, <1>2 DEF StoreSound, FilesOf
  <1> HIDE DEF n
  <1>5. RequestsSound'
    BY <1>1, <1>2, <1>3 DEF RequestsSound, FilesOf, Idle
  <1> QED
    BY <1>1, <1>3, <1>4, <1>5 DEF TypeOK, n

\* Every step keeps the invariant.
LEMMA NextKeeps == IInv /\ [Next]_vars => IInv'
  <1> SUFFICES ASSUME IInv, [Next]_vars PROVE IInv'
    OBVIOUS
  <1>1. CASE UNCHANGED vars
    BY <1>1 DEF vars, IInv, TypeOK, StoreSound, RequestsSound
  <1>2. CASE Next
    BY <1>2, StartsKeep, AddLoanKeeps, StoreFileKeeps, InsertRowKeeps, DeleteKeeps,
       DropLoanKeeps, RemoveDirectoryKeeps DEF Next
  <1> QED
    BY <1>1, <1>2

\* The inductive invariant of rows, files and requests.
THEOREM DocumentsInvariant == Spec => []IInv
  BY InitSound, NextKeeps, PTL DEF Spec

\* The tables, the files and the requests keep their shape.
THEOREM DocumentsTypeCorrect == Spec => []TypeOK
  BY DocumentsInvariant, PTL DEF IInv

-----------------------------------------------------------------------------
(* Rows and files implement the store of whole documents                   *)

\* No download answers that the file is missing.
LEMMA AnswersByRow ==
    ASSUME StoreSound
    PROVE  [d \in Doc |-> Answer(d)] =
             [d \in Doc |-> IF d \in rows THEN "file" ELSE "document not found"]
  BY DEF StoreSound, Answer

\* A step that keeps rows and loans is not seen from outside.
LEMMA Unseen ==
    ASSUME StoreSound, StoreSound', UNCHANGED <<loans, rows>>
    PROVE  UNCHANGED Store!vars
  <1>1. [d \in Doc |-> Answer(d)]' = [d \in Doc |-> Answer(d)]
    BY DEF StoreSound, Answer
  <1> QED
    BY <1>1 DEF Store!vars

\* Each step is a step of the store or is not seen from outside.
LEMMA StepsImplement == IInv /\ IInv' /\ [Next]_vars => [Store!Next]_(Store!vars)
  <1> SUFFICES ASSUME IInv, IInv', [Next]_vars PROVE [Store!Next]_(Store!vars)
    OBVIOUS
  <1> USE DEF IInv
  <1> DEFINE answer == [d \in Doc |-> IF d \in rows THEN "file" ELSE "document not found"]
  <1>1. [d \in Doc |-> Answer(d)] = answer /\ [d \in Doc |-> Answer(d)]' = answer'
    BY DEF StoreSound, Answer
  <1>2. Doc = Store!Doc
    BY DEF Doc, Store!Doc
  <1>3. CASE UNCHANGED <<loans, rows>>
    BY <1>3, Unseen
  <1>4. ASSUME NEW n \in Loan, AddLoan(n)
        PROVE  Store!CreateLoan(n)
    <2>1. loans[n] = "unused" /\ loans' = [loans EXCEPT ![n] = "live"] /\ answer' = answer
      BY <1>4 DEF AddLoan
    <2> QED
      BY <1>1, <2>1 DEF Store!CreateLoan
  <1>5. ASSUME NEW r \in Request, InsertRow(r), ~UNCHANGED <<loans, rows>>
        PROVE  Store!Upload(request[r].doc)
    <2> DEFINE x == request[r].doc
    <2>1. x \in Doc /\ x \notin rows /\ loans[x[1]] = "live" /\ loans' = loans /\ rows' = rows \cup {x}
      BY <1>5, InsertRowKeeps
    <2>2. answer[x] = "document not found" /\ answer' = [answer EXCEPT ![x] = "file"]
      BY <2>1
    <2> QED
      BY <1>1, <2>1, <2>2 DEF Store!Upload
  <1>6. ASSUME NEW r \in Request, DeleteRow(r), ~UNCHANGED <<loans, rows>>
        PROVE  Store!Delete(request[r].doc)
    <2> DEFINE x == request[r].doc
    <2>1. x \in rows /\ x \in Doc /\ loans' = loans /\ rows' = rows \ {x}
      BY <1>6, DeleteKeeps DEF DeleteRow
    <2>2. answer[x] = "file" /\ answer' = [answer EXCEPT ![x] = "document not found"]
      BY <2>1
    <2> QED
      BY <1>1, <2>1, <2>2 DEF Store!Delete
  <1>7. ASSUME NEW r \in Request, DropLoan(r), ~UNCHANGED <<loans, rows>>
        PROVE  Store!DeleteLoan(request[r].loan)
    <2> DEFINE n == request[r].loan
    <2>1. /\ n \in Loan /\ loans[n] # "unused"
          /\ loans' = [loans EXCEPT ![n] = "gone"] /\ rows' = rows \ RowsOf(n)
      BY <1>7, DropLoanKeeps
    <2>2. loans[n] = "live"
      <3>1. CASE loans[n] = "gone"
        BY <1>7, <2>1, <3>1 DEF RowsOf, StoreSound, TypeOK
      <3> QED
        BY <2>1, <3>1 DEF TypeOK
    <2>3. answer' = [d \in Doc |-> IF d[1] = n /\ answer[d] = "file" THEN "document not found"
                                   ELSE answer[d]]
      BY <2>1 DEF RowsOf
    <2>4. Store!Listed(n) = {d \in Doc : d[1] = n /\ answer[d] = "file"}
      BY <1>1, <1>2 DEF Store!Listed
    <2>5. answer' = [d \in Store!Doc |-> IF d \in Store!Listed(n) THEN "document not found"
                                        ELSE answer[d]]
      BY <1>2, <2>3, <2>4
    <2> QED
      BY <1>1, <2>1, <2>2, <2>5 DEF Store!DeleteLoan
  <1>8. ASSUME ~UNCHANGED <<loans, rows>>
        PROVE  \/ \E n \in Loan : AddLoan(n)
               \/ \E r \in Request : InsertRow(r) \/ DeleteRow(r) \/ DropLoan(r)
    BY <1>8, StartsKeep DEF Next, vars, StoreFile, UnlinkFile, RemoveDirectory
  <1>9. \A r \in Request : /\ InsertRow(r) \/ DeleteRow(r) => request[r].doc \in Store!Doc
                           /\ DropLoan(r) => request[r].loan \in Loan
    BY <1>2, InsertRowKeeps, DeleteKeeps, DropLoanKeeps
  <1> QED
    BY <1>3, <1>4, <1>5, <1>6, <1>7, <1>8, <1>9 DEF Store!Next

\* Rows and files written by overlapping requests that may stop anywhere
\* implement a store whose documents appear, disappear and leave with their
\* loan at once, and whose downloads never miss a file.
THEOREM DocumentsImplementStore == Spec => ImplementsStore
  <1>1. Init => Store!Init
    <2> SUFFICES ASSUME Init PROVE Store!Init
      OBVIOUS
    <2>1. [d \in Doc |-> Answer(d)] = [d \in Store!Doc |-> "document not found"]
      BY DEF Init, Answer, Doc, Store!Doc
    <2> QED
      BY <2>1 DEF Init, Store!Init
  <1> QED
    BY <1>1, DocumentsInvariant, StepsImplement, PTL DEF Spec, ImplementsStore, Store!Spec

-----------------------------------------------------------------------------
(* No file is left behind without a cause                                  *)

\* A file becomes stray by a request that stops, or by an upload whose loan is
\* gone.
LEMMA StrayCause == IInv /\ [Next]_vars => StrayExplained
  <1> SUFFICES ASSUME IInv, [Next]_vars, NEW d \in Doc, Stray(d)', ~Stray(d),
                      ~\E r \in Request :
                          \/ request[r] # Stopped /\ request'[r] = Stopped
                          \/ request[r].step = "stored" /\ loans[request[r].doc[1]] = "gone"
               PROVE  FALSE
    BY DEF StrayExplained
  <1> USE DEF IInv
  <1> DEFINE Minds(q) == \/ q.step \in {"stored", "forgotten"} /\ q.doc = d
                         \/ q.step = "dropped" /\ q.loan = d[1]
  <1>1. /\ d \in files' /\ d \notin rows'
        /\ \A s \in Request : ~Minds(request'[s])
        /\ d \in files \ rows => \E s \in Request : Minds(request[s])
    BY DEF Stray
  <1>2. ASSUME NEW r \in Request, d \in files \ rows, ~Minds(request[r]),
               \A s \in Request \ {r} : request'[s] = request[s]
        PROVE  FALSE
    BY <1>1, <1>2
  <1> HIDE DEF Minds
  <1>3. CASE UNCHANGED vars
    BY <1>1, <1>3 DEF vars
  <1>4. ASSUME NEW n \in Loan, AddLoan(n) PROVE FALSE
    BY <1>1, <1>4 DEF AddLoan
  <1>5. ASSUME NEW r \in Request,
               \/ \E n \in Loan : StartUpload(r, n) \/ StartDeleteLoan(r, n)
               \/ \E x \in Doc : StartDelete(r, x)
        PROVE  FALSE
    <2>1. request[r] \in Free
      BY <1>5 DEF StartUpload, StartDeleteLoan, StartDelete
    <2>2. ~Minds(request[r])
      BY <2>1 DEF Minds, Free, Idle, Stopped
    <2>3. UNCHANGED <<rows, files>> /\ \A s \in Request \ {r} : request'[s] = request[s]
      BY <1>5 DEF StartUpload, StartDeleteLoan, StartDelete, Becomes, TypeOK
    <2> QED
      BY <1>1, <1>2, <2>2, <2>3
  <1>6. ASSUME NEW r \in Request, Stop(r) PROVE FALSE
    BY <1>6 DEF Stop, Becomes, TypeOK, Free
  <1>7. ASSUME NEW r \in Request, NEW name \in Document, StoreFile(r, name) PROVE FALSE
    <2>1. /\ rows' = rows /\ files' = files \cup {request'[r].doc}
          /\ request'[r].step = "stored"
          /\ \A s \in Request \ {r} : request'[s] = request[s]
      BY <1>7, StoreFileKeeps
    <2>2. d # request'[r].doc
      BY <1>1, <2>1 DEF Minds
    <2>3. ~Minds(request[r])
      BY <1>7 DEF StoreFile, Minds
    <2> QED
      BY <1>1, <1>2, <2>1, <2>2, <2>3
  <1>8. ASSUME NEW r \in Request, InsertRow(r) PROVE FALSE
    <2>1. /\ files' = files /\ request[r].step = "stored"
          /\ rows' = IF loans[request[r].doc[1]] = "live" THEN rows \cup {request[r].doc} ELSE rows
          /\ \A s \in Request \ {r} : request'[s] = request[s]
      BY <1>8, InsertRowKeeps
    <2>2. loans[request[r].doc[1]] = "live"
      BY <2>1, RequestShape DEF RequestsSound, TypeOK, Doc
    <2>3. ~Minds(request[r])
      BY <1>1, <2>1, <2>2 DEF Minds
    <2> QED
      BY <1>1, <1>2, <2>1, <2>3
  <1>9. ASSUME NEW r \in Request, DeleteRow(r) PROVE FALSE
    <2>1. /\ files' = files /\ rows' = rows \ {request[r].doc} /\ request[r].step = "loaded"
          /\ request'[r].step = "forgotten" /\ request'[r].doc = request[r].doc
          /\ \A s \in Request \ {r} : request'[s] = request[s]
      BY <1>9, DeleteKeeps DEF DeleteRow
    <2>2. d # request[r].doc /\ ~Minds(request[r])
      BY <1>1, <2>1 DEF Minds
    <2> QED
      BY <1>1, <1>2, <2>1, <2>2
  <1>10. ASSUME NEW r \in Request, UnlinkFile(r) PROVE FALSE
    <2>1. /\ rows' = rows /\ files' = files \ {request[r].doc} /\ request[r].step = "forgotten"
          /\ \A s \in Request \ {r} : request'[s] = request[s]
      BY <1>10, DeleteKeeps DEF UnlinkFile
    <2>2. ~Minds(request[r])
      BY <1>1, <2>1 DEF Minds
    <2> QED
      BY <1>1, <1>2, <2>1, <2>2
  <1>11. ASSUME NEW r \in Request, DropLoan(r) PROVE FALSE
    <2>1. /\ files' = files /\ rows' = rows \ RowsOf(request[r].loan)
          /\ request'[r] = [step |-> "dropped", loan |-> request[r].loan]
          /\ \A s \in Request \ {r} : request'[s] = request[s]
      BY <1>11, DropLoanKeeps
    <2>2. request[r].step = "dropping"
      BY <1>11 DEF DropLoan
    <2>3. d[1] # request[r].loan /\ ~Minds(request[r])
      BY <1>1, <2>1, <2>2 DEF Minds
    <2> QED
      BY <1>1, <1>2, <2>1, <2>3 DEF RowsOf
  <1>12. ASSUME NEW r \in Request, RemoveDirectory(r) PROVE FALSE
    <2>1. /\ rows' = rows /\ files' = files \ FilesOf(request[r].loan)
          /\ request[r].step = "dropped"
          /\ \A s \in Request \ {r} : request'[s] = request[s]
      BY <1>12, RemoveDirectoryKeeps
    <2>2. ~Minds(request[r])
      BY <1>1, <2>1 DEF Minds, FilesOf
    <2> QED
      BY <1>1, <1>2, <2>1, <2>2
  <1> QED
    BY <1>3, <1>4, <1>5, <1>6, <1>7, <1>8, <1>9, <1>10, <1>11, <1>12 DEF Next

\* A file is left behind only by a request that stopped half way, or by an
\* upload whose loan was deleted under it.
THEOREM FilesAreAccounted == Spec => FilesAccounted
  <1>1. IInv /\ [Next]_vars => [StrayExplained]_vars
    BY StrayCause
  <1> QED
    BY <1>1, DocumentsInvariant, PTL DEF Spec, FilesAccounted

-----------------------------------------------------------------------------
(* The cap                                                                 *)

\* The documents and the uploads of a loan can be counted.
LEMMA Countable ==
    ASSUME TypeOK, NEW n \in Loan
    PROVE  /\ IsFiniteSet(RowsOf(n)) /\ IsFiniteSet(Uploading(n))
           /\ Cardinality(RowsOf(n)) \in Nat /\ Cardinality(Uploading(n)) \in Nat
           /\ Cardinality(Uploading(n)) <= Cardinality(Request)
  <1>1. IsFiniteSet({n} \X Document)
    BY DocumentsAssumption, FS_Singleton, FS_Product
  <1>2. RowsOf(n) \in SUBSET ({n} \X Document)
    BY DEF TypeOK, RowsOf, Doc
  <1>3. Uploading(n) \in SUBSET Request
    BY DEF Uploading
  <1> QED
    BY <1>1, <1>2, <1>3, DocumentsAssumption, FS_Subset, FS_CardinalityType

\* Fewer documents and fewer uploads stay within any bound.
LEMMA FewerStayWithin ==
    ASSUME TypeOK, TypeOK', NEW n \in Loan, NEW K \in Int,
           RowsOf(n)' \subseteq RowsOf(n), Uploading(n)' \subseteq Uploading(n),
           Cardinality(RowsOf(n)) + Cardinality(Uploading(n)) <= K
    PROVE  Cardinality(RowsOf(n)') + Cardinality(Uploading(n)') <= K
  <1>1. /\ Cardinality(RowsOf(n)') \in Nat /\ Cardinality(Uploading(n)') \in Nat
    BY Countable, FS_Subset, FS_CardinalityType
  <1>2. /\ Cardinality(RowsOf(n)') <= Cardinality(RowsOf(n))
        /\ Cardinality(Uploading(n)') <= Cardinality(Uploading(n))
    BY Countable, FS_Subset
  <1> QED
    BY <1>1, <1>2, Countable

\* An upload starts below the cap, and turns into a row at most.
LEMMA CapKeeps == IInv /\ IInv' /\ CapHolds /\ [Next]_vars => CapHolds'
  <1> DEFINE K == MaxPerLoan + Cardinality(Request) - 1
  <1>0. Cardinality(Request) \in Nat /\ MaxPerLoan \in Nat /\ K \in Int
    BY DocumentsAssumption, FS_CardinalityType
  <1> SUFFICES ASSUME IInv, IInv', CapHolds, [Next]_vars, NEW n \in Loan
               PROVE  Cardinality(RowsOf(n)') + Cardinality(Uploading(n)') <= K
    BY DEF CapHolds
  <1> USE DEF IInv
  <1>1. Cardinality(RowsOf(n)) + Cardinality(Uploading(n)) <= K
    BY DEF CapHolds
  <1> HIDE DEF K
  <1>2. ASSUME RowsOf(n)' \subseteq RowsOf(n), Uploading(n)' \subseteq Uploading(n)
        PROVE  Cardinality(RowsOf(n)') + Cardinality(Uploading(n)') <= K
    BY <1>0, <1>1, <1>2, FewerStayWithin
  <1>3. ASSUME NEW r \in Request, rows' \subseteq rows,
               \A s \in Request \ {r} : request'[s] = request[s],
               request'[r].step = "reading" => request'[r].loan # n,
               request'[r].step = "stored" =>
                  /\ request[r].step = "reading"
                  /\ request'[r].doc[1] = request[r].loan
        PROVE  Cardinality(RowsOf(n)') + Cardinality(Uploading(n)') <= K
    <2>1. RowsOf(n)' \subseteq RowsOf(n)
      BY <1>3 DEF RowsOf
    <2>2. Uploading(n)' \subseteq Uploading(n)
      BY <1>3 DEF Uploading
    <2> QED
      BY <1>2, <2>1, <2>2
  <1>4. CASE UNCHANGED vars \/ \E m \in Loan : AddLoan(m)
    BY <1>2, <1>4 DEF vars, AddLoan, RowsOf, Uploading
  <1>5. ASSUME NEW r \in Request, StartUpload(r, n)
        PROVE  Cardinality(RowsOf(n)') + Cardinality(Uploading(n)') <= K
    <2>1. rows' = rows /\ ~(Cardinality(RowsOf(n)) >= MaxPerLoan)
      BY <1>5 DEF StartUpload, Full
    <2>2. RowsOf(n)' = RowsOf(n)
      BY <2>1 DEF RowsOf
    <2>3. /\ Cardinality(Uploading(n)') \in Nat
          /\ Cardinality(Uploading(n)') <= Cardinality(Request)
      <3>1. Uploading(n)' \in SUBSET Request
        BY DEF Uploading
      <3> QED
        BY <3>1, DocumentsAssumption, FS_Subset, FS_CardinalityType
    <2> QED
      BY <1>0, <2>1, <2>2, <2>3, Countable DEF K
  <1>6. ASSUME NEW r \in Request,
               \/ \E m \in Loan \ {n} : StartUpload(r, m)
               \/ \E m \in Loan : StartDeleteLoan(r, m)
               \/ \E d \in Doc : StartDelete(r, d)
               \/ Stop(r)
        PROVE  Cardinality(RowsOf(n)') + Cardinality(Uploading(n)') <= K
    BY <1>3, <1>6 DEF StartUpload, StartDeleteLoan, StartDelete, Stop, Stopped, Becomes, TypeOK
  <1>7. ASSUME NEW r \in Request, NEW name \in Document, StoreFile(r, name)
        PROVE  Cardinality(RowsOf(n)') + Cardinality(Uploading(n)') <= K
    BY <1>3, <1>7, StoreFileKeeps DEF StoreFile
  <1>8. ASSUME NEW r \in Request, DeleteRow(r) \/ UnlinkFile(r)
        PROVE  Cardinality(RowsOf(n)') + Cardinality(Uploading(n)') <= K
    BY <1>3, <1>8, DeleteKeeps DEF DeleteRow, Idle
  <1>9. ASSUME NEW r \in Request, DropLoan(r) \/ RemoveDirectory(r)
        PROVE  Cardinality(RowsOf(n)') + Cardinality(Uploading(n)') <= K
    <2>1. CASE DropLoan(r)
      <3>1. /\ request'[r] = [step |-> "dropped", loan |-> request[r].loan]
            /\ rows' \subseteq rows
            /\ \A s \in Request \ {r} : request'[s] = request[s]
        BY <2>1, DropLoanKeeps
      <3> QED
        BY <1>3, <3>1
    <2>2. CASE RemoveDirectory(r)
      BY <1>3, <2>2, RemoveDirectoryKeeps DEF Idle
    <2> QED
      BY <1>9, <2>1, <2>2
  <1>10. ASSUME NEW r \in Request, InsertRow(r)
         PROVE  Cardinality(RowsOf(n)') + Cardinality(Uploading(n)') <= K
    <2> DEFINE d == request[r].doc
    <2>1. /\ request[r].step = "stored" /\ request'[r] = Idle /\ d \notin rows
          /\ \A s \in Request \ {r} : request'[s] = request[s]
          /\ rows' = IF loans[d[1]] = "live" THEN rows \cup {d} ELSE rows
      BY <1>10, InsertRowKeeps
    <2>2. CASE d[1] = n /\ loans[n] = "live"
      <3>1. RowsOf(n)' = RowsOf(n) \cup {d} /\ d \notin RowsOf(n)
        BY <2>1, <2>2 DEF RowsOf
      <3>2. Uploading(n)' = Uploading(n) \ {r} /\ r \in Uploading(n)
        BY <2>1, <2>2 DEF Uploading, Idle
      <3> HIDE DEF d
      <3>3. Cardinality(RowsOf(n)') = Cardinality(RowsOf(n)) + 1
        BY <3>1, Countable, FS_AddElement
      <3>4. Cardinality(Uploading(n)') = Cardinality(Uploading(n)) - 1
        BY <3>2, Countable, FS_RemoveElement
      <3> QED
        BY <1>0, <1>1, <3>3, <3>4, Countable
    <2>3. CASE ~(d[1] = n /\ loans[n] = "live")
      <3>1. RowsOf(n)' \subseteq RowsOf(n)
        BY <2>1, <2>3 DEF RowsOf
      <3>2. Uploading(n)' \subseteq Uploading(n)
        BY <2>1 DEF Uploading, Idle
      <3> QED
        BY <1>2, <3>1, <3>2
    <2> QED
      BY <2>2, <2>3
  <1> QED
    BY <1>4, <1>5, <1>6, <1>7, <1>8, <1>9, <1>10 DEF Next

\* Overlapping uploads pass the cap by no more than the others in flight.
THEOREM CapIsBounded == Spec => []CapHolds
  <1>1. Init => CapHolds
    <2> SUFFICES ASSUME Init, NEW n \in Loan
                 PROVE  Cardinality(RowsOf(n)) + Cardinality(Uploading(n))
                          <= MaxPerLoan + Cardinality(Request) - 1
      BY DEF CapHolds
    <2>1. RowsOf(n) = {} /\ Uploading(n) = {}
      BY DEF Init, RowsOf, Uploading, Idle
    <2> QED
      BY <2>1, DocumentsAssumption, FS_EmptySet, FS_CardinalityType
  <1> QED
    BY <1>1, CapKeeps, NextKeeps, DocumentsInvariant, PTL DEF Spec
=============================================================================
