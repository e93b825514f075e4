------------------------------ MODULE Recurring ------------------------------
(***************************************************************************)
(* Recurring payments found in a merchant's charges: a set of charges,     *)
(* each with its row's id, its day, a positive amount and a category.      *)
(*                                                                         *)
(* A median of an even number of values can be a half, so medians are      *)
(* doubled throughout.                                                     *)
(***************************************************************************)
EXTENDS Integers, FiniteSets

CONSTANTS
    MinOccurrences,   \* subscription_min_occurrences
    AmountTolerance,  \* subscription_amount_tolerance_pct
    RiseThreshold,    \* subscription_price_rise_pct
    NewWindow         \* subscription_new_window_days

ASSUME RecurringAssumption ==
    /\ MinOccurrences \in Nat /\ MinOccurrences >= 2
    /\ AmountTolerance \in Nat /\ RiseThreshold \in Nat
    /\ NewWindow \in Nat \ {0}

LOCAL Distance(x, y) == IF x < y THEN y - x ELSE x - y

-----------------------------------------------------------------------------
(* Order statistics of the values of a function                            *)

Kth(f, k) ==
    CHOOSE x \in {f[i] : i \in DOMAIN f} :
        /\ Cardinality({i \in DOMAIN f : f[i] < x}) < k
        /\ Cardinality({i \in DOMAIN f : f[i] <= x}) >= k

TwiceMedian(f) ==
    LET n == Cardinality(DOMAIN f) IN Kth(f, (n + 1) \div 2) + Kth(f, n \div 2 + 1)

\* round(): a half goes to the even neighbour.
HalfRounded(twice) ==
    LET q == twice \div 2 IN IF twice % 2 = 0 \/ q % 2 = 0 THEN q ELSE q + 1

\* Six values in ten lie within a tolerance of `near`, a fraction of `unit`.
IsRegular(f, near, unit, pct) ==
    10 * Cardinality({i \in DOMAIN f : 100 * Distance(f[i], near) <= unit * pct})
        >= 6 * Cardinality(DOMAIN f)

-----------------------------------------------------------------------------
(* What makes charges a subscription                                       *)

Cadence == {"weekly", "monthly", "quarterly", "yearly"}

Period == [c \in Cadence |->
    CASE c = "weekly" -> 7 [] c = "monthly" -> 30 [] c = "quarterly" -> 91 [] c = "yearly" -> 365]

CadenceTolerance == 40  \* percent of the period

\* The tolerances do not overlap: at most one.
Cadences(twice) ==
    {c \in Cadence : 100 * Distance(twice, 2 * Period[c]) <= 2 * Period[c] * CadenceTolerance}

Earlier(a, b) == a.day < b.day \/ (a.day = b.day /\ a.id < b.id)

Newest(charges) == CHOOSE c \in charges : \A d \in charges : d = c \/ Earlier(d, c)
Oldest(charges) == CHOOSE c \in charges : \A d \in charges : d = c \/ Earlier(c, d)

\* The gap before each charge but the first.
Gaps(charges) ==
    [c \in charges \ {Oldest(charges)} |->
        c.day - Newest({d \in charges : Earlier(d, c)}).day]

Amounts(charges) == [c \in charges |-> c.amount]

Typical(charges) == HalfRounded(TwiceMedian(Amounts(charges)))

IsSubscription(charges) ==
    /\ Cardinality(charges) >= MinOccurrences
    /\ \E c \in Cadences(TwiceMedian(Gaps(charges))) :
          IsRegular(Gaps(charges), Period[c], Period[c], CadenceTolerance)
    /\ Typical(charges) > 0
    /\ IsRegular(Amounts(charges), Typical(charges), Typical(charges), AmountTolerance)

-----------------------------------------------------------------------------
(* What is shown of one                                                    *)

CadenceOf(charges) == CHOOSE c \in Cadences(TwiceMedian(Gaps(charges))) : TRUE

\* Rounded half up, in integers.
Scaled(amount, num, den) ==
    LET total == amount * num
    IN  total \div den + (IF 2 * (total % den) >= den THEN 1 ELSE 0)

MonthlyEquivalent(amount, cadence) ==
    CASE cadence = "weekly" -> Scaled(amount, 52, 12)
      [] cadence = "monthly" -> amount
      [] cadence = "quarterly" -> Scaled(amount, 1, 3)
      [] cadence = "yearly" -> Scaled(amount, 1, 12)

\* The latest charge against the median of those before it.
PriceRose(charges) ==
    LET latest == Newest(charges)
        before == HalfRounded(TwiceMedian(Amounts(charges \ {latest})))
    IN  before > 0 /\ (latest.amount - before) * 100 > before * RiseThreshold

Status(charges, today) ==
    LET period == Period[CadenceOf(charges)]
        last == Newest(charges).day
        grace == (period * CadenceTolerance + 50) \div 100
    IN  IF today <= last + period + grace THEN "active"
        ELSE IF today <= last + 2 * period THEN "overdue" ELSE "ended"

\* The category most charges carry; of several, the one met first.
DominantCategory(charges, none) ==
    LET known == {c \in charges : c.category # none}
        Of(c) == {d \in known : d.category = c.category}
        top == {c \in known : \A d \in known : Cardinality(Of(d)) <= Cardinality(Of(c))}
    IN  IF known = {} THEN none ELSE Oldest(top).category

Detected(charges, today, none) ==
    [cadence |-> CadenceOf(charges),
     monthly |-> MonthlyEquivalent(Newest(charges).amount, CadenceOf(charges)),
     status |-> Status(charges, today),
     isNew |-> Oldest(charges).day >= today - NewWindow,
     rose |-> PriceRose(charges),
     category |-> DominantCategory(charges, none)]
=============================================================================
