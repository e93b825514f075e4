--------------------------- MODULE HouseholdProofs ---------------------------
(***************************************************************************)
(* Proofs about module Household, for any members, accounts, transactions, *)
(* plan and loans and any number of requests: no figure depends on a row   *)
(* out of the viewer's sight, two members see the same plan but for what   *)
(* was settled in private, what is suggested would be accepted, and a      *)
(* member's figures are the household's with the member's own rows on top. *)
(*                                                                         *)
(* That no figure leaks is proved read by read: two databases that agree   *)
(* on what a viewer may see give it the same answer.  The sums are of      *)
(* finite sets, met by their parts: a set that is not what it should be    *)
(* has a smallest part that is not.                                        *)
(***************************************************************************)
EXTENDS Household, FiniteSetTheorems, WellFoundedInduction, TLAPS

-----------------------------------------------------------------------------
(* Types                                                                   *)

LEMMA NothingIsNone ==
    /\ None \notin Member /\ None \notin Tx /\ None # Ticked /\ Ticked \notin Tx
    /\ TransferCategory \in Category
BY FiguresAssumption

LEMMA FactsType ==
    ASSUME NEW t \in Tx
    PROVE  /\ TxFact[t].account \in Account
           /\ AccountFact[TxFact[t].account].owner \in Member \cup {None}
BY FiguresAssumption

LEMMA InstallmentsType ==
    ASSUME NEW n \in Loan
    PROVE  Installments(n) \subseteq Nat \ {0}
<1>1. LoanFact[n].schedule \in Seq([day : Int, payment : Int, principal : Int])
  BY FiguresAssumption
<1>2. DOMAIN LoanFact[n].schedule = 1 .. Len(LoanFact[n].schedule)
      /\ Len(LoanFact[n].schedule) \in Nat
  BY <1>1
<1> QED
  BY <1>2 DEF Installments

LEMMA ImportingType ==
    ASSUME NEW m \in Member, NEW t \in Tx
    PROVE  Importing(m, t) \in Row
BY FactsType DEF Importing, Row, Scope

LEMMA AsTransferType ==
    ASSUME NEW table \in [Tx -> Row], NEW pairs \in SUBSET SUBSET Tx
    PROVE  AsTransfer(table, pairs) \in [Tx -> Row]
<1>1. ASSUME NEW t \in Tx, NEW mine \in SUBSET pairs
      PROVE  [table[t] EXCEPT !.group = UNION mine, !.category = TransferCategory] \in Row
  <2>1. table[t] \in Row
    OBVIOUS
  <2>2. UNION mine \in SUBSET Tx
    OBVIOUS
  <2> QED
    BY <2>1, <2>2, NothingIsNone DEF Row
<1>2. ASSUME NEW t \in Tx
      PROVE  LET mine == {p \in pairs : t \in p}
             IN  [table[t] EXCEPT !.group = UNION mine, !.category = TransferCategory] \in Row
  BY <1>1
<1> QED
  BY <1>2 DEF AsTransfer

LEMMA AutoPairsType ==
    ASSUME NEW d, NEW v
    PROVE  SUBSET AutoPairs(d, v) \subseteq SUBSET SUBSET Tx
BY DEF AutoPairs, Pairs, Unmatched, VisibleLive

\* What SetCategory and UnlinkTransfer write is a row.
LEMMA RowUpdates ==
    ASSUME NEW row \in Row, NEW c \in Category \cup {None}, NEW s \in Scope,
           NEW o \in Member \cup {None}
    PROVE  /\ [row EXCEPT !.category = c, !.scope = s, !.owner = o] \in Row
           /\ [row EXCEPT !.group = {}, !.category = c] \in Row
<1>1. {} \in SUBSET Tx
  OBVIOUS
<1>2. [row EXCEPT !.category = c, !.scope = s, !.owner = o] \in Row
  BY DEF Row
<1> QED
  BY <1>1, <1>2 DEF Row

LEMMA NextTypeOK == TypeOK /\ [Next]_vars => TypeOK'
<1> SUFFICES ASSUME TypeOK, [Next]_vars PROVE TypeOK'
  OBVIOUS
<1> USE DEF TypeOK
<1>1. ASSUME NEW m \in Member, NEW t \in Tx, Import(m, t) PROVE TypeOK'
  <2> DEFINE table == [rows EXCEPT ![t] = Importing(m, t)]
  <2>1. table \in [Tx -> Row]
    BY ImportingType
  <2> HIDE DEF table
  <2>2. PICK linked \in SUBSET AutoPairs([db EXCEPT !.tx = table], Importing(m, t).owner) :
            rows' = AsTransfer(table, linked)
    BY <1>1 DEF Import, table
  <2>3. rows' \in [Tx -> Row]
    BY <2>1, <2>2, AsTransferType, AutoPairsType
  <2> QED
    BY <1>1, <2>3 DEF Import
<1>2. ASSUME requests < MaxRequests, requests' = requests + 1, Request PROVE TypeOK'
  <2>0. requests' \in 0 .. MaxRequests
    BY <1>2, HouseholdAssumption
  <2>1. ASSUME NEW m \in Member, NEW t \in Tx, NEW c \in Category \cup {None}, NEW s \in Scope,
               SetCategory(m, t, c, s)
        PROVE  TypeOK'
    <3>1. [rows[t] EXCEPT !.category = c, !.scope = s,
                          !.owner = IF s = "private" THEN m ELSE rows[t].owner] \in Row
      <4>1. (IF s = "private" THEN m ELSE rows[t].owner) \in Member \cup {None}
        BY DEF Row
      <4> QED
        BY <4>1, RowUpdates
    <3>2. rows' = [rows EXCEPT ![t] = [rows[t] EXCEPT !.category = c, !.scope = s,
                          !.owner = IF s = "private" THEN m ELSE rows[t].owner]]
      BY <2>1 DEF SetCategory
    <3> QED
      BY <2>0, <2>1, <3>1, <3>2 DEF SetCategory
  <2>2. ASSUME NEW m \in Member, NEW t \in Tx, NEW u \in Tx, LinkTransfer(m, t, u)
        PROVE  TypeOK'
    <3>1. {{t, u}} \in SUBSET SUBSET Tx
      OBVIOUS
    <3> QED
      BY <2>0, <2>2, <3>1, AsTransferType DEF LinkTransfer
  <2>3. ASSUME NEW m \in Member, NEW t \in Tx, NEW l \in Line, LinkTransaction(m, l, t)
        PROVE  TypeOK'
    BY <2>0, <2>3 DEF LinkTransaction
  <2>4. ASSUME NEW m \in Member, NEW t \in Tx, NEW n \in Loan, NEW k \in Installments(n),
               LinkPayment(m, n, k, t)
        PROVE  TypeOK'
    <3>1. <<n, k>> \in Pin
      BY InstallmentsType DEF Pin
    <3>2. [rows[t] EXCEPT !.pin = <<n, k>>] \in Row
      BY <3>1 DEF Row
    <3> QED
      BY <2>0, <2>4, <3>2 DEF LinkPayment
  <2>5. ASSUME NEW m \in Member, NEW t \in Tx, UnlinkPayment(m, t)
        PROVE  TypeOK'
    <3>1. [rows[t] EXCEPT !.pin = None] \in Row
      BY DEF Row
    <3> QED
      BY <2>0, <2>5, <3>1 DEF UnlinkPayment
  <2>6. ASSUME NEW m \in Member, NEW group, UnlinkTransfer(m, group)
        PROVE  TypeOK'
    <3>1. ASSUME NEW t \in Tx
          PROVE  [rows[t] EXCEPT !.group = {},
                     !.category = IF rows[t].category = TransferCategory THEN None
                                  ELSE rows[t].category] \in Row
      <4>1. (IF rows[t].category = TransferCategory THEN None ELSE rows[t].category)
                \in Category \cup {None}
        BY DEF Row
      <4>2. "private" \in Scope
        BY DEF Scope
      <4> QED
        BY <4>1, <4>2, RowUpdates
    <3>2. rows' \in [Tx -> Row]
      BY <2>6, <3>1 DEF UnlinkTransfer
    <3> QED
      BY <2>0, <2>6, <3>2 DEF UnlinkTransfer
  <2>7. ASSUME NEW t \in Tx, Rollback(t) PROVE TypeOK'
    <3>1. [rows[t] EXCEPT !.status = "deleted"] \in Row
      BY DEF Row
    <3> QED
      BY <2>0, <2>7, <3>1 DEF Rollback
  <2>8. ASSUME NEW l \in Line, MarkPaid(l) \/ MarkUnpaid(l) \/ UnlinkTransaction(l)
        PROVE  TypeOK'
    BY <2>0, <2>8 DEF MarkPaid, MarkUnpaid, UnlinkTransaction
  <2>9. ASSUME NEW m \in Member, Rescan(m) PROVE TypeOK'
    <3>1. rows' \in [Tx -> Row]
      BY <2>9, AsTransferType, AutoPairsType DEF Rescan
    <3> QED
      BY <2>0, <2>9, <3>1 DEF Rescan
  <2> QED
    BY <1>2, <2>1, <2>2, <2>3, <2>4, <2>5, <2>6, <2>7, <2>8, <2>9 DEF Request
<1>3. CASE UNCHANGED vars
  BY <1>3 DEF vars
<1> QED
  BY <1>1, <1>2, <1>3 DEF Next

\* Every row keeps to its fields whatever the members ask for: a transfer's
\* legs are transactions, and a pinned payment names an installment, counted
\* from 1.
THEOREM TypeCorrect == Spec => []TypeOK
<1>1. Init => TypeOK
  BY HouseholdAssumption DEF Init, TypeOK, NoRow, Row, Scope
<1> QED
  BY <1>1, NextTypeOK, PTL DEF Spec

-----------------------------------------------------------------------------
(* Two databases a viewer cannot tell apart                                *)

SameSight(d, e, v) ==
    /\ d.payment = e.payment
    /\ \A t \in Tx, lens \in Lens : InLens(d.tx[t], v, lens) <=> InLens(e.tx[t], v, lens)
    /\ \A t \in Tx : InLens(d.tx[t], v, "all") => d.tx[t] = e.tx[t]

LEMMA SameVisible ==
    ASSUME NEW d, NEW e, NEW v, SameSight(d, e, v), NEW lens \in Lens
    PROVE  /\ VisibleLive(d, v, lens) = VisibleLive(e, v, lens)
           /\ \A t \in VisibleLive(d, v, lens) : d.tx[t] = e.tx[t] /\ t \in Tx
<1>1. \A t \in Tx : InLens(d.tx[t], v, lens) => d.tx[t] = e.tx[t]
  BY DEF SameSight, InLens, Lens
<1>2. \A t \in Tx : InLens(d.tx[t], v, lens) <=> InLens(e.tx[t], v, lens)
  BY DEF SameSight
<1> QED
  BY <1>1, <1>2 DEF VisibleLive, Live

LEMMA SameVisibleRow ==
    ASSUME NEW d, NEW e, NEW v, SameSight(d, e, v), NEW t
    PROVE  Visible(d, t, v) <=> Visible(e, t, v)
BY SameVisible DEF Visible, Lens

LEMMA SameListed ==
    ASSUME NEW d, NEW e, NEW v, SameSight(d, e, v), NEW lens \in Lens, NEW month, NEW c
    PROVE  Listed(d, v, lens, month, c) = Listed(e, v, lens, month, c)
BY SameVisible DEF Listed

LEMMA SameTransfers ==
    ASSUME NEW d, NEW e, NEW v, SameSight(d, e, v)
    PROVE  /\ SuggestPairs(d, v) = SuggestPairs(e, v)
           /\ Groups(d, v) = Groups(e, v)
<1> DEFINE S == VisibleLive(d, v, "all")
<1>1. S = VisibleLive(e, v, "all") /\ \A t \in S : d.tx[t] = e.tx[t]
  BY SameVisible DEF Lens
<1>2. Pairs(d, v) = Pairs(e, v)
  <2>1. Unmatched(d, v) = Unmatched(e, v)
    BY <1>1 DEF Unmatched
  <2> QED
    BY <2>1 DEF Pairs
<1>3. AutoPairs(d, v) = AutoPairs(e, v)
  <2>1. \A p \in Pairs(d, v) : \A t \in p : d.tx[t] = e.tx[t]
    BY <1>1 DEF Pairs, Unmatched
  <2>2. \A p \in Pairs(d, v) :
          (\A t \in p : d.tx[t].category = None) <=> (\A t \in p : e.tx[t].category = None)
    BY <2>1
  <2> QED
    BY <1>2, <2>2 DEF AutoPairs
<1>4. Groups(d, v) = Groups(e, v)
  <2> DEFINE linked(x) == {t \in S : x.tx[t].group # {}}
             Legs(x, u) == {t \in linked(x) : x.tx[t].group = x.tx[u].group}
  <2>1. linked(d) = linked(e) /\ \A t \in linked(d) : d.tx[t] = e.tx[t]
    BY <1>1
  <2> HIDE DEF S, linked
  <2>2. \A u \in linked(d) : Legs(d, u) = Legs(e, u)
    BY <2>1
  <2> HIDE DEF Legs
  <2>3. {Legs(d, u) : u \in linked(d)} = {Legs(e, u) : u \in linked(e)}
    BY <2>1, <2>2
  <2>4. Groups(d, v) = {Legs(d, u) : u \in linked(d)}
    BY DEF Groups, S, linked, Legs
  <2>5. Groups(e, v) = {Legs(e, u) : u \in linked(e)}
    BY <1>1 DEF Groups, S, linked, Legs
  <2> QED
    BY <2>3, <2>4, <2>5
<1> QED
  BY <1>2, <1>3, <1>4 DEF SuggestPairs

LEMMA SameSpendable ==
    ASSUME NEW d, NEW e, NEW v, SameSight(d, e, v), NEW lens \in Lens
    PROVE  /\ Spendable(d, v, lens) = Spendable(e, v, lens)
           /\ \A t \in Spendable(d, v, lens) : d.tx[t] = e.tx[t]
BY SameVisible DEF Spendable

LEMMA SameByCategory ==
    ASSUME NEW d, NEW e, NEW S, \A t \in S : d.tx[t] = e.tx[t], NEW month
    PROVE  ByCategory(d, S, month) = ByCategory(e, S, month)
<1> DEFINE spent == {t \in Out(S) : In(t, month)}
           Cats(x) == {x.tx[t].category : t \in spent}
           Of(x, c) == {t \in spent : x.tx[t].category = c}
           Cost(x, c) == -Sum(Of(x, c))
<1>1. \A t \in spent : d.tx[t] = e.tx[t]
  BY DEF Out
<1> HIDE DEF spent
<1>2. Cats(d) = Cats(e)
  BY <1>1
<1>3. \A c : Of(d, c) = Of(e, c)
  BY <1>1
<1> HIDE DEF Cats, Of
<1>4. \A c : Cost(d, c) = Cost(e, c)
  BY <1>3
<1> HIDE DEF Cost
<1>5. [c \in Cats(d) |-> Cost(d, c)] = [c \in Cats(e) |-> Cost(e, c)]
  BY <1>2, <1>4
<1> QED
  BY <1>5 DEF ByCategory, Cats, Cost, Of, spent

LEMMA SameByOwner ==
    ASSUME NEW d, NEW e, NEW S, \A t \in S : d.tx[t] = e.tx[t], NEW month
    PROVE  ByOwner(d, S, month) = ByOwner(e, S, month)
<1> DEFINE spent == {t \in Out(S) : In(t, month)}
           Owners(x) == {x.tx[t].owner : t \in spent}
           Of(x, m) == {t \in spent : x.tx[t].owner = m}
           Cost(x, m) == -Sum(Of(x, m))
<1>1. \A t \in spent : d.tx[t] = e.tx[t]
  BY DEF Out
<1> HIDE DEF spent
<1>2. Owners(d) = Owners(e)
  BY <1>1
<1>3. \A m : Of(d, m) = Of(e, m)
  BY <1>1
<1> HIDE DEF Owners, Of
<1>4. \A m : Cost(d, m) = Cost(e, m)
  BY <1>3
<1> HIDE DEF Cost
<1>5. [m \in Owners(d) |-> Cost(d, m)] = [m \in Owners(e) |-> Cost(e, m)]
  BY <1>2, <1>4
<1> QED
  BY <1>5 DEF ByOwner, Owners, Cost, Of, spent

LEMMA SameMonthFigures ==
    ASSUME NEW d, NEW e, NEW v, SameSight(d, e, v), NEW lens \in Lens, NEW month
    PROVE  MonthFigures(d, v, lens, month) = MonthFigures(e, v, lens, month)
BY SameListed, SameSpendable, SameByCategory, SameByOwner DEF MonthFigures

LEMMA SameMatching ==
    ASSUME NEW d, NEW e, NEW S, \A t \in S : d.tx[t] = e.tx[t], NEW q
    PROVE  Matching(d, S, q) = Matching(e, S, q)
<1> DEFINE Of(x) == {t \in S : q.category # None => x.tx[t].category = q.category}
           Rest(T) == {t \in T :
              /\ q.start # None => TxFact[t].day >= q.start
              /\ q.end # None => TxFact[t].day <= q.end
              /\ q.atLeast # None => Magnitude(Amount(t)) >= q.atLeast
              /\ q.atMost # None => Magnitude(Amount(t)) <= q.atMost
              /\ q.account # None => TxFact[t].account = q.account
              /\ q.direction = "expense" => Amount(t) < 0
              /\ q.direction = "income" => Amount(t) > 0}
<1>1. Of(d) = Of(e)
  OBVIOUS
<1>2. \A x : Matching(x, S, q) = Rest(Of(x))
  BY Zenon DEF Matching
<1> QED
  BY <1>1, <1>2

LEMMA SameAnswer ==
    ASSUME NEW d, NEW e, NEW v, SameSight(d, e, v), NEW lens \in Lens, NEW q
    PROVE  Answer(d, v, lens, q) = Answer(e, v, lens, q)
<1> DEFINE S == Spendable(d, v, lens)
           found == Matching(d, S, q)
           Cats(x) == {x.tx[t].category : t \in found}
           Of(x, c) == {t \in found : x.tx[t].category = c}
           Cost(x, c) == Turnover(Of(x, c))
<1>1. S = Spendable(e, v, lens) /\ \A t \in S : d.tx[t] = e.tx[t]
  BY SameSpendable
<1> HIDE DEF S
<1>2. found = Matching(e, S, q)
  BY <1>1, SameMatching
<1>3. \A t \in found : d.tx[t] = e.tx[t]
  BY <1>1 DEF Matching
<1> HIDE DEF found
<1>4. Cats(d) = Cats(e) /\ \A c : Of(d, c) = Of(e, c)
  BY <1>3
<1>5. \A c : Cost(d, c) = Cost(e, c)
  BY <1>4
<1> HIDE DEF Cost, Cats
<1>6. [c \in Cats(d) |-> Cost(d, c)] = [c \in Cats(e) |-> Cost(e, c)]
  BY <1>4, <1>5
<1> QED
  BY <1>1, <1>2, <1>6 DEF Answer, S, found, Cats, Cost

LEMMA SameMoneyPages ==
    ASSUME NEW d, NEW e, NEW v, SameSight(d, e, v), NEW lens \in Lens
    PROVE  MoneyPages(d, v, lens) = MoneyPages(e, v, lens)
<1>1. AvailableMonths(d, v, lens) = AvailableMonths(e, v, lens)
  BY SameVisible DEF AvailableMonths
<1>2. [c \in Category \cup {None} |-> Listed(d, v, lens, None, c)] =
      [c \in Category \cup {None} |-> Listed(e, v, lens, None, c)]
  BY SameListed
<1>3. [m \in Month |-> MonthFigures(d, v, lens, m)] = [m \in Month |-> MonthFigures(e, v, lens, m)]
  BY SameMonthFigures
<1>4. Trend(Spendable(d, v, lens)) = Trend(Spendable(e, v, lens))
  BY SameSpendable
<1>5. [q \in Question |-> Answer(d, v, lens, q)] = [q \in Question |-> Answer(e, v, lens, q)]
  BY SameAnswer
<1>6. [m \in Member \cup {None} |-> AddedBy(d, v, lens, m)] =
      [m \in Member \cup {None} |-> AddedBy(e, v, lens, m)]
  <2>1. \A m : AddedBy(d, v, lens, m) = AddedBy(e, v, lens, m)
    BY SameVisible DEF AddedBy
  <2> QED
    BY <2>1
<1> QED
  BY <1>1, <1>2, <1>3, <1>4, <1>5, <1>6 DEF MoneyPages

LEMMA SameBudgets ==
    ASSUME NEW d, NEW e, NEW v, SameSight(d, e, v), NEW s \in Scope, NEW month
    PROVE  BudgetOverview(d, v, s, month) = BudgetOverview(e, v, s, month)
<1> DEFINE lens == IF s = "household" THEN "home" ELSE "private"
<1>1. lens \in Lens
  BY DEF Lens
<1> HIDE DEF lens
<1>2. ByCategory(d, Spendable(d, v, lens), month) = ByCategory(e, Spendable(e, v, lens), month)
  BY <1>1, SameSpendable, SameByCategory
<1> QED
  BY <1>2 DEF BudgetOverview, lens

LEMMA SameCharges ==
    ASSUME NEW d, NEW e, NEW v, SameSight(d, e, v), NEW merchant
    PROVE  Charges(d, v, merchant) = Charges(e, v, merchant)
<1> DEFINE S == {u \in Out(Spendable(d, v, "all")) : TxFact[u].merchant = merchant}
           T == {u \in Out(Spendable(e, v, "all")) : TxFact[u].merchant = merchant}
           Charge(x, t) == [id |-> t, day |-> TxFact[t].day, amount |-> -Amount(t),
                            category |-> x.tx[t].category]
<1>1. "all" \in Lens
  BY DEF Lens
<1>2. S = T /\ \A t \in S : d.tx[t] = e.tx[t]
  BY <1>1, SameSpendable DEF Out
<1>3. \A t \in S : Charge(d, t) = Charge(e, t)
  BY <1>2
<1> HIDE DEF S, T, Charge
<1>4. {Charge(d, t) : t \in S} = {Charge(e, t) : t \in T}
  BY <1>2, <1>3
<1> QED
  BY <1>4 DEF Charges, S, T, Charge

LEMMA SameSubscriptions ==
    ASSUME NEW d, NEW e, NEW v, SameSight(d, e, v)
    PROVE  /\ Subscriptions(d, v) = Subscriptions(e, v)
           /\ FixedCosts(d, v) = FixedCosts(e, v)
<1> DEFINE Found(x) == {n \in Merchants : IsSubscription(Charges(x, v, n))}
           As(x, m) == Detected(Charges(x, v, m), Today, None)
<1>1. \A m : Charges(d, v, m) = Charges(e, v, m)
  BY SameCharges
<1>2. Found(d) = Found(e)
  BY <1>1
<1>3. \A m : As(d, m) = As(e, m)
  BY <1>1
<1> HIDE DEF Found, As
<1>4. [m \in Found(d) |-> As(d, m)] = [m \in Found(e) |-> As(e, m)]
  BY <1>2, <1>3
<1>5. Subscriptions(d, v) = Subscriptions(e, v)
  BY <1>4 DEF Subscriptions, Found, As
<1> QED
  BY <1>5 DEF FixedCosts

LEMMA SameBalances ==
    ASSUME NEW d, NEW e, NEW v, SameSight(d, e, v)
    PROVE  /\ Balances(d, v) = Balances(e, v)
           /\ NetWorth(d, v) = NetWorth(e, v)
<1> DEFINE Balance(x, a) ==
             CASE IsCash(a) -> Sum(OnAccount(x, v, a))
               [] AccountFact[a].type = "portfolio" -> AccountFact[a].value
               [] AccountFact[a].type = "loan" -> LoanBalance(a)
               [] OTHER -> 0
<1>1. \A a : OnAccount(d, v, a) = OnAccount(e, v, a)
  BY SameVisible DEF OnAccount, Lens
<1>2. ShownAccounts(d, v) = ShownAccounts(e, v)
  BY <1>1 DEF ShownAccounts
<1>3. \A a : Balance(d, a) = Balance(e, a)
  BY <1>1
<1> HIDE DEF Balance
<1>4. [a \in ShownAccounts(d, v) |-> Balance(d, a)] = [a \in ShownAccounts(e, v) |-> Balance(e, a)]
  BY <1>2, <1>3
<1>5. Balances(d, v) = Balances(e, v)
  BY <1>4 DEF Balances, Balance
<1> QED
  BY <1>5 DEF NetWorth

LEMMA SamePaidBy ==
    ASSUME NEW d, NEW e, NEW v, SameSight(d, e, v), NEW n
    PROVE  /\ LinkedPayments(d, v, n) = LinkedPayments(e, v, n)
           /\ \A k : PaidBy(d, v, n, k) = PaidBy(e, v, n, k)
<1>1. LinkedPayments(d, v, n) = LinkedPayments(e, v, n)
      /\ \A t \in LinkedPayments(d, v, n) : d.tx[t] = e.tx[t]
  BY SameVisible DEF LinkedPayments, Lens
<1> QED
  BY <1>1 DEF PaidBy

LEMMA SameSuggestPayments ==
    ASSUME NEW d, NEW e, NEW v, SameSight(d, e, v), NEW n
    PROVE  SuggestPayments(d, v, n) = SuggestPayments(e, v, n)
<1> DEFINE Near(p) == LET due == LoanFact[n].schedule[p[1]]
                          t == p[2]
                      IN  /\ Amount(t) < 0
                          /\ TxFact[t].account # LoanFact[n].account
                          /\ Magnitude(TxFact[t].day - due.day) <= Window
                          /\ Within(Magnitude(Amount(t)), due.payment, Tolerance)
           All(x) == Installments(n) \X VisibleLive(x, v, "all")
           Open(x, p) == PaidBy(x, v, n, p[1]) = {} /\ x.tx[p[2]].pin = None
<1>1. \A k : PaidBy(d, v, n, k) = PaidBy(e, v, n, k)
  BY SamePaidBy
<1>2. VisibleLive(d, v, "all") = VisibleLive(e, v, "all")
      /\ \A t \in VisibleLive(d, v, "all") : d.tx[t] = e.tx[t]
  BY SameVisible DEF Lens
<1>3. All(d) = All(e) /\ \A p \in All(d) : Open(d, p) <=> Open(e, p)
  BY <1>1, <1>2
<1>4. SuggestPayments(d, v, n) = {p \in All(d) : Open(d, p) /\ Near(p)}
  BY DEF SuggestPayments
<1>5. SuggestPayments(e, v, n) = {p \in All(e) : Open(e, p) /\ Near(p)}
  BY DEF SuggestPayments
<1> HIDE DEF All, Open, Near
<1> QED
  BY <1>3, <1>4, <1>5

LEMMA SameLoanPage ==
    ASSUME NEW d, NEW e, NEW v, SameSight(d, e, v), NEW n
    PROVE  LoanPage(d, v, n) = LoanPage(e, v, n)
<1>1. [k \in Installments(n) |-> PaidBy(d, v, n, k)] = [k \in Installments(n) |-> PaidBy(e, v, n, k)]
  BY SamePaidBy
<1> QED
  BY <1>1, SamePaidBy, SameSuggestPayments DEF LoanPage

LEMMA SamePayments ==
    ASSUME NEW d, NEW e, NEW v, SameSight(d, e, v), NEW l
    PROVE  /\ PaymentRow(d, l) = PaymentRow(e, l)
           /\ LinkedTx(d, v, l) = LinkedTx(e, v, l)
BY DEF SameSight, PaymentRow, LinkedTx, Lens

LEMMA SameLastLinked ==
    ASSUME NEW d, NEW e, NEW v, SameSight(d, e, v), NEW i, NEW month
    PROVE  LastLinkedAmount(d, v, i, month) = LastLinkedAmount(e, v, i, month)
<1> DEFINE Before(x) == {m \in Month : m < month /\ PaymentRow(x, <<i, m>>) \in Tx}
<1>1. \A m : PaymentRow(d, <<i, m>>) = PaymentRow(e, <<i, m>>)
  BY SamePayments
<1>2. Before(d) = Before(e)
  BY <1>1
<1>3. \A t : Visible(d, t, v) <=> Visible(e, t, v)
  BY SameVisibleRow
<1> HIDE DEF Before
<1>4. PaymentRow(d, <<i, Max(Before(d))>>) = PaymentRow(e, <<i, Max(Before(e))>>)
  BY <1>1, <1>2
<1> QED
  BY <1>2, <1>3, <1>4 DEF LastLinkedAmount, Before

\* A loan-backed line depends on what it shows as paid by only, a manual one
\* also on its payment row and the last linked amount.
LoanRowBy(by, i, month) ==
    LET n == ItemFact[i].loan
        due == LoanFact[n].schedule[Min(DueIn(i, month))]
    IN  [item |-> i, loanBacked |-> TRUE, expected |-> -due.payment, amount |-> -due.payment,
         by |-> by, paid |-> by # {},
         overdue |-> by = {} /\ DueDate(i, month, due.day) < Today, hint |-> None]

ManualRowBy(row, by, last, i, month) ==
    LET paid == row = Ticked \/ by # {}
        expected == ItemFact[i].expected
    IN  [item |-> i, loanBacked |-> FALSE, expected |-> expected,
         amount |-> EffectiveAmount(expected, by),
         by |-> by, paid |-> paid,
         overdue |-> ~paid /\ DueDate(i, month, Today) < Today,
         hint |-> IF expected = None /\ by = {} THEN last ELSE None]

LEMMA LoanRowOf ==
    ASSUME NEW d, NEW v, NEW i, NEW month
    PROVE  LoanRow(d, v, i, month) =
              LoanRowBy(PaidBy(d, v, ItemFact[i].loan, Min(DueIn(i, month))), i, month)
BY Zenon DEF LoanRow, LoanRowBy

LEMMA ManualRowOf ==
    ASSUME NEW d, NEW v, NEW i, NEW month
    PROVE  ManualRow(d, v, i, month) =
              ManualRowBy(PaymentRow(d, <<i, month>>), LinkedTx(d, v, <<i, month>>),
                          LastLinkedAmount(d, v, i, month), i, month)
BY Zenon DEF ManualRow, ManualRowBy

LEMMA SamePlanRow ==
    ASSUME NEW d, NEW e, NEW v, SameSight(d, e, v), NEW i, NEW month
    PROVE  PlanRow(d, v, i, month) = PlanRow(e, v, i, month)
<1>1. LoanRow(d, v, i, month) = LoanRow(e, v, i, month)
  BY SamePaidBy, LoanRowOf
<1>2. ManualRow(d, v, i, month) = ManualRow(e, v, i, month)
  <2>1. /\ PaymentRow(d, <<i, month>>) = PaymentRow(e, <<i, month>>)
        /\ LinkedTx(d, v, <<i, month>>) = LinkedTx(e, v, <<i, month>>)
        /\ LastLinkedAmount(d, v, i, month) = LastLinkedAmount(e, v, i, month)
    BY SamePayments, SameLastLinked
  <2> QED
    BY <2>1, ManualRowOf
<1> QED
  BY <1>1, <1>2 DEF PlanRow

LEMMA SamePlanOverview ==
    ASSUME NEW d, NEW e, NEW v, SameSight(d, e, v), NEW month
    PROVE  /\ PlanRows(d, v, month) = PlanRows(e, v, month)
           /\ PlanOverview(d, v, month) = PlanOverview(e, v, month)
<1>1. PlanRows(d, v, month) = PlanRows(e, v, month)
  BY SamePlanRow DEF PlanRows
<1> QED
  BY <1>1 DEF PlanOverview

LEMMA SameCandidates ==
    ASSUME NEW d, NEW e, NEW v, SameSight(d, e, v), NEW month
    PROVE  /\ Candidates(d, v, month) = Candidates(e, v, month)
           /\ \A t \in Candidates(d, v, month) : d.tx[t] = e.tx[t]
<1>1. LinkedAnywhere(d) = LinkedAnywhere(e)
  BY DEF LinkedAnywhere, SameSight
<1> QED
  BY <1>1, SameVisible DEF Candidates, Lens

LEMMA SameMatches ==
    ASSUME NEW d, NEW e, NEW C, \A t \in C : d.tx[t] = e.tx[t], NEW i, NEW expected
    PROVE  Matches(d, i, expected, C) = Matches(e, i, expected, C)
<1>1. {t \in Out(C) : d.tx[t].category = ItemFact[i].category} =
      {t \in Out(C) : e.tx[t].category = ItemFact[i].category}
  BY DEF Out
<1> QED
  BY <1>1 DEF Matches

LEMMA SameSuggestLinks ==
    ASSUME NEW d, NEW e, NEW v, SameSight(d, e, v), NEW month
    PROVE  SuggestLinks(d, v, month) = SuggestLinks(e, v, month)
<1> DEFINE Open(x) == {q \in PlanRows(x, v, month) : ~q.paid /\ ~q.loanBacked}
           For(x, r) == {r.item} \X Matches(x, r.item, r.expected, Candidates(x, v, month))
<1>1. Open(d) = Open(e)
  BY SamePlanOverview
<1>2. \A r : For(d, r) = For(e, r)
  BY SameCandidates, SameMatches
<1> HIDE DEF Open, For
<1>3. UNION {For(d, r) : r \in Open(d)} = UNION {For(e, r) : r \in Open(e)}
  BY <1>1, <1>2
<1> QED
  BY <1>3 DEF SuggestLinks, Open, For

LEMMA SamePlanPage ==
    ASSUME NEW d, NEW e, NEW v, SameSight(d, e, v), NEW month
    PROVE  PlanPage(d, v, month) = PlanPage(e, v, month)
<1>1. [s \in Scope |-> BudgetOverview(d, v, s, month)] =
      [s \in Scope |-> BudgetOverview(e, v, s, month)]
  BY SameBudgets
<1> QED
  BY <1>1, SamePlanOverview, SameSuggestLinks DEF PlanPage

-----------------------------------------------------------------------------
(* No figure leaks                                                         *)

LEMMA SameShown ==
    ASSUME NEW d, NEW e, NEW v, SameSight(d, e, v)
    PROVE  Shown(d, v) = Shown(e, v)
<1>1. [lens \in Lens |-> MoneyPages(d, v, lens)] = [lens \in Lens |-> MoneyPages(e, v, lens)]
  BY SameMoneyPages
<1>2. [m \in Month |-> PlanPage(d, v, m)] = [m \in Month |-> PlanPage(e, v, m)]
  BY SamePlanPage
<1>3. [n \in Loan |-> LoanPage(d, v, n)] = [n \in Loan |-> LoanPage(e, v, n)]
  BY SameLoanPage
<1> QED
  BY <1>1, <1>2, <1>3, SameTransfers, SameBalances, SameSubscriptions DEF Shown

LEMMA BlankingIsUnseen ==
    ASSUME NEW v \in Viewer
    PROVE  SameSight(InSight(v), db, v)
<1> DEFINE table == [t \in Tx |-> IF InLens(rows[t], v, "all") THEN rows[t] ELSE NoRow]
<1>1. InSight(v).payment = db.payment /\ InSight(v).tx = table /\ db.tx = rows
  BY DEF InSight, db
<1>2. \A lens \in Lens : ~InLens(NoRow, v, lens)
  BY NothingIsNone DEF InLens, NoRow
<1>3. \A t \in Tx, lens \in Lens :
          InLens(rows[t], v, lens) => InLens(rows[t], v, "all")
  BY DEF InLens, Lens
<1>4. \A t \in Tx, lens \in Lens : InLens(table[t], v, lens) <=> InLens(rows[t], v, lens)
  BY <1>2, <1>3
<1>5. \A t \in Tx : InLens(table[t], v, "all") => table[t] = rows[t]
  BY <1>2 DEF Lens
<1> HIDE DEF table
<1> QED
  BY <1>1, <1>4, <1>5 DEF SameSight

\* No figure, list, hint or suggestion depends on a row out of its viewer's
\* sight, in whatever state the tables are: every read narrows to the viewer
\* before it adds up, compares or picks.
THEOREM NoFigureLeaks == PrivateStaysPrivate
BY SameShown, BlankingIsUnseen DEF PrivateStaysPrivate

\* So none ever does.
THEOREM PrivacyKept == Spec => []PrivateStaysPrivate
BY NoFigureLeaks, PTL

-----------------------------------------------------------------------------
(* Two viewers see one plan                                                *)

LEMMA NatLess ==
    ASSUME NEW S \in SUBSET Nat, S # {}
    PROVE  \E x \in S : \A y \in S : x <= y
<1>1. PICK x \in S : \A y \in S : ~ (<<y, x>> \in OpToRel(<, Nat))
  BY WFMin, NatLessThanWellFounded
<1>2. \A y \in S : y < x => <<y, x>> \in OpToRel(<, Nat)
  BY Zenon DEF OpToRel
<1>3. \A y \in S : ~ (y < x)
  BY <1>1, <1>2
<1> QED
  BY <1>3

LEMMA LeastIsOne ==
    ASSUME NEW S \in SUBSET Nat, S # {}
    PROVE  Min(S) \in S
BY NatLess DEF Min

LEMMA GreatestIsOne ==
    ASSUME NEW S \in SUBSET Int, S # {}, NEW b \in Int, \A x \in S : x < b
    PROVE  Max(S) \in S
<1> DEFINE T == {b - x : x \in S}
<1>1. \A x \in S : b - x \in Nat
  OBVIOUS
<1>2. T \in SUBSET Nat /\ T # {}
  BY <1>1
<1>3. PICK y \in T : \A z \in T : y <= z
  BY <1>2, NatLess
<1>4. PICK x \in S : y = b - x
  OBVIOUS
<1>5. \A z \in S : b - x <= b - z
  BY <1>3, <1>4
<1>6. \A z \in S : x >= z
  <2>1. ASSUME NEW z \in S PROVE x >= z
    <3>1. x \in Int /\ z \in Int /\ b - x <= b - z
      BY <1>5
    <3> QED
      BY <3>1
  <2> QED
    BY <2>1
<1> QED
  BY <1>6 DEF Max

\* A shared row is everyone's, in sight of both or of neither.
LEMMA SharedIsSeen ==
    ASSUME TypeOK, NEW t \in Tx, rows[t].scope # "private", NEW v
    PROVE  /\ InLens(rows[t], v, "all")
           /\ Visible(db, t, v) <=> rows[t].status = "live"
<1>1. rows[t].scope = "household"
  BY DEF TypeOK, Row, Scope
<1> QED
  BY <1>1 DEF InLens, Visible, VisibleLive, Live, db

LEMMA SamePaidForAll ==
    ASSUME TypeOK, NEW v, NEW w, NEW n \in Loan, NEW k,
           \A t \in Tx : rows[t].scope = "private" => rows[t].pin # <<n, k>>
    PROVE  PaidBy(db, v, n, k) \subseteq PaidBy(db, w, n, k)
<1> SUFFICES ASSUME NEW t \in PaidBy(db, v, n, k)
             PROVE  t \in PaidBy(db, w, n, k)
  OBVIOUS
<1>1. /\ t \in Tx /\ Live(db, t)
      /\ rows[t].pin # None /\ rows[t].pin[1] = n /\ rows[t].pin[2] = k
  BY DEF PaidBy, LinkedPayments, VisibleLive, db
<1>2. rows[t].pin \in Pin
  BY <1>1 DEF TypeOK, Row
<1>3. rows[t].pin = <<n, k>>
  BY <1>1, <1>2 DEF Pin
<1>4. rows[t].scope # "private"
  BY <1>1, <1>3
<1>5. Visible(db, t, w)
  BY <1>1, <1>4, SharedIsSeen DEF Live, db
<1> QED
  BY <1>1, <1>5 DEF PaidBy, LinkedPayments, Visible, db

LEMMA PlanItem ==
    ASSUME NEW v, NEW i, NEW month
    PROVE  PlanRow(db, v, i, month).item = i
<1>1. LoanRow(db, v, i, month).item = i
  BY LoanRowOf DEF LoanRowBy
<1>2. ManualRow(db, v, i, month).item = i
  BY ManualRowOf DEF ManualRowBy
<1> QED
  BY <1>1, <1>2 DEF PlanRow

LEMMA SameLineForAll ==
    ASSUME TypeOK, NEW month \in Month, NEW i \in InPlan(month), NEW v, NEW w,
           ~PrivatelySettled(i, month)
    PROVE  PlanRow(db, v, i, month) = PlanRow(db, w, i, month)
<1>0. i \in Item /\ Month \subseteq Int
  BY FiguresAssumption DEF InPlan
<1>1. CASE LoanBacked(i)
  <2> DEFINE n == ItemFact[i].loan
             k == Min(DueIn(i, month))
  <2>1. n \in Loan
    BY <1>0, <1>1, FiguresAssumption DEF LoanBacked
  <2>2. DueIn(i, month) \in SUBSET Nat /\ DueIn(i, month) # {}
    BY <1>1, <2>1, InstallmentsType DEF InPlan, DueIn
  <2>3. k \in DueIn(i, month)
    BY <2>2, LeastIsOne
  <2>4. \A t \in Tx : rows[t].scope = "private" => rows[t].pin # <<n, k>>
    BY <1>1, <2>3 DEF PrivatelySettled
  <2> HIDE DEF n, k
  <2>5. PaidBy(db, v, n, k) = PaidBy(db, w, n, k)
    <3>1. PaidBy(db, v, n, k) \subseteq PaidBy(db, w, n, k)
      BY <2>1, <2>4, SamePaidForAll
    <3>2. PaidBy(db, w, n, k) \subseteq PaidBy(db, v, n, k)
      BY <2>1, <2>4, SamePaidForAll
    <3> QED
      BY <3>1, <3>2
  <2> QED
    BY <1>1, <2>5, LoanRowOf DEF PlanRow, n, k
<1>2. CASE ~LoanBacked(i)
  <2>1. \A t \in Tx, m \in Month :
            m <= month /\ PaymentRow(db, <<i, m>>) = t => rows[t].scope # "private"
    BY <1>2 DEF PrivatelySettled
  <2>2. LinkedTx(db, v, <<i, month>>) = LinkedTx(db, w, <<i, month>>)
    <3>1. \A t \in Tx : PaymentRow(db, <<i, month>>) = t =>
              InLens(rows[t], v, "all") /\ InLens(rows[t], w, "all")
      BY <1>0, <2>1, SharedIsSeen
    <3> QED
      BY <3>1 DEF LinkedTx, db
  <2>3. LastLinkedAmount(db, v, i, month) = LastLinkedAmount(db, w, i, month)
    <3> DEFINE before == {m \in Month : m < month /\ PaymentRow(db, <<i, m>>) \in Tx}
               t == PaymentRow(db, <<i, Max(before)>>)
    <3>1. CASE before = {}
      BY <3>1 DEF LastLinkedAmount
    <3>2. CASE before # {}
      <4>1. Max(before) \in before
        <5>1. before \in SUBSET Int /\ month \in Int /\ \A x \in before : x < month
          BY <1>0
        <5> HIDE DEF before
        <5> QED
          BY <3>2, <5>1, GreatestIsOne
      <4>2. t \in Tx /\ Max(before) \in Month /\ Max(before) <= month
        <5>1. \A x \in before : x \in Month /\ x < month /\ PaymentRow(db, <<i, x>>) \in Tx
          OBVIOUS
        <5>2. Max(before) \in Month /\ Max(before) < month /\ t \in Tx
          BY <4>1, <5>1
        <5>3. \A x \in Month, y \in Month : x < y => x <= y
          BY <1>0
        <5> HIDE DEF before, t
        <5> QED
          BY <5>2, <5>3
      <4>3. rows[t].scope # "private"
        BY <2>1, <4>2
      <4> HIDE DEF t
      <4>4. Visible(db, t, v) <=> Visible(db, t, w)
        BY <4>2, <4>3, SharedIsSeen
      <4> QED
        BY <4>4 DEF LastLinkedAmount, t
    <3> QED
      BY <3>1, <3>2
  <2> QED
    BY <1>2, <2>2, <2>3, ManualRowOf DEF PlanRow
<1> QED
  BY <1>1, <1>2

\* Two viewers whose plans differ in a line can tell why: a private
\* transaction settles it, this month or an earlier one.
THEOREM OnePlan == Spec => []MembersAgree
<1>1. TypeOK => MembersAgree
  <2> SUFFICES ASSUME TypeOK, NEW month \in Month, NEW v \in Viewer, NEW w \in Viewer,
                      NEW r \in PlanRows(db, v, month), NEW q \in PlanRows(db, w, month),
                      r.item = q.item, ~PrivatelySettled(r.item, month)
               PROVE  r = q
    BY DEF MembersAgree
  <2>1. PICK i \in InPlan(month) : r = PlanRow(db, v, i, month)
    BY DEF PlanRows
  <2>2. PICK j \in InPlan(month) : q = PlanRow(db, w, j, month)
    BY DEF PlanRows
  <2>3. i = j /\ r.item = i
    BY <2>1, <2>2, PlanItem
  <2> QED
    BY <2>1, <2>2, <2>3, SameLineForAll
<1> QED
  BY <1>1, TypeCorrect, PTL

-----------------------------------------------------------------------------
(* What is suggested would be accepted                                     *)

LEMMA LinksHold ==
    ASSUME NEW m, NEW month, NEW p \in SuggestLinks(db, m, month), ItemFact[p[1]].loan = None
    PROVE  MayLink(m, <<p[1], month>>, p[2])
<1>1. PICK r \in PlanRows(db, m, month) :
          p \in {r.item} \X Matches(db, r.item, r.expected, Candidates(db, m, month))
  BY DEF SuggestLinks
<1>2. p[2] \in Candidates(db, m, month)
  BY <1>1 DEF Matches, Out
<1>3. Visible(db, p[2], m) /\ rows[p[2]].pin = None /\ p[2] \notin LinkedAnywhere(db)
  BY <1>2 DEF Candidates, Visible, db
<1>4. \A o \in Line : payments[o] # p[2]
  BY <1>3 DEF LinkedAnywhere, db
<1> QED
  BY <1>3, <1>4 DEF MayLink

LEMMA PaymentsHold ==
    ASSUME NEW m, NEW n \in Loan, NEW p \in SuggestPayments(db, m, n)
    PROVE  /\ MayPin(m, p[2])
           /\ \A t \in Tx : Visible(db, t, m) => rows[t].pin # <<n, p[1]>>
<1>1. /\ p[2] \in VisibleLive(db, m, "all") /\ rows[p[2]].pin = None
      /\ PaidBy(db, m, n, p[1]) = {}
  BY DEF SuggestPayments, db
<1>2. ASSUME NEW t \in Tx, Visible(db, t, m), rows[t].pin = <<n, p[1]>> PROVE FALSE
  <2>1. rows[t].pin # None
    <3>1. p[1] \in Nat \ {0}
      <4>1. p \in Installments(n) \X VisibleLive(db, m, "all")
        BY Zenon DEF SuggestPayments
      <4>2. p[1] \in Installments(n)
        BY <4>1
      <4> QED
        BY <4>2, InstallmentsType
    <3> QED
      BY <1>2, <3>1, FiguresAssumption
  <2>2. db.tx[t].pin # None /\ db.tx[t].pin[1] = n /\ db.tx[t].pin[2] = p[1]
    BY <1>2, <2>1 DEF db
  <2>3. t \in VisibleLive(db, m, "all")
    BY <1>2 DEF Visible
  <2> QED
    BY <1>1, <2>2, <2>3 DEF PaidBy, LinkedPayments
<1> QED
  BY <1>1, <1>2 DEF MayPin, Visible

LEMMA PairsHold ==
    ASSUME NEW m, NEW p \in SuggestPairs(db, m), NEW a \in p, NEW b \in p, a # b
    PROVE  MayPair(m, a, b)
<1>1. p \subseteq Unmatched(db, m)
  BY DEF SuggestPairs, Pairs
<1>2. PICK x \in Out(p), y \in p : p = {x, y} /\ Candidate(x, y)
  BY DEF SuggestPairs, Pairs
<1>3. a \in Tx /\ b \in Tx
  BY <1>1 DEF Unmatched, VisibleLive
<1>4. Amount(a) \in Int /\ Amount(b) \in Int
  BY <1>3, FiguresAssumption DEF Amount
<1>5. Opposite(a, b) \/ Opposite(b, a)
  <2>1. (a = x /\ b = y) \/ (a = y /\ b = x)
    BY <1>2
  <2>2. Opposite(x, y)
    BY <1>2 DEF Candidate
  <2> QED
    BY <2>1, <2>2
<1>6. Opposite(a, b)
  BY <1>4, <1>5 DEF Opposite
<1> QED
  BY <1>1, <1>6 DEF MayPair, Unmatched, Visible, db

\* Whatever the transfers page, the plan page or a loan's page offers to link, confirming it at once
\* is accepted, and pays an installment the member had not seen paid.
THEOREM SuggestionsAccepted == Spec => []SuggestionsHold
<1>1. SuggestionsHold
  BY LinksHold, PaymentsHold, PairsHold DEF SuggestionsHold
<1> QED
  BY <1>1, PTL

-----------------------------------------------------------------------------
(* Adding up over finite sets: Added(v, S) is the sum of v[x], x in S      *)

\* What holds of a set once it holds of its parts holds of a finite set.
LEMMA BySmaller ==
    ASSUME NEW S, IsFiniteSet(S), NEW F,
           \A T \in SUBSET S : (\A U \in SUBSET T : U # T => U \in F) => T \in F
    PROVE  \A T \in SUBSET S : T \in F
<1> DEFINE Bad == {T \in SUBSET S : T \notin F}
           sizes == {Cardinality(T) : T \in Bad}
<1> SUFFICES ASSUME Bad # {} PROVE FALSE
  OBVIOUS
<1>1. \A T \in SUBSET S : IsFiniteSet(T) /\ Cardinality(T) \in Nat
  BY FS_Subset, FS_CardinalityType
<1>2. sizes \in SUBSET Nat /\ sizes # {}
  BY <1>1
<1>3. PICK n \in sizes : \A m \in sizes : n <= m
  <2> HIDE DEF sizes
  <2> QED
    BY <1>2, NatLess
<1>4. PICK T \in Bad : n = Cardinality(T)
  OBVIOUS
<1>5. ASSUME NEW U \in SUBSET T, U # T PROVE U \in F
  <2>1. Cardinality(U) <= Cardinality(T) /\ Cardinality(U) # Cardinality(T)
    BY <1>1, <1>4, <1>5, FS_Subset
  <2>2. U \in SUBSET S
    BY <1>4
  <2>3. ~(n <= Cardinality(U))
    BY <1>1, <1>2, <1>4, <2>1, <2>2
  <2> QED
    BY <1>3, <2>2, <2>3
<1> QED
  BY <1>4, <1>5

One(s) == CHOOSE x \in s : TRUE

\* What is left to add once one element was.
Left(s) == s \ {One(s)}

LEMMA LeftIsLess ==
    ASSUME NEW s, s # {}
    PROVE  One(s) \in s /\ Left(s) \in SUBSET s /\ Left(s) # s
BY DEF One, Left

\* f adds up the values of v over each part of S.
IsSum(v, S, f) == f = [s \in SUBSET S |-> IF s = {} THEN 0 ELSE v[One(s)] + f[Left(s)]]

LEMMA IsSumAt ==
    ASSUME NEW v, NEW S, NEW f, IsSum(v, S, f), NEW s \in SUBSET S
    PROVE  f[s] = IF s = {} THEN 0 ELSE v[One(s)] + f[Left(s)]
BY DEF IsSum

LEMMA SumType ==
    ASSUME NEW v, NEW S, NEW f, IsFiniteSet(S), IsSum(v, S, f), \A x \in S : v[x] \in Int
    PROVE  \A s \in SUBSET S : f[s] \in Int
<1> DEFINE F == {s \in SUBSET S : f[s] \in Int}
<1>1. ASSUME NEW s \in SUBSET S, \A u \in SUBSET s : u # s => u \in F PROVE s \in F
  <2>1. CASE s = {}
    BY <2>1, IsSumAt
  <2>2. CASE s # {}
    <3>1. One(s) \in S /\ Left(s) \in F
      BY <1>1, <2>2, LeftIsLess
    <3> QED
      BY <2>2, <3>1, IsSumAt
  <2> QED
    BY <2>1, <2>2
<1> HIDE DEF F
<1>2. \A s \in SUBSET S : s \in F
  BY <1>1, BySmaller
<1> QED
  BY <1>2 DEF F

LEMMA SumExists ==
    ASSUME NEW v, NEW S, IsFiniteSet(S)
    PROVE  \E f : IsSum(v, S, f)
<1> DEFINE next(f, s) == IF s = {} THEN 0 ELSE v[One(s)] + f[Left(s)]
           Upto(n, f) == \A s \in SUBSET S : Cardinality(s) <= n => f[s] = next(f, s)
           Bad == {n \in Nat : ~ \E f : DOMAIN f = SUBSET S /\ Upto(n, f)}
<1>1. \A s \in SUBSET S : IsFiniteSet(s) /\ Cardinality(s) \in Nat
  BY FS_Subset, FS_CardinalityType
<1>2. Bad = {}
  <2> SUFFICES ASSUME Bad # {} PROVE FALSE
    OBVIOUS
  <2>1. PICK n \in Bad : \A m \in Bad : n <= m
    <3>1. Bad \in SUBSET Nat
      OBVIOUS
    <3> HIDE DEF Bad
    <3> QED
      BY <3>1, NatLess
  <2>2. \E g : DOMAIN g = SUBSET S /\ \A s \in SUBSET S : Cardinality(s) < n => g[s] = next(g, s)
    <3>1. CASE n = 0
      <4> DEFINE g == [s \in SUBSET S |-> 0]
      <4>1. DOMAIN g = SUBSET S /\ \A s \in SUBSET S : ~(Cardinality(s) < n)
        BY <1>1, <3>1
      <4> QED
        BY <4>1
    <3>2. CASE n # 0
      <4>1. n - 1 \in Nat /\ ~(n <= n - 1)
        BY <3>2
      <4>2. n - 1 \notin Bad
        BY <2>1, <4>1
      <4>3. PICK g : DOMAIN g = SUBSET S /\ Upto(n - 1, g)
        BY <4>1, <4>2
      <4>4. \A s \in SUBSET S : Cardinality(s) < n => Cardinality(s) <= n - 1
        BY <1>1
      <4>5. \A s \in SUBSET S : Cardinality(s) < n => g[s] = next(g, s)
        BY <4>3, <4>4
      <4> QED
        BY <4>3, <4>5
    <3> QED
      BY <3>1, <3>2
  <2>3. PICK g : DOMAIN g = SUBSET S
                 /\ \A s \in SUBSET S : Cardinality(s) < n => g[s] = next(g, s)
    BY <2>2
  <2> DEFINE h == [s \in SUBSET S |-> next(g, s)]
  <2>4. ASSUME NEW s \in SUBSET S, Cardinality(s) <= n PROVE h[s] = next(h, s)
    <3>1. CASE s = {}
      BY <3>1
    <3>2. CASE s # {}
      <4>1. One(s) \in s /\ Left(s) \in SUBSET S
        BY <3>2, LeftIsLess
      <4>2. Cardinality(Left(s)) = Cardinality(s) - 1
        BY <1>1, <4>1, FS_RemoveElement DEF Left
      <4>3. Cardinality(Left(s)) < n
        BY <1>1, <2>4, <4>2
      <4>4. g[Left(s)] = next(g, Left(s))
        BY <2>3, <4>1, <4>3
      <4>5. h[Left(s)] = g[Left(s)]
        BY <4>1, <4>4
      <4> QED
        BY <3>2, <4>5
    <3> QED
      BY <3>1, <3>2
  <2>5. DOMAIN h = SUBSET S /\ Upto(n, h)
    BY <2>4
  <2> HIDE DEF h
  <2>6. n \notin Bad
    BY <2>5
  <2> QED
    BY <2>1, <2>6
<1>3. PICK f : DOMAIN f = SUBSET S /\ Upto(Cardinality(S), f)
  BY <1>1, <1>2
<1>4. \A s \in SUBSET S : Cardinality(s) <= Cardinality(S)
  BY FS_Subset
<1>5. \A s \in SUBSET S : f[s] = next(f, s)
  BY <1>3, <1>4
<1> DEFINE r == [s \in SUBSET S |-> f[s]]
<1>6. \A s \in SUBSET S : r[s] = next(r, s)
  <2> TAKE s \in SUBSET S
  <2>1. s # {} => Left(s) \in SUBSET S
    BY LeftIsLess
  <2> QED
    BY <1>5, <2>1
<1>7. DOMAIN r = SUBSET S /\ r = [s \in SUBSET S |-> r[s]]
  OBVIOUS
<1> HIDE DEF r
<1>8. r = [s \in SUBSET S |-> next(r, s)]
  BY <1>6, <1>7
<1>9. IsSum(v, S, r)
  BY <1>8 DEF IsSum
<1> QED
  BY <1>9

\* Two sums of the same values over a set are one.
LEMMA SumAgree ==
    ASSUME NEW v, NEW w, NEW S, NEW T, NEW f, NEW g, IsFiniteSet(S),
           IsSum(v, S, f), IsSum(w, T, g),
           NEW U \in SUBSET S, U \in SUBSET T, \A x \in U : v[x] = w[x]
    PROVE  f[U] = g[U]
<1> DEFINE F == {s \in SUBSET U : f[s] = g[s]}
<1>1. ASSUME NEW s \in SUBSET U, \A u \in SUBSET s : u # s => u \in F PROVE s \in F
  <2>1. s \in SUBSET S /\ s \in SUBSET T
    OBVIOUS
  <2>2. CASE s = {}
    BY <2>1, <2>2, IsSumAt
  <2>3. CASE s # {}
    <3>1. One(s) \in U /\ Left(s) \in F
      BY <1>1, <2>3, LeftIsLess
    <3>2. v[One(s)] = w[One(s)] /\ f[Left(s)] = g[Left(s)]
      BY <3>1
    <3>3. f[s] = v[One(s)] + f[Left(s)]
      BY <2>1, <2>3, IsSumAt
    <3>4. g[s] = w[One(s)] + g[Left(s)]
      BY <2>1, <2>3, IsSumAt
    <3> QED
      BY <3>2, <3>3, <3>4
  <2> QED
    BY <2>2, <2>3
<1>2. IsFiniteSet(U)
  BY FS_Subset
<1> HIDE DEF F
<1>3. \A s \in SUBSET U : s \in F
  BY <1>1, <1>2, BySmaller
<1> QED
  BY <1>3 DEF F

\* The values of v over S, added up.
Added(v, S) == (CHOOSE f : IsSum(v, S, f))[S]

\* To add up over a set is to add up over any set it is a part of.
LEMMA AddedIs ==
    ASSUME NEW v, NEW S, IsFiniteSet(S)
    PROVE  \E f : IsSum(v, S, f) /\ \A T \in SUBSET S : Added(v, T) = f[T]
<1>1. PICK f : IsSum(v, S, f)
  BY SumExists
<1>2. ASSUME NEW T \in SUBSET S PROVE Added(v, T) = f[T]
  <2> DEFINE g == CHOOSE h : IsSum(v, T, h)
  <2>1. IsFiniteSet(T)
    BY FS_Subset
  <2>2. \E h : IsSum(v, T, h)
    BY <2>1, SumExists
  <2>3. IsSum(v, T, g)
    BY <2>2
  <2> HIDE DEF g
  <2>4. T \in SUBSET T /\ \A x \in T : v[x] = v[x]
    OBVIOUS
  <2>5. g[T] = f[T]
    BY <1>1, <2>1, <2>3, <2>4, SumAgree
  <2> QED
    BY <2>5 DEF g, Added
<1> QED
  BY <1>1, <1>2

LEMMA AddedType ==
    ASSUME NEW v, NEW S, IsFiniteSet(S), \A x \in S : v[x] \in Int
    PROVE  Added(v, S) \in Int
<1>1. PICK f : IsSum(v, S, f) /\ \A T \in SUBSET S : Added(v, T) = f[T]
  BY AddedIs
<1>2. \A s \in SUBSET S : f[s] \in Int
  BY <1>1, SumType
<1> QED
  BY <1>1, <1>2

LEMMA AddedEmpty == ASSUME NEW v PROVE Added(v, {}) = 0
<1>1. IsFiniteSet({})
  BY FS_EmptySet
<1>2. PICK f : IsSum(v, {}, f) /\ \A T \in SUBSET {} : Added(v, T) = f[T]
  BY <1>1, AddedIs
<1>3. {} \in SUBSET {}
  OBVIOUS
<1>4. f[{}] = 0
  BY <1>2, <1>3, IsSumAt
<1> QED
  BY <1>2, <1>3, <1>4

\* The order in which elements are added does not matter.
LEMMA AddedOne ==
    ASSUME NEW v, NEW S, IsFiniteSet(S), \A y \in S : v[y] \in Int, NEW x \in S
    PROVE  Added(v, S) = v[x] + Added(v, S \ {x})
<1>1. PICK f : IsSum(v, S, f) /\ \A T \in SUBSET S : Added(v, T) = f[T]
  BY AddedIs
<1>2. \A s \in SUBSET S : f[s] \in Int
  BY <1>1, SumType
<1> DEFINE F == {s \in SUBSET S : \A y \in s : f[s] = v[y] + f[s \ {y}]}
<1>3. ASSUME NEW s \in SUBSET S, \A u \in SUBSET s : u # s => u \in F PROVE s \in F
  <2> SUFFICES ASSUME NEW y \in s PROVE f[s] = v[y] + f[s \ {y}]
    OBVIOUS
  <2> DEFINE z == One(s)
  <2>1. z \in s /\ z \in S /\ y \in S
    BY LeftIsLess
  <2>2. f[s] = v[z] + f[s \ {z}]
    <3>1. f[s] = v[One(s)] + f[Left(s)]
      BY <1>1, <2>1, IsSumAt
    <3> QED
      BY <3>1 DEF Left
  <2> HIDE DEF z
  <2>3. CASE z = y
    BY <2>2, <2>3
  <2>4. CASE z # y
    <3>1. s \ {z} \in F /\ s \ {y} \in F
      BY <1>3, <2>1
    <3>2. y \in s \ {z} /\ z \in s \ {y} /\ (s \ {z}) \ {y} = (s \ {y}) \ {z}
      BY <2>1, <2>4
    <3> DEFINE r == (s \ {y}) \ {z}
    <3>3. f[s \ {z}] = v[y] + f[r] /\ f[s \ {y}] = v[z] + f[r]
      BY <3>1, <3>2
    <3>4. r \in SUBSET S /\ s \ {z} \in SUBSET S /\ s \ {y} \in SUBSET S
      OBVIOUS
    <3>5. f[r] \in Int /\ v[y] \in Int /\ v[z] \in Int
      BY <1>2, <2>1, <3>4
    <3> HIDE DEF r
    <3> QED
      BY <2>2, <3>3, <3>5
  <2> QED
    BY <2>3, <2>4
<1> HIDE DEF F
<1>4. \A s \in SUBSET S : s \in F
  BY <1>3, BySmaller
<1>5. S \in F
  BY <1>4
<1>6. f[S] = v[x] + f[S \ {x}]
  BY <1>5 DEF F
<1> QED
  BY <1>1, <1>6

\* A set is added up if its parts are, one element at a time.
LEMMA AddingUp ==
    ASSUME NEW S, IsFiniteSet(S), NEW F, {} \in F,
           \A T \in SUBSET S : \A x \in T : T \ {x} \in F => T \in F
    PROVE  S \in F
<1>1. ASSUME NEW T \in SUBSET S, \A U \in SUBSET T : U # T => U \in F PROVE T \in F
  <2>1. CASE T = {}
    BY <2>1
  <2>2. CASE T # {}
    <3>1. PICK x \in T : TRUE
      BY <2>2
    <3>2. T \ {x} \in SUBSET T /\ T \ {x} # T
      BY <3>1
    <3> QED
      BY <1>1, <3>1, <3>2
  <2> QED
    BY <2>1, <2>2
<1>2. \A T \in SUBSET S : T \in F
  BY <1>1, BySmaller
<1> QED
  BY <1>2

LEMMA AddedSame ==
    ASSUME NEW v, NEW w, NEW S, IsFiniteSet(S), \A x \in S : v[x] = w[x]
    PROVE  Added(v, S) = Added(w, S)
<1>1. PICK f : IsSum(v, S, f) /\ \A T \in SUBSET S : Added(v, T) = f[T]
  BY AddedIs
<1>2. PICK g : IsSum(w, S, g) /\ \A T \in SUBSET S : Added(w, T) = g[T]
  BY AddedIs
<1>3. S \in SUBSET S
  OBVIOUS
<1>4. f[S] = g[S]
  BY <1>1, <1>2, <1>3, SumAgree
<1> QED
  BY <1>1, <1>2, <1>3, <1>4

\* What is added up over two sets apart.
LEMMA AddedUnion ==
    ASSUME NEW v, NEW A, NEW B, IsFiniteSet(A), IsFiniteSet(B), A \cap B = {},
           \A x \in A \cup B : v[x] \in Int
    PROVE  Added(v, A \cup B) = Added(v, A) + Added(v, B)
<1> DEFINE F == {T \in SUBSET B : Added(v, A \cup T) = Added(v, A) + Added(v, T)}
<1>1. {} \in F
  <2>1. Added(v, A) \in Int
    BY AddedType
  <2>2. A \cup {} = A
    OBVIOUS
  <2> QED
    BY <2>1, <2>2, AddedEmpty
<1>2. ASSUME NEW T \in SUBSET B, NEW x \in T, T \ {x} \in F PROVE T \in F
  <2> DEFINE U == T \ {x}
  <2>1. IsFiniteSet(A \cup T) /\ IsFiniteSet(T) /\ IsFiniteSet(U)
    <3>1. IsFiniteSet(T)
      BY FS_Subset
    <3> QED
      BY <3>1, FS_Union, FS_Subset
  <2>2. (A \cup T) \ {x} = A \cup U /\ x \in A \cup T
    OBVIOUS
  <2>3. Added(v, A \cup T) = v[x] + Added(v, A \cup U)
    BY <2>1, <2>2, AddedOne
  <2>4. Added(v, T) = v[x] + Added(v, U)
    BY <2>1, AddedOne
  <2>5. Added(v, A \cup U) = Added(v, A) + Added(v, U)
    BY <1>2
  <2>6. Added(v, A) \in Int /\ Added(v, U) \in Int /\ v[x] \in Int
    BY <2>1, AddedType
  <2> QED
    BY <2>3, <2>4, <2>5, <2>6
<1> HIDE DEF F
<1>3. B \in F
  BY <1>1, <1>2, AddingUp
<1> QED
  BY <1>3 DEF F

\* Values that are sums themselves.
LEMMA AddedPlus ==
    ASSUME NEW v, NEW w, NEW z, NEW S, IsFiniteSet(S),
           \A x \in S : v[x] \in Int /\ w[x] \in Int /\ z[x] = v[x] + w[x]
    PROVE  Added(z, S) = Added(v, S) + Added(w, S)
<1> DEFINE F == {T \in SUBSET S : Added(z, T) = Added(v, T) + Added(w, T)}
<1>1. {} \in F
  BY AddedEmpty
<1>2. ASSUME NEW T \in SUBSET S, NEW x \in T, T \ {x} \in F PROVE T \in F
  <2> DEFINE U == T \ {x}
  <2>1. IsFiniteSet(T) /\ IsFiniteSet(U)
    BY FS_Subset
  <2>2. \A y \in T : v[y] \in Int /\ w[y] \in Int /\ z[y] \in Int
    OBVIOUS
  <2>3. /\ Added(z, T) = z[x] + Added(z, U)
        /\ Added(v, T) = v[x] + Added(v, U)
        /\ Added(w, T) = w[x] + Added(w, U)
    BY <2>1, <2>2, AddedOne
  <2>4. Added(z, U) = Added(v, U) + Added(w, U)
    BY <1>2
  <2>5. Added(v, U) \in Int /\ Added(w, U) \in Int
    BY <2>1, <2>2, AddedType
  <2>6. v[x] \in Int /\ w[x] \in Int /\ z[x] = v[x] + w[x]
    OBVIOUS
  <2> HIDE DEF U
  <2> QED
    BY <2>3, <2>4, <2>5, <2>6
<1> HIDE DEF F
<1>3. S \in F
  BY <1>1, <1>2, AddingUp
<1> QED
  BY <1>3 DEF F

LEMMA AddedZero ==
    ASSUME NEW v, NEW S, IsFiniteSet(S), \A x \in S : v[x] = 0
    PROVE  Added(v, S) = 0
<1>1. \A x \in S : v[x] \in Int /\ v[x] = v[x] + v[x]
  OBVIOUS
<1>2. Added(v, S) = Added(v, S) + Added(v, S)
  BY <1>1, AddedPlus
<1>3. Added(v, S) \in Int
  BY <1>1, AddedType
<1> QED
  BY <1>2, <1>3

\* Added up key by key.
LEMMA AddedByKey ==
    ASSUME NEW v, NEW S, IsFiniteSet(S), \A x \in S : v[x] \in Int,
           NEW K, IsFiniteSet(K), NEW key, \A x \in S : key[x] \in K,
           NEW u, \A a \in K : u[a] = Added(v, {x \in S : key[x] = a})
    PROVE  Added(u, K) = Added(v, S)
<1> DEFINE Of(A) == {x \in S : key[x] \in A}
           F == {A \in SUBSET K : Added(u, A) = Added(v, Of(A))}
<1>1. {} \in F
  <2>1. Of({}) = {}
    OBVIOUS
  <2> QED
    BY <2>1, AddedEmpty
<1>2. ASSUME NEW A \in SUBSET K, NEW a \in A, A \ {a} \in F PROVE A \in F
  <2> DEFINE B == A \ {a}
             mine == {x \in S : key[x] = a}
  <2>1. IsFiniteSet(A) /\ IsFiniteSet(B) /\ IsFiniteSet(mine) /\ IsFiniteSet(Of(B))
    BY FS_Subset
  <2>2. \A b \in A : u[b] \in Int
    <3> TAKE b \in A
    <3>1. IsFiniteSet({x \in S : key[x] = b})
      BY FS_Subset
    <3>2. Added(v, {x \in S : key[x] = b}) \in Int
      BY <3>1, AddedType
    <3> QED
      BY <3>2
  <2>3. Added(u, A) = u[a] + Added(u, B)
    BY <2>1, <2>2, AddedOne
  <2>4. Of(A) = mine \cup Of(B) /\ mine \cap Of(B) = {}
    OBVIOUS
  <2>5. Added(v, Of(A)) = Added(v, mine) + Added(v, Of(B))
    BY <2>1, <2>4, AddedUnion
  <2>6. u[a] = Added(v, mine) /\ Added(u, B) = Added(v, Of(B))
    BY <1>2
  <2> QED
    BY <2>3, <2>5, <2>6
<1> HIDE DEF F
<1>3. K \in F
  BY <1>1, <1>2, AddingUp
<1>4. Of(K) = S
  OBVIOUS
<1> QED
  BY <1>3, <1>4 DEF F

AmountOf == [t \in Tx |-> Amount(t)]
MagnitudeOf == [t \in Tx |-> Magnitude(Amount(t))]

LEMMA AmountType ==
    /\ \A t \in Tx : Amount(t) \in Int /\ TxFact[t].account \in Account
    /\ AmountOf \in [Tx -> Int] /\ MagnitudeOf \in [Tx -> Int]
    /\ \A S \in SUBSET Tx : IsFiniteSet(S)
<1>1. \A t \in Tx : Amount(t) \in Int /\ TxFact[t].account \in Account
  BY FiguresAssumption DEF Amount
<1>2. \A S \in SUBSET Tx : IsFiniteSet(S)
  BY FiguresAssumption, FS_Subset
<1> QED
  BY <1>1, <1>2 DEF AmountOf, MagnitudeOf, Magnitude

\* Sum, Turnover and Total add up.
LEMMA SumIs ==
    ASSUME NEW S \in SUBSET Tx
    PROVE  Sum(S) = Added(AmountOf, S)
<1> DEFINE Is(f) == f = [s \in SUBSET S |-> IF s = {} THEN 0 ELSE Amount(One(s)) + f[Left(s)]]
           it == CHOOSE f : Is(f)
<1>1. Sum(S) = it[S]
  BY DEF Sum, MapThenSumSet, MapThenFoldSet, One, Left
<1>2. \A s \in SUBSET S : s # {} => AmountOf[One(s)] = Amount(One(s))
  BY LeftIsLess DEF AmountOf
<1>3. \A f : Is(f) <=> IsSum(AmountOf, S, f)
  BY <1>2 DEF IsSum
<1>4. IsFiniteSet(S)
  BY AmountType
<1>5. PICK g : IsSum(AmountOf, S, g) /\ \A T \in SUBSET S : Added(AmountOf, T) = g[T]
  BY <1>4, AddedIs
<1>6. Is(g)
  BY <1>3, <1>5
<1>7. Is(it)
  <2> HIDE DEF Is
  <2> QED
    BY <1>6
<1> HIDE DEF it
<1>8. IsSum(AmountOf, S, it)
  BY <1>3, <1>7
<1>9. it[S] = g[S]
  <2> HIDE DEF Is
  <2>1. S \in SUBSET S /\ \A x \in S : AmountOf[x] = AmountOf[x]
    OBVIOUS
  <2> QED
    BY <1>4, <1>5, <1>8, <2>1, SumAgree
<1> QED
  BY <1>1, <1>5, <1>9

LEMMA TurnoverIs ==
    ASSUME NEW S \in SUBSET Tx
    PROVE  Turnover(S) = Added(MagnitudeOf, S)
<1> DEFINE Is(f) == f = [s \in SUBSET S |-> IF s = {} THEN 0
                                            ELSE Magnitude(Amount(One(s))) + f[Left(s)]]
           it == CHOOSE f : Is(f)
<1>1. Turnover(S) = it[S]
  BY DEF Turnover, MapThenSumSet, MapThenFoldSet, One, Left
<1>2. \A s \in SUBSET S : s # {} => MagnitudeOf[One(s)] = Magnitude(Amount(One(s)))
  BY LeftIsLess DEF MagnitudeOf
<1>3. \A f : Is(f) <=> IsSum(MagnitudeOf, S, f)
  BY <1>2 DEF IsSum
<1>4. IsFiniteSet(S)
  BY AmountType
<1>5. PICK g : IsSum(MagnitudeOf, S, g) /\ \A T \in SUBSET S : Added(MagnitudeOf, T) = g[T]
  BY <1>4, AddedIs
<1>6. Is(g)
  BY <1>3, <1>5
<1>7. Is(it)
  <2> HIDE DEF Is
  <2> QED
    BY <1>6
<1> HIDE DEF it
<1>8. IsSum(MagnitudeOf, S, it)
  BY <1>3, <1>7
<1>9. it[S] = g[S]
  <2> HIDE DEF Is
  <2>1. S \in SUBSET S /\ \A x \in S : MagnitudeOf[x] = MagnitudeOf[x]
    OBVIOUS
  <2> QED
    BY <1>4, <1>5, <1>8, <2>1, SumAgree
<1> QED
  BY <1>1, <1>5, <1>9

LEMMA TotalIs ==
    ASSUME NEW v, IsFiniteSet(DOMAIN v)
    PROVE  Total(v) = Added(v, DOMAIN v)
<1> DEFINE S == DOMAIN v
           it == CHOOSE f : IsSum(v, S, f)
<1>1. Total(v) = it[S]
  BY DEF Total, MapThenSumSet, MapThenFoldSet, One, Left, IsSum
<1> QED
  BY <1>1 DEF Added

-----------------------------------------------------------------------------
(* A member's own rows on top of the household's                           *)

\* What a member sees is what everyone sees and the member's own rows.
LEMMA SightSplits ==
    ASSUME NEW m \in Member, NEW P
    PROVE  LET all == VisibleLive(db, m, "all") \cap P
               shared == VisibleLive(db, None, "all") \cap P
               own == VisibleLive(db, m, "private") \cap P
           IN  all = shared \cup own /\ shared \cap own = {} /\ all \in SUBSET Tx
<1>1. m # None
  BY FiguresAssumption
<1>2. \A t \in Tx : InLens(rows[t], m, "all") <=>
                       InLens(rows[t], None, "all") \/ InLens(rows[t], m, "private")
  BY <1>1 DEF InLens
<1>3. \A t \in Tx : ~(InLens(rows[t], None, "all") /\ InLens(rows[t], m, "private"))
  BY <1>1 DEF InLens
<1> QED
  BY <1>2, <1>3 DEF VisibleLive, db

LEMMA AddedOnTop ==
    ASSUME NEW m \in Member, NEW P, NEW v \in [Tx -> Int]
    PROVE  Added(v, VisibleLive(db, m, "all") \cap P) =
              Added(v, VisibleLive(db, None, "all") \cap P)
                + Added(v, VisibleLive(db, m, "private") \cap P)
<1> DEFINE shared == VisibleLive(db, None, "all") \cap P
           own == VisibleLive(db, m, "private") \cap P
<1>1. /\ VisibleLive(db, m, "all") \cap P = shared \cup own /\ shared \cap own = {}
      /\ shared \in SUBSET Tx /\ own \in SUBSET Tx
  BY SightSplits
<1> HIDE DEF shared, own
<1>2. IsFiniteSet(shared) /\ IsFiniteSet(own) /\ \A t \in shared \cup own : v[t] \in Int
  BY <1>1, AmountType
<1>3. Added(v, shared \cup own) = Added(v, shared) + Added(v, own)
  BY <1>1, <1>2, AddedUnion
<1> QED
  BY <1>1, <1>3 DEF shared, own

\* What spends, is income or answers a question is the same for all who see it.
LEMMA FlowsOnTop ==
    ASSUME NEW m \in Member, NEW month \in Month
    PROVE  /\ Spending(Spendable(db, m, "all"), month) =
                 Spending(Spendable(db, None, "all"), month)
                   + Spending(Spendable(db, m, "private"), month)
           /\ Income(Spendable(db, m, "all"), month) =
                 Income(Spendable(db, None, "all"), month)
                   + Income(Spendable(db, m, "private"), month)
<1> DEFINE Counts(t) == db.tx[t].group = {} /\ db.tx[t].pin = None
                        /\ db.tx[t].category # TransferCategory
           out == {t \in Tx : Counts(t) /\ Amount(t) < 0 /\ In(t, month)}
           in == {t \in Tx : Counts(t) /\ Amount(t) > 0 /\ In(t, month)}
<1>1. ASSUME NEW v, NEW lens
      PROVE  /\ Spending(Spendable(db, v, lens), month)
                   = -Added(AmountOf, VisibleLive(db, v, lens) \cap out)
             /\ Income(Spendable(db, v, lens), month)
                   = Added(AmountOf, VisibleLive(db, v, lens) \cap in)
  <2>1. {t \in Out(Spendable(db, v, lens)) : In(t, month)} = VisibleLive(db, v, lens) \cap out
    BY DEF Spendable, Out, VisibleLive
  <2>2. {t \in Spendable(db, v, lens) : Amount(t) > 0 /\ In(t, month)}
           = VisibleLive(db, v, lens) \cap in
    BY DEF Spendable, VisibleLive
  <2>3. VisibleLive(db, v, lens) \cap out \in SUBSET Tx
        /\ VisibleLive(db, v, lens) \cap in \in SUBSET Tx
    OBVIOUS
  <2> HIDE DEF out, in
  <2> QED
    BY <2>1, <2>2, <2>3, SumIs DEF Spending, Income
<1>2. \A v, lens : /\ Added(AmountOf, VisibleLive(db, v, lens) \cap out) \in Int
                   /\ Added(AmountOf, VisibleLive(db, v, lens) \cap in) \in Int
  <2> TAKE v, lens
  <2>1. VisibleLive(db, v, lens) \cap out \in SUBSET Tx
        /\ VisibleLive(db, v, lens) \cap in \in SUBSET Tx
    OBVIOUS
  <2> HIDE DEF out, in
  <2>2. /\ IsFiniteSet(VisibleLive(db, v, lens) \cap out)
        /\ IsFiniteSet(VisibleLive(db, v, lens) \cap in)
        /\ \A t \in Tx : AmountOf[t] \in Int
    BY <2>1, AmountType
  <2> QED
    BY <2>1, <2>2, AddedType
<1> HIDE DEF out, in
<1>3. /\ Added(AmountOf, VisibleLive(db, m, "all") \cap out) =
            Added(AmountOf, VisibleLive(db, None, "all") \cap out)
              + Added(AmountOf, VisibleLive(db, m, "private") \cap out)
      /\ Added(AmountOf, VisibleLive(db, m, "all") \cap in) =
            Added(AmountOf, VisibleLive(db, None, "all") \cap in)
              + Added(AmountOf, VisibleLive(db, m, "private") \cap in)
  BY AmountType, AddedOnTop
<1> QED
  BY <1>1, <1>2, <1>3

LEMMA AnswersOnTop ==
    ASSUME NEW m \in Member, NEW q
    PROVE  Answer(db, m, "all", q).total =
             Answer(db, None, "all", q).total + Answer(db, m, "private", q).total
<1> DEFINE Counts(t) == db.tx[t].group = {} /\ db.tx[t].pin = None
                        /\ db.tx[t].category # TransferCategory
           found == Matching(db, {t \in Tx : Counts(t)}, q)
<1>1. ASSUME NEW v, NEW lens
      PROVE  Answer(db, v, lens, q).total = Added(MagnitudeOf, VisibleLive(db, v, lens) \cap found)
  <2>1. Matching(db, Spendable(db, v, lens), q) = VisibleLive(db, v, lens) \cap found
    BY DEF Matching, Spendable, VisibleLive
  <2>2. VisibleLive(db, v, lens) \cap found \in SUBSET Tx
    BY DEF VisibleLive
  <2>3. Answer(db, v, lens, q).total = Turnover(Matching(db, Spendable(db, v, lens), q))
    BY DEF Answer
  <2> HIDE DEF found
  <2> QED
    BY <2>1, <2>2, <2>3, TurnoverIs
<1> HIDE DEF found
<1>2. Added(MagnitudeOf, VisibleLive(db, m, "all") \cap found) =
         Added(MagnitudeOf, VisibleLive(db, None, "all") \cap found)
           + Added(MagnitudeOf, VisibleLive(db, m, "private") \cap found)
  BY AmountType, AddedOnTop
<1> QED
  BY <1>1, <1>2

\* What an account is worth that holds no rows.
Worth(a) ==
    CASE AccountFact[a].type = "portfolio" -> AccountFact[a].value
      [] AccountFact[a].type = "loan" -> LoanBalance(a)
      [] OTHER -> 0

LEMMA LoanBalanceType ==
    ASSUME NEW a PROVE LoanBalance(a) \in Int
<1>1. ASSUME NEW n \in Loan PROVE Outstanding(n) \in Int
  <2> DEFINE plan == LoanFact[n].schedule
             due == {k \in Installments(n) : LoanFact[n].schedule[k].day <= Today}
             part == [k \in due |-> LoanFact[n].schedule[k].principal]
  <2>1. LoanFact[n].principal \in Int /\ plan \in Seq([day : Int, payment : Int, principal : Int])
    BY FiguresAssumption
  <2>2. Len(plan) \in Nat /\ DOMAIN plan = 1..Len(plan)
        /\ \A k \in DOMAIN plan : plan[k].principal \in Int
    <3> DEFINE Entry == [day : Int, payment : Int, principal : Int]
    <3> HIDE DEF plan, Entry
    <3>1. plan \in Seq(Entry)
      BY <2>1 DEF Entry
    <3>2. /\ Len(plan) \in Nat /\ DOMAIN plan = 1..Len(plan)
          /\ \A k \in 1..Len(plan) : plan[k] \in Entry
      BY <3>1
    <3> QED
      BY <3>2 DEF Entry
  <2>3. due \in SUBSET (1..Len(plan)) /\ IsFiniteSet(1..Len(plan))
    BY <2>2, FS_Interval DEF Installments
  <2>4. IsFiniteSet(due) /\ DOMAIN part = due /\ \A k \in due : part[k] \in Int
    BY <2>2, <2>3, FS_Subset DEF Installments
  <2> HIDE DEF part, due
  <2>5. Total(part) \in Int
    BY <2>4, TotalIs, AddedType
  <2>6. Outstanding(n) = LoanFact[n].principal - Total(part)
    BY DEF Outstanding, part, due
  <2> QED
    BY <2>1, <2>5, <2>6
<1>2. CASE LoansOn(a) = {}
  BY <1>2 DEF LoanBalance
<1>3. CASE LoansOn(a) # {}
  <2> DEFINE n == CHOOSE n \in LoansOn(a) : TRUE
  <2>1. n \in Loan
    BY <1>3 DEF LoansOn
  <2>2. LoanBalance(a) = IF HasSchedule(n) THEN -Outstanding(n) ELSE 0
    BY <1>3 DEF LoanBalance
  <2> HIDE DEF n
  <2> QED
    BY <1>1, <2>1, <2>2
<1> QED
  BY <1>2, <1>3

LEMMA WorthType == \A a \in Account : Worth(a) \in Int
BY LoanBalanceType, FiguresAssumption DEF Worth

\* What an account is worth to a viewer, shown or not.
WorthTo(v) ==
    [a \in Account |-> IF IsCash(a) THEN Added(AmountOf, OnAccount(db, v, a)) ELSE Worth(a)]

LEMMA WorthToType == \A v : \A a \in Account : WorthTo(v)[a] \in Int
<1> TAKE v
<1> TAKE a \in Account
<1>1. OnAccount(db, v, a) \in SUBSET Tx
  BY DEF OnAccount, VisibleLive
<1>2. IsFiniteSet(OnAccount(db, v, a)) /\ \A t \in OnAccount(db, v, a) : AmountOf[t] \in Int
  BY <1>1, AmountType
<1>3. Added(AmountOf, OnAccount(db, v, a)) \in Int
  BY <1>2, AddedType
<1> QED
  BY <1>3, WorthType DEF WorthTo

\* An account that is left out would have added nothing.
LEMMA NetWorthIs ==
    ASSUME NEW v PROVE NetWorth(db, v) = Added(WorthTo(v), Account)
<1> DEFINE S == ShownAccounts(db, v)
           b == Balances(db, v)
           w == WorthTo(v)
<1>1. S \in SUBSET Account /\ IsFiniteSet(S) /\ IsFiniteSet(Account \ S)
      /\ S \cup (Account \ S) = Account /\ S \cap (Account \ S) = {}
  <2>1. S \in SUBSET Account
    BY DEF ShownAccounts
  <2> HIDE DEF S
  <2>2. IsFiniteSet(S) /\ IsFiniteSet(Account \ S)
    BY <2>1, FiguresAssumption, FS_Subset
  <2> QED
    BY <2>1, <2>2
<1>2. DOMAIN b = S
  BY DEF Balances
<1>3. ASSUME NEW a \in S PROVE b[a] = w[a]
  <2>1. a \in Account
    BY <1>1
  <2>2. CASE IsCash(a)
    <3>1. b[a] = Sum(OnAccount(db, v, a))
      BY <2>2 DEF Balances, IsCash
    <3>2. OnAccount(db, v, a) \in SUBSET Tx
      BY DEF OnAccount, VisibleLive
    <3>3. w[a] = Added(AmountOf, OnAccount(db, v, a))
      BY <2>1, <2>2 DEF WorthTo
    <3> QED
      BY <3>1, <3>2, <3>3, SumIs
  <2>3. CASE ~IsCash(a)
    <3>1. b[a] = Worth(a)
      BY <2>3 DEF Balances, Worth
    <3>2. w[a] = Worth(a)
      BY <2>1, <2>3 DEF WorthTo
    <3> QED
      BY <3>1, <3>2
  <2> QED
    BY <2>2, <2>3
<1>4. ASSUME NEW a \in Account \ S PROVE w[a] = 0
  <2>1. IsCash(a) /\ OnAccount(db, v, a) = {}
    BY <1>4 DEF ShownAccounts
  <2> QED
    BY <2>1, AddedEmpty DEF WorthTo
<1>5. \A a \in Account : w[a] \in Int
  BY WorthToType
<1> HIDE DEF S, b, w
<1>6. Total(b) = Added(b, S)
  BY <1>1, <1>2, TotalIs
<1>7. Added(b, S) = Added(w, S)
  BY <1>1, <1>3, AddedSame
<1>8. Added(w, Account \ S) = 0
  BY <1>1, <1>4, AddedZero
<1>9. Added(w, S \cup (Account \ S)) = Added(w, S) + Added(w, Account \ S)
  BY <1>1, <1>5, AddedUnion
<1>10. Added(w, S) \in Int
  BY <1>1, <1>5, AddedType
<1>11. Total(b) = Added(w, Account)
  <2>1. Added(w, S \cup (Account \ S)) = Added(w, Account)
    BY <1>1
  <2> QED
    BY <1>6, <1>7, <1>8, <1>9, <1>10, <2>1
<1> QED
  BY <1>11 DEF NetWorth, b, w

LEMMA NetWorthOnTop ==
    ASSUME NEW m \in Member
    PROVE  NetWorth(db, m) = NetWorth(db, None)
              + Sum({t \in VisibleLive(db, m, "private") : IsCash(TxFact[t].account)})
<1> DEFINE P == VisibleLive(db, m, "private")
           cash == {t \in P : IsCash(TxFact[t].account)}
           key == [t \in Tx |-> TxFact[t].account]
           own == [a \in Account |-> Added(AmountOf, {t \in cash : key[t] = a})]
<1>1. cash \in SUBSET Tx /\ IsFiniteSet(cash) /\ IsFiniteSet(Account)
      /\ (\A t \in cash : AmountOf[t] \in Int /\ key[t] \in Account)
  <2>1. cash \in SUBSET Tx
    BY DEF VisibleLive
  <2> HIDE DEF cash
  <2> QED
    BY <2>1, AmountType, FiguresAssumption
<1>2. ASSUME NEW a \in Account
      PROVE  /\ own[a] \in Int
             /\ WorthTo(m)[a] = WorthTo(None)[a] + own[a]
  <2> DEFINE mine == {t \in cash : key[t] = a}
             at == {t \in Tx : TxFact[t].account = a}
  <2>1. own[a] = Added(AmountOf, mine)
    OBVIOUS
  <2>2. IsFiniteSet(mine) /\ \A t \in mine : AmountOf[t] \in Int
    BY <1>1, FS_Subset
  <2>3. own[a] \in Int
    <3> HIDE DEF mine, own
    <3> QED
      BY <2>1, <2>2, AddedType
  <2>4. CASE IsCash(a)
    <3>1. mine = P \cap at
      BY <2>4 DEF VisibleLive
    <3>2. \A v : OnAccount(db, v, a) = VisibleLive(db, v, "all") \cap at
      BY DEF OnAccount, VisibleLive
    <3>3. \A v : WorthTo(v)[a] = Added(AmountOf, VisibleLive(db, v, "all") \cap at)
      BY <2>4, <3>2 DEF WorthTo
    <3> HIDE DEF mine, at, own, P
    <3>4. Added(AmountOf, VisibleLive(db, m, "all") \cap at) =
             Added(AmountOf, VisibleLive(db, None, "all") \cap at)
               + Added(AmountOf, VisibleLive(db, m, "private") \cap at)
      BY AmountType, AddedOnTop
    <3>5. own[a] = Added(AmountOf, VisibleLive(db, m, "private") \cap at)
      BY <2>1, <3>1 DEF P
    <3>6. /\ WorthTo(m)[a] = Added(AmountOf, VisibleLive(db, m, "all") \cap at)
          /\ WorthTo(None)[a] = Added(AmountOf, VisibleLive(db, None, "all") \cap at)
      BY <3>3
    <3> QED
      BY <2>3, <3>4, <3>5, <3>6
  <2>5. CASE ~IsCash(a)
    <3>1. mine = {}
      BY <2>5 DEF VisibleLive
    <3>2. own[a] = 0
      BY <2>1, <3>1, AddedEmpty
    <3>3. \A v : WorthTo(v)[a] = Worth(a)
      BY <2>5 DEF WorthTo
    <3> HIDE DEF own
    <3> QED
      BY <2>3, <3>2, <3>3, WorthType
  <2> QED
    BY <2>3, <2>4, <2>5
<1>3. Added(own, Account) = Added(AmountOf, cash)
  <2>1. \A a \in Account : own[a] = Added(AmountOf, {t \in cash : key[t] = a})
    OBVIOUS
  <2> HIDE DEF cash, own, key
  <2> QED
    BY <1>1, <2>1, AddedByKey
<1> HIDE DEF own
<1>4. Added(WorthTo(m), Account) = Added(WorthTo(None), Account) + Added(own, Account)
  BY <1>1, <1>2, WorthToType, AddedPlus
<1>5. Sum(cash) = Added(AmountOf, cash)
  <2> HIDE DEF cash
  <2> QED
    BY <1>1, SumIs
<1> QED
  BY <1>3, <1>4, <1>5, NetWorthIs

\* A member's net worth, spending, income and answers are the household's with
\* the member's own private rows on top, in any state: the accounts a viewer is
\* not shown would have added nothing (metrics.py, net_worth.py, nl_query.py).
THEOREM OwnRowsAreOnTop == Spec => []OwnRowsOnTop
<1>1. OwnRowsOnTop
  BY NetWorthOnTop, FlowsOnTop, AnswersOnTop DEF OwnRowsOnTop
<1> QED
  BY <1>1, PTL
=============================================================================
