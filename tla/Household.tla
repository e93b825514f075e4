------------------------------ MODULE Household ------------------------------
(***************************************************************************)
(* The household at work on what Figures shows it: the requests that move  *)
(* a transaction in or out of somebody's figures, and those that settle a  *)
(* plan line or an installment.                                            *)
(*                                                                         *)
(* Every request is one step, of one transaction, line or pair: how they   *)
(* overlap, and how many rows they take at a time, is in Ledger and        *)
(* Planning.  The categorizing layers write what SetCategory can write.    *)
(***************************************************************************)
EXTENDS Figures

CONSTANT MaxRequests  \* bounds the requests after the imports

ASSUME HouseholdAssumption == MaxRequests \in Nat

VARIABLES
    rows,      \* table transaction
    payments,  \* table planned_item_payment
    requests   \* auxiliary: how many so far, imports apart

vars == <<rows, payments, requests>>

db == [tx |-> rows, payment |-> payments]

TypeOK ==
    /\ rows \in [Tx -> Row]
    /\ payments \in [Line -> Tx \cup {Ticked, None}]
    /\ requests \in 0 .. MaxRequests

Init ==
    /\ rows = [t \in Tx |-> NoRow]
    /\ payments = [l \in Line |-> None]
    /\ requests = 0

-----------------------------------------------------------------------------
(* The requests that move a transaction in or out of a figure              *)

Importing(m, t) ==
    LET owner == AccountFact[TxFact[t].account].owner
    IN  [status |-> "live", owner |-> IF owner = None THEN m ELSE owner,
         scope |-> IF owner = None THEN "household" ELSE "private",
         category |-> None, group |-> {}, pin |-> None]

AsTransfer(table, pairs) ==
    [t \in Tx |-> LET mine == {p \in pairs : t \in p}
                  IN  IF mine = {} THEN table[t]
                      ELSE [table[t] EXCEPT !.group = UNION mine, !.category = TransferCategory]]

\* One line is uploaded.  Then the pairs the row's owner may see are linked, one
\* by one until one fails: the row stays as it is.
Import(m, t) ==
    /\ rows[t].status = "absent"
    /\ LET table == [rows EXCEPT ![t] = Importing(m, t)]
           auto == AutoPairs([db EXCEPT !.tx = table], Importing(m, t).owner)
       IN  \E linked \in SUBSET auto : rows' = AsTransfer(table, linked)
    /\ UNCHANGED <<payments, requests>>

\* Members ask for the same at any time.
Rescan(m) ==
    /\ \E linked \in SUBSET AutoPairs(db, m) : rows' = AsTransfer(rows, linked)
    /\ UNCHANGED payments

SetCategory(m, t, category, scope) ==
    /\ Visible(db, t, m)
    /\ rows' = [rows EXCEPT ![t].category = category, ![t].scope = scope,
                            ![t].owner = IF scope = "private" THEN m ELSE rows[t].owner]
    /\ UNCHANGED payments

\* The batch of one line is rolled back: what refers to the row stays.
Rollback(t) ==
    /\ Live(db, t)
    /\ rows' = [rows EXCEPT ![t].status = "deleted"]
    /\ UNCHANGED payments

MayPair(m, a, b) ==
    /\ Visible(db, a, m) /\ Visible(db, b, m)
    /\ rows[a].group = {} /\ rows[b].group = {}
    /\ Opposite(a, b)

LinkTransfer(m, a, b) ==
    /\ MayPair(m, a, b)
    /\ rows' = AsTransfer(rows, {{a, b}})
    /\ UNCHANGED payments

\* The legs the member may see leave the group.
UnlinkTransfer(m, group) ==
    /\ LET legs == {t \in group : rows[t].group = group /\ InLens(rows[t], m, "all")}
       IN  /\ legs # {}
           /\ rows' = [t \in Tx |->
                 IF t \in legs
                 THEN [rows[t] EXCEPT !.group = {},
                        !.category = IF rows[t].category = TransferCategory THEN None
                                     ELSE rows[t].category]
                 ELSE rows[t]]
    /\ UNCHANGED payments

-----------------------------------------------------------------------------
(* The requests that settle a line or an installment                       *)

\* Anyone ticks and unticks any line, a linked one excepted.
MarkPaid(l) ==
    /\ payments[l] = None
    /\ payments' = [payments EXCEPT ![l] = Ticked]
    /\ UNCHANGED rows

MarkUnpaid(l) ==
    /\ payments[l] = Ticked
    /\ payments' = [payments EXCEPT ![l] = None]
    /\ UNCHANGED rows

MayLink(m, l, t) ==
    /\ ItemFact[l[1]].loan = None
    /\ Visible(db, t, m)
    /\ rows[t].pin = None
    /\ \A o \in Line \ {l} : payments[o] # t

LinkTransaction(m, l, t) ==
    /\ MayLink(m, l, t)
    /\ payments' = [payments EXCEPT ![l] = t]
    /\ UNCHANGED rows

UnlinkTransaction(l) ==
    /\ payments[l] \in Tx
    /\ payments' = [payments EXCEPT ![l] = None]
    /\ UNCHANGED rows

MayPin(m, t) == Visible(db, t, m) /\ rows[t].pin = None

\* Mutant: installments counted from 0.
LinkPaymentFromZero(m, n, k, t) ==
    /\ MayPin(m, t)
    /\ rows' = [rows EXCEPT ![t].pin = <<n, k - 1>>]
    /\ UNCHANGED payments

\* Whether the installment is paid already is not looked at.
LinkPayment(m, n, k, t) ==
    /\ MayPin(m, t)
    /\ rows' = [rows EXCEPT ![t].pin = <<n, k>>]
    /\ UNCHANGED payments

UnlinkPayment(m, t) ==
    /\ Visible(db, t, m) /\ rows[t].pin # None
    /\ rows' = [rows EXCEPT ![t].pin = None]
    /\ UNCHANGED payments

Request ==
    \/ \E m \in Member, t \in Tx :
        \/ \E c \in Category \cup {None}, s \in Scope : SetCategory(m, t, c, s)
        \/ \E u \in Tx : LinkTransfer(m, t, u)
        \/ \E l \in Line : LinkTransaction(m, l, t)
        \/ \E n \in Loan : \E k \in Installments(n) : LinkPayment(m, n, k, t)
        \/ UnlinkPayment(m, t)
        \/ UnlinkTransfer(m, rows[t].group)
    \/ \E t \in Tx : Rollback(t)
    \/ \E m \in Member : Rescan(m)
    \/ \E l \in Line : MarkPaid(l) \/ MarkUnpaid(l) \/ UnlinkTransaction(l)

Next ==
    \/ \E m \in Member, t \in Tx : Import(m, t)
    \/ requests < MaxRequests /\ requests' = requests + 1 /\ Request

Spec == Init /\ [][Next]_vars

-----------------------------------------------------------------------------
(* What the figures promise                                                *)

\* The rows in the viewer's sight, all others blank.
InSight(v) ==
    [db EXCEPT !.tx = [t \in Tx |-> IF InLens(rows[t], v, "all") THEN rows[t] ELSE NoRow]]

\* Every figure, list, hint and suggestion a viewer is shown is what it would
\* be if the rows out of its sight did not exist: another member's private row
\* appears nowhere, in no total and in nothing derived from one (visibility.py:
\* "appears in no list, total, chart, or export").  Only that a plan line is
\* linked is shared, not to what.  (A viewer all rows are in sight of
\* is left out: nothing to compare.)
PrivateStaysPrivate ==
    \A v \in Viewer : InSight(v) # db => Shown(InSight(v), v) = Shown(db, v)

\* A member's headline figures are the household's with the member's own
\* private rows on top, net worth included, although it drops accounts by what
\* the viewer can see (metrics.py, collect_member_metrics; net_worth.py,
\* account_balances); and so is the answer to a question (nl_query.py,
\* run_query).
OwnRowsOnTop ==
    \A m \in Member :
        /\ NetWorth(db, m) = NetWorth(db, None)
                + Sum({t \in VisibleLive(db, m, "private") : IsCash(TxFact[t].account)})
        /\ \A month \in Month :
            /\ Spending(Spendable(db, m, "all"), month) =
                    Spending(Spendable(db, None, "all"), month)
                        + Spending(Spendable(db, m, "private"), month)
            /\ Income(Spendable(db, m, "all"), month) =
                    Income(Spendable(db, None, "all"), month)
                        + Income(Spendable(db, m, "private"), month)
        /\ \A q \in Question :
            Answer(db, m, "all", q).total =
                Answer(db, None, "all", q).total + Answer(db, m, "private", q).total

\* What the transfers, the plan and the loan pages offer to link is accepted if
\* it is confirmed at once, except on the line of a loan without a schedule:
\* that line is offered transactions, and none is accepted (transfers.py,
\* find_transfer_pairs; planned.py, suggest_links against link_transaction;
\* loans.py, suggest_payments).
SuggestionsHold ==
    \A m \in Member :
        /\ \A p \in SuggestPairs(db, m) : \A a, b \in p : a # b => MayPair(m, a, b)
        /\ \A month \in Month :
            \A e \in SuggestLinks(db, m, month) :
                ItemFact[e[1]].loan = None => MayLink(m, <<e[1], month>>, e[2])
        /\ \A n \in Loan : \A e \in SuggestPayments(db, m, n) :
            /\ MayPin(m, e[2])
            /\ \A t \in Tx : Visible(db, t, m) => rows[t].pin # <<n, e[1]>>

\* A private transaction settles the line, or an earlier month of it.
PrivatelySettled(i, month) ==
    \E t \in Tx :
        /\ rows[t].scope = "private"
        /\ IF LoanBacked(i)
           THEN \E k \in DueIn(i, month) : rows[t].pin = <<ItemFact[i].loan, k>>
           ELSE \E m \in Month : m <= month /\ PaymentRow(db, <<i, m>>) = t

\* Two viewers see the same plan, line by line, unless a private transaction
\* settles the line, now or in an earlier month: then its owner alone sees it
\* paid (planned.py, plan_overview).
MembersAgree ==
    \A month \in Month : \A r, q \in UNION {PlanRows(db, v, month) : v \in Viewer} :
        r.item = q.item /\ r # q => PrivatelySettled(r.item, month)
=============================================================================
