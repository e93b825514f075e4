------------------------------ MODULE Planning ------------------------------
(***************************************************************************)
(* The monthly plan and the loans: planned items, what settled each of     *)
(* them month by month, and the transactions pinned to a loan.             *)
(*                                                                         *)
(* The requests that say what settled a line read first and write later,   *)
(* each in a database session of its own at READ COMMITTED, so each is two *)
(* steps: Load, where it reads and may be turned down, and Commit, where   *)
(* it writes the columns it means to change into the row it loaded, if     *)
(* the row is still there.  UNIQUE (planned_item_id, month) and the        *)
(* foreign keys refuse an insert that comes too late.  The other requests  *)
(* are one step: what they read cannot make their write go wrong.          *)
(*                                                                         *)
(* Abstracted: names, amounts, due days, the display order and the retired *)
(* flag of an item; the terms of a loan and the installment a payment is   *)
(* pinned to; and who may see a transaction (see Ledger).                  *)
(***************************************************************************)
CONSTANTS
    Item, Loan, Tx, Payment,  \* ids of rows, each used once (bounds creations)
    Month,
    Request,                  \* slots for requests in flight
    None                      \* SQL NULL

ASSUME PlanningAssumption == None \notin Item \cup Loan \cup Tx \cup Payment

VARIABLES
    items,     \* table planned_item
    loans,     \* table loan
    payments,  \* table planned_item_payment
    tx,        \* table transaction, as far as loans go
    request    \* the requests in flight

vars == <<items, loans, payments, tx, request>>

-----------------------------------------------------------------------------
\* What can be paid: an item in a month.
Line == Item \X Month

Status == {"unused", "live", "gone"}

ItemRow == [status : Status, loan : Loan \cup {None}]

\* A transaction that is gone is soft-deleted: it keeps its loan_id, and the
\* lines it settled keep their link.
TxRow == [status : Status, loan : Loan \cup {None}]

PaymentRow == [status : Status, line : Line \cup {None},
               tx : Tx \cup {None}, ticked : BOOLEAN]

NoPayment == [status |-> "unused", line |-> None, tx |-> None, ticked |-> FALSE]
GonePayment == [NoPayment EXCEPT !.status = "gone"]

\* What a request asks for, and, while it is in flight, the payment row it
\* loaded: its id and its columns at that time.
Ask == [kind : {"mark_paid", "mark_unpaid", "unlink"},
        line : Line, tx : {None}, loan : {None}]
       \cup [kind : {"link"}, line : Line, tx : Tx, loan : {None}]
       \cup [kind : {"pay"}, line : {None}, tx : Tx, loan : Loan]
       \cup [kind : {"unpay"}, line : {None}, tx : Tx, loan : {None}]

Idle == [ask |-> None, row |-> None, seen |-> NoPayment]

InFlight == [ask : Ask, row : Payment \cup {None}, seen : PaymentRow]

TypeOK ==
    /\ items \in [Item -> ItemRow]
    /\ loans \in [Loan -> Status]
    /\ payments \in [Payment -> PaymentRow]
    /\ tx \in [Tx -> TxRow]
    /\ request \in [Request -> InFlight \cup {Idle}]

Init ==
    /\ items = [i \in Item |-> [status |-> "unused", loan |-> None]]
    /\ loans = [n \in Loan |-> "unused"]
    /\ payments = [p \in Payment |-> NoPayment]
    /\ tx = [t \in Tx |-> [status |-> "unused", loan |-> None]]
    /\ request = [r \in Request |-> Idle]

RowsOf(line) == {p \in Payment : payments[p].status = "live" /\ payments[p].line = line}

-----------------------------------------------------------------------------
(* What each request checks on what it loads                               *)

\* Mutant: any month of the same item counts as the line itself.
LinkedElsewhereByItem(t, line) ==
    \E p \in Payment : /\ payments[p].status = "live" /\ payments[p].tx = t
                       /\ payments[p].line[1] # line[1]

LinkedElsewhere(t, line) ==
    \E p \in Payment : /\ payments[p].status = "live" /\ payments[p].tx = t
                       /\ payments[p].line # line

\* A line that is settled either way is left as it is.
MayMarkPaid(line, row) ==
    /\ items[line[1]].status = "live"
    /\ row # None => payments[row].tx = None /\ ~payments[row].ticked

MayMarkUnpaid(row) == row # None /\ payments[row].tx = None

MayLink(line, t) ==
    /\ items[line[1]].status = "live" /\ items[line[1]].loan = None
    /\ tx[t].status = "live" /\ tx[t].loan = None
    /\ ~LinkedElsewhere(t, line)

MayUnlink(row) == row # None /\ payments[row].tx # None

\* Whether the transaction settles a plan line already is not looked at.
MayPay(t, n) == loans[n] = "live" /\ tx[t].status = "live" /\ tx[t].loan = None

MayUnpay(t) == tx[t].status = "live" /\ tx[t].loan # None

Accepted(ask, row) ==
    \/ ask.kind = "mark_paid"   /\ MayMarkPaid(ask.line, row)
    \/ ask.kind = "mark_unpaid" /\ MayMarkUnpaid(row)
    \/ ask.kind = "link"        /\ MayLink(ask.line, ask.tx)
    \/ ask.kind = "unlink"      /\ MayUnlink(row)
    \/ ask.kind = "pay"         /\ MayPay(ask.tx, ask.loan)
    \/ ask.kind = "unpay"       /\ MayUnpay(ask.tx)

\* A request that is turned down changes nothing and is not kept.
Load(r, ask) ==
    /\ request[r] = Idle
    /\ \E row \in IF RowsOf(ask.line) = {} THEN {None} ELSE RowsOf(ask.line) :
          /\ Accepted(ask, row)
          /\ request' = [request EXCEPT ![r] =
                [ask |-> ask, row |-> row,
                 seen |-> IF row = None THEN NoPayment ELSE payments[row]]]
    /\ UNCHANGED <<items, loans, payments, tx>>

-----------------------------------------------------------------------------
(* What each request writes                                                *)

\* The foreign key and the unique constraint let the row in, or the commit
\* fails and leaves nothing.
InsertPayment(line, t) ==
    IF items[line[1]].status = "live" /\ RowsOf(line) = {}
    THEN \E p \in Payment :
            /\ payments[p].status = "unused"
            /\ payments' = [payments EXCEPT ![p] =
                  [status |-> "live", line |-> line, tx |-> t, ticked |-> t = None]]
    ELSE UNCHANGED payments

\* The columns that differ from what was loaded: a tick sets paid_at, a link
\* sets transaction_id and clears paid_at.
Updated(p, q) ==
    [payments[p] EXCEPT
        !.tx = IF q.seen.tx # q.ask.tx THEN q.ask.tx ELSE @,
        !.ticked = q.ask.kind = "mark_paid" \/ (@ /\ ~q.seen.ticked)]

\* mark_paid and link_transaction.  An update of a row that is gone fails.
Upsert(q) ==
    /\ IF q.row = None THEN InsertPayment(q.ask.line, q.ask.tx)
       ELSE IF payments[q.row].status = "live"
            THEN payments' = [payments EXCEPT ![q.row] = Updated(q.row, q)]
            ELSE UNCHANGED payments
    /\ UNCHANGED tx

\* mark_unpaid and unlink_transaction: the row is deleted by its id.
Remove(q) ==
    /\ payments' = [payments EXCEPT ![q.row] = GonePayment]
    /\ UNCHANGED tx

\* link_payment and unlink_payment.  A loan that is gone by now is refused by
\* the foreign key.
Pin(q) ==
    /\ IF q.ask.loan = None \/ loans[q.ask.loan] = "live"
       THEN tx' = [tx EXCEPT ![q.ask.tx].loan = q.ask.loan]
       ELSE UNCHANGED tx
    /\ UNCHANGED payments

Commit(r) ==
    LET q == request[r]
    IN  /\ q # Idle
        /\ \/ q.ask.kind \in {"mark_paid", "link"} /\ Upsert(q)
           \/ q.ask.kind \in {"mark_unpaid", "unlink"} /\ Remove(q)
           \/ q.ask.kind \in {"pay", "unpay"} /\ Pin(q)
        /\ request' = [request EXCEPT ![r] = Idle]
        /\ UNCHANGED <<items, loans>>

\* A restart of the app loses what was not committed.
Restart ==
    /\ request' = [r \in Request |-> Idle]
    /\ request' # request
    /\ UNCHANGED <<items, loans, payments, tx>>

-----------------------------------------------------------------------------
(* Items, loans and transactions come and go                               *)

CreateItem(i, n) ==
    /\ items[i].status = "unused"
    /\ n # None => loans[n] = "live"
    /\ items' = [items EXCEPT ![i] = [status |-> "live", loan |-> n]]
    /\ UNCHANGED <<loans, payments, tx, request>>

\* The edit form may back an item with a loan, or take the loan away, whatever
\* was paid on it.
UpdateItem(i, n) ==
    /\ items[i].status = "live"
    /\ items[i].loan # n
    /\ n # None => loans[n] = "live"
    /\ items' = [items EXCEPT ![i].loan = n]
    /\ UNCHANGED <<loans, payments, tx, request>>

\* Mutant: the item goes and its payment rows stay.
DeleteItemOnly(i) ==
    /\ items[i].status = "live"
    /\ items' = [items EXCEPT ![i] = [status |-> "gone", loan |-> None]]
    /\ UNCHANGED <<loans, payments, tx, request>>

DeleteItem(i) ==
    /\ items[i].status = "live"
    /\ items' = [items EXCEPT ![i] = [status |-> "gone", loan |-> None]]
    /\ payments' = [p \in Payment |->
          IF payments[p].status = "live" /\ payments[p].line[1] = i THEN GonePayment
          ELSE payments[p]]
    /\ UNCHANGED <<loans, tx, request>>

CreateLoan(n) ==
    /\ loans[n] = "unused"
    /\ loans' = [loans EXCEPT ![n] = "live"]
    /\ UNCHANGED <<items, payments, tx, request>>

\* Mutant: the transactions of the loan go with it.
PaymentsDropped(n) == [t \in {s \in Tx : tx[s].loan # n} |-> tx[t]]

\* Every transaction of the loan, soft-deleted ones included, is unpinned.
Unpinned(n) == [t \in Tx |-> IF tx[t].loan = n THEN [tx[t] EXCEPT !.loan = None] ELSE tx[t]]

\* The planned items whose loan_id still names a loan about to be deleted:
\* delete_loan does not touch them.
BackedBy(n) == {i \in Item : items[i].loan = n}

\* A loan some item is backed by is not deleted: the foreign key refuses, and
\* the request fails with what it did undone.
DeleteLoan(n) ==
    /\ loans[n] = "live"
    /\ BackedBy(n) = {}
    /\ loans' = [loans EXCEPT ![n] = "gone"]
    /\ tx' = Unpinned(n)
    /\ UNCHANGED <<items, payments, request>>

\* From Ledger: rows are imported or entered, and soft-deleted.
TxArrives(t) ==
    /\ tx[t].status = "unused"
    /\ tx' = [tx EXCEPT ![t].status = "live"]
    /\ UNCHANGED <<items, loans, payments, request>>

TxDeleted(t) ==
    /\ tx[t].status = "live"
    /\ tx' = [tx EXCEPT ![t].status = "gone"]
    /\ UNCHANGED <<items, loans, payments, request>>

Next ==
    \/ \E r \in Request : Commit(r) \/ \E ask \in Ask : Load(r, ask)
    \/ Restart
    \/ \E i \in Item, n \in Loan \cup {None} : CreateItem(i, n) \/ UpdateItem(i, n)
    \/ \E i \in Item : DeleteItem(i)
    \/ \E n \in Loan : CreateLoan(n) \/ DeleteLoan(n)
    \/ \E t \in Tx : TxArrives(t) \/ TxDeleted(t)

Spec == Init /\ [][Next]_vars

-----------------------------------------------------------------------------
(* What the plan promises                                                  *)

\* However requests overlap, a line has at most one payment row, and every row
\* names an item, a transaction and a loan that exist (planned.py,
\* delete_planned_item; loans.py, delete_loan).
ReferencesResolve ==
    /\ \A p \in Payment : payments[p].status = "live" =>
          /\ payments[p].line \in Line
          /\ items[payments[p].line[1]].status = "live"
          /\ payments[p].tx # None => tx[payments[p].tx].status # "unused"
          /\ RowsOf(payments[p].line) = {p}
    /\ \A i \in Item : items[i].loan # None =>
          items[i].status = "live" /\ loans[items[i].loan] = "live"
    /\ \A t \in Tx : tx[t].loan # None =>
          tx[t].status # "unused" /\ loans[tx[t].loan] = "live"

\* However requests overlap, a payment row is either a manual tick or a linked
\* transaction: never both, and never neither, which would be an unpaid line
\* that no request can settle or clear (models.py, PlannedItemPayment).
OneStatus ==
    \A p \in Payment : payments[p].status = "live" =>
        (payments[p].tx # None) # payments[p].ticked

\* However requests overlap, the plan shows one status for a line, and what it
\* refers to is there.
PlanRowsSound == ReferencesResolve /\ OneStatus

\* What a transaction settles.
Settles(t) ==
    {payments[p].line : p \in {q \in Payment : payments[q].status = "live" /\ payments[q].tx = t}}
    \cup ({tx[t].loan} \ {None})

\* What a request read when it was let in is what it would read now.
UpToDate(q) ==
    /\ q.row = None => RowsOf(q.ask.line) = {}
    /\ q.row # None => payments[q.row] = q.seen
    /\ Accepted(q.ask, q.row)

SettlesTwo(t) == \E x, y \in Settles(t) : x # y

SecondUseExplained ==
    \A t \in Tx : SettlesTwo(t)' /\ ~SettlesTwo(t) =>
        \E r \in Request :
            /\ request[r] # Idle /\ request'[r] = Idle
            /\ request[r].ask.kind = "pay" \/ ~UpToDate(request[r])

\* No transaction comes to settle two things, two lines or a line and a loan,
\* except when it is pinned to a loan after it was linked to a line, or through
\* a request whose reading was out of date when it wrote (planned.py,
\* link_transaction, _is_tx_linked; loans.py, link_payment).
SettlesOnce == [][SecondUseExplained]_vars

-----------------------------------------------------------------------------
(* Why they hold: what a request in flight knows of the row it loaded      *)

RequestsSound ==
    \A r \in Request : LET q == request[r] IN q # Idle =>
        /\ q.ask.kind = "mark_paid" => q.row = None
        /\ q.ask.kind \in {"link", "pay", "unpay"} => tx[q.ask.tx].status # "unused"
        /\ q.row # None =>
              /\ payments[q.row].status # "unused"
              /\ (q.seen.tx # None) # q.seen.ticked
              /\ payments[q.row].status = "live" =>
                    /\ payments[q.row].line = q.ask.line
                    /\ q.seen.tx # None => payments[q.row].tx # None

IInv == TypeOK /\ ReferencesResolve /\ OneStatus /\ RequestsSound

-----------------------------------------------------------------------------
(* What comments say and the code does not do                              *)

\* "With foreign_keys=ON a lingering loan_id would block the loan delete": a
\* loan can be deleted whatever refers to it.
LoanDeletable == \A n \in Loan : loans[n] = "live" => ENABLED DeleteLoan(n)
=============================================================================
