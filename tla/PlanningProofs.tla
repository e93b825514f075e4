--------------------------- MODULE PlanningProofs ---------------------------
(***************************************************************************)
(* Proofs about module Planning, for any sets of items, loans,             *)
(* transactions and months and any number of overlapping requests.         *)
(***************************************************************************)
EXTENDS Planning, TLAPS

\* Updating a row touches its transaction and its tick only, and leaves it with
\* exactly one of the two if what was loaded had exactly one.
LEMMA UpdatedFields ==
    ASSUME TypeOK, NEW q \in InFlight, q.row # None, q.ask.kind \in {"mark_paid", "link"}
    PROVE  /\ Updated(q.row, q) \in PaymentRow
           /\ Updated(q.row, q).status = payments[q.row].status
           /\ Updated(q.row, q).line = payments[q.row].line
           /\ Updated(q.row, q).tx \in {q.ask.tx, payments[q.row].tx}
           /\ q.seen.tx # q.ask.tx => Updated(q.row, q).tx = q.ask.tx
           /\ q.ask.kind = "link" =>
                Updated(q.row, q).ticked = (payments[q.row].ticked /\ ~q.seen.ticked)
  <1>1. q.row \in Payment
    BY DEF InFlight
  <1>2. payments[q.row] \in PaymentRow
    BY <1>1 DEF TypeOK
  <1>3. q.ask.tx \in Tx \cup {None}
    BY DEF InFlight, Ask
  <1>4. q.seen.ticked \in BOOLEAN
    BY DEF InFlight, PaymentRow
  <1> DEFINE row == payments[q.row]
  <1>5. Updated(q.row, q) =
          [row EXCEPT !.tx = IF q.seen.tx # q.ask.tx THEN q.ask.tx ELSE row.tx,
                      !.ticked = q.ask.kind = "mark_paid" \/ (row.ticked /\ ~q.seen.ticked)]
    BY <1>2 DEF Updated, PaymentRow
  <1> QED
    BY <1>2, <1>3, <1>4, <1>5 DEF PaymentRow

-----------------------------------------------------------------------------
\* The initial states are sound.
LEMMA InitSound == Init => IInv
  <1> SUFFICES ASSUME Init PROVE IInv
    OBVIOUS
  <1> USE DEF Init
  <1>1. TypeOK
    BY DEF TypeOK, ItemRow, TxRow, PaymentRow, NoPayment, Status, Idle
  <1>2. ReferencesResolve /\ OneStatus
    BY DEF ReferencesResolve, OneStatus, NoPayment
  <1>3. RequestsSound
    BY DEF RequestsSound, Idle
  <1> QED
    BY <1>1, <1>2, <1>3 DEF IInv

\* What a step of another actor may do to the tables: rows keep their identity
\* and their life runs one way.
RowsAge ==
    /\ \A p \in Payment :
          /\ payments[p].status # "unused" => payments'[p].status # "unused"
          /\ payments[p].status # "unused" /\ payments'[p].status = "live" =>
                /\ payments[p].status = "live"
                /\ payments'[p].line = payments[p].line
                /\ payments[p].tx # None => payments'[p].tx # None
    /\ \A t \in Tx : tx[t].status # "unused" => tx'[t].status # "unused"

\* A request in flight stays sound as long as rows only age.
LEMMA SoundWhileAging ==
    ASSUME TypeOK, RequestsSound, RowsAge,
           \A r \in Request : request'[r] \in {request[r], Idle}
    PROVE  RequestsSound'
  <1> SUFFICES ASSUME NEW r \in Request, request'[r] # Idle
               PROVE  LET q == request'[r] IN
                        /\ q.ask.kind = "mark_paid" => q.row = None
                        /\ q.ask.kind \in {"link", "pay", "unpay"} =>
                              tx'[q.ask.tx].status # "unused"
                        /\ q.row # None =>
                              /\ payments'[q.row].status # "unused"
                              /\ (q.seen.tx # None) # q.seen.ticked
                              /\ payments'[q.row].status = "live" =>
                                    /\ payments'[q.row].line = q.ask.line
                                    /\ q.seen.tx # None => payments'[q.row].tx # None
    BY DEF RequestsSound
  <1> DEFINE q == request[r]
  <1>1. request'[r] = q /\ q # Idle
    OBVIOUS
  <1>2. q \in InFlight
    BY <1>1 DEF TypeOK
  <1>3. q.ask.kind \in {"link", "pay", "unpay"} => q.ask.tx \in Tx
    BY <1>2 DEF InFlight, Ask
  <1>4. q.row # None => q.row \in Payment
    BY <1>2 DEF InFlight
  <1> QED
    BY <1>1, <1>3, <1>4 DEF RequestsSound, RowsAge

-----------------------------------------------------------------------------
\* Loading changes no table; what it remembers is what the row says.
LEMMA LoadKeeps ==
    ASSUME IInv, NEW r \in Request, NEW ask \in Ask, Load(r, ask)
    PROVE  IInv'
  <1> USE DEF IInv
  <1>1. PICK row \in IF RowsOf(ask.line) = {} THEN {None} ELSE RowsOf(ask.line) :
          /\ Accepted(ask, row)
          /\ request' = [request EXCEPT ![r] =
                [ask |-> ask, row |-> row,
                 seen |-> IF row = None THEN NoPayment ELSE payments[row]]]
    BY DEF Load
  <1>2. UNCHANGED <<items, loans, payments, tx>>
    BY DEF Load
  <1>3. row # None => row \in Payment /\ payments[row].status = "live"
                        /\ payments[row].line = ask.line
    BY <1>1 DEF RowsOf
  <1> DEFINE q == [ask |-> ask, row |-> row,
                   seen |-> IF row = None THEN NoPayment ELSE payments[row]]
  <1>4. q \in InFlight
    BY <1>3 DEF InFlight, TypeOK, NoPayment, PaymentRow, Status
  <1>5. TypeOK'
    BY <1>1, <1>2, <1>4 DEF TypeOK
  <1>6. ReferencesResolve' /\ OneStatus'
    BY <1>2 DEF ReferencesResolve, OneStatus, RowsOf
  <1>7. /\ ask.kind = "mark_paid" => row = None
        /\ ask.kind \in {"link", "pay", "unpay"} => tx[ask.tx].status # "unused"
    <2>1. ask.kind = "mark_paid" => row = None
      <3>1. ask.kind = "mark_paid" => MayMarkPaid(ask.line, row)
        BY <1>1 DEF Accepted
      <3>2. row # None => /\ payments[row].ticked \in BOOLEAN
                          /\ (payments[row].tx # None) # payments[row].ticked
        BY <1>3 DEF OneStatus, TypeOK, PaymentRow
      <3> QED
        BY <3>1, <3>2 DEF MayMarkPaid
    <2>2. ask.kind \in {"link", "pay", "unpay"} => tx[ask.tx].status = "live"
      BY <1>1 DEF Accepted, MayLink, MayPay, MayUnpay
    <2> QED
      BY <2>1, <2>2
  <1>8. row # None => (payments[row].tx # None) # payments[row].ticked
    BY <1>3 DEF OneStatus
  <1>9. RequestsSound'
    <2> SUFFICES ASSUME NEW s \in Request, request'[s] # Idle
                 PROVE  LET x == request'[s] IN
                        /\ x.ask.kind = "mark_paid" => x.row = None
                        /\ x.ask.kind \in {"link", "pay", "unpay"} =>
                              tx[x.ask.tx].status # "unused"
                        /\ x.row # None =>
                              /\ payments[x.row].status # "unused"
                              /\ (x.seen.tx # None) # x.seen.ticked
                              /\ payments[x.row].status = "live" =>
                                    /\ payments[x.row].line = x.ask.line
                                    /\ x.seen.tx # None => payments[x.row].tx # None
      BY <1>2 DEF RequestsSound
    <2>1. CASE s = r
      <3>1. request'[s] = q
        BY <1>1, <2>1 DEF TypeOK
      <3> QED
        BY <3>1, <1>3, <1>7, <1>8
    <2>2. CASE s # r
      <3>1. request'[s] = request[s]
        BY <1>1, <2>2 DEF TypeOK
      <3> QED
        BY <3>1 DEF RequestsSound
    <2> QED
      BY <2>1, <2>2
  <1> QED
    BY <1>5, <1>6, <1>9

\* A new row is the only one of its line, names a live item and has one status.
LEMMA InsertKeeps ==
    ASSUME IInv, NEW line \in Line, NEW t \in Tx \cup {None},
           t # None => tx[t].status # "unused",
           InsertPayment(line, t), UNCHANGED <<items, loans, tx>>
    PROVE  /\ payments' \in [Payment -> PaymentRow]
           /\ ReferencesResolve' /\ OneStatus' /\ RowsAge
  <1> USE DEF IInv
  <1>1. CASE UNCHANGED payments
    BY <1>1 DEF TypeOK, ReferencesResolve, OneStatus, RowsAge, RowsOf
  <1>2. CASE payments' # payments
    <2>1. items[line[1]].status = "live" /\ RowsOf(line) = {}
      BY <1>2 DEF InsertPayment
    <2>2. PICK p \in Payment :
            /\ payments[p].status = "unused"
            /\ payments' = [payments EXCEPT ![p] =
                  [status |-> "live", line |-> line, tx |-> t, ticked |-> t = None]]
      BY <2>1, <1>2 DEF InsertPayment
    <2>3. payments'[p] = [status |-> "live", line |-> line, tx |-> t, ticked |-> t = None]
      BY <2>2 DEF TypeOK
    <2>4. \A o \in Payment \ {p} : payments'[o] = payments[o]
      BY <2>2 DEF TypeOK
    <2>5. payments' \in [Payment -> PaymentRow]
      BY <2>2 DEF TypeOK, PaymentRow, Status
    <2>6. OneStatus'
      BY <2>3, <2>4 DEF OneStatus
    <2>7. \A o \in Payment \ {p} : payments[o].status = "live" => payments[o].line # line
      BY <2>1 DEF RowsOf
    <2>8. ReferencesResolve'
      <3>1. ASSUME NEW o \in Payment, payments'[o].status = "live"
            PROVE  /\ payments'[o].line \in Line
                   /\ items'[payments'[o].line[1]].status = "live"
                   /\ payments'[o].tx # None => tx'[payments'[o].tx].status # "unused"
                   /\ RowsOf(payments[o].line)' = {o}
        <4>1. CASE o = p
          BY <4>1, <2>1, <2>3, <2>4, <2>7 DEF RowsOf
        <4>2. CASE o # p
          <5>1. payments'[o] = payments[o]
            BY <4>2, <2>4
          <5>2. RowsOf(payments[o].line) = {o} /\ payments[o].line # line
            BY <3>1, <5>1, <4>2, <2>7 DEF ReferencesResolve
          <5>3. RowsOf(payments[o].line)' = {o}
            BY <5>1, <5>2, <2>3, <2>4 DEF RowsOf
          <5> QED
            BY <3>1, <5>1, <5>3 DEF ReferencesResolve
        <4> QED
          BY <4>1, <4>2
      <3> QED
        BY <3>1 DEF ReferencesResolve
    <2>9. RowsAge
      BY <2>2, <2>3, <2>4 DEF RowsAge
    <2> QED
      BY <2>5, <2>6, <2>8, <2>9
  <1> QED
    BY <1>1, <1>2

\* A loaded row that is still there is ticked or linked, and stays on its line.
LEMMA UpdateKeeps ==
    ASSUME IInv, NEW q \in InFlight, q.ask.kind \in {"mark_paid", "link"}, q.row # None,
           q.ask.kind # "mark_paid", tx[q.ask.tx].status # "unused",
           (q.seen.tx # None) # q.seen.ticked,
           q.seen.tx # None => payments[q.row].tx # None,
           payments[q.row].status = "live",
           payments' = [payments EXCEPT ![q.row] = Updated(q.row, q)],
           UNCHANGED <<items, loans, tx>>
    PROVE  /\ payments' \in [Payment -> PaymentRow]
           /\ ReferencesResolve' /\ OneStatus' /\ RowsAge
  <1> USE DEF IInv
  <1> DEFINE p == q.row
             new == Updated(p, q)
  <1>1. /\ p \in Payment
        /\ q.ask.tx \in Tx /\ q.ask.tx # None
    BY PlanningAssumption DEF InFlight, Ask
  <1>2. /\ new \in PaymentRow
        /\ new.status = payments[p].status
        /\ new.line = payments[p].line
        /\ new.tx \in {q.ask.tx, payments[p].tx}
        /\ q.seen.tx # q.ask.tx => new.tx = q.ask.tx
        /\ new.ticked = (payments[p].ticked /\ ~q.seen.ticked)
    BY UpdatedFields
  <1> HIDE DEF new
  <1>3. payments'[p] = new /\ \A o \in Payment \ {p} : payments'[o] = payments[o]
    BY <1>1 DEF TypeOK, new
  <1>4. payments' \in [Payment -> PaymentRow]
    BY <1>1, <1>2 DEF TypeOK, new
  <1>5. new.tx # None /\ ~new.ticked
    <2>1. (payments[p].tx # None) # payments[p].ticked
      BY <1>1 DEF OneStatus
    <2>2. payments[p].ticked \in BOOLEAN /\ q.seen.ticked \in BOOLEAN
      BY <1>1 DEF TypeOK, PaymentRow, InFlight
    <2>3. CASE q.seen.ticked
      BY <2>2, <2>3, <1>1, <1>2
    <2>4. CASE ~q.seen.ticked
      BY <2>1, <2>2, <2>4, <1>1, <1>2
    <2> QED
      BY <2>3, <2>4
  <1>6. OneStatus'
    BY <1>3, <1>5 DEF OneStatus
  <1>7. RowsAge
    BY <1>2, <1>3, <1>5 DEF RowsAge
  <1>8. \A l : RowsOf(l)' = RowsOf(l)
    BY <1>2, <1>3 DEF RowsOf
  <1>9. ReferencesResolve'
    <2>1. ASSUME NEW o \in Payment, payments'[o].status = "live"
          PROVE  /\ payments'[o].line = payments[o].line /\ payments[o].status = "live"
                 /\ payments'[o].tx # None => tx[payments'[o].tx].status # "unused"
      <3>1. CASE o = p
        BY <3>1, <1>1, <1>2, <1>3 DEF ReferencesResolve
      <3>2. CASE o # p
        BY <3>2, <2>1, <1>3 DEF ReferencesResolve
      <3> QED
        BY <3>1, <3>2
    <2> QED
      BY <2>1, <1>8 DEF ReferencesResolve
  <1> QED
    BY <1>4, <1>6, <1>7, <1>9

\* Rows that go leave the others as they are.
LEMMA RemovalKeeps ==
    ASSUME IInv, NEW S \in SUBSET Payment,
           \A p \in S : payments[p].status # "unused",
           payments' = [p \in Payment |-> IF p \in S THEN GonePayment ELSE payments[p]],
           UNCHANGED <<loans, tx>>,
           \A i \in Item : items'[i].loan # None => items'[i] = items[i],
           \A p \in Payment \ S : payments[p].status = "live" =>
               items'[payments[p].line[1]] = items[payments[p].line[1]]
    PROVE  /\ payments' \in [Payment -> PaymentRow]
           /\ ReferencesResolve' /\ OneStatus' /\ RowsAge
  <1> USE DEF IInv
  <1>1. GonePayment \in PaymentRow /\ GonePayment.status = "gone"
    BY DEF GonePayment, NoPayment, PaymentRow, Status
  <1>2. \A p \in S : payments'[p] = GonePayment
    OBVIOUS
  <1>3. \A p \in Payment \ S : payments'[p] = payments[p]
    OBVIOUS
  <1>4. payments' \in [Payment -> PaymentRow]
    BY <1>1 DEF TypeOK
  <1>5. OneStatus'
    BY <1>1, <1>2, <1>3 DEF OneStatus
  <1>6. RowsAge
    BY <1>1, <1>2, <1>3 DEF RowsAge
  <1>7. ReferencesResolve'
    <2>1. ASSUME NEW p \in Payment, payments'[p].status = "live"
          PROVE  /\ payments'[p].line \in Line
                 /\ items'[payments'[p].line[1]].status = "live"
                 /\ payments'[p].tx # None => tx'[payments'[p].tx].status # "unused"
                 /\ RowsOf(payments[p].line)' = {p}
      <3>1. p \in Payment \ S /\ payments'[p] = payments[p]
        BY <2>1, <1>1, <1>2, <1>3
      <3>2. RowsOf(payments[p].line) = {p}
        BY <2>1, <3>1 DEF ReferencesResolve
      <3>3. RowsOf(payments[p].line)' \subseteq RowsOf(payments[p].line)
        BY <1>1, <1>2, <1>3, <3>1 DEF RowsOf
      <3>4. p \in RowsOf(payments[p].line)'
        BY <2>1 DEF RowsOf
      <3>5. RowsOf(payments[p].line)' = {p}
        BY <3>2, <3>3, <3>4
      <3> QED
        BY <2>1, <3>1, <3>5 DEF ReferencesResolve
    <2> QED
      BY <2>1 DEF ReferencesResolve
  <1> QED
    BY <1>4, <1>5, <1>6, <1>7

-----------------------------------------------------------------------------
\* Whatever a request writes when it commits, however stale what it loaded is.
LEMMA CommitKeeps ==
    ASSUME IInv, NEW r \in Request, Commit(r)
    PROVE  IInv' /\ RowsAge
  <1> USE DEF IInv
  <1> DEFINE q == request[r]
  <1>1. /\ q # Idle
        /\ request' = [request EXCEPT ![r] = Idle]
        /\ UNCHANGED <<items, loans>>
    BY DEF Commit
  <1>2. q \in InFlight /\ q.ask \in Ask
    BY <1>1 DEF TypeOK, InFlight
  <1>3. \A s \in Request : request'[s] \in {request[s], Idle}
    BY <1>1 DEF TypeOK
  <1>4. request' \in [Request -> InFlight \cup {Idle}]
    BY <1>1 DEF TypeOK
  <1>5. /\ q.ask.kind = "mark_paid" => q.row = None
        /\ q.ask.kind \in {"link", "pay", "unpay"} => tx[q.ask.tx].status # "unused"
        /\ q.row # None => /\ payments[q.row].status # "unused"
                           /\ (q.seen.tx # None) # q.seen.ticked
                           /\ payments[q.row].status = "live" =>
                                (q.seen.tx # None => payments[q.row].tx # None)
    BY <1>1 DEF RequestsSound
  <1>6. /\ payments' \in [Payment -> PaymentRow] /\ tx' \in [Tx -> TxRow]
        /\ ReferencesResolve' /\ OneStatus' /\ RowsAge
    <2>1. CASE q.ask.kind \in {"mark_paid", "link"} /\ Upsert(q)
      <3>1. UNCHANGED <<items, loans, tx>>
        BY <1>1, <2>1 DEF Upsert
      <3>2. /\ q.ask.line \in Line /\ q.ask.tx \in Tx \cup {None}
            /\ q.ask.tx # None => tx[q.ask.tx].status # "unused"
        BY <1>2, <1>5, <2>1 DEF Ask
      <3>3. CASE q.row = None
        <4>1. InsertPayment(q.ask.line, q.ask.tx)
          BY <2>1, <3>3 DEF Upsert
        <4> QED
          BY <4>1, <3>1, <3>2, InsertKeeps DEF TypeOK
      <3>4. CASE q.row # None /\ payments[q.row].status = "live"
        <4>1. payments' = [payments EXCEPT ![q.row] = Updated(q.row, q)]
          BY <2>1, <3>4 DEF Upsert
        <4> HIDE DEF q
        <4> QED
          BY <4>1, <1>2, <1>5, <2>1, <3>1, <3>2, <3>4, UpdateKeeps DEF TypeOK
      <3>5. CASE q.row # None /\ payments[q.row].status # "live"
        <4>1. UNCHANGED payments
          BY <2>1, <3>5 DEF Upsert
        <4> QED
          BY <4>1, <3>1 DEF TypeOK, ReferencesResolve, OneStatus, RowsOf, RowsAge
      <3> QED
        BY <3>3, <3>4, <3>5
    <2>2. CASE q.ask.kind \in {"mark_unpaid", "unlink"} /\ Remove(q)
      <3> DEFINE S == {p \in Payment : p = q.row /\ q.row # None}
      <3>1. payments' = [p \in Payment |-> IF p \in S THEN GonePayment ELSE payments[p]]
        BY <2>2, PlanningAssumption DEF Remove, TypeOK
      <3>2. UNCHANGED <<items, loans, tx>>
        BY <1>1, <2>2 DEF Remove
      <3>3. \A p \in S : payments[p].status # "unused"
        BY <1>5
      <3>4. S \in SUBSET Payment
        OBVIOUS
      <3> HIDE DEF S
      <3> QED
        BY <3>1, <3>2, <3>3, <3>4, RemovalKeeps DEF TypeOK
    <2>3. CASE q.ask.kind \in {"pay", "unpay"} /\ Pin(q)
      <3>1. UNCHANGED <<items, loans, payments>>
        BY <1>1, <2>3 DEF Pin
      <3>2. CASE UNCHANGED tx
        BY <3>1, <3>2 DEF TypeOK, ReferencesResolve, OneStatus, RowsOf, RowsAge
      <3>3. CASE tx' # tx
        <4>1. /\ q.ask.tx \in Tx /\ q.ask.loan \in Loan \cup {None}
              /\ tx[q.ask.tx].status # "unused"
          BY <1>2, <1>5, <2>3 DEF Ask
        <4>2. /\ tx' = [tx EXCEPT ![q.ask.tx].loan = q.ask.loan]
              /\ q.ask.loan = None \/ loans[q.ask.loan] = "live"
          BY <2>3, <3>3 DEF Pin
        <4>3. tx' \in [Tx -> TxRow]
          BY <4>1, <4>2 DEF TypeOK, TxRow
        <4>4. \A t \in Tx : /\ tx'[t].status = tx[t].status
                            /\ t # q.ask.tx => tx'[t].loan = tx[t].loan
          BY <4>2 DEF TypeOK, TxRow
        <4>5. tx'[q.ask.tx].loan = q.ask.loan
          BY <4>1, <4>2 DEF TypeOK, TxRow
        <4>6. OneStatus' /\ RowsAge
          BY <3>1, <4>4 DEF OneStatus, RowsAge
        <4>7. \A p \in Payment : payments[p].tx \in Tx \cup {None}
          BY DEF TypeOK, PaymentRow
        <4>8. ReferencesResolve'
          BY <3>1, <4>1, <4>2, <4>4, <4>5, <4>7 DEF ReferencesResolve, RowsOf
        <4> QED
          BY <4>3, <4>6, <4>8, <3>1 DEF TypeOK
      <3> QED
        BY <3>2, <3>3
    <2> QED
      BY <2>1, <2>2, <2>3 DEF Commit
  <1>7. TypeOK'
    BY <1>1, <1>4, <1>6 DEF TypeOK
  <1>8. RequestsSound'
    BY <1>3, <1>6, SoundWhileAging
  <1> QED
    BY <1>6, <1>7, <1>8

\* The requests of one step, and what Ledger does to transactions.
LEMMA OthersKeep ==
    ASSUME IInv,
           \/ Restart
           \/ \E i \in Item, n \in Loan \cup {None} : CreateItem(i, n) \/ UpdateItem(i, n)
           \/ \E i \in Item : DeleteItem(i)
           \/ \E n \in Loan : CreateLoan(n) \/ DeleteLoan(n)
           \/ \E t \in Tx : TxArrives(t) \/ TxDeleted(t)
    PROVE  IInv' /\ RowsAge
  <1> USE DEF IInv
  <1>1. request' = request \/ request' = [r \in Request |-> Idle]
    BY DEF Restart, CreateItem, UpdateItem, DeleteItem, CreateLoan, DeleteLoan,
           TxArrives, TxDeleted
  <1>2. /\ \A r \in Request : request'[r] \in {request[r], Idle}
        /\ request' \in [Request -> InFlight \cup {Idle}]
    BY <1>1 DEF TypeOK
  <1>3. SUFFICES /\ items' \in [Item -> ItemRow] /\ loans' \in [Loan -> Status]
                 /\ payments' \in [Payment -> PaymentRow] /\ tx' \in [Tx -> TxRow]
                 /\ ReferencesResolve' /\ OneStatus' /\ RowsAge
    BY <1>2, SoundWhileAging DEF TypeOK
  <1>4. CASE Restart
    BY <1>4 DEF Restart, TypeOK, ReferencesResolve, OneStatus, RowsOf, RowsAge
  <1>5. ASSUME NEW i \in Item, NEW n \in Loan \cup {None}, CreateItem(i, n) \/ UpdateItem(i, n)
        PROVE  <1>3!1
    <2>1. UNCHANGED <<loans, payments, tx>>
      BY <1>5 DEF CreateItem, UpdateItem
    <2>2. /\ items' \in [Item -> ItemRow]
          /\ items'[i].status = "live" /\ items'[i].loan = n
          /\ n # None => loans[n] = "live"
          /\ \A j \in Item \ {i} : items'[j] = items[j]
      BY <1>5 DEF CreateItem, UpdateItem, TypeOK, ItemRow, Status
    <2>3. OneStatus' /\ RowsAge
      BY <2>1 DEF OneStatus, RowsAge
    <2>4. \A p \in Payment : payments[p].status = "live" => payments[p].line[1] \in Item
      BY DEF ReferencesResolve, Line
    <2>5. ReferencesResolve'
      BY <2>1, <2>2, <2>4 DEF ReferencesResolve, RowsOf
    <2> QED
      BY <2>1, <2>2, <2>3, <2>5 DEF TypeOK
  <1>6. ASSUME NEW i \in Item, DeleteItem(i)
        PROVE  <1>3!1
    <2> DEFINE S == {p \in Payment : payments[p].status = "live" /\ payments[p].line[1] = i}
    <2>1. /\ payments' = [p \in Payment |-> IF p \in S THEN GonePayment ELSE payments[p]]
          /\ UNCHANGED <<loans, tx>>
      BY <1>6 DEF DeleteItem
    <2>2. /\ items' \in [Item -> ItemRow]
          /\ items'[i] = [status |-> "gone", loan |-> None]
          /\ \A j \in Item \ {i} : items'[j] = items[j]
      BY <1>6 DEF DeleteItem, TypeOK, ItemRow, Status
    <2>3. /\ S \in SUBSET Payment
          /\ \A p \in S : payments[p].status # "unused"
      OBVIOUS
    <2>4. \A j \in Item : items'[j].loan # None => items'[j] = items[j]
      BY <2>2
    <2>5. \A p \in Payment \ S : payments[p].status = "live" =>
             items'[payments[p].line[1]] = items[payments[p].line[1]]
      BY <2>2 DEF ReferencesResolve, Line
    <2> HIDE DEF S
    <2>6. /\ payments' \in [Payment -> PaymentRow]
          /\ ReferencesResolve' /\ OneStatus' /\ RowsAge
      BY <2>1, <2>3, <2>4, <2>5, RemovalKeeps
    <2> QED
      BY <2>1, <2>2, <2>6 DEF TypeOK
  <1>7. ASSUME NEW n \in Loan, CreateLoan(n) \/ DeleteLoan(n)
        PROVE  <1>3!1
    <2>1. UNCHANGED <<items, payments>>
      BY <1>7 DEF CreateLoan, DeleteLoan
    <2>2. /\ loans' \in [Loan -> Status]
          /\ \A m \in Loan \ {n} : loans'[m] = loans[m]
      BY <1>7 DEF CreateLoan, DeleteLoan, TypeOK, Status
    <2>3. /\ tx' \in [Tx -> TxRow]
          /\ \A t \in Tx : /\ tx'[t].status = tx[t].status
                           /\ tx'[t].loan \in {tx[t].loan, None}
      BY <1>7 DEF CreateLoan, DeleteLoan, Unpinned, TypeOK, TxRow
    <2>4. CASE CreateLoan(n)
      <3>1. loans'[n] = "live"
        BY <2>4 DEF CreateLoan, TypeOK
      <3> QED
        BY <2>1, <2>2, <2>3, <3>1 DEF TypeOK, ReferencesResolve, OneStatus, RowsOf, RowsAge,
           PaymentRow, ItemRow, TxRow
    <2>5. CASE DeleteLoan(n)
      <3>1. /\ \A j \in Item : items[j].loan # n
            /\ \A t \in Tx : tx'[t].loan # n
        BY <2>5, PlanningAssumption DEF DeleteLoan, BackedBy, Unpinned, TypeOK, TxRow
      <3> QED
        BY <2>1, <2>2, <2>3, <3>1 DEF TypeOK, ReferencesResolve, OneStatus, RowsOf, RowsAge,
           PaymentRow, ItemRow, TxRow
    <2> QED
      BY <1>7, <2>4, <2>5
  <1>8. ASSUME NEW t \in Tx, TxArrives(t) \/ TxDeleted(t)
        PROVE  <1>3!1
    <2>1. UNCHANGED <<items, loans, payments>>
      BY <1>8 DEF TxArrives, TxDeleted
    <2>2. /\ tx' \in [Tx -> TxRow]
          /\ \A s \in Tx : /\ tx'[s].loan = tx[s].loan
                           /\ tx[s].status # "unused" => tx'[s].status # "unused"
      BY <1>8 DEF TxArrives, TxDeleted, TypeOK, TxRow, Status
    <2>3. OneStatus' /\ RowsAge
      BY <2>1, <2>2 DEF OneStatus, RowsAge
    <2>4. ReferencesResolve'
      BY <2>1, <2>2 DEF ReferencesResolve, RowsOf, TypeOK, PaymentRow
    <2> QED
      BY <2>1, <2>2, <2>3, <2>4 DEF TypeOK
  <1> QED
    BY <1>4, <1>5, <1>6, <1>7, <1>8

\* The inductive invariant of the plan, under any number of overlapping requests.
THEOREM PlanningInvariant == Spec => []IInv
  <1>1. Init => IInv
    BY InitSound
  <1>2. IInv /\ [Next]_vars => IInv'
    <2> SUFFICES ASSUME IInv, [Next]_vars PROVE IInv'
      OBVIOUS
    <2>1. CASE UNCHANGED vars
      BY <2>1 DEF vars, IInv, TypeOK, ReferencesResolve, OneStatus, RequestsSound, RowsOf
    <2>2. CASE Next
      BY <2>2, LoadKeeps, CommitKeeps, OthersKeep DEF Next
    <2> QED
      BY <2>1, <2>2
  <1> QED
    BY <1>1, <1>2, PTL DEF Spec

\* The tables keep their shape.
THEOREM PlanningTypeCorrect == Spec => []TypeOK
  BY PlanningInvariant, PTL DEF IInv

\* However requests overlap, every reference resolves and a line has one row.
THEOREM ReferencesAlwaysResolve == Spec => []ReferencesResolve
  BY PlanningInvariant, PTL DEF IInv

\* However requests overlap, a payment row is a tick or a link, never both nor
\* neither.
THEOREM RowsKeepOneStatus == Spec => []OneStatus
  BY PlanningInvariant, PTL DEF IInv

\* Both together: what the plan shows of a line is one status of one row that
\* refers to what is there.
THEOREM PlanRowsStaySound == Spec => []PlanRowsSound
  BY PlanningInvariant, PTL DEF IInv, PlanRowsSound

-----------------------------------------------------------------------------
\* A transaction settles no more than before when no row comes to name it and
\* no loan does.
LEMMA SettlesNoMore ==
    ASSUME NEW t \in Tx, ~SettlesTwo(t),
           tx'[t].loan \in {tx[t].loan, None},
           \A p \in Payment : payments'[p].status = "live" /\ payments'[p].tx = t =>
              /\ payments[p].status = "live" /\ payments[p].tx = t
              /\ payments'[p].line = payments[p].line
    PROVE  ~SettlesTwo(t)'
  <1>1. Settles(t)' \subseteq Settles(t)
    BY DEF Settles
  <1> QED
    BY <1>1 DEF SettlesTwo

\* A link by a request that is up to date leaves its transaction on one line.
LEMMA LinkSettlesOne ==
    ASSUME IInv, NEW r \in Request, request[r] # Idle, UpToDate(request[r]),
           request[r].ask.kind = "link", Upsert(request[r])
    PROVE  \A t \in Tx : ~SettlesTwo(t) => ~SettlesTwo(t)'
  <1> USE DEF IInv
  <1> DEFINE q == request[r]
             line == q.ask.line
  <1>1. q \in InFlight
    BY DEF TypeOK
  <1>2. q.ask.tx \in Tx /\ line \in Line
    BY <1>1 DEF InFlight, Ask
  <1>3. /\ tx[q.ask.tx].loan = None
        /\ \A p \in Payment : payments[p].status = "live" /\ payments[p].tx = q.ask.tx =>
              payments[p].line = line
    BY DEF UpToDate, Accepted, MayLink, LinkedElsewhere
  <1>4. tx' = tx
    BY DEF Upsert
  <1>5. \A p \in Payment :
           \/ payments'[p] = payments[p]
           \/ /\ payments'[p].line = line
              /\ payments'[p].tx # q.ask.tx =>
                    /\ payments[p].status = "live"
                    /\ payments'[p].tx = payments[p].tx
                    /\ payments'[p].line = payments[p].line
    <2>1. CASE UNCHANGED payments
      BY <1>1, <2>1
    <2>2. CASE q.row = None /\ payments' # payments
      <3>1. InsertPayment(line, q.ask.tx)
        BY <2>2 DEF Upsert
      <3> QED
        BY <2>2, <3>1 DEF InsertPayment, TypeOK
    <2>3. CASE q.row # None /\ payments' # payments
      <3>1. /\ payments[q.row].status = "live"
            /\ payments' = [payments EXCEPT ![q.row] = Updated(q.row, q)]
        BY <2>3 DEF Upsert
      <3>2. q.row \in Payment
        BY <1>1, <2>3 DEF InFlight
      <3>3. payments[q.row].line = line
        BY <2>3, <3>1 DEF RequestsSound
      <3>4. /\ Updated(q.row, q).line = line
            /\ Updated(q.row, q).tx \in {q.ask.tx, payments[q.row].tx}
        BY <1>1, <2>3, <3>3, UpdatedFields
      <3> QED
        BY <3>1, <3>2, <3>3, <3>4 DEF TypeOK
    <2> QED
      BY <2>1, <2>2, <2>3
  <1>6. ASSUME NEW t \in Tx, ~SettlesTwo(t), t # q.ask.tx
        PROVE  ~SettlesTwo(t)'
    <2>1. \A p \in Payment : payments'[p].status = "live" /\ payments'[p].tx = t =>
              /\ payments[p].status = "live" /\ payments[p].tx = t
              /\ payments'[p].line = payments[p].line
      BY <1>5, <1>6
    <2> QED
      BY <1>4, <1>6, <2>1, SettlesNoMore
  <1>7. ASSUME NEW t \in Tx, t = q.ask.tx
        PROVE  ~SettlesTwo(t)'
    <2>1. \A p \in Payment : payments'[p].status = "live" /\ payments'[p].tx = t =>
              payments'[p].line = line
      BY <1>3, <1>5, <1>7
    <2>2. tx'[t].loan = None
      BY <1>3, <1>4, <1>7
    <2>3. Settles(t)' \subseteq {line}
      BY <2>1, <2>2 DEF Settles
    <2> QED
      BY <2>3 DEF SettlesTwo
  <1> QED
    BY <1>6, <1>7

\* A transaction comes to settle two things only through a commit that pins it
\* to a loan, or whose reading is out of date.
LEMMA SecondUse ==
    ASSUME IInv, [Next]_vars
    PROVE  SecondUseExplained
  <1> SUFFICES ASSUME NEW t \in Tx, SettlesTwo(t)', ~SettlesTwo(t)
               PROVE  \E r \in Request :
                        /\ request[r] # Idle /\ request'[r] = Idle
                        /\ request[r].ask.kind = "pay" \/ ~UpToDate(request[r])
    BY DEF SecondUseExplained
  <1> USE DEF IInv
  <1>1. ASSUME tx'[t].loan \in {tx[t].loan, None},
               \A p \in Payment : payments'[p] \in {payments[p], GonePayment}
        PROVE  FALSE
    BY <1>1, SettlesNoMore DEF GonePayment, NoPayment
  <1>2. CASE UNCHANGED vars
    BY <1>1, <1>2 DEF vars
  <1>3. CASE \E r \in Request, ask \in Ask : Load(r, ask)
    BY <1>1, <1>3 DEF Load
  <1>4. CASE \/ Restart
             \/ \E i \in Item, n \in Loan \cup {None} : CreateItem(i, n) \/ UpdateItem(i, n)
             \/ \E i \in Item : DeleteItem(i)
             \/ \E n \in Loan : CreateLoan(n) \/ DeleteLoan(n)
             \/ \E s \in Tx : TxArrives(s) \/ TxDeleted(s)
    <2>1. \A p \in Payment : payments'[p] \in {payments[p], GonePayment}
      BY <1>4 DEF Restart, CreateItem, UpdateItem, DeleteItem, CreateLoan, DeleteLoan,
         TxArrives, TxDeleted
    <2>2. tx'[t].loan \in {tx[t].loan, None}
      BY <1>4 DEF Restart, CreateItem, UpdateItem, DeleteItem, CreateLoan, DeleteLoan,
         TxArrives, TxDeleted, Unpinned, TypeOK, TxRow
    <2> QED
      BY <1>1, <2>1, <2>2
  <1>5. ASSUME NEW r \in Request, Commit(r)
        PROVE  /\ request[r] # Idle /\ request'[r] = Idle
               /\ request[r].ask.kind = "pay" \/ ~UpToDate(request[r])
    <2> DEFINE q == request[r]
    <2>1. q # Idle /\ request'[r] = Idle
      BY <1>5 DEF Commit, TypeOK
    <2>2. q \in InFlight
      BY <2>1 DEF TypeOK
    <2> SUFFICES ASSUME q.ask.kind # "pay", UpToDate(q) PROVE FALSE
      BY <2>1
    <2>3. CASE q.ask.kind = "link"
      BY <1>5, <2>1, <2>3, LinkSettlesOne DEF Commit
    <2>4. CASE q.ask.kind = "mark_paid"
      <3>1. q.row = None /\ q.ask.tx = None /\ q.ask.line \in Line
        BY <2>1, <2>2, <2>4 DEF RequestsSound, InFlight, Ask
      <3>2. InsertPayment(q.ask.line, None) /\ UNCHANGED tx
        BY <1>5, <2>4, <3>1 DEF Commit, Upsert
      <3>3. \A p \in Payment : payments'[p] = payments[p] \/ payments'[p].tx = None
        BY <3>2 DEF InsertPayment, TypeOK
      <3> QED
        BY <3>2, <3>3, SettlesNoMore, PlanningAssumption
    <2>5. CASE q.ask.kind \in {"mark_unpaid", "unlink"}
      <3>1. Remove(q)
        BY <1>5, <2>5 DEF Commit
      <3> QED
        BY <1>1, <3>1 DEF Remove, TypeOK
    <2>6. CASE q.ask.kind = "unpay"
      <3>1. Pin(q) /\ q.ask.loan = None
        BY <1>5, <2>2, <2>6 DEF Commit, InFlight, Ask
      <3>2. tx'[t].loan \in {tx[t].loan, None}
        BY <3>1 DEF Pin, TypeOK, TxRow
      <3> QED
        BY <1>1, <3>1, <3>2 DEF Pin
    <2> QED
      BY <1>5, <2>3, <2>4, <2>5, <2>6 DEF Commit
  <1> QED
    BY <1>2, <1>3, <1>4, <1>5 DEF Next

\* No transaction comes to settle two things, except by being pinned to a loan
\* after it was linked, or through a request another one overtook.
THEOREM TransactionsSettleOnce == Spec => SettlesOnce
  <1>1. IInv /\ [Next]_vars => [SecondUseExplained]_vars
    BY SecondUse
  <1> QED
    BY <1>1, PlanningInvariant, PTL DEF Spec, SettlesOnce
=============================================================================
