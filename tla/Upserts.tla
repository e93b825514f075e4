------------------------------- MODULE Upserts -------------------------------
(***************************************************************************)
(* The writes that look for a row first, then change it or add one: a      *)
(* budget, a verdict on a subscription, the positions of a portfolio, the  *)
(* Transfer category, the batch of the manual entries; and the category of *)
(* a transaction, which a member and a run of the LLM may both set.        *)
(*                                                                         *)
(* Each has a database session of its own at READ COMMITTED, so each is    *)
(* two steps: Load, where it reads, and Commit, where it adds the rows it  *)
(* did not find and changes, in those it did, the values that differ from  *)
(* what it read.  One failing statement undoes the whole commit.  The      *)
(* deletion of a manual entry loads twice: the entry, which its session    *)
(* then keeps, and later the batch.                                        *)
(*                                                                         *)
(* A row is known by its key and by the request that added it.             *)
(*                                                                         *)
(* Abstracted: of a position, all but its value; of a transaction, all but *)
(* its category and, for a manual entry, its batch; who may see what (see  *)
(* Figures); limits that do not parse; members and categories that go      *)
(* away while a request is under way, and the rows a departing member      *)
(* takes along (see Members and Ledger).                                   *)
(***************************************************************************)
EXTENDS Integers, FiniteSets

CONSTANTS
    Request,  \* each is made once (bounds the run)
    Member, Category, Month, Merchant, Portfolio, Ticker, Day, Tx,
    Limit, Verdict, Worth,  \* what a budget, a verdict and a position hold
    Uncategorized,
    TransferCategory,
    Before, \* who added what was there: the transactions, a manual entry
    None    \* SQL NULL, or no row

VARIABLES
    table,    \* the value of each row, by its key and who added it
    entries,  \* of each manual entry, by who made it, the batch; None if deleted
    request,  \* the requests in flight
    raced,    \* auxiliary: a request wrote the key while another went by it
    asked     \* auxiliary: what was last asked for the key, and not refused

vars == <<table, entries, request, raced, asked>>

-----------------------------------------------------------------------------
\* The owner of a household budget and the month of a recurring one are NULL.
BudgetKey == {"budget"} \X Category \X (Month \cup {None}) \X (Member \cup {None})
VerdictKey == {"verdict"} \X Merchant
PositionKey == {"position"} \X Portfolio \X Ticker \X Day
CategoryKey == {"category"} \X Tx
TransferKey == <<"transfer">>
ManualKey == <<"manual">>

Key == BudgetKey \cup VerdictKey \cup PositionKey \cup CategoryKey
           \cup {TransferKey, ManualKey}

\* The keys a unique constraint covers: NULLs are distinct.
UniqueKey == VerdictKey \cup PositionKey
                 \cup {k \in BudgetKey : k[3] # None /\ k[4] # None}

Value == Nat \cup Verdict \cup Category \cup {Uncategorized, TransferCategory}

ASSUME UpsertsAssumption ==
    /\ Limit \subseteq Nat /\ Worth \subseteq Nat
    /\ None \notin Value \cup Request \cup {Before}
    /\ Before \notin Request
    /\ IsFiniteSet(Request)

Inserter == Request \cup {Before}

Single(k, value) == [key \in {k} |-> value]

\* What a request under way found for each key it looked up, and means to leave.
Waiting == [kind |-> "waiting", row |-> <<>>, seen |-> <<>>, ask |-> <<>>, entry |-> None]
Over == [Waiting EXCEPT !.kind = "over"]

\* A deletion that has its entry e, booked on i, and not yet the batch.
Finding(e, i) ==
    [Waiting EXCEPT !.kind = "find", !.row = Single(ManualKey, i), !.entry = e]

Kind == {"set", "clear", "run", "create", "remove"}
UnderWay(r) == request[r].kind \in Kind

WellFormed(q) ==
    \/ q \in {Waiting, Over}
    \/ \E e, i \in Inserter : q = Finding(e, i)
    \/ /\ DOMAIN q = DOMAIN Waiting /\ q.kind \in Kind
       /\ DOMAIN q.row \in SUBSET Key /\ DOMAIN q.ask \in SUBSET DOMAIN q.row
       /\ q.row \in [DOMAIN q.row -> Inserter \cup {None}]
       /\ q.seen \in [DOMAIN q.row -> Value \cup {None}]
       /\ q.ask \in [DOMAIN q.ask -> Value]
       /\ q.entry \in Inserter \cup {None}

TypeOK ==
    /\ table \in [Key -> [Inserter -> Value \cup {None}]]
    /\ \A i \in Inserter : table[ManualKey][i] \in Nat \cup {None}
    /\ entries \in [Inserter -> Inserter \cup {None}]
    /\ raced \in [Key -> BOOLEAN]
    /\ asked \in [Key -> Value \cup {None}]
    /\ DOMAIN request = Request
    /\ \A r \in Request : WellFormed(request[r])

Init ==
    /\ \E batch \in {None, Before} :
          LET first == [k \in Key |-> IF k \in CategoryKey THEN Uncategorized
                                     ELSE IF k = ManualKey /\ batch # None THEN 1 ELSE None]
          IN  /\ table = [k \in Key |-> [i \in Inserter |-> IF i = Before THEN first[k] ELSE None]]
              /\ entries = [e \in Inserter |-> IF e = Before THEN batch ELSE None]
              /\ asked = first
    /\ request = [r \in Request |-> Waiting]
    /\ raced = [k \in Key |-> FALSE]

Rows(k) == {i \in Inserter : table[k][i] # None}

-----------------------------------------------------------------------------
(* Load: what each request looks up                                        *)

\* Mutant: NULL is looked up with =, which finds no row.
RowsByEquality(k) ==
    IF k \in BudgetKey /\ (k[3] = None \/ k[4] = None) THEN {} ELSE Rows(k)

\* Mutant: the positions are looked up under another day than the snapshot's.
RowsOfAnotherDay(k) == IF k \in PositionKey THEN {} ELSE Rows(k)

\* The row found for a key: of several, whichever the database returns first.
Found(k) == Rows(k)

Chosen(k) == IF Found(k) = {} THEN {None} ELSE Found(k)

ValueAt(k, i) == IF i = None THEN None ELSE table[k][i]

\* Under way, having read `row`.
Loads(r, kind, row, ask, entry) ==
    /\ request' = [request EXCEPT ![r] =
          [kind |-> kind, row |-> row, seen |-> [k \in DOMAIN row |-> ValueAt(k, row[k])],
           ask |-> ask, entry |-> entry]]
    /\ UNCHANGED <<table, entries, raced, asked>>

Reads(r, kind, row, ask, entry) == request[r] = Waiting /\ Loads(r, kind, row, ask, entry)

Upsert(r, ask) ==
    \E row \in [DOMAIN ask -> Inserter \cup {None}] :
        /\ \A k \in DOMAIN ask : row[k] \in Chosen(k)
        /\ Reads(r, "set", row, ask, None)

Delete(r, k, i) == Reads(r, "clear", Single(k, i), <<>>, None)

SetBudget(r, slot, limit) == Upsert(r, Single(slot, limit))

\* By its id.
DeleteBudget(r, slot, i) == i \in Rows(slot) /\ Delete(r, slot, i)

SetVerdict(r, key, verdict) == Upsert(r, Single(key, verdict))

ClearVerdict(r, key) == \E i \in Found(key) : Delete(r, key, i)

\* A day's snapshot of a portfolio.
ImportPositions(r, portfolio, day, worth) ==
    Upsert(r, [k \in {<<"position", portfolio, ticker, day>> : ticker \in DOMAIN worth} |->
                  worth[k[3]]])

\* As the first part of linking a transfer; one that is found is not changed.
EnsureTransferCategory(r) == Upsert(r, Single(TransferKey, TransferCategory))

SetCategory(r, t, category) == Upsert(r, Single(<<"category", t>>, category))

\* Mutant: an entry is booked on the batch without being counted.
CountLeft(r) ==
    \E i \in Chosen(ManualKey) :
        LET count == IF i = None THEN 0 ELSE table[ManualKey][i]
        IN  Reads(r, "create", Single(ManualKey, i), Single(ManualKey, count), r)

\* An entry is counted on the batch it is booked on.
CreateManual(r) ==
    \E i \in Chosen(ManualKey) :
        LET count == IF i = None THEN 0 ELSE table[ManualKey][i]
        IN  Reads(r, "create", Single(ManualKey, i), Single(ManualKey, count + 1), r)

\* get_transaction: the row stays in the session as it was read.
FindManual(r, e) ==
    /\ request[r] = Waiting
    /\ entries[e] # None
    /\ request' = [request EXCEPT ![r] = Finding(e, entries[e])]
    /\ UNCHANGED <<table, entries, raced, asked>>

\* is_manual_entry and soft_delete_transaction: the batch as it is by now.  The
\* entry is not looked at again, another request may have deleted it.
DeleteManual(r) ==
    /\ request[r].kind = "find"
    /\ LET i == request[r].row[ManualKey]
           count == table[ManualKey][i]
       IN  /\ count # None
           /\ Loads(r, "remove", Single(ManualKey, i),
                    Single(ManualKey, IF count > 0 THEN count - 1 ELSE 0), request[r].entry)

\* Mutant: a run takes up every transaction.
AllOfThem == {k \in CategoryKey : Rows(k) # {}}

\* classification_candidates, which also leaves out a transaction whose category
\* a member cleared: here a run takes those up too.
Candidates == {k \in CategoryKey : table[k][Before] = Uncategorized}

StartRun(r) ==
    /\ Candidates # {}
    /\ Reads(r, "run", [k \in Candidates |-> Before], <<>>, None)

\* Mutant: the category the LLM names is taken as it is.
AnswerTaken(r, k, category) ==
    /\ request[r].kind = "run"
    /\ k \in DOMAIN request[r].row \ DOMAIN request[r].ask
    /\ request' = [request EXCEPT ![r].ask =
                      [c \in DOMAIN request[r].ask \cup {k} |->
                          IF c = k THEN category ELSE request[r].ask[c]]]
    /\ UNCHANGED <<table, entries, raced, asked>>

\* The LLM names a category for one of the run's transactions; an answer that
\* is none of them, or not confident, leaves the transaction out.
Answer(r, k, category) ==
    /\ request[r].kind = "run"
    /\ k \in DOMAIN request[r].row \ DOMAIN request[r].ask
    /\ category \in Category
    /\ request' = [request EXCEPT ![r].ask =
                      [c \in DOMAIN request[r].ask \cup {k} |->
                          IF c = k THEN category ELSE request[r].ask[c]]]
    /\ UNCHANGED <<table, entries, raced, asked>>

-----------------------------------------------------------------------------
(* Commit: what each request writes                                        *)

Refused(r) ==
    LET q == request[r]
    IN  \E k \in DOMAIN q.ask :
            IF q.row[k] = None THEN k \in UniqueKey /\ Rows(k) # {}
            ELSE table[k][q.row[k]] = None

\* The row the value goes to, the one found or a new one.
Target(r, k) == IF request[r].row[k] = None THEN r ELSE request[r].row[k]

Written(r, k) ==
    LET q == request[r]
    IN  IF q.ask[k] = q.seen[k] THEN table[k]
        ELSE [table[k] EXCEPT ![Target(r, k)] = q.ask[k]]

\* Another request goes by what this one changes: it read a row of k and may write
\* it later, or it is about to delete the entry this one deletes.
GoesBy(o, k, r) ==
    \/ UnderWay(o) /\ k \in DOMAIN request[o].row
    \/ /\ k = ManualKey /\ request[r].kind = "remove"
       /\ request[o].kind = "find" /\ request[o].entry = request[r].entry

Races(r, keys) ==
    raced' = [k \in Key |->
                 raced[k] \/ (k \in keys /\ \E o \in Request \ {r} : GoesBy(o, k, r))]

\* Also where a run is cut short by the LLM: what it got so far is kept.
Commit(r) ==
    LET q == request[r]
    IN  /\ q.kind \in Kind \ {"clear"}
        /\ ~Refused(r)
        /\ table' = [k \in Key |-> IF k \in DOMAIN q.ask THEN Written(r, k) ELSE table[k]]
        /\ entries' = IF q.entry = None THEN entries
                      ELSE [entries EXCEPT ![q.entry] =
                               IF q.kind = "create" THEN Target(r, ManualKey) ELSE None]
        /\ asked' = [k \in Key |-> IF k \in DOMAIN q.ask THEN q.ask[k] ELSE asked[k]]
        /\ Races(r, DOMAIN q.ask)
        /\ request' = [request EXCEPT ![r] = Over]

\* Deleting a row that is gone does nothing.
CommitClear(r) ==
    LET q == request[r]
    IN  /\ q.kind = "clear"
        /\ table' = [k \in Key |-> IF k \in DOMAIN q.row
                                   THEN [table[k] EXCEPT ![q.row[k]] = None] ELSE table[k]]
        /\ asked' = [k \in Key |-> IF k \in DOMAIN q.row THEN None ELSE asked[k]]
        /\ Races(r, DOMAIN q.row)
        /\ request' = [request EXCEPT ![r] = Over]
        /\ UNCHANGED entries

\* The constraint is violated, or the row to update is gone.
Fail(r) ==
    /\ request[r].kind \in Kind \ {"clear"} /\ Refused(r)
    /\ request' = [request EXCEPT ![r] = Over]
    /\ UNCHANGED <<table, entries, raced, asked>>

Next ==
    \E r \in Request :
        \/ \E slot \in BudgetKey :
              \/ \E limit \in Limit : SetBudget(r, slot, limit)
              \/ \E i \in Inserter : DeleteBudget(r, slot, i)
        \/ \E key \in VerdictKey :
              \/ \E verdict \in Verdict : SetVerdict(r, key, verdict)
              \/ ClearVerdict(r, key)
        \/ \E portfolio \in Portfolio, day \in Day, S \in SUBSET Ticker :
              \E worth \in [S -> Worth] : ImportPositions(r, portfolio, day, worth)
        \/ EnsureTransferCategory(r)
        \/ \E t \in Tx, c \in Category \cup {Uncategorized} : SetCategory(r, t, c)
        \/ CreateManual(r)
        \/ \E e \in Inserter : FindManual(r, e)
        \/ DeleteManual(r)
        \/ StartRun(r)
        \/ \E k \in CategoryKey, c \in Category \cup {None} : Answer(r, k, c)
        \/ Commit(r) \/ CommitClear(r) \/ Fail(r)

Spec == Init /\ [][Next]_vars

-----------------------------------------------------------------------------
(* Properties                                                              *)

\* As long as no request wrote a key behind another's back, the key has one row
\* and the row holds what was last asked: budgets are not doubled and the limit
\* shown is the one set, whichever columns are NULL (budgets.py, set_budget);
\* a day's snapshot is the latest one imported (positions.py, import_positions);
\* the Transfer category is single.
AsAsked ==
    \A k \in Key : ~raced[k] =>
        IF asked[k] = None THEN Rows(k) = {}
        ELSE \E i \in Inserter : Rows(k) = {i} /\ table[k][i] = asked[k]

\* The batch of the manual entries counts those booked on it that are not deleted,
\* what the imports page shows (transactions.py, create_manual_transaction,
\* soft_delete_transaction), unless two requests wrote it from one reading or two
\* of them deleted the same entry.  A departing member's entries, which are
\* deleted and stay counted (users.py, delete_user), are Ledger's exception.
CountInStep ==
    ~raced[ManualKey] =>
        \A i \in Rows(ManualKey) :
            table[ManualKey][i] = Cardinality({e \in Inserter : entries[e] = i})

\* A request is refused only where another wrote a key behind its back.
RefusedAfterRace ==
    \A r \in Request :
        UnderWay(r) /\ Refused(r) => \E k \in DOMAIN request[r].ask : raced[k]

\* Only a category a member set while the run was asking is written over: a
\* run, however long it takes, leaves those set before it alone (llm.py,
\* classify_llm).
RunYields ==
    [][\A r \in Request, k \in CategoryKey :
          /\ request[r].kind = "run" /\ k \in DOMAIN request[r].ask
          /\ request'[r] = Over
          /\ table[k][Before] # Uncategorized
          => raced[k]]_vars
=============================================================================
