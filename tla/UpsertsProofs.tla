---------------------------- MODULE UpsertsProofs ----------------------------
(***************************************************************************)
(* Proofs about module Upserts, for any tables and any finite number of    *)
(* overlapping requests: what goes wrong goes wrong by a race only.        *)
(*                                                                         *)
(* The inductive invariant says what a request under way may rely on: what *)
(* it read of a key still holds, unless another wrote the key meanwhile.   *)
(***************************************************************************)
EXTENDS Upserts, FiniteSetTheorems, TLAPS

\* What was read of a key nobody raced for is what is there.
UpToDate(r) ==
    UnderWay(r) => \A k \in DOMAIN request[r].row :
        /\ request[r].row[k] = None => request[r].seen[k] = None
        /\ ~raced[k] =>
              IF request[r].row[k] = None THEN Rows(k) = {}
              ELSE /\ Rows(k) = {request[r].row[k]}
                   /\ table[k][request[r].row[k]] = request[r].seen[k]

Others(q) ==
    /\ q.kind \in {"set", "clear", "run"} => q.entry = None /\ ManualKey \notin DOMAIN q.row
    /\ q.kind = "run" => \A k \in DOMAIN q.row : q.row[k] = Before /\ q.seen[k] = Uncategorized

Counting(r, q) ==
    /\ q.kind \in {"create", "remove"} =>
          /\ DOMAIN q.row = {ManualKey} /\ DOMAIN q.ask = {ManualKey}
          /\ q.entry \in Inserter /\ q.ask[ManualKey] \in Nat
    /\ q.kind = "create" =>
          /\ q.entry = r
          /\ q.ask[ManualKey] = IF q.row[ManualKey] = None THEN 1 ELSE q.seen[ManualKey] + 1
    /\ q.kind = "remove" =>
          /\ q.row[ManualKey] # None
          /\ ~raced[ManualKey] => /\ entries[q.entry] = q.row[ManualKey]
                                  /\ q.ask[ManualKey] = q.seen[ManualKey] - 1
    /\ q.kind = "find" =>
          /\ DOMAIN q.row = {ManualKey} /\ q.row[ManualKey] \in Inserter /\ q.entry \in Inserter
          /\ ~raced[ManualKey] => entries[q.entry] = q.row[ManualKey]
    /\ q.kind # "over" => entries[r] = None

Booked == \A e \in Inserter : entries[e] # None => table[ManualKey][entries[e]] # None

IInv ==
    /\ TypeOK /\ AsAsked /\ CountInStep /\ Booked
    /\ \A r \in Request :
          UpToDate(r) /\ Others(request[r]) /\ Counting(r, request[r])

-----------------------------------------------------------------------------
LEMMA Distinct ==
    /\ ManualKey \in Key /\ TransferKey \in Key /\ ManualKey # TransferKey
    /\ ManualKey \notin BudgetKey \cup VerdictKey \cup PositionKey \cup CategoryKey
    /\ BudgetKey \cup VerdictKey \cup PositionKey \cup CategoryKey \subseteq Key
    /\ None \notin Value /\ None \notin Request /\ None # Before /\ Before \notin Request
    /\ None \notin Nat /\ None \notin Inserter
<1>1. ManualKey[1] = "manual" /\ TransferKey[1] = "transfer"
  BY DEF ManualKey, TransferKey
<1>2. /\ \A k \in BudgetKey : k[1] = "budget"
      /\ \A k \in VerdictKey : k[1] = "verdict"
      /\ \A k \in PositionKey : k[1] = "position"
      /\ \A k \in CategoryKey : k[1] = "category"
  BY DEF BudgetKey, VerdictKey, PositionKey, CategoryKey
<1>3. None \notin Value /\ None \notin Request /\ None # Before /\ Before \notin Request
  BY UpsertsAssumption
<1>4. None \notin Nat /\ None \notin Inserter
  BY <1>3 DEF Value, Inserter
<1>5. ManualKey \in Key /\ TransferKey \in Key
      /\ BudgetKey \cup VerdictKey \cup PositionKey \cup CategoryKey \subseteq Key
  BY DEF Key
<1>6. ManualKey # TransferKey
  BY <1>1
<1>7. ManualKey \notin BudgetKey \cup VerdictKey \cup PositionKey \cup CategoryKey
  BY <1>1, <1>2
<1> QED
  BY <1>3, <1>4, <1>5, <1>6, <1>7

LEMMA NotUnderWay ==
    /\ Waiting.kind = "waiting" /\ Over.kind = "over"
    /\ \A r : request[r] \in {Waiting, Over} => ~UnderWay(r)
BY DEF Waiting, Over, UnderWay, Kind

LEMMA OverWellFormed == WellFormed(Waiting) /\ WellFormed(Over)
BY DEF WellFormed

LEMMA FindingRecord ==
    ASSUME NEW e, NEW i
    PROVE  /\ Finding(e, i).kind = "find" /\ Finding(e, i).entry = e
           /\ DOMAIN Finding(e, i).row = {ManualKey} /\ Finding(e, i).row[ManualKey] = i
BY DEF Finding, Waiting, Single

LEMMA InitIInv == Init => IInv
<1> SUFFICES ASSUME Init PROVE IInv
  OBVIOUS
<1> USE DEF Init
<1> DEFINE First(batch) ==
              [k \in Key |-> IF k \in CategoryKey THEN Uncategorized
                             ELSE IF k = ManualKey /\ batch # None THEN 1 ELSE None]
<1>0. PICK batch \in {None, Before} :
         /\ table = [k \in Key |-> [i \in Inserter |-> IF i = Before THEN First(batch)[k] ELSE None]]
         /\ entries = [e \in Inserter |-> IF e = Before THEN batch ELSE None]
         /\ asked = First(batch)
  OBVIOUS
<1>1. ManualKey \notin CategoryKey /\ ManualKey \in Key /\ Before \in Inserter
      /\ Uncategorized # None /\ 1 # None /\ Before # None
  BY Distinct DEF Inserter, Value
<1>a. First(batch) \in [Key -> Value \cup {None}]
      /\ First(batch)[ManualKey] = IF batch = None THEN None ELSE 1
  BY <1>1 DEF Value
<1> HIDE DEF First
<1>2. TypeOK
  <2>1. table \in [Key -> [Inserter -> Value \cup {None}]] /\ asked \in [Key -> Value \cup {None}]
    BY <1>0, <1>a
  <2>2. \A i \in Inserter : table[ManualKey][i] \in Nat \cup {None}
    BY <1>0, <1>1, <1>a
  <2>3. entries \in [Inserter -> Inserter \cup {None}]
    BY <1>0, <1>1
  <2> QED
    BY <2>1, <2>2, <2>3, OverWellFormed DEF TypeOK
<1>3. AsAsked
  <2> SUFFICES ASSUME NEW k \in Key
               PROVE  IF asked[k] = None THEN Rows(k) = {}
                      ELSE \E i \in Inserter : Rows(k) = {i} /\ table[k][i] = asked[k]
    BY DEF AsAsked
  <2>1. asked[k] = First(batch)[k] /\ table[k] = [i \in Inserter |-> IF i = Before THEN asked[k] ELSE None]
    BY <1>0
  <2>2. CASE asked[k] = None
    BY <2>1, <2>2 DEF Rows
  <2>3. CASE asked[k] # None
    <3>1. Rows(k) = {Before} /\ table[k][Before] = asked[k]
      BY <1>1, <2>1, <2>3 DEF Rows
    <3> QED
      BY <1>1, <2>3, <3>1
  <2> QED
    BY <2>2, <2>3
<1>4. CountInStep /\ Booked
  <2>1. CASE batch = None
    BY <1>0, <1>1, <1>a, <2>1, Distinct DEF CountInStep, Booked, Rows
  <2>2. CASE batch = Before
    <3>1. Rows(ManualKey) = {Before} /\ table[ManualKey][Before] = 1
          /\ {e \in Inserter : entries[e] = Before} = {Before}
      BY <1>0, <1>1, <1>a, <2>2, Distinct DEF Rows
    <3>2. Booked
      BY <1>0, <1>1, <2>2, <3>1 DEF Booked
    <3>3. Cardinality({Before}) = 1
      BY FS_Singleton
    <3> QED
      BY <3>1, <3>2, <3>3 DEF CountInStep
  <2> QED
    BY <2>1, <2>2
<1>5. \A r \in Request : UpToDate(r) /\ Others(request[r]) /\ Counting(r, request[r])
  <2>1. \A r \in Request : request[r].kind = "waiting" /\ entries[r] = None
    BY <1>0, NotUnderWay, Distinct DEF Inserter
  <2> QED
    BY <2>1 DEF UpToDate, UnderWay, Kind, Others, Counting
<1> QED
  BY <1>2, <1>3, <1>4, <1>5 DEF IInv

-----------------------------------------------------------------------------
(* Load                                                                    *)

\* A request that reads what is there, and means to write what is a value, is
\* up to date.
LEMMA LoadsIInv ==
    ASSUME IInv, NEW r \in Request, NEW kind \in Kind, NEW row, NEW ask, NEW entry,
           Loads(r, kind, row, ask, entry),
           DOMAIN row \in SUBSET Key, row \in [DOMAIN row -> Inserter \cup {None}],
           DOMAIN ask \in SUBSET DOMAIN row, ask \in [DOMAIN ask -> Value],
           entry \in Inserter \cup {None},
           \A k \in DOMAIN row :
              IF row[k] = None THEN Rows(k) = {} ELSE row[k] \in Rows(k),
           Others(request'[r]), Counting(r, request'[r])
    PROVE  IInv'
<1> DEFINE q == [kind |-> kind, row |-> row,
                 seen |-> [k \in DOMAIN row |-> ValueAt(k, row[k])],
                 ask |-> ask, entry |-> entry]
<1>1. /\ request' = [request EXCEPT ![r] = q] /\ UNCHANGED <<table, entries, raced, asked>>
      /\ DOMAIN request = Request
  BY DEF Loads, IInv, TypeOK
<1>2. request'[r] = q /\ \A o \in Request \ {r} : request'[o] = request[o]
  BY <1>1
<1>3. ASSUME NEW k \in DOMAIN row
      PROVE  /\ q.seen[k] \in Value \cup {None}
             /\ row[k] = None => q.seen[k] = None
             /\ ~raced[k] => IF row[k] = None THEN Rows(k) = {}
                             ELSE Rows(k) = {row[k]} /\ table[k][row[k]] = q.seen[k]
  <2>1. k \in Key /\ q.seen[k] = ValueAt(k, row[k]) /\ row[k] \in Inserter \cup {None}
    OBVIOUS
  <2>2. table[k] \in [Inserter -> Value \cup {None}]
    BY <2>1 DEF IInv, TypeOK
  <2>3. q.seen[k] \in Value \cup {None} /\ (row[k] = None => q.seen[k] = None)
    BY <2>1, <2>2 DEF ValueAt
  <2>4. ASSUME ~raced[k], row[k] # None
        PROVE  Rows(k) = {row[k]} /\ table[k][row[k]] = q.seen[k]
    <3>1. row[k] \in Rows(k)
      BY <2>4
    <3>2. \A i \in Inserter : Rows(k) = {i} => i = row[k]
      BY <3>1
    <3>3. \E i \in Inserter : Rows(k) = {i}
      BY <2>1, <2>4, <3>1 DEF IInv, AsAsked
    <3> QED
      BY <2>1, <2>4, <3>2, <3>3 DEF ValueAt
  <2> QED
    BY <2>3, <2>4
<1> HIDE DEF q
<1>4. q.kind = kind /\ q.row = row /\ q.ask = ask /\ q.entry = entry
      /\ q.seen \in [DOMAIN row -> Value \cup {None}] /\ DOMAIN q = DOMAIN Waiting
  BY <1>3 DEF q, Waiting
<1>5. \A k : Rows(k)' = Rows(k)
  BY <1>1 DEF Rows
<1>a. WellFormed(q)
  BY <1>4 DEF WellFormed
<1>6. TypeOK'
  BY <1>1, <1>2, <1>a DEF IInv, TypeOK
<1>7. AsAsked' /\ CountInStep' /\ Booked'
  BY <1>1, <1>5 DEF IInv, AsAsked, CountInStep, Booked
<1>8. UpToDate(r)'
  BY <1>1, <1>2, <1>3, <1>4, <1>5 DEF UpToDate
<1>9. ASSUME NEW o \in Request \ {r}
      PROVE  UpToDate(o)' /\ Others(request[o])' /\ Counting(o, request[o])'
  BY <1>1, <1>2, <1>5 DEF IInv, UpToDate, UnderWay, Counting, Others
<1>10. Others(request[r])' /\ Counting(r, request[r])'
  BY <1>1 DEF Others, Counting
<1> QED
  BY <1>6, <1>7, <1>8, <1>9, <1>10 DEF IInv

\* A request that waits has booked nothing.
LEMMA WaitingBooksNone ==
    ASSUME IInv, NEW r \in Request, request[r] = Waiting
    PROVE  entries[r] = None
BY NotUnderWay DEF IInv, Counting

LEMMA LoadAs ==
    ASSUME NEW r \in Request, NEW kind, NEW row, NEW ask, NEW entry,
           IInv, Loads(r, kind, row, ask, entry)
    PROVE  request'[r] = [kind |-> kind, row |-> row,
                          seen |-> [k \in DOMAIN row |-> ValueAt(k, row[k])],
                          ask |-> ask, entry |-> entry]
BY DEF Loads, IInv, TypeOK

LEMMA ReadAs ==
    ASSUME NEW r \in Request, NEW kind, NEW row, NEW ask, NEW entry,
           IInv, Reads(r, kind, row, ask, entry)
    PROVE  /\ request'[r] = [kind |-> kind, row |-> row,
                             seen |-> [k \in DOMAIN row |-> ValueAt(k, row[k])],
                             ask |-> ask, entry |-> entry]
           /\ request[r] = Waiting
BY LoadAs DEF Reads

LEMMA UpsertIInv ==
    ASSUME IInv, NEW r \in Request, NEW ask, ask \in [DOMAIN ask -> Value],
           DOMAIN ask \in SUBSET Key, ManualKey \notin DOMAIN ask, Upsert(r, ask)
    PROVE  IInv'
<1>1. PICK row \in [DOMAIN ask -> Inserter \cup {None}] :
          /\ \A k \in DOMAIN ask : row[k] \in Chosen(k)
          /\ Reads(r, "set", row, ask, None)
  BY DEF Upsert
<1>2. DOMAIN row = DOMAIN ask /\ "set" \in Kind
  BY DEF Kind
<1>3. \A k \in DOMAIN row : IF row[k] = None THEN Rows(k) = {} ELSE row[k] \in Rows(k)
  <2>1. ASSUME NEW k \in DOMAIN row, row[k] = None PROVE Rows(k) = {}
    BY <1>1, <1>2, <2>1, Distinct DEF Chosen, Found, Rows
  <2>2. ASSUME NEW k \in DOMAIN row, row[k] # None PROVE row[k] \in Rows(k)
    BY <1>1, <1>2, <2>2 DEF Chosen, Found
  <2> QED
    BY <2>1, <2>2
<1>4. request'[r].kind = "set" /\ request'[r].row = row /\ request'[r].entry = None
  <2>1. request'[r] = [kind |-> "set", row |-> row,
                       seen |-> [k \in DOMAIN row |-> ValueAt(k, row[k])],
                       ask |-> ask, entry |-> None]
    BY <1>1, ReadAs
  <2> QED
    BY <2>1
<1>5. entries[r] = None
  BY <1>1, ReadAs, WaitingBooksNone
<1>6. Others(request'[r])
  BY <1>2, <1>4 DEF Others
<1>7. Counting(r, request'[r])
  BY <1>4, <1>5 DEF Counting
<1> QED
  BY <1>1, <1>2, <1>3, <1>6, <1>7, LoadsIInv DEF Reads

LEMMA SingleType ==
    ASSUME NEW k, NEW v
    PROVE  /\ DOMAIN Single(k, v) = {k} /\ Single(k, v)[k] = v
           /\ \A S : v \in S => Single(k, v) \in [{k} -> S]
BY DEF Single

LEMMA UpsertOneIInv ==
    ASSUME IInv, NEW r \in Request, NEW k \in Key, k # ManualKey, NEW v \in Value,
           Upsert(r, Single(k, v))
    PROVE  IInv'
<1> DEFINE ask == Single(k, v)
<1>1. DOMAIN ask = {k} /\ ask \in [{k} -> Value]
  BY SingleType
<1>2. Upsert(r, ask)
  OBVIOUS
<1> HIDE DEF ask
<1> QED
  BY <1>1, <1>2, UpsertIInv

LEMMA DeleteIInv ==
    ASSUME IInv, NEW r \in Request, NEW k \in Key, k # ManualKey, NEW i \in Rows(k),
           Delete(r, k, i)
    PROVE  IInv'
<1> DEFINE row == Single(k, i)
<1>1. Reads(r, "clear", row, <<>>, None)
  BY DEF Delete
<1>2. DOMAIN row = {k} /\ row[k] = i /\ row \in [{k} -> Inserter \cup {None}]
      /\ i \in Inserter /\ i # None
  BY SingleType, Distinct DEF Rows
<1> HIDE DEF row
<1>3. "clear" \in Kind /\ DOMAIN <<>> = {} /\ <<>> \in [{} -> Value]
  BY DEF Kind
<1>4. request'[r].kind = "clear" /\ request'[r].row = row /\ request'[r].entry = None
  <2>1. request'[r] = [kind |-> "clear", row |-> row,
                       seen |-> [key \in DOMAIN row |-> ValueAt(key, row[key])],
                       ask |-> <<>>, entry |-> None]
    BY <1>1, ReadAs
  <2> QED
    BY <2>1
<1>5. entries[r] = None
  BY <1>1, ReadAs, WaitingBooksNone
<1>6. Others(request'[r])
  BY <1>2, <1>4 DEF Others
<1>7. Counting(r, request'[r])
  BY <1>4, <1>5 DEF Counting
<1> QED
  BY <1>1, <1>2, <1>3, <1>6, <1>7, LoadsIInv DEF Reads

LEMMA CreateIInv ==
    ASSUME IInv, NEW r \in Request, CreateManual(r)
    PROVE  IInv'
<1>1. PICK i \in Chosen(ManualKey) :
          LET count == IF i = None THEN 0 ELSE table[ManualKey][i]
          IN  Reads(r, "create", Single(ManualKey, i), Single(ManualKey, count + 1), r)
  BY DEF CreateManual
<1> DEFINE count == IF i = None THEN 0 ELSE table[ManualKey][i]
           row == Single(ManualKey, i)
           ask == Single(ManualKey, count + 1)
<1>2. Reads(r, "create", row, ask, r)
  BY <1>1
<1>3. ManualKey \in Key /\ i \in Inserter \cup {None}
      /\ IF i = None THEN Rows(ManualKey) = {} ELSE i \in Rows(ManualKey)
  BY Distinct DEF Chosen, Found, Rows
<1>4. count \in Nat /\ (i # None => count = table[ManualKey][i])
  BY <1>3 DEF IInv, TypeOK, Rows
<1> HIDE DEF count
<1>5. count + 1 \in Nat /\ count + 1 \in Value
  BY <1>4 DEF Value
<1>6. DOMAIN row = {ManualKey} /\ row[ManualKey] = i /\ row \in [{ManualKey} -> Inserter \cup {None}]
  BY <1>3, SingleType
<1>7. DOMAIN ask = {ManualKey} /\ ask[ManualKey] = count + 1 /\ ask \in [{ManualKey} -> Value]
  BY <1>5, SingleType
<1> HIDE DEF row, ask
<1>8. request'[r] = [kind |-> "create", row |-> row,
                     seen |-> [k \in DOMAIN row |-> ValueAt(k, row[k])], ask |-> ask, entry |-> r]
      /\ entries[r] = None
  BY <1>2, ReadAs, WaitingBooksNone
<1>9. request'[r].seen[ManualKey] = ValueAt(ManualKey, i)
  BY <1>6, <1>8
<1>10. ask[ManualKey] = IF i = None THEN 1 ELSE request'[r].seen[ManualKey] + 1
  BY <1>4, <1>7, <1>9 DEF ValueAt, count
<1>11. Others(request'[r]) /\ Counting(r, request'[r])
  BY <1>5, <1>6, <1>7, <1>8, <1>10 DEF Others, Counting, Inserter
<1>12. "create" \in Kind /\ r \in Inserter
  BY DEF Kind, Inserter
<1> QED
  BY <1>2, <1>3, <1>6, <1>7, <1>11, <1>12, LoadsIInv DEF Reads

LEMMA BookedOn ==
    ASSUME IInv, NEW i \in Inserter
    PROVE  LET S == {e \in Inserter : entries[e] = i}
           IN  /\ IsFiniteSet(S) /\ Cardinality(S) \in Nat
               /\ \A e \in S : Cardinality(S) > 0 /\ Cardinality(S \ {e}) = Cardinality(S) - 1
               /\ \A e \in Inserter \ S : Cardinality(S \cup {e}) = Cardinality(S) + 1
<1> DEFINE S == {e \in Inserter : entries[e] = i}
<1>1. IsFiniteSet(S)
  <2>1. IsFiniteSet(Inserter)
    BY UpsertsAssumption, FS_AddElement, FS_Singleton, FS_Union DEF Inserter
  <2> QED
    BY <2>1, FS_Subset
<1>2. Cardinality(S) \in Nat /\ (Cardinality(S) = 0 <=> S = {})
  BY <1>1, FS_CardinalityType, FS_EmptySet
<1>3. \A e \in S : Cardinality(S) > 0 /\ Cardinality(S \ {e}) = Cardinality(S) - 1
  <2> SUFFICES ASSUME NEW e \in S
               PROVE  Cardinality(S) > 0 /\ Cardinality(S \ {e}) = Cardinality(S) - 1
    OBVIOUS
  <2>1. S # {}
    OBVIOUS
  <2> HIDE DEF S
  <2>2. Cardinality(S) > 0
    BY <1>2, <2>1
  <2> QED
    BY <1>1, <2>2, FS_RemoveElement
<1>4. \A e \in Inserter \ S : Cardinality(S \cup {e}) = Cardinality(S) + 1
  BY <1>1, FS_AddElement
<1> QED
  BY <1>1, <1>2, <1>3, <1>4

\* A deletion relies on its entry being booked where it found it.
LEMMA FindIInv ==
    ASSUME IInv, NEW r \in Request, NEW e \in Inserter, FindManual(r, e)
    PROVE  IInv'
<1> DEFINE q == Finding(e, entries[e])
<1>1. /\ request' = [request EXCEPT ![r] = q] /\ UNCHANGED <<table, entries, raced, asked>>
      /\ entries[e] \in Inserter /\ entries[r] = None /\ DOMAIN request = Request
  BY WaitingBooksNone DEF FindManual, IInv, TypeOK
<1>2. /\ q.kind = "find" /\ q.entry = e
      /\ DOMAIN q.row = {ManualKey} /\ q.row[ManualKey] = entries[e]
  BY FindingRecord
<1>3. WellFormed(q)
  BY <1>1 DEF WellFormed
<1> HIDE DEF q
<1>4. request'[r] = q /\ \A o \in Request \ {r} : request'[o] = request[o]
  BY <1>1
<1>5. TypeOK'
  BY <1>1, <1>3, <1>4 DEF IInv, TypeOK
<1>6. AsAsked' /\ CountInStep' /\ Booked'
  BY <1>1 DEF IInv, AsAsked, CountInStep, Booked, Rows
<1>7. UpToDate(r)' /\ Others(request[r])' /\ Counting(r, request[r])'
  BY <1>1, <1>2, <1>4 DEF UpToDate, UnderWay, Kind, Others, Counting
<1>8. ASSUME NEW o \in Request \ {r}
      PROVE  UpToDate(o)' /\ Others(request[o])' /\ Counting(o, request[o])'
  BY <1>1, <1>4 DEF IInv, UpToDate, UnderWay, Others, Counting, Rows
<1> QED
  BY <1>5, <1>6, <1>7, <1>8 DEF IInv

LEMMA RemoveIInv ==
    ASSUME IInv, NEW r \in Request, DeleteManual(r)
    PROVE  IInv'
<1> DEFINE i == request[r].row[ManualKey]
           e == request[r].entry
           count == table[ManualKey][i]
           left == IF count > 0 THEN count - 1 ELSE 0
           row == Single(ManualKey, i)
           ask == Single(ManualKey, left)
<1>1. request[r].kind = "find" /\ count # None /\ Loads(r, "remove", row, ask, e)
  BY DEF DeleteManual
<1>0. /\ i \in Inserter /\ i # None /\ e \in Inserter /\ entries[r] = None
      /\ ~raced[ManualKey] => entries[e] = i
  BY <1>1, Distinct DEF IInv, Counting
<1>2. i \in Inserter /\ ManualKey \in Key /\ count \in Nat /\ i \in Rows(ManualKey)
  BY <1>0, <1>1, Distinct DEF IInv, TypeOK, Rows
<1>3. ~raced[ManualKey] => count > 0
  BY <1>0, <1>2, BookedOn DEF IInv, CountInStep
<1>4. DOMAIN row = {ManualKey} /\ row[ManualKey] = i /\ row \in [{ManualKey} -> Inserter \cup {None}]
  BY <1>2, SingleType
<1>5. left \in Nat /\ left \in Value
  BY <1>2 DEF Value
<1>6. DOMAIN ask = {ManualKey} /\ ask[ManualKey] = left /\ ask \in [{ManualKey} -> Value]
  BY <1>5, SingleType
<1> HIDE DEF row, ask, i, e
<1>7. request'[r] = [kind |-> "remove", row |-> row,
                     seen |-> [k \in DOMAIN row |-> ValueAt(k, row[k])], ask |-> ask, entry |-> e]
  BY <1>1, LoadAs
<1>8. request'[r].seen[ManualKey] = count
  BY <1>0, <1>4, <1>7 DEF ValueAt
<1> HIDE DEF count
<1>9. ~raced[ManualKey] => ask[ManualKey] = request'[r].seen[ManualKey] - 1
  BY <1>3, <1>6, <1>8
<1>10. Others(request'[r]) /\ Counting(r, request'[r])
  BY <1>0, <1>4, <1>5, <1>6, <1>7, <1>9 DEF Others, Counting
<1>11. "remove" \in Kind
  BY DEF Kind
<1> QED
  BY <1>0, <1>1, <1>2, <1>4, <1>6, <1>10, <1>11, LoadsIInv

LEMMA RunIInv ==
    ASSUME IInv, NEW r \in Request, StartRun(r)
    PROVE  IInv'
<1> DEFINE row == [k \in Candidates |-> Before]
<1>1. Reads(r, "run", row, <<>>, None)
  BY DEF StartRun
<1>2. /\ DOMAIN row = Candidates /\ Candidates \subseteq Key /\ ManualKey \notin Candidates
      /\ \A k \in Candidates : /\ row[k] = Before /\ table[k][Before] = Uncategorized
                                /\ Before \in Rows(k)
      /\ row \in [DOMAIN row -> Inserter \cup {None}]
  <2>1. Uncategorized # None /\ Before \in Inserter
    BY Distinct DEF Value, Inserter
  <2> QED
    BY <2>1, Distinct DEF Candidates, Rows
<1> HIDE DEF row
<1>3. "run" \in Kind /\ DOMAIN <<>> = {} /\ <<>> \in [{} -> Value] /\ Before # None
  BY Distinct DEF Kind
<1>4. /\ request'[r].kind = "run" /\ request'[r].row = row /\ request'[r].entry = None
      /\ request'[r].seen = [k \in DOMAIN row |-> ValueAt(k, row[k])]
  <2>1. request'[r] = [kind |-> "run", row |-> row,
                       seen |-> [k \in DOMAIN row |-> ValueAt(k, row[k])],
                       ask |-> <<>>, entry |-> None]
    BY <1>1, ReadAs
  <2> QED
    BY <2>1
<1>5. entries[r] = None
  BY <1>1, ReadAs, WaitingBooksNone
<1>6. Others(request'[r])
  BY <1>2, <1>3, <1>4 DEF Others, ValueAt
<1>7. Counting(r, request'[r])
  BY <1>4, <1>5 DEF Counting
<1>8. \A k \in DOMAIN row : IF row[k] = None THEN Rows(k) = {} ELSE row[k] \in Rows(k)
  BY <1>2, <1>3
<1>9. DOMAIN row \in SUBSET Key /\ {} \in SUBSET DOMAIN row
  BY <1>2
<1> QED
  BY <1>1, <1>2, <1>3, <1>6, <1>7, <1>8, <1>9, LoadsIInv DEF Reads

LEMMA AnswerIInv ==
    ASSUME IInv, NEW r \in Request, NEW k, NEW c, Answer(r, k, c)
    PROVE  IInv'
<1> DEFINE q == request[r]
           ask == [x \in DOMAIN q.ask \cup {k} |-> IF x = k THEN c ELSE q.ask[x]]
<1>1. /\ q.kind = "run" /\ k \in DOMAIN q.row /\ c \in Value
      /\ request' = [request EXCEPT ![r].ask = ask]
      /\ UNCHANGED <<table, entries, raced, asked>>
  BY DEF Answer, Value
<1>2. q \notin {Waiting, Over} /\ \A e, i : q # Finding(e, i)
  BY <1>1, NotUnderWay, FindingRecord
<1>3. /\ DOMAIN q = DOMAIN Waiting /\ q.kind \in Kind
      /\ DOMAIN q.row \in SUBSET Key /\ DOMAIN q.ask \in SUBSET DOMAIN q.row
      /\ q.row \in [DOMAIN q.row -> Inserter \cup {None}]
      /\ q.seen \in [DOMAIN q.row -> Value \cup {None}]
      /\ q.ask \in [DOMAIN q.ask -> Value]
      /\ q.entry \in Inserter \cup {None}
      /\ DOMAIN request = Request
  BY <1>2 DEF IInv, TypeOK, WellFormed
<1>4. DOMAIN ask \in SUBSET DOMAIN q.row /\ ask \in [DOMAIN ask -> Value]
  BY <1>1, <1>3
<1> HIDE DEF ask
<1>5. /\ request'[r].kind = q.kind /\ request'[r].row = q.row /\ request'[r].seen = q.seen
      /\ request'[r].entry = q.entry /\ request'[r].ask = ask
      /\ \A o \in Request \ {r} : request'[o] = request[o]
      /\ DOMAIN request' = Request /\ DOMAIN request'[r] = DOMAIN q
  <2>1. request'[r] = [request[r] EXCEPT !.ask = ask]
    BY <1>1, <1>3
  <2>2. DOMAIN request[r] = {"kind", "row", "seen", "ask", "entry"}
    BY <1>3 DEF Waiting
  <2>3. DOMAIN request'[r] = DOMAIN request[r] /\ request'[r].ask = ask
        /\ \A f \in DOMAIN request[r] \ {"ask"} : request'[r][f] = request[r][f]
    BY <2>1, <2>2
  <2>4. /\ request'[r].kind = q.kind /\ request'[r].row = q.row /\ request'[r].seen = q.seen
        /\ request'[r].entry = q.entry
    BY <2>2, <2>3
  <2> QED
    BY <1>1, <1>3, <2>1, <2>3, <2>4
<1>6. TypeOK'
  <2>1. WellFormed(request'[r])
    BY <1>3, <1>4, <1>5 DEF WellFormed
  <2> QED
    BY <1>1, <1>5, <2>1 DEF IInv, TypeOK
<1>7. AsAsked' /\ CountInStep' /\ Booked'
  BY <1>1 DEF IInv, AsAsked, CountInStep, Booked, Rows
<1>8. \A o \in Request : UpToDate(o)'
  BY <1>1, <1>5 DEF IInv, UpToDate, UnderWay, Rows
<1>9. ASSUME NEW o \in Request \ {r} PROVE Others(request[o])' /\ Counting(o, request[o])'
  BY <1>1, <1>5 DEF IInv, Others, Counting
<1>10. Others(request[r])' /\ Counting(r, request[r])'
  <2>1. Others(request[r])'
    BY <1>1, <1>5 DEF IInv, Others
  <2>2. Counting(r, request[r])'
    BY <1>1, <1>5 DEF IInv, Counting
  <2> QED
    BY <2>1, <2>2
<1> QED
  BY <1>6, <1>7, <1>8, <1>9, <1>10 DEF IInv

-----------------------------------------------------------------------------
(* Commit                                                                  *)

LEMMA UnderWayType ==
    ASSUME IInv, NEW r \in Request, UnderWay(r)
    PROVE  LET q == request[r] IN
              /\ DOMAIN q.row \in SUBSET Key /\ DOMAIN q.ask \in SUBSET DOMAIN q.row
              /\ q.row \in [DOMAIN q.row -> Inserter \cup {None}]
              /\ q.seen \in [DOMAIN q.row -> Value \cup {None}]
              /\ q.ask \in [DOMAIN q.ask -> Value]
              /\ q.entry \in Inserter \cup {None}
              /\ DOMAIN request = Request
<1>1. request[r] \notin {Waiting, Over} /\ \A e, i : request[r] # Finding(e, i)
  BY NotUnderWay, FindingRecord DEF UnderWay, Kind
<1>2. WellFormed(request[r]) /\ DOMAIN request = Request
  BY DEF IInv, TypeOK
<1> QED
  BY <1>1, <1>2 DEF WellFormed

\* A race is never forgotten, and one over the keys written is noticed.
LEMMA RacesNoticed ==
    ASSUME IInv, NEW r \in Request, NEW keys, Races(r, keys)
    PROVE  /\ raced' \in [Key -> BOOLEAN]
           /\ \A k \in Key : ~raced'[k] => ~raced[k]
           /\ \A k \in Key \cap keys : ~raced'[k] =>
                 \A o \in Request \ {r} : ~GoesBy(o, k, r)
BY DEF Races, IInv, TypeOK

\* What every request but the one that ends may still rely on.
LEMMA OthersStay ==
    ASSUME IInv, NEW r \in Request, NEW keys \in SUBSET Key, Races(r, keys),
           request' = [request EXCEPT ![r] = Over],
           \A k \in Key \ keys : table'[k] = table[k],
           ManualKey \notin keys => UNCHANGED entries,
           \A o \in Request \ {r} : entries[o] = None => entries'[o] = None,
           \A o \in Request \ {r} : request[o].kind = "find" /\ ~raced'[ManualKey] =>
              entries'[request[o].entry] = entries[request[o].entry]
    PROVE  \A o \in Request : UpToDate(o)' /\ Others(request[o])' /\ Counting(o, request[o])'
<1>1. DOMAIN request = Request
  BY DEF IInv, TypeOK
<1>2. request'[r] = Over /\ \A o \in Request \ {r} : request'[o] = request[o]
  BY <1>1
<1>3. UpToDate(r)' /\ Others(request[r])' /\ Counting(r, request[r])'
  BY <1>2, NotUnderWay DEF UpToDate, Others, Counting, UnderWay, Kind
<1>4. ASSUME NEW o \in Request \ {r}
      PROVE  UpToDate(o)' /\ Others(request[o])' /\ Counting(o, request[o])'
  <2>1. request'[o] = request[o]
    BY <1>2
  <2>2. UpToDate(o)'
    <3> SUFFICES ASSUME UnderWay(o), NEW k \in DOMAIN request[o].row
                 PROVE  /\ request[o].row[k] = None => request[o].seen[k] = None
                        /\ ~raced'[k] =>
                              IF request[o].row[k] = None THEN Rows(k)' = {}
                              ELSE /\ Rows(k)' = {request[o].row[k]}
                                   /\ table'[k][request[o].row[k]] = request[o].seen[k]
      BY <2>1 DEF UpToDate, UnderWay
    <3>1. k \in Key
      BY UnderWayType
    <3>2. CASE k \in keys
      BY <3>1, <3>2, RacesNoticed DEF IInv, UpToDate, GoesBy
    <3>3. CASE k \notin keys
      <4>1. Rows(k)' = Rows(k) /\ table'[k] = table[k]
        BY <3>1, <3>3 DEF Rows
      <4>2. ~raced'[k] => ~raced[k]
        BY <3>1, RacesNoticed
      <4> QED
        BY <4>1, <4>2 DEF IInv, UpToDate
    <3> QED
      BY <3>2, <3>3
  <2>3. Others(request[o])'
    BY <2>1 DEF IInv, Others
  <2>4. Counting(o, request[o])'
    <3>1. Counting(o, request[o])
      BY DEF IInv
    <3>2. ASSUME request[o].kind = "remove", ~raced'[ManualKey]
          PROVE  ~raced[ManualKey] /\ entries'[request[o].entry] = entries[request[o].entry]
      <4>1. ManualKey \in DOMAIN request[o].row /\ UnderWay(o)
        BY <3>1, <3>2 DEF Counting, UnderWay, Kind
      <4>2. ManualKey \notin keys /\ ~raced[ManualKey]
        BY <3>2, <4>1, RacesNoticed, Distinct DEF GoesBy
      <4> QED
        BY <4>2
    <3>4. ~raced'[ManualKey] => ~raced[ManualKey]
      BY RacesNoticed, Distinct
    <3>3. request[o].kind # "over" => entries'[o] = None
      BY <3>1 DEF Counting
    <3> QED
      BY <2>1, <3>1, <3>2, <3>3, <3>4 DEF Counting
  <2> QED
    BY <2>2, <2>3, <2>4
<1> QED
  BY <1>3, <1>4

\* What a request not refused leaves of a key.
LEMMA WrittenRow ==
    ASSUME IInv, NEW r \in Request, UnderWay(r), ~Refused(r), NEW k \in DOMAIN request[r].ask
    PROVE  LET i == Target(r, k) IN
              /\ k \in Key /\ i \in Inserter
              /\ Written(r, k) \in [Inserter -> Value \cup {None}]
              /\ \A o \in Inserter \ {i} : Written(r, k)[o] = table[k][o]
              /\ Written(r, k)[i] \in {table[k][i], request[r].ask[k]}
              /\ Written(r, k)[i] # None
              /\ ~raced[k] => /\ Written(r, k)[i] = request[r].ask[k]
                              /\ \A o \in Inserter \ {i} : table[k][o] = None
<1> DEFINE q == request[r]
           i == Target(r, k)
<1>1. /\ k \in Key /\ k \in DOMAIN q.row /\ q.row[k] \in Inserter \cup {None}
      /\ q.ask[k] \in Value /\ q.ask[k] # None
  <2>1. /\ DOMAIN q.row \in SUBSET Key /\ DOMAIN q.ask \in SUBSET DOMAIN q.row
        /\ q.row \in [DOMAIN q.row -> Inserter \cup {None}]
        /\ q.ask \in [DOMAIN q.ask -> Value]
    BY UnderWayType
  <2>2. k \in DOMAIN q.row /\ q.ask[k] \in Value
    BY <2>1
  <2> QED
    BY <2>1, <2>2, Distinct
<1>2. table[k] \in [Inserter -> Value \cup {None}]
  BY <1>1 DEF IInv, TypeOK
<1>3. i \in Inserter
  BY <1>1 DEF Target, Inserter
<1>4. /\ q.row[k] = None => q.seen[k] = None
      /\ ~raced[k] => IF q.row[k] = None THEN Rows(k) = {}
                      ELSE Rows(k) = {q.row[k]} /\ table[k][q.row[k]] = q.seen[k]
  BY <1>1 DEF IInv, UpToDate
<1>5. q.row[k] # None => table[k][q.row[k]] # None /\ i = q.row[k]
  BY DEF Refused, Target
<1>6. CASE q.ask[k] = q.seen[k]
  <2>1. Written(r, k) = table[k] /\ q.row[k] # None
    BY <1>1, <1>4, <1>6 DEF Written
  <2>2. ~raced[k] => \A o \in Inserter \ {i} : table[k][o] = None
    BY <1>4, <1>5, <2>1 DEF Rows
  <2> QED
    BY <1>1, <1>2, <1>3, <1>4, <1>5, <1>6, <2>1, <2>2
<1>7. CASE q.ask[k] # q.seen[k]
  <2>1. Written(r, k) = [table[k] EXCEPT ![i] = q.ask[k]]
    BY <1>7 DEF Written
  <2>2. ~raced[k] => \A o \in Inserter \ {i} : table[k][o] = None
    BY <1>4, <1>5 DEF Rows
  <2> HIDE DEF i
  <2>3. Written(r, k) \in [Inserter -> Value \cup {None}] /\ Written(r, k)[i] = q.ask[k]
        /\ \A o \in Inserter \ {i} : Written(r, k)[o] = table[k][o]
    BY <1>1, <1>2, <1>3, <2>1
  <2> QED
    BY <1>1, <1>3, <2>2, <2>3 DEF i
<1> QED
  BY <1>6, <1>7

LEMMA CommitIInv ==
    ASSUME IInv, NEW r \in Request, Commit(r)
    PROVE  IInv'
<1> DEFINE q == request[r]
           K == DOMAIN q.ask
<1>1. /\ q.kind \in Kind \ {"clear"} /\ UnderWay(r) /\ ~Refused(r)
      /\ table' = [k \in Key |-> IF k \in K THEN Written(r, k) ELSE table[k]]
      /\ entries' = IF q.entry = None THEN entries
                    ELSE [entries EXCEPT ![q.entry] =
                             IF q.kind = "create" THEN Target(r, ManualKey) ELSE None]
      /\ asked' = [k \in Key |-> IF k \in K THEN q.ask[k] ELSE asked[k]]
      /\ Races(r, K)
      /\ request' = [request EXCEPT ![r] = Over]
  BY DEF Commit, UnderWay
<1>2. K \in SUBSET Key /\ q.ask \in [K -> Value] /\ q.entry \in Inserter \cup {None}
      /\ DOMAIN request = Request
  BY <1>1, UnderWayType
<1>3. Others(q) /\ Counting(r, q)
  BY DEF IInv
<1>4. /\ q.kind \in {"create", "remove"} => K = {ManualKey} /\ q.entry \in Inserter
      /\ q.kind \notin {"create", "remove"} => ManualKey \notin K /\ q.entry = None
  <2>1. K \subseteq DOMAIN q.row
    BY <1>1, UnderWayType
  <2> QED
    BY <1>1, <1>3, <2>1 DEF Others, Counting, Kind
<1>5. \A k \in K : table'[k] = Written(r, k)
  BY <1>1, <1>2
<1>6. \A k \in Key \ K : table'[k] = table[k]
  BY <1>1
<1>7. ASSUME NEW k \in K
      PROVE  LET i == Target(r, k) IN
                /\ i \in Inserter /\ table'[k] \in [Inserter -> Value \cup {None}]
                /\ \A o \in Inserter \ {i} : table'[k][o] = table[k][o]
                /\ table'[k][i] \in {table[k][i], q.ask[k]} /\ table'[k][i] # None
                /\ ~raced[k] => /\ table'[k][i] = q.ask[k]
                                /\ \A o \in Inserter \ {i} : table[k][o] = None
  BY <1>1, <1>5, WrittenRow
<1>8. ManualKey \in Key /\ \A k \in Key : ~raced'[k] => ~raced[k]
  BY <1>1, RacesNoticed, Distinct
<1>9. TypeOK'
  <2>1. table' \in [Key -> [Inserter -> Value \cup {None}]]
    <3>1. \A k \in Key : table'[k] \in [Inserter -> Value \cup {None}]
      BY <1>6, <1>7 DEF IInv, TypeOK
    <3> QED
      BY <1>1, <3>1
  <2>2. \A i \in Inserter : table'[ManualKey][i] \in Nat \cup {None}
    <3>1. CASE ManualKey \in K
      <4>1. q.ask[ManualKey] \in Nat
        BY <1>3, <1>4, <3>1 DEF Counting
      <4> QED
        BY <1>7, <3>1, <4>1 DEF IInv, TypeOK
    <3>2. CASE ManualKey \notin K
      BY <1>6, <1>8, <3>2 DEF IInv, TypeOK
    <3> QED
      BY <3>1, <3>2
  <2>3. entries' \in [Inserter -> Inserter \cup {None}]
    BY <1>1, <1>2, <1>4, <1>7 DEF IInv, TypeOK
  <2>4. asked' \in [Key -> Value \cup {None}]
    BY <1>1, <1>2 DEF IInv, TypeOK
  <2>5. raced' \in [Key -> BOOLEAN]
    BY <1>1, RacesNoticed
  <2> QED
    BY <1>1, <1>2, <2>1, <2>2, <2>3, <2>4, <2>5, OverWellFormed DEF IInv, TypeOK
<1>10. \A k \in K : ~raced'[k] => Rows(k)' = {Target(r, k)} /\ table'[k][Target(r, k)] = q.ask[k]
  BY <1>2, <1>7, <1>8 DEF Rows
<1>11. AsAsked'
  <2>1. ASSUME NEW k \in Key, ~raced'[k], k \in K
        PROVE  /\ asked'[k] # None
               /\ \E i \in Inserter : Rows(k)' = {i} /\ table'[k][i] = asked'[k]
    <3>1. asked'[k] = q.ask[k] /\ q.ask[k] # None
      BY <1>1, <1>2, <2>1, Distinct
    <3> QED
      BY <1>7, <1>10, <2>1, <3>1
  <2>2. ASSUME NEW k \in Key, ~raced'[k], k \notin K
        PROVE  Rows(k)' = Rows(k) /\ table'[k] = table[k] /\ asked'[k] = asked[k] /\ ~raced[k]
    BY <1>1, <1>6, <1>8, <2>2 DEF Rows
  <2> QED
    BY <2>1, <2>2 DEF IInv, AsAsked
<1>12. Booked'
  <2> SUFFICES ASSUME NEW e \in Inserter, entries'[e] # None
               PROVE  table'[ManualKey][entries'[e]] # None
    BY DEF Booked
  <2>1. CASE e = q.entry
    <3>1. q.kind = "create" /\ entries'[e] = Target(r, ManualKey) /\ ManualKey \in K
      <4>1. q.entry # None /\ entries \in [Inserter -> Inserter \cup {None}]
        BY <2>1, Distinct DEF IInv, TypeOK
      <4>2. entries'[e] = IF q.kind = "create" THEN Target(r, ManualKey) ELSE None
        BY <1>1, <2>1, <4>1
      <4>3. q.kind = "create" /\ entries'[e] = Target(r, ManualKey)
        BY <4>2
      <4> QED
        BY <1>4, <4>3
    <3> QED
      BY <1>7, <3>1
  <2>2. CASE e # q.entry
    <3>1. entries'[e] = entries[e]
      BY <1>1, <2>2 DEF IInv, TypeOK
    <3>2. entries[e] \in Inserter /\ table[ManualKey][entries[e]] # None
      BY <2>2, <3>1 DEF IInv, TypeOK, Booked
    <3> QED
      BY <1>6, <1>7, <1>8, <3>1, <3>2
  <2> QED
    BY <2>1, <2>2
<1>13. CountInStep'
  <2> SUFFICES ASSUME ~raced'[ManualKey], NEW i \in Rows(ManualKey)'
               PROVE  table'[ManualKey][i] = Cardinality({e \in Inserter : entries'[e] = i})
    BY DEF CountInStep
  <2>0. ~raced[ManualKey]
    BY <1>8
  <2>1. CASE ManualKey \notin K
    <3>1. table'[ManualKey] = table[ManualKey] /\ entries' = entries
      BY <1>1, <1>4, <1>6, <1>8, <2>1
    <3> QED
      BY <2>0, <3>1 DEF IInv, CountInStep, Rows
  <2>2. CASE ManualKey \in K
    <3>1. /\ i = Target(r, ManualKey) /\ i \in Inserter /\ table'[ManualKey][i] = q.ask[ManualKey]
          /\ q.kind \in {"create", "remove"} /\ UpToDate(r)
      BY <1>4, <1>7, <1>10, <2>2 DEF IInv
    <3>2. ManualKey \in DOMAIN q.row
      BY <1>3, <3>1 DEF Counting
    <3> DEFINE S == {e \in Inserter : entries[e] = i}
    <3>3. CASE q.row[ManualKey] = None
      <4>1. q.kind = "create" /\ q.ask[ManualKey] = 1 /\ q.entry = r /\ i = r
        BY <1>3, <3>1, <3>3 DEF Counting, Target
      <4>2. Rows(ManualKey) = {}
        BY <1>1, <2>0, <3>1, <3>2, <3>3 DEF UpToDate
      <4>3. \A e \in Inserter : entries[e] = None
        BY <4>2 DEF IInv, Booked, TypeOK, Rows
      <4>4. {e \in Inserter : entries'[e] = i} = {r}
        BY <1>1, <3>1, <4>1, <4>3, Distinct DEF IInv, TypeOK
      <4> QED
        BY <3>1, <4>1, <4>4, FS_Singleton
    <3>4. CASE q.row[ManualKey] # None
      <4>1. i = q.row[ManualKey] /\ i \in Rows(ManualKey)
            /\ q.seen[ManualKey] = table[ManualKey][i]
        BY <1>1, <2>0, <3>1, <3>2, <3>4 DEF UpToDate, Target
      <4>2. q.seen[ManualKey] = Cardinality(S) /\ i # None
        BY <2>0, <3>1, <4>1, Distinct DEF IInv, CountInStep
      <4>3. CASE q.kind = "create"
        <5>1. q.entry = r /\ entries[r] = None /\ q.ask[ManualKey] = Cardinality(S) + 1
          BY <1>3, <3>4, <4>2, <4>3 DEF Counting
        <5>2. r \notin S /\ {e \in Inserter : entries'[e] = i} = S \cup {r}
          BY <1>1, <3>1, <4>2, <4>3, <5>1, Distinct DEF IInv, TypeOK, Inserter
        <5>3. Cardinality(S \cup {r}) = Cardinality(S) + 1
          BY <3>1, <5>2, BookedOn
        <5> HIDE DEF S
        <5> QED
          BY <3>1, <5>1, <5>2, <5>3
      <4>4. CASE q.kind = "remove"
        <5>1. /\ q.entry \in Inserter /\ entries[q.entry] = i
              /\ q.ask[ManualKey] = Cardinality(S) - 1
          BY <1>3, <2>0, <4>1, <4>2, <4>4 DEF Counting
        <5>2. q.entry \in S /\ {e \in Inserter : entries'[e] = i} = S \ {q.entry}
          BY <1>1, <4>2, <4>4, <5>1, Distinct DEF IInv, TypeOK
        <5> QED
          BY <3>1, <5>1, <5>2, BookedOn
      <4> QED
        BY <3>1, <4>3, <4>4
    <3> QED
      BY <3>3, <3>4
  <2> QED
    BY <2>1, <2>2
<1>14. \A o \in Request : UpToDate(o)' /\ Others(request[o])' /\ Counting(o, request[o])'
  <2>1. ManualKey \notin K => UNCHANGED entries
    BY <1>1, <1>4
  <2>2. ASSUME NEW o \in Request \ {r}, entries[o] = None PROVE entries'[o] = None
    BY <1>1, <1>3, <2>2 DEF IInv, TypeOK, Counting
  <2>3. ASSUME NEW o \in Request \ {r}, request[o].kind = "find", ~raced'[ManualKey]
        PROVE  entries'[request[o].entry] = entries[request[o].entry]
    <3> DEFINE e == request[o].entry
    <3>1. e \in Inserter /\ entries[e] # None
      BY <1>8, <2>3, Distinct DEF IInv, Counting
    <3>2. CASE q.kind = "create"
      <4>1. q.entry = r /\ entries[r] = None
        BY <1>3, <3>2 DEF Counting
      <4> QED
        BY <1>1, <3>1, <4>1 DEF IInv, TypeOK
    <3>3. CASE q.kind = "remove"
      <4>1. ManualKey \in K /\ ~GoesBy(o, ManualKey, r)
        BY <1>1, <1>4, <1>8, <2>3, <3>3, RacesNoticed
      <4>2. e # q.entry
        BY <2>3, <3>3, <4>1 DEF GoesBy
      <4> QED
        BY <1>1, <3>1, <4>2 DEF IInv, TypeOK
    <3>4. CASE q.kind \notin {"create", "remove"}
      BY <1>1, <1>4, <3>4
    <3> QED
      BY <3>2, <3>3, <3>4
  <2> QED
    BY <1>1, <1>2, <1>6, <2>1, <2>2, <2>3, OthersStay
<1> QED
  BY <1>9, <1>11, <1>12, <1>13, <1>14 DEF IInv

LEMMA CommitClearIInv ==
    ASSUME IInv, NEW r \in Request, CommitClear(r)
    PROVE  IInv'
<1> DEFINE q == request[r]
           K == DOMAIN q.row
<1>1. /\ q.kind = "clear" /\ UnderWay(r)
      /\ table' = [k \in Key |-> IF k \in K THEN [table[k] EXCEPT ![q.row[k]] = None]
                                ELSE table[k]]
      /\ asked' = [k \in Key |-> IF k \in K THEN None ELSE asked[k]]
      /\ Races(r, K)
      /\ request' = [request EXCEPT ![r] = Over]
      /\ entries' = entries
  BY DEF CommitClear, UnderWay, Kind
<1>2. K \in SUBSET Key /\ DOMAIN request = Request
  BY <1>1, UnderWayType
<1>3. ManualKey \notin K
  BY <1>1 DEF IInv, Others
<1>4. \A k \in Key \ K : table'[k] = table[k] /\ Rows(k)' = Rows(k) /\ asked'[k] = asked[k]
  BY <1>1 DEF Rows
<1>5. ManualKey \in Key /\ \A k \in Key : ~raced'[k] => ~raced[k]
  BY <1>1, RacesNoticed, Distinct
<1>6. ASSUME NEW k \in K
      PROVE  table'[k] \in [Inserter -> Value \cup {None}] /\ (~raced[k] => Rows(k)' = {})
  <2>1. table[k] \in [Inserter -> Value \cup {None}] /\ k \in Key
    BY <1>2 DEF IInv, TypeOK
  <2>2. table'[k] = [table[k] EXCEPT ![q.row[k]] = None]
    BY <1>1, <2>1
  <2>3. ~raced[k] => Rows(k) \subseteq {q.row[k]}
    BY <1>1 DEF IInv, UpToDate
  <2> QED
    BY <2>1, <2>2, <2>3 DEF Rows
<1>7. TypeOK'
  <2>1. table' \in [Key -> [Inserter -> Value \cup {None}]]
    <3>1. \A k \in Key : table'[k] \in [Inserter -> Value \cup {None}]
      BY <1>4, <1>6 DEF IInv, TypeOK
    <3> QED
      BY <1>1, <3>1
  <2>2. \A i \in Inserter : table'[ManualKey][i] \in Nat \cup {None}
    BY <1>3, <1>4, <1>5 DEF IInv, TypeOK
  <2>3. asked' \in [Key -> Value \cup {None}]
    BY <1>1 DEF IInv, TypeOK
  <2>4. raced' \in [Key -> BOOLEAN]
    BY <1>1, RacesNoticed
  <2> QED
    BY <1>1, <1>2, <2>1, <2>2, <2>3, <2>4, OverWellFormed DEF IInv, TypeOK
<1>8. AsAsked'
  <2>1. \A k \in K : asked'[k] = None
    BY <1>1, <1>2
  <2> QED
    BY <1>4, <1>5, <1>6, <2>1 DEF IInv, AsAsked
<1>9. CountInStep' /\ Booked'
  <2>1. /\ table'[ManualKey] = table[ManualKey] /\ Rows(ManualKey)' = Rows(ManualKey)
        /\ entries' = entries /\ (~raced'[ManualKey] => ~raced[ManualKey])
    BY <1>1, <1>3, <1>4, <1>5
  <2>2. CountInStep'
    BY <2>1 DEF IInv, CountInStep
  <2>3. Booked'
    BY <2>1 DEF IInv, Booked
  <2> QED
    BY <2>2, <2>3
<1>10. \A o \in Request : UpToDate(o)' /\ Others(request[o])' /\ Counting(o, request[o])'
  BY <1>1, <1>2, <1>4, OthersStay
<1> QED
  BY <1>7, <1>8, <1>9, <1>10 DEF IInv

LEMMA FailIInv ==
    ASSUME IInv, NEW r \in Request, Fail(r)
    PROVE  IInv'
<1>1. request' = [request EXCEPT ![r] = Over] /\ UNCHANGED <<table, entries, raced, asked>>
      /\ DOMAIN request = Request
  BY DEF Fail, IInv, TypeOK
<1>2. Races(r, {})
  BY <1>1 DEF Races, IInv, TypeOK
<1>3. \A o \in Request : UpToDate(o)' /\ Others(request[o])' /\ Counting(o, request[o])'
  BY <1>1, <1>2, OthersStay
<1>4. TypeOK'
  BY <1>1, OverWellFormed DEF IInv, TypeOK
<1>5. AsAsked' /\ CountInStep' /\ Booked'
  BY <1>1 DEF IInv, AsAsked, CountInStep, Booked, Rows
<1> QED
  BY <1>3, <1>4, <1>5 DEF IInv

-----------------------------------------------------------------------------
(* Every step                                                              *)

LEMMA NextIInv == IInv /\ [Next]_vars => IInv'
<1> SUFFICES ASSUME IInv, [Next]_vars PROVE IInv'
  OBVIOUS
<1>1. ASSUME NEW r \in Request, NEW k \in BudgetKey \cup VerdictKey, NEW v \in Limit \cup Verdict,
             Upsert(r, Single(k, v))
      PROVE  IInv'
  <2>1. k \in Key /\ k # ManualKey /\ v \in Value
    BY UpsertsAssumption, Distinct DEF Value
  <2> QED
    BY <1>1, <2>1, UpsertOneIInv
<1>2. ASSUME NEW r \in Request, NEW k \in BudgetKey \cup VerdictKey, NEW i \in Rows(k),
             Delete(r, k, i)
      PROVE  IInv'
  BY <1>2, DeleteIInv, Distinct
<1>3. ASSUME NEW r \in Request, NEW portfolio \in Portfolio, NEW day \in Day,
             NEW S \in SUBSET Ticker, NEW worth \in [S -> Worth],
             ImportPositions(r, portfolio, day, worth)
      PROVE  IInv'
  <2> DEFINE K == {<<"position", portfolio, ticker, day>> : ticker \in DOMAIN worth}
             ask == [k \in K |-> worth[k[3]]]
  <2>1. K \subseteq PositionKey /\ \A k \in K : worth[k[3]] \in Worth
    BY DEF PositionKey
  <2>2. \A k \in K : worth[k[3]] \in Value
    BY <2>1, UpsertsAssumption DEF Value
  <2>3. Upsert(r, ask)
    BY <1>3 DEF ImportPositions
  <2> HIDE DEF K
  <2>4. DOMAIN ask = K /\ ask \in [K -> Value]
    BY <2>2
  <2>5. K \in SUBSET Key /\ ManualKey \notin K
    BY <2>1, Distinct
  <2> HIDE DEF ask
  <2> QED
    BY <2>3, <2>4, <2>5, UpsertIInv
<1>4. ASSUME NEW r \in Request, EnsureTransferCategory(r) PROVE IInv'
  BY <1>4, UpsertOneIInv, Distinct DEF EnsureTransferCategory, Value
<1>5. ASSUME NEW r \in Request, NEW t \in Tx, NEW c \in Category \cup {Uncategorized},
             SetCategory(r, t, c)
      PROVE  IInv'
  <2>1. <<"category", t>> \in CategoryKey /\ c \in Value
    BY DEF CategoryKey, Value
  <2>2. <<"category", t>> \in Key /\ <<"category", t>> # ManualKey
    BY <2>1, Distinct
  <2> QED
    BY <1>5, <2>1, <2>2, UpsertOneIInv DEF SetCategory
<1>6. CASE UNCHANGED vars
  <2>1. UNCHANGED <<table, entries, request, raced, asked>> /\ \A k : Rows(k)' = Rows(k)
    BY <1>6 DEF vars, Rows
  <2>2. TypeOK'
    BY <2>1 DEF IInv, TypeOK
  <2>3. AsAsked' /\ CountInStep' /\ Booked'
    BY <2>1 DEF IInv, AsAsked, CountInStep, Booked
  <2>4. \A r \in Request : UpToDate(r)' /\ Others(request[r])' /\ Counting(r, request[r])'
    BY <2>1 DEF IInv, UpToDate, UnderWay, Others, Counting
  <2> QED
    BY <2>2, <2>3, <2>4 DEF IInv
<1>7. CASE Next
  <2> PICK r \in Request :
          \/ \E slot \in BudgetKey :
                \/ \E limit \in Limit : SetBudget(r, slot, limit)
                \/ \E i \in Inserter : DeleteBudget(r, slot, i)
          \/ \E key \in VerdictKey :
                \/ \E verdict \in Verdict : SetVerdict(r, key, verdict)
                \/ ClearVerdict(r, key)
          \/ \E portfolio \in Portfolio, day \in Day, S \in SUBSET Ticker :
                \E worth \in [S -> Worth] : ImportPositions(r, portfolio, day, worth)
          \/ EnsureTransferCategory(r)
          \/ \E t \in Tx, c \in Category \cup {Uncategorized} : SetCategory(r, t, c)
          \/ CreateManual(r)
          \/ \E e \in Inserter : FindManual(r, e)
          \/ DeleteManual(r)
          \/ StartRun(r)
          \/ \E k \in CategoryKey, c \in Category \cup {None} : Answer(r, k, c)
          \/ Commit(r) \/ CommitClear(r) \/ Fail(r)
    BY <1>7 DEF Next
  <2>1. CASE \E slot \in BudgetKey :
                \/ \E limit \in Limit : SetBudget(r, slot, limit)
                \/ \E i \in Inserter : DeleteBudget(r, slot, i)
    BY <1>1, <1>2, <2>1 DEF SetBudget, DeleteBudget
  <2>2. CASE \E key \in VerdictKey :
                \/ \E verdict \in Verdict : SetVerdict(r, key, verdict)
                \/ ClearVerdict(r, key)
    BY <1>1, <1>2, <2>2 DEF SetVerdict, ClearVerdict, Found
  <2> QED
    BY <1>3, <1>4, <1>5, <2>1, <2>2, CreateIInv, FindIInv, RemoveIInv, RunIInv, AnswerIInv,
       CommitIInv, CommitClearIInv, FailIInv
<1> QED
  BY <1>6, <1>7

LEMMA SpecIInv == Spec => []IInv
BY InitIInv, NextIInv, PTL DEF Spec

-----------------------------------------------------------------------------
\* The tables and the requests keep their types: a run writes known categories
\* only, and the count of a batch is not negative.
THEOREM TypeCorrect == Spec => []TypeOK
<1>1. IInv => TypeOK
  BY DEF IInv
<1> QED
  BY <1>1, SpecIInv, PTL

\* A key no two requests raced for has one row, which holds what was last asked:
\* without a race nothing is doubled and no setting is lost, unique constraint
\* or not.
THEOREM NothingLostWithoutRace == Spec => []AsAsked
<1>1. IInv => AsAsked
  BY DEF IInv
<1> QED
  BY <1>1, SpecIInv, PTL

\* The manual batch counts its live entries, whatever requests make and delete
\* them, but where two wrote the batch from one reading or deleted one entry
\* (raced); a member who leaves takes entries along uncounted, which no request
\* of this module does (Ledger's RecordCountInStep names that).
THEOREM ManualCountKept == Spec => []CountInStep
<1>1. IInv => CountInStep
  BY DEF IInv
<1> QED
  BY <1>1, SpecIInv, PTL

\* A request that fails on a constraint, or on a row that is gone, was raced.
THEOREM RefusedOnlyByRace == Spec => []RefusedAfterRace
<1>1. IInv => RefusedAfterRace
  <2> SUFFICES ASSUME IInv, NEW r \in Request, UnderWay(r), Refused(r),
                      \A k \in DOMAIN request[r].ask : ~raced[k]
               PROVE  FALSE
    BY DEF RefusedAfterRace
  <2>1. PICK k \in DOMAIN request[r].ask :
            IF request[r].row[k] = None THEN k \in UniqueKey /\ Rows(k) # {}
            ELSE table[k][request[r].row[k]] = None
    BY DEF Refused
  <2>2. k \in DOMAIN request[r].row /\ ~raced[k]
    BY UnderWayType
  <2>3. IF request[r].row[k] = None THEN Rows(k) = {}
        ELSE Rows(k) = {request[r].row[k]}
    BY <2>2 DEF IInv, UpToDate
  <2> QED
    BY <2>1, <2>3 DEF Rows
<1> QED
  BY <1>1, SpecIInv, PTL

\* A run of the LLM writes over a category only if somebody set it after the run
\* had read the transaction as uncategorized.
THEOREM RunsYield == Spec => RunYields
<1>1. IInv => \A r \in Request, k \in CategoryKey :
                 /\ request[r].kind = "run" /\ k \in DOMAIN request[r].ask
                 /\ table[k][Before] # Uncategorized
                 => raced[k]
  <2> SUFFICES ASSUME IInv, NEW r \in Request, NEW k \in CategoryKey,
                      request[r].kind = "run", k \in DOMAIN request[r].ask, ~raced[k]
               PROVE  table[k][Before] = Uncategorized
    OBVIOUS
  <2>1. UnderWay(r) /\ Before # None
    BY Distinct DEF UnderWay, Kind
  <2>2. k \in DOMAIN request[r].row
    BY <2>1, UnderWayType
  <2>3. request[r].row[k] = Before /\ request[r].seen[k] = Uncategorized
    BY <2>2 DEF IInv, Others
  <2> QED
    BY <2>1, <2>2, <2>3 DEF IInv, UpToDate
<1>2. IInv => (\A r \in Request, k \in CategoryKey :
                 /\ request[r].kind = "run" /\ k \in DOMAIN request[r].ask
                 /\ request'[r] = Over
                 /\ table[k][Before] # Uncategorized
                 => raced[k])
  BY <1>1
<1> QED
  BY <1>2, SpecIInv, PTL DEF RunYields
=============================================================================
