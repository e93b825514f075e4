---------------------------- MODULE LedgerProofs ----------------------------
(***************************************************************************)
(* Theorems about the ledger, for any household, any statements and any    *)
(* rules: the inductive invariant IInv of module Ledger, the invariants it *)
(* contains, and the action properties that follow from it.                *)
(***************************************************************************)
EXTENDS Ledger, FiniteSetTheorems, TLAPS

\* What the importer, the edit forms and deletions write, and linking and the
\* categorization layers never do.
Booking(row) ==
    <<row.status, row.account, row.content, row.owner, row.scope, row.batch>>

\* A row before and after it got another category, source or group on behalf of
\* a viewer: it exists, the viewer may see it, and it got another source only if
\* it still had the importer's.
RetaggedRow(old, new, viewer) ==
    /\ old.status # "absent"
    /\ InSight(old, viewer)
    /\ Booking(new) = Booking(old)
    /\ new.source = old.source \/ old.source = "import_csv"

Retagged(old, new, viewer) ==
    \A t \in TxId : new[t] = old[t] \/ RetaggedRow(old[t], new[t], viewer)

\* The table as the importer commits it, before its convenience steps.
Committed(u, a, file, b) == WithImported(a, NewLines(a, file), u, b)

-----------------------------------------------------------------------------
(* The pure parts of the handlers                                          *)

\* The category a rule set assigns is one a rule of it targets.
LEMMA MatchCategoryType ==
    ASSUME NEW active \in SUBSET Rule, NEW content
    PROVE  MatchCategory(active, content) \in Category \cup {None}
<1>1. CASE FirstMatch(active, content) = {}
  BY <1>1 DEF MatchCategory
<1>2. CASE FirstMatch(active, content) # {}
  <2> DEFINE k == CHOOSE r \in FirstMatch(active, content) : TRUE
  <2>1. k \in Rule
    BY <1>2 DEF FirstMatch, Matching
  <2>2. Target[k] \in Category
    BY <2>1, LedgerAssumption
  <2> QED
    BY <1>2, <2>2 DEF MatchCategory
<1> QED
  BY <1>1, <1>2

\* Applying rules to a table retags rows of it.
LEMMA RuledTable ==
    ASSUME NEW table \in [TxId -> Row],
           NEW active \in SUBSET Rule, NEW viewer
    PROVE  /\ Ruled(table, active, viewer) \in [TxId -> Row]
           /\ Retagged(table, Ruled(table, active, viewer), viewer)
<1> DEFINE new == Ruled(table, active, viewer)
<1> SUFFICES ASSUME NEW t \in TxId
             PROVE  /\ new[t] \in Row
                    /\ new[t] = table[t] \/ RetaggedRow(table[t], new[t], viewer)
  BY DEF Retagged, Ruled
<1> DEFINE c == MatchCategory(active, table[t].content)
<1>1. table[t] \in Row /\ c \in Category \cup {None}
  BY MatchCategoryType
<1>2. new[t] = IF RuleMayTag(table[t], viewer) /\ c # None /\ c # table[t].category
               THEN [table[t] EXCEPT !.category = c, !.source = "rule"]
               ELSE table[t]
  BY DEF Ruled, RuledRow
<1> DEFINE tagged == RuleMayTag(table[t], viewer) /\ c # None /\ c # table[t].category
<1>3. CASE ~tagged
  BY <1>1, <1>2, <1>3
<1>4. CASE tagged
  <2>1. /\ table[t].status = "live" /\ table[t].source \in {"rule", "import_csv"}
        /\ InSight(table[t], viewer)
    BY <1>4 DEF RuleMayTag, Visible, Untouched
  <2>2. new[t] = [table[t] EXCEPT !.category = c, !.source = "rule"]
    BY <1>2, <1>4
  <2> HIDE DEF c, new
  <2> QED
    BY <1>1, <2>1, <2>2 DEF Row, Source, Booking, RetaggedRow
<1> QED
  BY <1>3, <1>4

\* Linking pairs of unmatched rows retags them.
LEMMA LinkedTable ==
    ASSUME NEW table \in [TxId -> Row], NEW viewer,
           NEW pairs \in SUBSET (Unmatched(table, viewer) \X Unmatched(table, viewer))
    PROVE  /\ Linked(table, pairs) \in [TxId -> Row]
           /\ Retagged(table, Linked(table, pairs), viewer)
<1> DEFINE new == Linked(table, pairs)
<1> SUFFICES ASSUME NEW t \in TxId
             PROVE  /\ new[t] \in Row
                    /\ new[t] = table[t] \/ RetaggedRow(table[t], new[t], viewer)
  BY DEF Retagged, Linked
<1> DEFINE mine == {p \in pairs : t \in {p[1], p[2]}}
           g == UNION {{p[1], p[2]} : p \in mine}
<1>1. table[t] \in Row /\ TransferCategory \in Category
  BY LedgerAssumption
<1>2. new[t] = IF mine = {} THEN table[t]
               ELSE [table[t] EXCEPT !.group = g, !.category = TransferCategory]
  BY DEF Linked
<1>3. \A p \in pairs : p[1] \in TxId /\ p[2] \in TxId
  BY DEF Unmatched
<1>4. g \in SUBSET TxId
  BY <1>3
<1>5. mine # {} => table[t].status = "live" /\ InSight(table[t], viewer)
  BY DEF Unmatched, Visible
<1> HIDE DEF mine, g, new
<1> QED
  BY <1>1, <1>2, <1>4, <1>5 DEF Row, Booking, RetaggedRow

\* The pairs a scan links are pairs of unmatched rows.
LEMMA AutoPairsUnmatched ==
    ASSUME NEW table, NEW viewer
    PROVE  AutoPairs(table, viewer)
              \subseteq Unmatched(table, viewer) \X Unmatched(table, viewer)
BY DEF AutoPairs, Edges

\* Retagging twice is retagging.
LEMMA RetaggedTwice ==
    ASSUME NEW a \in [TxId -> Row], NEW b \in [TxId -> Row], NEW c \in [TxId -> Row],
           NEW viewer, Retagged(a, b, viewer), Retagged(b, c, viewer)
    PROVE  Retagged(a, c, viewer)
<1> SUFFICES ASSUME NEW t \in TxId
             PROVE  c[t] = a[t] \/ RetaggedRow(a[t], c[t], viewer)
  BY DEF Retagged
<1>1. b[t] = a[t] \/ RetaggedRow(a[t], b[t], viewer)
  BY DEF Retagged
<1>2. c[t] = b[t] \/ RetaggedRow(b[t], c[t], viewer)
  BY DEF Retagged
<1> QED
  BY <1>1, <1>2 DEF RetaggedRow

\* The table an import leaves behind, whatever its convenience steps got done:
\* rows retagged on behalf of the imported rows' owner.
LEMMA ImportedTable ==
    ASSUME TypeOK, NEW u \in members, NEW a \in Account,
           NEW file \in SUBSET Statement[a], NEW b \in Batch, Import(u, a, file, b)
    PROVE  /\ Committed(u, a, file, b) \in [TxId -> Row]
           /\ tx' \in [TxId -> Row]
           /\ Retagged(Committed(u, a, file, b), tx', RowOwner(u, a))
<1> DEFINE new == NewLines(a, file)
           owner == RowOwner(u, a)
           table == Committed(u, a, file, b)
<1>1. table \in [TxId -> Row]
  <2> SUFFICES ASSUME NEW t \in TxId PROVE table[t] \in Row
    BY DEF Committed, WithImported
  <2>1. CASE t \notin new
    BY <2>1 DEF Committed, WithImported, TypeOK
  <2>2. CASE t \in new
    <3>1. t[2] \in Content
      BY <2>2, LedgerAssumption DEF NewLines
    <3>2. RowOwner(u, a) \in Member \cup {None}
      BY DEF RowOwner, TypeOK
    <3> QED
      BY <2>2, <3>1, <3>2 DEF Committed, WithImported, Row, Scope, Source
  <2> QED
    BY <2>1, <2>2
<1>2. PICK done \in SUBSET AutoPairs(table, owner), ruled \in BOOLEAN :
         tx' = IF ruled THEN Ruled(Linked(table, done), rules, owner)
               ELSE Linked(table, done)
  BY DEF Import, Committed
<1> DEFINE linked == Linked(table, done)
<1>3. done \in SUBSET (Unmatched(table, owner) \X Unmatched(table, owner))
  BY AutoPairsUnmatched
<1>4. /\ linked \in [TxId -> Row]
      /\ Retagged(table, linked, owner)
  BY <1>1, <1>3, LinkedTable
<1>5. rules \in SUBSET Rule
  BY DEF TypeOK
<1> HIDE DEF table, linked, owner
<1>6. /\ Ruled(linked, rules, owner) \in [TxId -> Row]
      /\ Retagged(linked, Ruled(linked, rules, owner), owner)
  BY <1>4, <1>5, RuledTable
<1>7. Retagged(table, Ruled(linked, rules, owner), owner)
  BY <1>1, <1>4, <1>6, RetaggedTwice
<1>8. tx' = Ruled(linked, rules, owner) \/ tx' = linked
  BY <1>2 DEF linked, table, owner
<1>9. /\ tx' \in [TxId -> Row]
      /\ Retagged(table, tx', owner)
  BY <1>4, <1>6, <1>7, <1>8
<1> QED
  BY <1>1, <1>9 DEF table, owner

-----------------------------------------------------------------------------
(* The requests that only relabel rows                                     *)

Relabels(u) ==
    \/ \E x, y \in TxId : LinkTransfer(u, x, y)
    \/ \E g \in {tx[t].group : t \in TxId} \ {{}} : UnlinkTransfer(u, g)
    \/ Rescan(u)
    \/ LayerStep(u)

\* Linking, unlinking and the categorization layers retag rows and touch
\* neither members, nor accounts, nor batches.
LEMMA RelabelsRetag ==
    ASSUME TypeOK, RowsInPlace, NEW u \in Member, Relabels(u)
    PROVE  /\ tx' \in [TxId -> Row]
           /\ Retagged(tx, tx', u)
           /\ rules' \subseteq Rule
           /\ requester' \in Member
           /\ UNCHANGED <<members, accountOwner, batches>>
<1> USE DEF By
<1>0. tx \in [TxId -> Row] /\ rules \in SUBSET Rule
  BY DEF TypeOK
<1>1. ASSUME NEW x \in TxId, NEW y \in TxId, LinkTransfer(u, x, y)
      PROVE  /\ tx' \in [TxId -> Row] /\ Retagged(tx, tx', u)
             /\ UNCHANGED <<members, accountOwner, rules, batches>>
  <2>1. {<<x, y>>} \in SUBSET (Unmatched(tx, u) \X Unmatched(tx, u))
    BY <1>1 DEF LinkTransfer, Unmatched
  <2>2. tx' = Linked(tx, {<<x, y>>}) /\ UNCHANGED <<members, accountOwner, rules, batches>>
    BY <1>1 DEF LinkTransfer
  <2> QED
    BY <1>0, <2>1, <2>2, LinkedTable
<1>2. ASSUME NEW g \in {tx[t].group : t \in TxId} \ {{}}, UnlinkTransfer(u, g)
      PROVE  /\ tx' \in [TxId -> Row] /\ Retagged(tx, tx', u)
             /\ UNCHANGED <<members, accountOwner, rules, batches>>
  <2> SUFFICES ASSUME NEW t \in TxId
               PROVE  /\ tx'[t] \in Row
                      /\ tx'[t] = tx[t] \/ RetaggedRow(tx[t], tx'[t], u)
    BY <1>2 DEF UnlinkTransfer, Retagged
  <2> DEFINE free == [tx[t] EXCEPT !.group = {},
                        !.category = IF @ = TransferCategory THEN None ELSE @]
  <2>1. tx'[t] = IF tx[t].group = g /\ InSight(tx[t], u) THEN free ELSE tx[t]
    BY <1>2 DEF UnlinkTransfer
  <2>2. tx[t] \in Row
    BY <1>0
  <2>3. free \in Row /\ Booking(free) = Booking(tx[t]) /\ free.source = tx[t].source
    BY <2>2 DEF Row, Booking
  <2>4. tx[t].status = "absent" => tx[t].group = {}
    BY DEF RowsInPlace, NoRow
  <2> QED
    BY <2>1, <2>2, <2>3, <2>4 DEF RetaggedRow
<1>3. ASSUME Rescan(u)
      PROVE  /\ tx' \in [TxId -> Row] /\ Retagged(tx, tx', u)
             /\ UNCHANGED <<members, accountOwner, rules, batches>>
  <2>1. PICK done \in SUBSET AutoPairs(tx, u) : tx' = Linked(tx, done)
    BY <1>3 DEF Rescan
  <2>2. done \in SUBSET (Unmatched(tx, u) \X Unmatched(tx, u))
    BY AutoPairsUnmatched
  <2> QED
    BY <1>0, <1>3, <2>1, <2>2, LinkedTable DEF Rescan
<1>4. ASSUME LayerStep(u)
      PROVE  /\ tx' \in [TxId -> Row] /\ Retagged(tx, tx', u)
             /\ rules' \subseteq Rule
             /\ UNCHANGED <<members, accountOwner, batches>>
  <2>1. ASSUME NEW k \in Rule, CreateRule(u, k) \/ DeleteRule(u, k)
        PROVE  /\ tx' = tx /\ rules' \subseteq Rule
               /\ UNCHANGED <<members, accountOwner, batches>>
    BY <1>0, <2>1 DEF CreateRule, DeleteRule
  <2>2. CASE ApplyRules(u)
    BY <1>0, <2>2, RuledTable DEF ApplyRules
  <2>3. ASSUME NEW verdicts, NEW layer \in {"classifier", "llm"},
               DOMAIN verdicts \subseteq ClassifyCandidates(tx, u),
               \A t \in DOMAIN verdicts : verdicts[t] \in Category,
               tx' = Tagged(verdicts, layer)
        PROVE  tx' \in [TxId -> Row] /\ Retagged(tx, tx', u)
    <3> SUFFICES ASSUME NEW t \in TxId
                 PROVE  /\ tx'[t] \in Row
                        /\ tx'[t] = tx[t] \/ RetaggedRow(tx[t], tx'[t], u)
      BY <2>3 DEF Tagged, Retagged
    <3>1. CASE t \notin DOMAIN verdicts
      BY <1>0, <2>3, <3>1 DEF Tagged
    <3>2. CASE t \in DOMAIN verdicts
      <4>1. tx'[t] = [tx[t] EXCEPT !.category = verdicts[t], !.source = layer]
        BY <2>3, <3>2 DEF Tagged
      <4>2. tx[t].status = "live" /\ InSight(tx[t], u) /\ tx[t].source = "import_csv"
        BY <2>3, <3>2 DEF ClassifyCandidates, Visible, Untouched
      <4>3. tx[t] \in Row /\ verdicts[t] \in Category
        BY <1>0, <2>3, <3>2
      <4> QED
        BY <4>1, <4>2, <4>3 DEF Row, Source, Booking, RetaggedRow
    <3> QED
      BY <3>1, <3>2
  <2>4. CASE Classify(u)
    <3> DEFINE labels == {tx[t].category : t \in ConfirmedLabels(u)}
    <3>1. PICK confident \in SUBSET ClassifyCandidates(tx, u) :
             \E verdicts \in [confident -> labels] : tx' = Tagged(verdicts, "classifier")
      BY <2>4 DEF Classify
    <3>2. PICK verdicts \in [confident -> labels] : tx' = Tagged(verdicts, "classifier")
      BY <3>1
    <3>3. labels \subseteq Category
      BY DEF ConfirmedLabels, Learnable
    <3>4. tx' \in [TxId -> Row] /\ Retagged(tx, tx', u)
      BY <2>3, <3>1, <3>2, <3>3
    <3> QED
      BY <1>0, <2>4, <3>4 DEF Classify
  <2>5. CASE ClassifyLlm(u)
    <3>1. PICK confident \in SUBSET ClassifyCandidates(tx, u) :
             \E verdicts \in [confident -> Learnable] : tx' = Tagged(verdicts, "llm")
      BY <2>5 DEF ClassifyLlm
    <3>2. PICK verdicts \in [confident -> Learnable] : tx' = Tagged(verdicts, "llm")
      BY <3>1
    <3>3. tx' \in [TxId -> Row] /\ Retagged(tx, tx', u)
      BY <2>3, <3>1, <3>2 DEF Learnable
    <3> QED
      BY <1>0, <2>5, <3>3 DEF ClassifyLlm
  <2>6. tx' = tx => tx' \in [TxId -> Row] /\ Retagged(tx, tx', u)
    BY <1>0 DEF Retagged
  <2> QED
    BY <1>4, <2>1, <2>2, <2>4, <2>5, <2>6, <1>0 DEF LayerStep, ApplyRules
<1>5. requester' \in Member
  BY DEF Relabels, LayerStep, LinkTransfer, UnlinkTransfer, Rescan, CreateRule,
         DeleteRule, ApplyRules, Classify, ClassifyLlm
<1> QED
  BY <1>0, <1>1, <1>2, <1>3, <1>4, <1>5 DEF Relabels

-----------------------------------------------------------------------------
(* The inductive invariant                                                 *)

\* The ledger starts empty, with the accounts' owners among the members.
LEMMA InitIInv == Init => IInv
<1> SUFFICES ASSUME Init PROVE IInv
  OBVIOUS
<1> USE LedgerAssumption DEF Init
<1>1. NoRow \in Row
  BY DEF NoRow, Row, Scope, Source
<1>2. TypeOK
  BY <1>1 DEF TypeOK, BatchRow
<1>3. RowsInPlace
  BY DEF RowsInPlace, NoRow, Fingerprint, TxId
<1>4. OwnersExist
  BY DEF OwnersExist, NoRow
<1>5. RolledBackEmpty
  BY DEF RolledBackEmpty, NoRow
<1>6. ImportedAsBanked
  BY DEF ImportedAsBanked, NoRow, Fingerprint, TxId
<1> QED
  BY <1>2, <1>3, <1>4, <1>5, <1>6 DEF IInv

\* Retagging keeps what the booked part of every row says.
LEMMA RetaggedBooking ==
    ASSUME NEW old, NEW new, NEW viewer, Retagged(old, new, viewer), NEW t \in TxId
    PROVE  /\ new[t].status = old[t].status
           /\ new[t].account = old[t].account
           /\ new[t].content = old[t].content
           /\ new[t].owner = old[t].owner
           /\ new[t].scope = old[t].scope
           /\ new[t].batch = old[t].batch
           /\ old[t].status = "absent" => new[t] = old[t]
BY DEF Retagged, RetaggedRow, Booking

\* A fingerprint is an account with a line; it is no id of a hand-entered row.
LEMMA Fingerprints ==
    ASSUME NEW t \in Fingerprint
    PROVE  /\ t \in Account \X Content
           /\ t = <<t[1], t[2]>>
           /\ t \notin ManualId
           /\ t \in TxId
BY LedgerAssumption DEF Fingerprint, TxId

\* An upload keeps the invariant: the rows it adds are in a batch that was not
\* used before and belong to a member, and what follows only retags.
LEMMA ImportKeepsIInv ==
    ASSUME IInv, NEW u \in Member, NEW a \in Account,
           NEW file \in SUBSET Statement[a], NEW b \in Batch, Import(u, a, file, b)
    PROVE  IInv'
<1> DEFINE new == NewLines(a, file)
           C == Committed(u, a, file, b)
<1>1. /\ TypeOK /\ RowsInPlace /\ OwnersExist /\ RolledBackEmpty /\ ImportedAsBanked
      /\ u \in members
  BY DEF IInv, Import, By
<1>2. /\ C \in [TxId -> Row] /\ tx' \in [TxId -> Row] /\ Retagged(C, tx', RowOwner(u, a))
  BY <1>1, ImportedTable
<1>3. new \subseteq Fingerprint /\ \A t \in new : t[1] = a /\ t \in TxId
  BY DEF NewLines, Fingerprint, TxId
<1>4. \A t \in TxId \ new : C[t] = tx[t]
  BY DEF Committed, WithImported
<1>5. \A t \in new :
        /\ C[t].status = "live" /\ C[t].batch = b
        /\ C[t].account = a /\ C[t].content = t[2]
        /\ C[t].owner = RowOwner(u, a)
  BY <1>3 DEF Committed, WithImported
<1>6. RowOwner(u, a) \in members
  BY <1>1 DEF RowOwner, OwnersExist
<1>7. /\ members' = members /\ accountOwner' = accountOwner /\ rules' = rules
      /\ requester' = u
      /\ batches[b].status = "unused"
      /\ batches' = [batches EXCEPT
            ![b] = [status |-> "active", owner |-> u, count |-> Cardinality(new)]]
  BY DEF Import, By
<1>8. Cardinality(new) \in Nat
  <2>1. IsFiniteSet(Statement[a])
    BY LedgerAssumption
  <2>2. IsFiniteSet({a} \X file)
    BY <2>1, FS_Subset, FS_Singleton, FS_Product
  <2>3. new \in SUBSET ({a} \X file)
    BY DEF NewLines
  <2> QED
    BY <2>2, <2>3, FS_Subset, FS_CardinalityType
<1>9. b # ManualBatch /\ b \in Batch \cup {ManualBatch}
  BY LedgerAssumption
<1>10. \A t \in TxId :
        /\ tx'[t].status = C[t].status
        /\ tx'[t].account = C[t].account
        /\ tx'[t].content = C[t].content
        /\ tx'[t].owner = C[t].owner
        /\ tx'[t].scope = C[t].scope
        /\ tx'[t].batch = C[t].batch
        /\ C[t].status = "absent" => tx'[t] = C[t]
  BY <1>2, RetaggedBooking
<1> HIDE DEF C, new
<1>11. batches' \in [Batch \cup {ManualBatch} -> BatchRow]
  BY <1>1, <1>7, <1>8, <1>9 DEF TypeOK, BatchRow
<1>12. TypeOK'
  BY <1>1, <1>2, <1>7, <1>11 DEF TypeOK
<1>13. \A c \in Batch \cup {ManualBatch} :
          batches'[c] = IF c = b
                        THEN [status |-> "active", owner |-> u, count |-> Cardinality(new)]
                        ELSE batches[c]
  BY <1>1, <1>7 DEF TypeOK
<1>14. RowsInPlace'
  <2>1. ASSUME NEW t \in TxId, tx'[t].status = "absent" PROVE tx'[t] = NoRow
    BY <1>1, <1>4, <1>5, <1>10, <2>1 DEF RowsInPlace
  <2>2. ASSUME NEW t \in TxId, tx'[t].batch \in Batch
        PROVE  batches'[tx'[t].batch].status # "unused"
    BY <1>1, <1>4, <1>5, <1>10, <1>13, <2>2 DEF RowsInPlace
  <2>3. ASSUME NEW t \in Fingerprint PROVE tx'[t].batch # ManualBatch
    BY <1>1, <1>4, <1>5, <1>9, <1>10, Fingerprints DEF RowsInPlace
  <2> QED
    BY <2>1, <2>2, <2>3 DEF RowsInPlace
<1>15. OwnersExist'
  <2>1. ASSUME NEW t \in TxId
        PROVE  /\ tx'[t].owner \in members' \cup {None}
               /\ tx'[t].status = "live" /\ tx'[t].scope = "private"
                    => tx'[t].owner \in members'
    BY <1>1, <1>4, <1>5, <1>6, <1>7, <1>10 DEF OwnersExist
  <2>2. ASSUME NEW c \in Batch \cup {ManualBatch}
        PROVE  batches'[c].owner \in members' \cup {None}
    BY <1>1, <1>7, <1>13 DEF OwnersExist
  <2> QED
    BY <1>1, <1>7, <2>1, <2>2 DEF OwnersExist
<1>16. RolledBackEmpty'
  <2>1. ASSUME NEW t \in TxId, NEW c \in Batch,
               tx'[t].batch = c, batches'[c].status = "rolled_back"
        PROVE  tx'[t].status # "live"
    BY <1>1, <1>4, <1>5, <1>10, <1>13, <2>1 DEF RolledBackEmpty
  <2> QED
    BY <1>1, <1>9, <1>13, <2>1 DEF RolledBackEmpty
<1>17. ImportedAsBanked'
  BY <1>1, <1>3, <1>4, <1>5, <1>10, Fingerprints DEF ImportedAsBanked
<1> QED
  BY <1>12, <1>14, <1>15, <1>16, <1>17 DEF IInv

\* Linking, unlinking and the layers keep it: they leave the booked part of
\* every row alone.
LEMMA RelabelsKeepIInv ==
    ASSUME IInv, NEW u \in Member, Relabels(u)
    PROVE  IInv'
<1>1. TypeOK /\ RowsInPlace /\ OwnersExist /\ RolledBackEmpty /\ ImportedAsBanked
  BY DEF IInv
<1>2. /\ tx' \in [TxId -> Row]
      /\ Retagged(tx, tx', u)
      /\ rules' \subseteq Rule
      /\ requester' \in Member
      /\ UNCHANGED <<members, accountOwner, batches>>
  BY <1>1, RelabelsRetag
<1>3. \A t \in TxId :
        /\ tx'[t].status = tx[t].status
        /\ tx'[t].account = tx[t].account
        /\ tx'[t].content = tx[t].content
        /\ tx'[t].owner = tx[t].owner
        /\ tx'[t].scope = tx[t].scope
        /\ tx'[t].batch = tx[t].batch
        /\ tx[t].status = "absent" => tx'[t] = tx[t]
  BY <1>2, RetaggedBooking
<1>4. TypeOK'
  BY <1>1, <1>2 DEF TypeOK
<1>5. RowsInPlace'
  BY <1>1, <1>2, <1>3, Fingerprints DEF RowsInPlace
<1>6. OwnersExist'
  BY <1>1, <1>2, <1>3 DEF OwnersExist
<1>7. RolledBackEmpty'
  BY <1>1, <1>2, <1>3 DEF RolledBackEmpty
<1>8. ImportedAsBanked'
  BY <1>1, <1>3, Fingerprints DEF ImportedAsBanked
<1> QED
  BY <1>4, <1>5, <1>6, <1>7, <1>8 DEF IInv

\* A rollback keeps it: rows of the batch are deleted and it is marked so.
LEMMA RollbackKeepsIInv ==
    ASSUME IInv, NEW u \in Member, NEW b \in Batch \cup {ManualBatch}, RollbackBatch(u, b)
    PROVE  IInv'
<1>1. /\ TypeOK /\ RowsInPlace /\ OwnersExist /\ RolledBackEmpty /\ ImportedAsBanked
      /\ b \in Batch /\ b # ManualBatch
  BY DEF IInv, RollbackBatch
<1>2. UNCHANGED <<members, accountOwner, rules>> /\ requester' = u
  BY DEF RollbackBatch, By
<1>3. \A t \in TxId :
        tx'[t] = IF tx[t].batch = b /\ tx[t].status = "live"
                 THEN [tx[t] EXCEPT !.status = "deleted"] ELSE tx[t]
  BY DEF RollbackBatch
<1>4. \A t \in TxId :
        /\ tx'[t] \in Row
        /\ tx'[t].status = IF tx[t].batch = b /\ tx[t].status = "live"
                           THEN "deleted" ELSE tx[t].status
        /\ tx'[t].status = "absent" => tx'[t] = tx[t]
        /\ tx'[t].account = tx[t].account /\ tx'[t].content = tx[t].content
        /\ tx'[t].owner = tx[t].owner /\ tx'[t].scope = tx[t].scope
        /\ tx'[t].batch = tx[t].batch
  <2> SUFFICES ASSUME NEW t \in TxId
               PROVE  /\ tx'[t] \in Row
                      /\ tx'[t].status = IF tx[t].batch = b /\ tx[t].status = "live"
                                         THEN "deleted" ELSE tx[t].status
                      /\ tx'[t].status = "absent" => tx'[t] = tx[t]
                      /\ tx'[t].account = tx[t].account /\ tx'[t].content = tx[t].content
                      /\ tx'[t].owner = tx[t].owner /\ tx'[t].scope = tx[t].scope
                      /\ tx'[t].batch = tx[t].batch
    OBVIOUS
  <2>1. tx[t] \in Row
    BY <1>1 DEF TypeOK
  <2>2. CASE tx[t].batch = b /\ tx[t].status = "live"
    <3>1. tx'[t] = [tx[t] EXCEPT !.status = "deleted"]
      BY <1>3, <2>2
    <3> QED
      BY <2>1, <2>2, <3>1 DEF Row
  <2>3. CASE ~(tx[t].batch = b /\ tx[t].status = "live")
    BY <1>3, <2>1, <2>3
  <2> QED
    BY <2>2, <2>3
<1>6. \A c \in Batch \cup {ManualBatch} :
        batches'[c] = IF c = b THEN [batches[c] EXCEPT !.status = "rolled_back"]
                      ELSE batches[c]
  BY <1>1 DEF RollbackBatch, TypeOK
<1>7. batches' \in [Batch \cup {ManualBatch} -> BatchRow]
  BY <1>1 DEF RollbackBatch, TypeOK, BatchRow
<1>8. tx' \in [TxId -> Row]
  BY <1>4 DEF RollbackBatch
<1>9. TypeOK'
  BY <1>1, <1>2, <1>7, <1>8 DEF TypeOK
<1>10. \A c \in Batch \cup {ManualBatch} :
         /\ batches'[c].owner = batches[c].owner
         /\ batches'[c].status = IF c = b THEN "rolled_back" ELSE batches[c].status
  BY <1>1, <1>6 DEF TypeOK, BatchRow
<1>11. RowsInPlace'
  BY <1>1, <1>4, <1>10, Fingerprints DEF RowsInPlace
<1>12. OwnersExist'
  BY <1>1, <1>2, <1>4, <1>10 DEF OwnersExist
<1>13. RolledBackEmpty'
  BY <1>1, <1>4, <1>10 DEF RolledBackEmpty
<1>14. ImportedAsBanked'
  BY <1>1, <1>4, Fingerprints DEF ImportedAsBanked
<1> QED
  BY <1>9, <1>11, <1>12, <1>13, <1>14 DEF IInv

\* Hand-entering a row keeps it: its id is no fingerprint, and the manual batch
\* is not an import.
LEMMA CreateManualKeepsIInv ==
    ASSUME IInv, NEW u \in Member, NEW m \in ManualId, NEW a \in Account,
           NEW content \in Content, NEW category \in Category \cup {None},
           NEW scope \in Scope, CreateManual(u, m, a, content, category, scope)
    PROVE  IInv'
<1> DEFINE row == [status |-> "live", account |-> a, content |-> content,
                   owner |-> u, scope |-> scope, category |-> category,
                   source |-> "manual", group |-> {}, batch |-> ManualBatch]
<1>1. /\ TypeOK /\ RowsInPlace /\ OwnersExist /\ RolledBackEmpty /\ ImportedAsBanked
      /\ m \in TxId /\ m \notin Fingerprint
  BY Fingerprints DEF IInv, TxId
<1>2. UNCHANGED <<members, accountOwner, rules>> /\ requester' = u /\ u \in members
  BY DEF CreateManual, By
<1>3. row \in Row
  BY DEF Row, Source
<1>4. tx' = [tx EXCEPT ![m] = row]
  BY DEF CreateManual
<1>5. \A t \in TxId : tx'[t] = IF t = m THEN row ELSE tx[t]
  BY <1>1, <1>4 DEF TypeOK
<1>6. \A c \in Batch \cup {ManualBatch} :
        batches'[c] = IF c = ManualBatch
                      THEN [batches[c] EXCEPT !.status = "active", !.count = @ + 1]
                      ELSE batches[c]
  BY <1>1 DEF CreateManual, TypeOK
<1>7. batches' \in [Batch \cup {ManualBatch} -> BatchRow]
  <2> DEFINE n == batches[ManualBatch].count + 1
  <2>1. batches[ManualBatch] \in BatchRow /\ n \in Nat
    BY <1>1 DEF TypeOK, BatchRow
  <2>2. batches' = [batches EXCEPT ![ManualBatch].status = "active",
                                   ![ManualBatch].count = n]
    BY <1>1 DEF CreateManual, TypeOK, BatchRow
  <2> HIDE DEF n
  <2> QED
    BY <1>1, <2>1, <2>2 DEF TypeOK, BatchRow
<1>8. \A c \in Batch \cup {ManualBatch} :
        /\ batches'[c].owner = batches[c].owner
        /\ batches'[c].status = IF c = ManualBatch THEN "active" ELSE batches[c].status
  BY <1>1, <1>6 DEF TypeOK, BatchRow
<1>9. ManualBatch \notin Batch
  BY LedgerAssumption
<1>10. TypeOK'
  BY <1>1, <1>2, <1>3, <1>4, <1>7 DEF TypeOK
<1>11. RowsInPlace'
  BY <1>1, <1>5, <1>8, <1>9, Fingerprints DEF RowsInPlace
<1>12. OwnersExist'
  BY <1>1, <1>2, <1>5, <1>8 DEF OwnersExist
<1>13. RolledBackEmpty'
  BY <1>1, <1>5, <1>8, <1>9 DEF RolledBackEmpty
<1>14. ImportedAsBanked'
  BY <1>1, <1>5, Fingerprints DEF ImportedAsBanked
<1> QED
  BY <1>10, <1>11, <1>12, <1>13, <1>14 DEF IInv

\* A verdict, an edit or a deletion of one row, seen from the invariant: the row
\* stays in its batch, an imported one keeps what the bank said, a private one
\* belongs to who wrote it, and a new source is a human's.
EditsRow(u, t) ==
    /\ u \in members /\ Visible(tx[t], u)
    /\ tx' = [tx EXCEPT ![t] = tx'[t]]
    /\ tx'[t] \in Row
    /\ tx'[t].status \in {"live", "deleted"}
    /\ tx'[t].batch = tx[t].batch /\ tx'[t].group = tx[t].group
    /\ tx'[t].source \in {tx[t].source, "manual"}
    /\ tx[t].batch # ManualBatch => /\ tx'[t].account = tx[t].account
                                   /\ tx'[t].content = tx[t].content
    /\ \/ tx'[t].account = tx[t].account /\ tx'[t].content = tx[t].content
       \/ tx'[t].account \in Account /\ tx'[t].content \in Content
    /\ \/ tx'[t].owner = tx[t].owner /\ tx'[t].scope \in {tx[t].scope, "household"}
       \/ tx'[t].owner = u
    /\ UNCHANGED <<members, accountOwner, rules>>
    /\ batches' \in [Batch \cup {ManualBatch} -> BatchRow]
    /\ \A c \in Batch \cup {ManualBatch} :
          /\ batches'[c].owner = batches[c].owner
          /\ batches'[c].status = batches[c].status
    /\ requester' = u

\* Such an edit keeps the invariant.
LEMMA EditKeepsIInv ==
    ASSUME IInv, NEW u \in Member, NEW t \in TxId, EditsRow(u, t)
    PROVE  IInv'
<1>1. TypeOK /\ RowsInPlace /\ OwnersExist /\ RolledBackEmpty /\ ImportedAsBanked
  BY DEF IInv
<1>2. \A s \in TxId : s # t => tx'[s] = tx[s]
  BY <1>1 DEF EditsRow, TypeOK
<1>3. TypeOK'
  BY <1>1 DEF TypeOK, EditsRow
<1>4. RowsInPlace'
  <2>1. \A s \in TxId : tx'[s].status = "absent" => tx'[s] = NoRow
    BY <1>1, <1>2 DEF RowsInPlace, EditsRow, Visible
  <2>2. \A s \in TxId : tx'[s].batch = tx[s].batch
    BY <1>2 DEF EditsRow
  <2>3. \A s \in TxId : tx'[s].batch \in Batch => batches'[tx'[s].batch].status # "unused"
    BY <1>1, <2>2 DEF RowsInPlace, EditsRow, Visible
  <2> QED
    BY <1>1, <2>1, <2>2, <2>3, Fingerprints DEF RowsInPlace
<1>5. OwnersExist'
  BY <1>1, <1>2 DEF OwnersExist, EditsRow, Visible
<1>6. RolledBackEmpty'
  BY <1>1, <1>2 DEF RolledBackEmpty, EditsRow, Visible
<1>7. ImportedAsBanked'
  BY <1>1, <1>2, Fingerprints DEF ImportedAsBanked, RowsInPlace, EditsRow, Visible
<1> QED
  BY <1>3, <1>4, <1>5, <1>6, <1>7 DEF IInv

\* A category verdict is such an edit.
LEMMA SetCategoryEdits ==
    ASSUME IInv, NEW u \in Member, NEW t \in TxId, NEW category \in Category \cup {None},
           NEW scope \in Scope, SetCategory(u, t, category, scope)
    PROVE  EditsRow(u, t)
<1> DEFINE row == [tx[t] EXCEPT !.category = category, !.scope = scope,
                                !.owner = OwnerUnder(scope, u, t), !.source = "manual"]
<1>1. tx \in [TxId -> Row] /\ tx[t] \in Row /\ batches \in [Batch \cup {ManualBatch} -> BatchRow]
  BY DEF IInv, TypeOK
<1>2. tx' = [tx EXCEPT ![t] = row] /\ tx'[t] = row
  BY <1>1 DEF SetCategory
<1>3. OwnerUnder(scope, u, t) \in Member \cup {None}
  BY <1>1 DEF OwnerUnder, Row
<1>4. /\ u \in members /\ Visible(tx[t], u) /\ requester' = u
      /\ UNCHANGED <<members, accountOwner, rules, batches>>
  BY DEF SetCategory, By
<1>5. row \in Row
  BY <1>1, <1>3 DEF Row, Source
<1>6. /\ row.status = "live" /\ row.batch = tx[t].batch /\ row.group = tx[t].group
      /\ row.account = tx[t].account /\ row.content = tx[t].content
      /\ row.scope = scope /\ row.owner = OwnerUnder(scope, u, t)
      /\ row.source = "manual"
  BY <1>1, <1>4 DEF Row, Visible
<1>7. row.owner = u \/ (row.owner = tx[t].owner /\ row.scope = "household")
  BY <1>6 DEF OwnerUnder, Scope
<1> HIDE DEF row
<1> QED
  BY <1>1, <1>2, <1>4, <1>5, <1>6, <1>7 DEF EditsRow

\* The edit form is such an edit: it rewrites account and content only of a
\* row in the manual batch.
LEMMA EditTransactionEdits ==
    ASSUME IInv, NEW u \in Member, NEW t \in TxId, NEW category \in Category \cup {None},
           NEW scope \in Scope, NEW money \in MoneyFields(t),
           EditTransaction(u, t, category, scope, money)
    PROVE  EditsRow(u, t)
<1> DEFINE source == IF tx[t].category # category \/ tx[t].scope # scope
                     THEN "manual" ELSE tx[t].source
           row == [tx[t] EXCEPT !.source = source, !.category = category, !.scope = scope,
                                !.owner = OwnerUnder(scope, u, t),
                                !.account = money[1], !.content = money[2]]
<1>1. tx \in [TxId -> Row] /\ tx[t] \in Row /\ batches \in [Batch \cup {ManualBatch} -> BatchRow]
  BY DEF IInv, TypeOK
<1>2. tx' = [tx EXCEPT ![t] = row] /\ tx'[t] = row
  BY <1>1 DEF EditTransaction
<1>3. OwnerUnder(scope, u, t) \in Member \cup {None} /\ source \in Source
      /\ source \in {tx[t].source, "manual"}
  BY <1>1 DEF OwnerUnder, Row, Source
<1>4. /\ u \in members /\ Visible(tx[t], u) /\ requester' = u
      /\ UNCHANGED <<members, accountOwner, rules, batches>>
  BY DEF EditTransaction, By
<1>5. /\ money[1] \in Account \cup {None} /\ money[2] \in Content \cup {None}
      /\ tx[t].batch # ManualBatch => money[1] = tx[t].account /\ money[2] = tx[t].content
      /\ \/ money[1] = tx[t].account /\ money[2] = tx[t].content
         \/ money[1] \in Account /\ money[2] \in Content
  BY <1>1 DEF MoneyFields, IsManualEntry, Row
<1> HIDE DEF source
<1>6. row \in Row
  BY <1>1, <1>3, <1>5 DEF Row
<1>7. /\ row.status = "live" /\ row.batch = tx[t].batch /\ row.group = tx[t].group
      /\ row.account = money[1] /\ row.content = money[2]
      /\ row.scope = scope /\ row.owner = OwnerUnder(scope, u, t)
      /\ row.source = source
  BY <1>1, <1>4 DEF Row, Visible
<1>8. row.owner = u \/ (row.owner = tx[t].owner /\ row.scope = "household")
  BY <1>7 DEF OwnerUnder, Scope
<1> HIDE DEF row
<1> QED
  BY <1>1, <1>2, <1>3, <1>4, <1>5, <1>6, <1>7, <1>8 DEF EditsRow

\* Deleting a hand-entered row is such an edit.
LEMMA DeleteTransactionEdits ==
    ASSUME IInv, NEW u \in Member, NEW t \in TxId, DeleteTransaction(u, t)
    PROVE  EditsRow(u, t)
<1> DEFINE row == [tx[t] EXCEPT !.status = "deleted"]
           old == batches[ManualBatch].count
           n == IF old > 0 THEN old - 1 ELSE old
<1>1. tx \in [TxId -> Row] /\ tx[t] \in Row /\ batches \in [Batch \cup {ManualBatch} -> BatchRow]
  BY DEF IInv, TypeOK
<1>2. tx' = [tx EXCEPT ![t] = row] /\ tx'[t] = row
  BY <1>1 DEF DeleteTransaction
<1>3. /\ u \in members /\ Visible(tx[t], u) /\ requester' = u
      /\ tx[t].batch = ManualBatch
      /\ UNCHANGED <<members, accountOwner, rules>>
  BY DEF DeleteTransaction, By, IsManualEntry
<1>4. /\ row \in Row /\ row.status = "deleted" /\ row.batch = tx[t].batch
      /\ row.account = tx[t].account /\ row.content = tx[t].content
      /\ row.group = tx[t].group /\ row.owner = tx[t].owner /\ row.scope = tx[t].scope
      /\ row.source = tx[t].source
  BY <1>1 DEF Row
<1>5. batches[ManualBatch] \in BatchRow /\ old \in Nat /\ n \in Nat
  BY <1>1 DEF BatchRow
<1>6. batches' = [batches EXCEPT ![ManualBatch].count = n]
  BY <1>1, <1>3 DEF DeleteTransaction
<1> HIDE DEF row, n
<1>7. /\ batches' \in [Batch \cup {ManualBatch} -> BatchRow]
      /\ \A c \in Batch \cup {ManualBatch} :
           /\ batches'[c].owner = batches[c].owner
           /\ batches'[c].status = batches[c].status
  BY <1>1, <1>5, <1>6 DEF BatchRow
<1> QED
  BY <1>1, <1>2, <1>3, <1>4, <1>7 DEF EditsRow

\* A change of an account's owner keeps the invariant: the new one is a member
\* who is there.
LEMMA EditAccountKeepsIInv ==
    ASSUME IInv, NEW u \in Member, NEW a \in Account, NEW o \in Member \cup {None},
           EditAccount(u, a, o)
    PROVE  IInv'
<1>1. TypeOK /\ RowsInPlace /\ OwnersExist /\ RolledBackEmpty /\ ImportedAsBanked
  BY DEF IInv
<1>2. /\ UNCHANGED <<members, rules, batches, tx>> /\ requester' = u
      /\ o \in members \cup {None}
      /\ accountOwner' = [accountOwner EXCEPT ![a] = o]
  BY DEF EditAccount, By
<1>3. TypeOK'
  BY <1>1, <1>2 DEF TypeOK
<1>4. OwnersExist'
  BY <1>1, <1>2 DEF OwnersExist, TypeOK
<1>5. RowsInPlace' /\ RolledBackEmpty' /\ ImportedAsBanked'
  BY <1>1, <1>2 DEF RowsInPlace, RolledBackEmpty, ImportedAsBanked
<1> QED
  BY <1>3, <1>4, <1>5 DEF IInv

\* A departure keeps it: nothing still names who left, and no private row of
\* theirs stays live.
LEMMA DeleteUserKeepsIInv ==
    ASSUME IInv, NEW u \in Member, NEW gone \in Member, DeleteUser(u, gone)
    PROVE  IInv'
<1>1. TypeOK /\ RowsInPlace /\ OwnersExist /\ RolledBackEmpty /\ ImportedAsBanked
      /\ None \notin Member
  BY LedgerAssumption DEF IInv
<1>2. /\ members' = members \ {gone} /\ rules' = rules /\ requester' = u
      /\ \A a \in Account : accountOwner'[a] = IF accountOwner[a] = gone THEN None
                                               ELSE accountOwner[a]
  BY DEF DeleteUser, By
<1>3. \A t \in TxId :
        /\ tx'[t] \in Row
        /\ tx'[t].owner = IF tx[t].owner = gone THEN None ELSE tx[t].owner
        /\ tx'[t].status = IF tx[t].owner = gone /\ tx[t].scope = "private"
                           THEN "deleted" ELSE tx[t].status
        /\ tx[t].owner # gone => tx'[t] = tx[t]
        /\ tx'[t].account = tx[t].account /\ tx'[t].content = tx[t].content
        /\ tx'[t].scope = tx[t].scope /\ tx'[t].batch = tx[t].batch
  <2> TAKE t \in TxId
  <2>1. tx[t] \in Row
    BY <1>1 DEF TypeOK
  <2>2. CASE tx[t].owner # gone
    BY <2>1, <2>2 DEF DeleteUser
  <2>3. CASE tx[t].owner = gone /\ tx[t].scope = "private"
    <3>1. tx'[t] = [tx[t] EXCEPT !.status = "deleted", !.owner = None]
      BY <2>3 DEF DeleteUser
    <3> QED
      BY <2>1, <2>3, <3>1 DEF Row
  <2>4. CASE tx[t].owner = gone /\ tx[t].scope # "private"
    <3>1. tx'[t] = [tx[t] EXCEPT !.owner = None]
      BY <2>4 DEF DeleteUser
    <3> QED
      BY <2>1, <2>4, <3>1 DEF Row
  <2> QED
    BY <2>2, <2>3, <2>4
<1>4. \A b \in Batch \cup {ManualBatch} :
        /\ batches'[b] \in BatchRow
        /\ batches'[b].status = batches[b].status
        /\ batches'[b].owner = IF batches[b].owner = gone THEN None ELSE batches[b].owner
  <2> TAKE b \in Batch \cup {ManualBatch}
  <2>1. batches[b] \in BatchRow
    BY <1>1 DEF TypeOK
  <2>2. batches'[b] = IF batches[b].owner = gone THEN [batches[b] EXCEPT !.owner = None]
                      ELSE batches[b]
    BY DEF DeleteUser
  <2> QED
    BY <2>1, <2>2 DEF BatchRow
<1>5. TypeOK'
  <2>1. tx' \in [TxId -> Row]
    BY <1>3 DEF DeleteUser
  <2>2. batches' \in [Batch \cup {ManualBatch} -> BatchRow]
    BY <1>4 DEF DeleteUser
  <2>3. accountOwner' \in [Account -> Member \cup {None}]
    BY <1>1 DEF DeleteUser, TypeOK
  <2> QED
    BY <1>1, <1>2, <2>1, <2>2, <2>3 DEF TypeOK
<1>6. RowsInPlace'
  <2>1. \A t \in TxId : tx[t].status = "absent" => tx[t].owner # gone
    BY <1>1 DEF RowsInPlace, NoRow
  <2> QED
    BY <1>1, <1>3, <1>4, <2>1, Fingerprints DEF RowsInPlace
<1>7. OwnersExist'
  BY <1>1, <1>2, <1>3, <1>4 DEF OwnersExist
<1>8. RolledBackEmpty'
  BY <1>1, <1>3, <1>4 DEF RolledBackEmpty
<1>9. ImportedAsBanked'
  <2>1. \A t \in Fingerprint : tx'[t].status # "absent" => tx[t].status # "absent"
    BY <1>1, <1>3, Fingerprints DEF RowsInPlace, NoRow
  <2> QED
    BY <1>1, <1>3, <2>1, Fingerprints DEF ImportedAsBanked
<1> QED
  BY <1>5, <1>6, <1>7, <1>8, <1>9 DEF IInv

\* Every request keeps the invariant.
LEMMA NextKeepsIInv == IInv /\ [Next]_vars => IInv'
<1> SUFFICES ASSUME IInv, [Next]_vars PROVE IInv'
  OBVIOUS
<1>1. CASE UNCHANGED vars
  BY <1>1 DEF vars, IInv, TypeOK, RowsInPlace, OwnersExist, RolledBackEmpty, ImportedAsBanked
<1>2. ASSUME NEW u \in Member, MoneyStep(u) PROVE IInv'
  <2>1. ASSUME NEW t \in TxId, EditsRow(u, t) PROVE IInv'
    BY <2>1, EditKeepsIInv
  <2> QED
    BY <1>2, <2>1, ImportKeepsIInv, RollbackKeepsIInv, CreateManualKeepsIInv, SetCategoryEdits,
       EditTransactionEdits, DeleteTransactionEdits, RelabelsKeepIInv DEF MoneyStep, Relabels
<1>3. ASSUME NEW u \in Member, LayerStep(u) PROVE IInv'
  BY <1>3, RelabelsKeepIInv DEF Relabels
<1>4. ASSUME NEW u \in Member, HouseholdStep(u) PROVE IInv'
  BY <1>4, EditAccountKeepsIInv, DeleteUserKeepsIInv DEF HouseholdStep
<1> QED
  BY <1>1, <1>2, <1>3, <1>4 DEF Next

-----------------------------------------------------------------------------
(* The invariants                                                          *)

\* Every reachable state of the ledger satisfies the inductive invariant.
THEOREM LedgerInvariant == Spec => []IInv
BY InitIInv, NextKeepsIInv, PTL DEF Spec

\* The tables keep their shape, whatever requests arrive in whatever order.
THEOREM TypeCorrect == Spec => []TypeOK
<1>1. IInv => TypeOK
  BY DEF IInv
<1> QED
  BY <1>1, LedgerInvariant, PTL

\* No row, account or batch ever names a member who is gone, and every live
\* private row has an owner: what users.delete_user and transactions.set_category
\* and update_transaction take care of.
THEOREM OwnersAlwaysExist == Spec => []OwnersExist
<1>1. IInv => OwnersExist
  BY DEF IInv
<1> QED
  BY <1>1, LedgerInvariant, PTL

\* A rolled-back import never has a live row again (pipeline.rollback_batch).
THEOREM RolledBackStaysEmpty == Spec => []RolledBackEmpty
<1>1. IInv => RolledBackEmpty
  BY DEF IInv
<1> QED
  BY <1>1, LedgerInvariant, PTL

\* An imported row says what its fingerprint says for as long as it exists
\* (transactions.update_transaction, is_manual_entry).
THEOREM ImportedStaysAsBanked == Spec => []ImportedAsBanked
<1>1. IInv => ImportedAsBanked
  BY DEF IInv
<1> QED
  BY <1>1, LedgerInvariant, PTL

-----------------------------------------------------------------------------
(* What a request may never do                                             *)

Allowed == KeepsDeleted /\ TouchesInSight /\ SourceMovesUp

\* An upload brings no row back, works on rows its rows' owner may see, and
\* takes over none that a human decided.
LEMMA ImportAllowed ==
    ASSUME IInv, NEW u \in Member, NEW a \in Account,
           NEW file \in SUBSET Statement[a], NEW b \in Batch, Import(u, a, file, b)
    PROVE  Allowed
<1> DEFINE new == NewLines(a, file)
           C == Committed(u, a, file, b)
<1> SUFFICES ASSUME NEW t \in TxId
             PROVE  /\ tx[t].status = "deleted" => tx'[t].status = "deleted"
                    /\ tx'[t] # tx[t] => MayTouch(t)
                    /\ tx'[t].source # tx[t].source =>
                          tx[t].source = "import_csv" \/ tx'[t].source = "manual"
  BY DEF Allowed, KeepsDeleted, TouchesInSight, SourceMovesUp
<1>1. TypeOK /\ RowsInPlace
  BY DEF IInv
<1>2. Retagged(C, tx', RowOwner(u, a))
  BY <1>1, ImportedTable DEF Import, By
<1>3. /\ batches[b].status = "unused" /\ batches'[b].owner = u
      /\ requester' = u
  BY <1>1 DEF Import, By, TypeOK
<1>4. CASE t \in new
  <2>1. tx[t] = NoRow
    BY <1>1, <1>4 DEF NewLines, RowsInPlace
  <2>2. C[t].owner = RowOwner(u, a)
    BY <1>4 DEF Committed, WithImported
  <2>3. tx'[t].owner = RowOwner(u, a)
    BY <1>2, <2>2, RetaggedBooking
  <2> QED
    BY <1>3, <2>1, <2>3 DEF MayTouch, NoRow
<1>5. CASE t \notin new
  <2>1. C[t] = tx[t]
    BY <1>5 DEF Committed, WithImported
  <2>2. tx'[t] = tx[t] \/ RetaggedRow(tx[t], tx'[t], RowOwner(u, a))
    BY <1>2, <2>1 DEF Retagged
  <2>3. ASSUME RetaggedRow(tx[t], tx'[t], RowOwner(u, a))
        PROVE  /\ tx'[t].status = tx[t].status /\ tx'[t].owner = tx[t].owner
               /\ tx[t].scope = "household" \/ tx[t].owner = RowOwner(u, a)
               /\ tx'[t].source = tx[t].source \/ tx[t].source = "import_csv"
    BY <2>3 DEF RetaggedRow, Booking, InSight
  <2> QED
    BY <1>3, <2>2, <2>3 DEF MayTouch, InSight
<1> QED
  BY <1>4, <1>5

\* Linking, unlinking and the layers work on rows their requester may see and
\* take over none that a human decided.
LEMMA RelabelsAllowed ==
    ASSUME IInv, NEW u \in Member, Relabels(u)
    PROVE  Allowed
<1> SUFFICES ASSUME NEW t \in TxId
             PROVE  /\ tx[t].status = "deleted" => tx'[t].status = "deleted"
                    /\ tx'[t] # tx[t] => MayTouch(t)
                    /\ tx'[t].source # tx[t].source =>
                          tx[t].source = "import_csv" \/ tx'[t].source = "manual"
  BY DEF Allowed, KeepsDeleted, TouchesInSight, SourceMovesUp
<1>1. tx'[t] = tx[t] \/ RetaggedRow(tx[t], tx'[t], u)
  BY RelabelsRetag DEF IInv, Retagged
<1>2. requester' = u
  BY DEF Relabels, LayerStep, LinkTransfer, UnlinkTransfer, Rescan, CreateRule,
         DeleteRule, ApplyRules, Classify, ClassifyLlm, By
<1> QED
  BY <1>1, <1>2 DEF RetaggedRow, Booking, MayTouch

\* An edit of one row is of a live row its author may see, and is the human's.
LEMMA EditAllowed ==
    ASSUME IInv, NEW u \in Member, NEW t \in TxId, EditsRow(u, t)
    PROVE  Allowed
<1>1. \A s \in TxId : s # t => tx'[s] = tx[s]
  BY DEF EditsRow, IInv, TypeOK
<1>2. /\ tx[t].status = "live" /\ InSight(tx[t], requester')
      /\ tx'[t].source \in {tx[t].source, "manual"}
  BY DEF EditsRow, Visible
<1> QED
  BY <1>1, <1>2 DEF Allowed, KeepsDeleted, TouchesInSight, SourceMovesUp, MayTouch

\* A rollback deletes rows of its requester's own batch.
LEMMA RollbackAllowed ==
    ASSUME IInv, NEW u \in Member, NEW b \in Batch \cup {ManualBatch}, RollbackBatch(u, b)
    PROVE  Allowed
<1> SUFFICES ASSUME NEW t \in TxId
             PROVE  /\ tx[t].status = "deleted" => tx'[t].status = "deleted"
                    /\ tx'[t] # tx[t] => MayTouch(t)
                    /\ tx'[t].source = tx[t].source
  BY DEF Allowed, KeepsDeleted, TouchesInSight, SourceMovesUp
<1>1. tx[t] \in Row /\ b \in Batch /\ batches[b].owner = u /\ requester' = u
  BY DEF IInv, TypeOK, RollbackBatch, By
<1>2. CASE tx[t].batch = b /\ tx[t].status = "live"
  <2>1. tx'[t] = [tx[t] EXCEPT !.status = "deleted"]
    BY <1>2 DEF RollbackBatch
  <2> QED
    BY <1>1, <1>2, <2>1 DEF MayTouch, Row
<1>3. CASE ~(tx[t].batch = b /\ tx[t].status = "live")
  BY <1>3 DEF RollbackBatch
<1> QED
  BY <1>2, <1>3

\* A hand-entered row is its author's.
LEMMA CreateManualAllowed ==
    ASSUME IInv, NEW u \in Member, NEW m \in ManualId, NEW a \in Account,
           NEW content \in Content, NEW category \in Category \cup {None},
           NEW scope \in Scope, CreateManual(u, m, a, content, category, scope)
    PROVE  Allowed
<1>1. \A t \in TxId : t # m => tx'[t] = tx[t]
  BY DEF CreateManual, IInv, TypeOK
<1>2. /\ m \in TxId /\ tx[m].status = "absent" /\ requester' = u
      /\ tx'[m].owner = u /\ tx'[m].source = "manual"
  BY DEF CreateManual, By, IInv, TypeOK, TxId
<1> QED
  BY <1>1, <1>2 DEF Allowed, KeepsDeleted, TouchesInSight, SourceMovesUp, MayTouch

\* A departure changes rows of the departing member only, and deletes some.
LEMMA DeleteUserAllowed ==
    ASSUME IInv, NEW u \in Member, NEW gone \in Member, DeleteUser(u, gone)
    PROVE  Allowed
<1> SUFFICES ASSUME NEW t \in TxId
             PROVE  /\ tx[t].status = "deleted" => tx'[t].status = "deleted"
                    /\ tx'[t] # tx[t] => MayTouch(t)
                    /\ tx'[t].source = tx[t].source
  BY DEF Allowed, KeepsDeleted, TouchesInSight, SourceMovesUp
<1>1. tx[t] \in Row /\ gone \in members /\ gone \notin members'
  BY DEF IInv, TypeOK, DeleteUser
<1>2. CASE tx[t].owner # gone
  BY <1>2 DEF DeleteUser
<1>3. CASE tx[t].owner = gone
  <2>1. tx'[t] \in {[tx[t] EXCEPT !.status = "deleted", !.owner = None],
                   [tx[t] EXCEPT !.owner = None]}
    BY <1>3 DEF DeleteUser
  <2>2. MayTouch(t)
    BY <1>1, <1>3 DEF MayTouch
  <2> QED
    BY <1>1, <2>1, <2>2 DEF Row
<1> QED
  BY <1>2, <1>3

\* Every request is allowed what it does.
LEMMA NextAllowed == IInv /\ [Next]_vars => [Allowed]_vars
<1> SUFFICES ASSUME IInv, Next PROVE Allowed
  BY DEF vars
<1>1. ASSUME NEW u \in Member, MoneyStep(u) PROVE Allowed
  <2>1. ASSUME NEW t \in TxId, EditsRow(u, t) PROVE Allowed
    BY <2>1, EditAllowed
  <2> QED
    BY <1>1, <2>1, ImportAllowed, RollbackAllowed, CreateManualAllowed, SetCategoryEdits,
       EditTransactionEdits, DeleteTransactionEdits, RelabelsAllowed DEF MoneyStep, Relabels
<1>2. ASSUME NEW u \in Member, LayerStep(u) PROVE Allowed
  BY <1>2, RelabelsAllowed DEF Relabels
<1>3. ASSUME NEW u \in Member, HouseholdStep(u) PROVE Allowed
  <2>1. ASSUME NEW a \in Account, NEW o \in Member \cup {None}, EditAccount(u, a, o)
        PROVE  Allowed
    BY <2>1 DEF EditAccount, Allowed, KeepsDeleted, TouchesInSight, SourceMovesUp
  <2> QED
    BY <1>3, <2>1, DeleteUserAllowed DEF HouseholdStep
<1> QED
  BY <1>1, <1>2, <1>3 DEF Next

\* Once soft-deleted, a row stays so: no later import, edit or layer revives it
\* (pipeline.run_import deduplicates against every row).
THEOREM DeletedStaysDeleted == Spec => DeletedForGood
<1>1. [Allowed]_vars => [KeepsDeleted]_vars
  BY DEF Allowed
<1> QED
  BY <1>1, InitIInv, NextKeepsIInv, NextAllowed, PTL DEF Spec, DeletedForGood

\* Members cannot change each other's private rows, except through a rollback,
\* an upload into a member's account or a departure (visibility.visible_to).
THEOREM RequestsStayInSight == Spec => RequestStaysInSight
<1>1. [Allowed]_vars => [TouchesInSight]_vars
  BY DEF Allowed
<1> QED
  BY <1>1, InitIInv, NextKeepsIInv, NextAllowed, PTL DEF Spec, RequestStaysInSight

\* No layer ever takes a row over from a human or from another layer
\* (rules.apply_rules, classifier._candidate_filter).
THEOREM LayersKeepPrecedence == Spec => LayerPrecedence
<1>1. [Allowed]_vars => [SourceMovesUp]_vars
  BY DEF Allowed
<1> QED
  BY <1>1, InitIInv, NextKeepsIInv, NextAllowed, PTL DEF Spec, LayerPrecedence
-----------------------------------------------------------------------------
(* The two legs of a transfer                                              *)

\* The rows of a table that statements listed still say what the bank said.
AsBanked(table) ==
    \A t \in Fingerprint : table[t].status # "absent" =>
        <<table[t].account, table[t].content>> = t

\* No row is part of two of the pairs.
Disjoint(pairs) ==
    \A p, q \in pairs : {p[1], p[2]} \cap {q[1], q[2]} # {} => p = q

\* The pairs a scan finds in any table whose rows are complete share no leg: an
\* outflow is no inflow, and the edges are unique at both ends.
LEMMA AutoPairsAreDisjoint ==
    ASSUME NEW table \in [TxId -> Row], Complete(table), NEW viewer
    PROVE  Disjoint(AutoPairs(table, viewer))
<1> DEFINE E == Edges(table, viewer)
<1> SUFFICES ASSUME NEW p \in AutoPairs(table, viewer), NEW q \in AutoPairs(table, viewer),
                    {p[1], p[2]} \cap {q[1], q[2]} # {}
             PROVE  p = q
  BY DEF Disjoint
<1>1. ASSUME NEW e \in E
      PROVE  /\ e[1] \in TxId /\ e[2] \in TxId
             /\ Amount[table[e[1]].content] \in Int /\ Amount[table[e[2]].content] \in Int
             /\ Amount[table[e[1]].content] < 0
             /\ Amount[table[e[1]].content] = -Amount[table[e[2]].content]
  <2>1. e[1] \in Unmatched(table, viewer) /\ e[2] \in Unmatched(table, viewer)
    BY <1>1 DEF Edges
  <2>2. table[e[1]].content \in Content /\ table[e[2]].content \in Content
    BY <2>1 DEF Unmatched, Visible, Complete
  <2>3. Amount \in [Content -> Int]
    BY LedgerAssumption
  <2> QED
    BY <1>1, <2>1, <2>2, <2>3 DEF Edges, Unmatched, IsCandidate, Opposite
<1>2. p \in E /\ q \in E
  BY DEF AutoPairs
<1>3. p[1] # q[2] /\ p[2] # q[1]
  BY <1>1, <1>2
<1>4. p[1] = q[1] \/ p[2] = q[2]
  BY <1>3
<1> QED
  BY <1>2, <1>4 DEF AutoPairs

\* Linking disjoint pairs of opposite rows leaves every leg with exactly one
\* other leg, which cancels it.
LEMMA LinkedLegs ==
    ASSUME NEW table \in [TxId -> Row], NEW viewer,
           NEW pairs \in SUBSET (Unmatched(table, viewer) \X Unmatched(table, viewer)),
           AsBanked(table), PairedLegs(table), Disjoint(pairs),
           \A p \in pairs : Opposite(table[p[1]], table[p[2]])
    PROVE  PairedLegs(Linked(table, pairs))
<1> DEFINE new == Linked(table, pairs)
<1>1. ASSUME NEW t \in TxId
      PROVE  new[t].status = table[t].status
  <2>1. Retagged(table, new, viewer)
    BY LinkedTable
  <2> HIDE DEF new
  <2> QED
    BY <2>1, RetaggedBooking
<1>2. Fingerprint \subseteq TxId
  BY DEF TxId
<1> SUFFICES ASSUME NEW t \in Fingerprint, new[t].group # {}
             PROVE  /\ new[t].status # "absent"
                    /\ \E s \in new[t].group \ {t} :
                          /\ new[t].group = {t, s}
                          /\ s \in Fingerprint => /\ new[s].status # "absent"
                                                  /\ t[1] # s[1]
                                                  /\ Amount[t[2]] + Amount[s[2]] = 0
  BY DEF PairedLegs
<1> DEFINE mine == {p \in pairs : t \in {p[1], p[2]}}
           g == UNION {{p[1], p[2]} : p \in mine}
<1>3. new[t] = IF mine = {} THEN table[t]
               ELSE [table[t] EXCEPT !.group = g, !.category = TransferCategory]
  BY <1>2 DEF Linked
<1>4. CASE mine = {}
  <2>1. new[t] = table[t]
    BY <1>3, <1>4
  <2> HIDE DEF new
  <2> QED
    BY <1>1, <1>2, <2>1 DEF PairedLegs
<1>5. CASE mine # {}
  <2>1. PICK p \in pairs : t \in {p[1], p[2]}
    BY <1>5
  <2>2. mine = {p}
    BY <2>1 DEF Disjoint
  <2>3. g = {p[1], p[2]}
    BY <2>2
  <2>4. new[t].group = {p[1], p[2]}
    <3>1. table[t] \in Row
      BY <1>2
    <3> HIDE DEF mine, g, new
    <3> QED
      BY <1>3, <1>5, <2>3, <3>1 DEF Row
  <2>5. /\ p[1] \in TxId /\ p[2] \in TxId
        /\ table[p[1]].status = "live" /\ table[p[2]].status = "live"
    BY DEF Unmatched, Visible
  <2>6. /\ table[p[1]].account # table[p[2]].account
        /\ Amount[table[p[1]].content] = -Amount[table[p[2]].content]
    BY DEF Opposite
  <2> DEFINE s == IF t = p[1] THEN p[2] ELSE p[1]
  <2>7. s \in TxId /\ s # t /\ {p[1], p[2]} = {t, s} /\ table[s].status = "live"
        /\ table[t].status = "live"
    BY <2>1, <2>5, <2>6
  <2>8. ASSUME s \in Fingerprint
        PROVE  t[1] # s[1] /\ Amount[t[2]] + Amount[s[2]] = 0
    <3>1. /\ table[t].account = t[1] /\ table[t].content = t[2]
          /\ table[s].account = s[1] /\ table[s].content = s[2]
          /\ t[2] \in Content /\ s[2] \in Content
      BY <2>7, <2>8, Fingerprints DEF AsBanked
    <3>2. Amount[t[2]] \in Int /\ Amount[s[2]] \in Int
      BY <3>1, LedgerAssumption
    <3>3. \/ Amount[t[2]] = -Amount[s[2]] /\ t[1] # s[1]
          \/ Amount[s[2]] = -Amount[t[2]] /\ t[1] # s[1]
      BY <2>1, <2>6, <3>1
    <3> QED
      BY <3>2, <3>3
  <2>9. new[t].status # "absent" /\ new[s].status # "absent"
    BY <1>1, <1>2, <2>7
  <2> HIDE DEF new, s
  <2> QED
    BY <2>4, <2>7, <2>8, <2>9
<1> QED
  BY <1>4, <1>5

\* A change that keeps every row there, and its group or drops it, keeps legs
\* paired: a leg's partner is asked only whether it is a row.
LEMMA GroupsShrink ==
    ASSUME NEW old, NEW new, PairedLegs(old),
           \A t \in TxId : old[t].status # "absent" => new[t].status # "absent",
           \A t \in Fingerprint : new[t].group \in {old[t].group, {}}
    PROVE  PairedLegs(new)
<1> SUFFICES ASSUME NEW t \in Fingerprint, new[t].group # {}
             PROVE  /\ new[t].status # "absent"
                    /\ \E s \in new[t].group \ {t} :
                          /\ new[t].group = {t, s}
                          /\ s \in Fingerprint => /\ new[s].status # "absent"
                                                  /\ t[1] # s[1]
                                                  /\ Amount[t[2]] + Amount[s[2]] = 0
  BY DEF PairedLegs
<1>1. new[t].group = old[t].group
  OBVIOUS
<1>2. /\ old[t].status # "absent"
      /\ \E s \in old[t].group \ {t} :
            /\ old[t].group = {t, s}
            /\ s \in Fingerprint => /\ old[s].status # "absent"
                                    /\ t[1] # s[1]
                                    /\ Amount[t[2]] + Amount[s[2]] = 0
  BY <1>1 DEF PairedLegs
<1>3. Fingerprint \subseteq TxId
  BY DEF TxId
<1> QED
  BY <1>1, <1>2, <1>3

\* Applying rules touches no group.
LEMMA RuledLegs ==
    ASSUME NEW table \in [TxId -> Row], NEW active \in SUBSET Rule, NEW viewer,
           PairedLegs(table)
    PROVE  PairedLegs(Ruled(table, active, viewer))
<1>1. \A t \in TxId : Ruled(table, active, viewer)[t].status = table[t].status
  BY RuledTable, RetaggedBooking
<1>2. \A t \in TxId : Ruled(table, active, viewer)[t].group = table[t].group
  <2> TAKE t \in TxId
  <2> DEFINE c == MatchCategory(active, table[t].content)
  <2>1. Ruled(table, active, viewer)[t] \in
           {table[t], [table[t] EXCEPT !.category = c, !.source = "rule"]}
    BY DEF Ruled, RuledRow
  <2>2. table[t] \in Row
    OBVIOUS
  <2> HIDE DEF c
  <2> QED
    BY <2>1, <2>2 DEF Row
<1>3. Fingerprint \subseteq TxId
  BY DEF TxId
<1> QED
  BY <1>1, <1>2, <1>3, GroupsShrink

\* An upload adds complete rows in no group, and links disjoint pairs.
LEMMA ImportKeepsPaired ==
    ASSUME IInv, Paired, NEW u \in Member, NEW a \in Account,
           NEW file \in SUBSET Statement[a], NEW b \in Batch, Import(u, a, file, b)
    PROVE  Paired'
<1> DEFINE new == NewLines(a, file)
           C == Committed(u, a, file, b)
           owner == RowOwner(u, a)
<1>1. /\ TypeOK /\ ImportedAsBanked /\ u \in members /\ rules \in SUBSET Rule
      /\ Complete(tx) /\ PairedLegs(tx)
  BY DEF IInv, Import, By, Paired, TypeOK
<1>2. /\ C \in [TxId -> Row] /\ Retagged(C, tx', owner)
  BY <1>1, ImportedTable
<1>3. \A t \in TxId \ new : C[t] = tx[t]
  BY DEF Committed, WithImported
<1>4. \A t \in new : /\ C[t].status = "live" /\ C[t].account = a /\ C[t].content = t[2]
                     /\ C[t].group = {}
                     /\ t \in Fingerprint /\ t[1] = a
  <2>1. new \subseteq Fingerprint /\ \A t \in new : t[1] = a
    BY DEF NewLines, Fingerprint
  <2> QED
    BY <2>1 DEF Committed, WithImported, TxId
<1>5. PICK done \in SUBSET AutoPairs(C, owner), ruled \in BOOLEAN :
         tx' = IF ruled THEN Ruled(Linked(C, done), rules, owner) ELSE Linked(C, done)
  BY DEF Import, Committed
<1> HIDE DEF C, new, owner
<1>6. Complete(C)
  BY <1>1, <1>3, <1>4, Fingerprints DEF Complete
<1>7. AsBanked(C)
  BY <1>1, <1>3, <1>4, Fingerprints DEF AsBanked, ImportedAsBanked
<1>8. PairedLegs(C)
  <2>1. \A t \in TxId : tx[t].status # "absent" => C[t].status # "absent"
    BY <1>3, <1>4
  <2>2. \A t \in Fingerprint : C[t].group \in {tx[t].group, {}}
    BY <1>3, <1>4, Fingerprints
  <2> QED
    BY <1>1, <2>1, <2>2, GroupsShrink
<1>9. done \in SUBSET (Unmatched(C, owner) \X Unmatched(C, owner))
  BY <1>5, AutoPairsUnmatched
<1>10. Disjoint(done)
  BY <1>2, <1>6, AutoPairsAreDisjoint DEF Disjoint
<1>11. \A p \in done : Opposite(C[p[1]], C[p[2]])
  BY <1>5 DEF AutoPairs, Edges, IsCandidate
<1>12. PairedLegs(Linked(C, done)) /\ Linked(C, done) \in [TxId -> Row]
  BY <1>2, <1>7, <1>8, <1>9, <1>10, <1>11, LinkedLegs, LinkedTable
<1>13. PairedLegs(tx')
  BY <1>1, <1>5, <1>12, RuledLegs
<1>14. Complete(tx')
  BY <1>2, <1>6, RetaggedBooking DEF Complete
<1> QED
  BY <1>13, <1>14 DEF Paired, PairedLegs, Complete

\* Linking, unlinking and the layers: they complete no row, a link joins two
\* unmatched rows, and an unlink only takes legs out of a group.
LEMMA RelabelsKeepPaired ==
    ASSUME IInv, Paired, NEW u \in Member, Relabels(u)
    PROVE  Paired'
<1>1. /\ TypeOK /\ RowsInPlace /\ ImportedAsBanked /\ tx \in [TxId -> Row]
      /\ rules \in SUBSET Rule /\ Complete(tx) /\ PairedLegs(tx)
  BY DEF IInv, TypeOK, Paired
<1>2. Retagged(tx, tx', u)
  BY <1>1, RelabelsRetag
<1>3. Complete(tx')
  BY <1>1, <1>2, RetaggedBooking DEF Complete
<1>4. AsBanked(tx)
  BY <1>1 DEF AsBanked, ImportedAsBanked
<1>5. \A t \in TxId : tx[t].status # "absent" => tx'[t].status # "absent"
  BY <1>2, RetaggedBooking
<1>6. Fingerprint \subseteq TxId
  BY DEF TxId
<1>7. ASSUME \A t \in TxId : tx'[t].group \in {tx[t].group, {}}
      PROVE  PairedLegs(tx')
  BY <1>1, <1>5, <1>6, <1>7, GroupsShrink
<1>8. ASSUME NEW x \in TxId, NEW y \in TxId, LinkTransfer(u, x, y)
      PROVE  PairedLegs(tx')
  <2> DEFINE pairs == {<<x, y>>}
  <2>1. pairs \in SUBSET (Unmatched(tx, u) \X Unmatched(tx, u))
    BY <1>8 DEF LinkTransfer, Unmatched
  <2>2. Disjoint(pairs)
    BY DEF Disjoint
  <2>3. \A p \in pairs : Opposite(tx[p[1]], tx[p[2]])
    BY <1>8 DEF LinkTransfer
  <2>4. tx' = Linked(tx, pairs)
    BY <1>8 DEF LinkTransfer
  <2> HIDE DEF pairs
  <2> QED
    BY <1>1, <1>4, <2>1, <2>2, <2>3, <2>4, LinkedLegs
<1>9. ASSUME NEW g \in {tx[t].group : t \in TxId} \ {{}}, UnlinkTransfer(u, g)
      PROVE  PairedLegs(tx')
  <2>1. \A t \in TxId : tx'[t].group \in {tx[t].group, {}}
    <3> TAKE t \in TxId
    <3>1. tx'[t] \in {tx[t], [tx[t] EXCEPT !.group = {},
                         !.category = IF @ = TransferCategory THEN None ELSE @]}
      BY <1>9 DEF UnlinkTransfer
    <3>2. tx[t] \in Row
      BY <1>1
    <3> QED
      BY <3>1, <3>2 DEF Row
  <2> QED
    BY <1>7, <2>1
<1>10. ASSUME Rescan(u) PROVE PairedLegs(tx')
  <2>1. PICK done \in SUBSET AutoPairs(tx, u) : tx' = Linked(tx, done)
    BY <1>10 DEF Rescan
  <2>2. done \in SUBSET (Unmatched(tx, u) \X Unmatched(tx, u))
    BY AutoPairsUnmatched
  <2>3. Disjoint(done)
    BY <1>1, AutoPairsAreDisjoint DEF Disjoint
  <2>4. \A p \in done : Opposite(tx[p[1]], tx[p[2]])
    BY DEF AutoPairs, Edges, IsCandidate
  <2> QED
    BY <1>1, <1>4, <2>1, <2>2, <2>3, <2>4, LinkedLegs
<1>11. ASSUME LayerStep(u) PROVE PairedLegs(tx')
  <2>1. CASE tx' = tx
    BY <1>1, <2>1
  <2>2. CASE ApplyRules(u)
    BY <1>1, <2>2, RuledLegs DEF ApplyRules
  <2>3. ASSUME NEW verdicts, NEW layer, tx' = Tagged(verdicts, layer)
        PROVE  PairedLegs(tx')
    <3>1. \A t \in TxId : tx'[t].group = tx[t].group
      <4> TAKE t \in TxId
      <4>1. tx'[t] \in {tx[t], [tx[t] EXCEPT !.category = verdicts[t], !.source = layer]}
        BY <2>3 DEF Tagged
      <4>2. tx[t] \in Row
        BY <1>1
      <4> QED
        BY <4>1, <4>2 DEF Row
    <3> QED
      BY <1>7, <3>1
  <2> QED
    BY <1>11, <2>1, <2>2, <2>3 DEF LayerStep, CreateRule, DeleteRule, Classify, ClassifyLlm
<1> QED
  BY <1>3, <1>8, <1>9, <1>10, <1>11 DEF Relabels, Paired, PairedLegs, Complete

\* An edit of a row: a hand-entered one may say something else now, and none
\* leaves its group.
LEMMA EditKeepsPaired ==
    ASSUME IInv, Paired, NEW u \in Member, NEW t \in TxId, EditsRow(u, t)
    PROVE  Paired'
<1>1. Complete(tx) /\ PairedLegs(tx) /\ tx \in [TxId -> Row]
  BY DEF Paired, IInv, TypeOK
<1>2. \A s \in TxId : s # t => tx'[s] = tx[s]
  BY <1>1 DEF EditsRow
<1>3. /\ tx[t].status = "live" /\ tx'[t].status # "absent" /\ tx'[t].group = tx[t].group
      /\ \/ tx'[t].account = tx[t].account /\ tx'[t].content = tx[t].content
         \/ tx'[t].account \in Account /\ tx'[t].content \in Content
  BY DEF EditsRow, Visible
<1>4. Complete(tx')
  BY <1>1, <1>2, <1>3 DEF Complete
<1>5. /\ \A s \in TxId : tx[s].status # "absent" => tx'[s].status # "absent"
      /\ \A s \in Fingerprint : tx'[s].group \in {tx[s].group, {}}
  BY <1>2, <1>3, Fingerprints
<1>6. PairedLegs(tx')
  BY <1>1, <1>5, GroupsShrink
<1> QED
  BY <1>4, <1>6 DEF Paired, PairedLegs, Complete

\* A rollback and a departure delete rows, which stay rows, in their groups.
LEMMA DeletionsKeepPaired ==
    ASSUME IInv, Paired, NEW u \in Member,
           \/ \E b \in Batch \cup {ManualBatch} : RollbackBatch(u, b)
           \/ \E gone \in Member : DeleteUser(u, gone)
    PROVE  Paired'
<1>1. Complete(tx) /\ PairedLegs(tx) /\ tx \in [TxId -> Row] /\ RowsInPlace
  BY DEF Paired, IInv, TypeOK
<1>2. \A t \in TxId :
        /\ tx'[t].account = tx[t].account /\ tx'[t].content = tx[t].content
        /\ tx'[t].group = tx[t].group
        /\ tx'[t].status # "absent" <=> tx[t].status # "absent"
  <2> TAKE t \in TxId
  <2>1. tx[t] \in Row
    BY <1>1
  <2>2. ASSUME NEW b \in Batch \cup {ManualBatch}, RollbackBatch(u, b)
        PROVE  tx'[t] = tx[t] \/ (tx[t].status = "live"
                                    /\ tx'[t] = [tx[t] EXCEPT !.status = "deleted"])
    BY <2>2 DEF RollbackBatch
  <2>3. ASSUME NEW gone \in Member, DeleteUser(u, gone)
        PROVE  /\ tx'[t] \in {tx[t], [tx[t] EXCEPT !.status = "deleted", !.owner = None],
                             [tx[t] EXCEPT !.owner = None]}
               /\ tx[t].status = "absent" => tx'[t] = tx[t]
    <3>1. tx[t].status = "absent" => tx[t].owner = None
      BY <1>1 DEF RowsInPlace, NoRow
    <3>2. None # gone
      BY LedgerAssumption
    <3> QED
      BY <2>3, <3>1, <3>2 DEF DeleteUser
  <2> QED
    BY <2>1, <2>2, <2>3 DEF Row
<1>3. Complete(tx')
  BY <1>1, <1>2 DEF Complete
<1>4. Fingerprint \subseteq TxId
  BY DEF TxId
<1>5. PairedLegs(tx')
  BY <1>1, <1>2, <1>4, GroupsShrink
<1> QED
  BY <1>3, <1>5 DEF Paired, PairedLegs, Complete

\* A hand-entered row starts complete and unlinked.
LEMMA CreateManualKeepsPaired ==
    ASSUME IInv, Paired, NEW u \in Member, NEW m \in ManualId, NEW a \in Account,
           NEW content \in Content, NEW category \in Category \cup {None},
           NEW scope \in Scope, CreateManual(u, m, a, content, category, scope)
    PROVE  Paired'
<1>1. Complete(tx) /\ PairedLegs(tx) /\ tx \in [TxId -> Row] /\ m \in TxId
  BY DEF Paired, IInv, TypeOK, TxId
<1>2. \A s \in TxId : s # m => tx'[s] = tx[s]
  BY <1>1 DEF CreateManual
<1>3. /\ tx'[m].status = "live" /\ tx'[m].group = {}
      /\ tx'[m].account = a /\ tx'[m].content = content
  BY <1>1 DEF CreateManual
<1>4. Complete(tx')
  BY <1>1, <1>2, <1>3 DEF Complete
<1>5. /\ \A s \in TxId : tx[s].status # "absent" => tx'[s].status # "absent"
      /\ \A s \in Fingerprint : tx'[s].group \in {tx[s].group, {}}
  BY <1>2, <1>3, Fingerprints
<1>6. PairedLegs(tx')
  BY <1>1, <1>5, GroupsShrink
<1> QED
  BY <1>4, <1>6 DEF Paired, PairedLegs, Complete

\* Every request keeps rows complete and legs paired.
LEMMA NextKeepsPaired == IInv /\ Paired /\ [Next]_vars => Paired'
<1> SUFFICES ASSUME IInv, Paired, [Next]_vars PROVE Paired'
  OBVIOUS
<1>1. CASE UNCHANGED vars
  BY <1>1 DEF vars, Paired, PairedLegs, Complete
<1>2. ASSUME NEW u \in Member, MoneyStep(u) PROVE Paired'
  <2>1. ASSUME NEW t \in TxId, EditsRow(u, t) PROVE Paired'
    BY <2>1, EditKeepsPaired
  <2> QED
    BY <1>2, <2>1, ImportKeepsPaired, DeletionsKeepPaired, CreateManualKeepsPaired,
       SetCategoryEdits, EditTransactionEdits, DeleteTransactionEdits, RelabelsKeepPaired
       DEF MoneyStep, Relabels
<1>3. ASSUME NEW u \in Member, LayerStep(u) PROVE Paired'
  BY <1>3, RelabelsKeepPaired DEF Relabels
<1>4. ASSUME NEW u \in Member, HouseholdStep(u) PROVE Paired'
  <2>1. ASSUME NEW a \in Account, NEW o \in Member \cup {None}, EditAccount(u, a, o)
        PROVE  Paired'
    BY <2>1 DEF EditAccount, Paired, PairedLegs, Complete
  <2> QED
    BY <1>4, <2>1, DeletionsKeepPaired DEF HouseholdStep
<1> QED
  BY <1>1, <1>2, <1>3, <1>4 DEF Next

-----------------------------------------------------------------------------
(* What a batch counts                                                     *)

\* Counted, for one batch: what a request changes is one batch at a time.
CountedBatch(b) ==
    /\ IsFiniteSet(LiveRows(b))
    /\ batches[b].status = "unused" => LiveRows(b) = {} /\ batches[b].count = 0
    /\ batches[b].status = "active" =>
          /\ Cardinality(LiveRows(b)) <= batches[b].count
          /\ members = Member => Cardinality(LiveRows(b)) = batches[b].count

LEMMA CountedByBatch ==
    Counted <=> \A b \in Batch \cup {ManualBatch} : CountedBatch(b)
BY DEF Counted, CountedBatch, BatchesCountable, RecordCountInStep

\* A batch is counted after a request that leaves its live rows, its status and
\* its count alone, whoever else may have left.
LEMMA SameRowsCounted ==
    ASSUME NEW b \in Batch \cup {ManualBatch}, CountedBatch(b),
           LiveRows(b)' = LiveRows(b),
           batches'[b].status = batches[b].status,
           batches'[b].count = batches[b].count,
           members' = Member => members = Member
    PROVE  CountedBatch(b)'
BY DEF CountedBatch

\* An upload counts the lines it adds, in a batch that held none.
LEMMA ImportKeepsCounted ==
    ASSUME IInv, Counted, NEW u \in Member, NEW a \in Account,
           NEW file \in SUBSET Statement[a], NEW b \in Batch, Import(u, a, file, b)
    PROVE  Counted'
<1> DEFINE new == NewLines(a, file)
           C == Committed(u, a, file, b)
<1> SUFFICES ASSUME NEW c \in Batch \cup {ManualBatch} PROVE CountedBatch(c)'
  BY DEF Counted, CountedBatch, BatchesCountable, RecordCountInStep
<1>1. /\ TypeOK /\ u \in members /\ batches \in [Batch \cup {ManualBatch} -> BatchRow]
      /\ CountedBatch(c) /\ CountedBatch(b)
  BY CountedByBatch DEF IInv, Import, By, TypeOK
<1>2. C \in [TxId -> Row] /\ Retagged(C, tx', RowOwner(u, a))
  BY <1>1, ImportedTable
<1>3. \A t \in TxId : tx'[t].status = C[t].status /\ tx'[t].batch = C[t].batch
  BY <1>2, RetaggedBooking
<1>4. \A t \in TxId \ new : C[t] = tx[t]
  BY DEF Committed, WithImported
<1>5. \A t \in new : /\ C[t].status = "live" /\ C[t].batch = b
                     /\ tx[t].status = "absent" /\ t \in TxId
  BY DEF Committed, WithImported, NewLines, Fingerprint, TxId
<1>6. /\ members' = members /\ batches[b].status = "unused"
      /\ batches'[b].status = "active" /\ batches'[b].count = Cardinality(new)
      /\ c # b => batches'[c] = batches[c]
  BY <1>1 DEF Import
<1>7. IsFiniteSet(new) /\ Cardinality(new) \in Nat
  <2>1. IsFiniteSet({a} \X file)
    BY LedgerAssumption, FS_Subset, FS_Singleton, FS_Product
  <2>2. new \in SUBSET ({a} \X file)
    BY DEF NewLines
  <2> QED
    BY <2>1, <2>2, FS_Subset, FS_CardinalityType
<1> HIDE DEF C, new
<1>8. CASE c = b
  <2>1. LiveRows(b) = {}
    BY <1>1, <1>6 DEF CountedBatch
  <2>2. LiveRows(b)' = new
    BY <1>3, <1>4, <1>5, <2>1 DEF LiveRows
  <2> QED
    BY <1>6, <1>7, <1>8, <2>2 DEF CountedBatch
<1>9. CASE c # b
  <2>1. LiveRows(c)' = LiveRows(c)
    BY <1>3, <1>4, <1>5, <1>9 DEF LiveRows
  <2> QED
    BY <1>1, <1>6, <1>9, <2>1, SameRowsCounted
<1> QED
  BY <1>8, <1>9

\* Linking, unlinking and the layers leave every batch what it holds.
LEMMA RelabelsKeepCounted ==
    ASSUME IInv, Counted, NEW u \in Member, Relabels(u)
    PROVE  Counted'
<1> SUFFICES ASSUME NEW c \in Batch \cup {ManualBatch} PROVE CountedBatch(c)'
  BY DEF Counted, CountedBatch, BatchesCountable, RecordCountInStep
<1>1. Retagged(tx, tx', u) /\ UNCHANGED <<members, batches>>
  BY RelabelsRetag DEF IInv
<1>2. \A t \in TxId : tx'[t].status = tx[t].status /\ tx'[t].batch = tx[t].batch
  BY <1>1, RetaggedBooking
<1>3. LiveRows(c)' = LiveRows(c)
  BY <1>2 DEF LiveRows
<1> QED
  BY <1>1, <1>3, CountedByBatch, SameRowsCounted

\* Of the batch rolled back nothing is asked any more but that it is finite;
\* no other batch loses a row.
LEMMA RollbackKeepsCounted ==
    ASSUME IInv, Counted, NEW u \in Member, NEW b \in Batch \cup {ManualBatch},
           RollbackBatch(u, b)
    PROVE  Counted'
<1> SUFFICES ASSUME NEW c \in Batch \cup {ManualBatch} PROVE CountedBatch(c)'
  BY DEF Counted, CountedBatch, BatchesCountable, RecordCountInStep
<1>1. /\ batches \in [Batch \cup {ManualBatch} -> BatchRow]
      /\ CountedBatch(c) /\ tx \in [TxId -> Row]
  BY CountedByBatch DEF IInv, TypeOK
<1>2. /\ members' = members
      /\ c # b => batches'[c] = batches[c]
      /\ batches'[b].status = "rolled_back"
  BY <1>1 DEF RollbackBatch, BatchRow
<1>3. \A t \in TxId : /\ tx'[t].batch = tx[t].batch
                      /\ tx'[t].status = "live" <=>
                            tx[t].status = "live" /\ tx[t].batch # b
  <2> TAKE t \in TxId
  <2>1. tx[t] \in Row
    BY <1>1
  <2>2. tx'[t] = IF tx[t].batch = b /\ tx[t].status = "live"
                 THEN [tx[t] EXCEPT !.status = "deleted"] ELSE tx[t]
    BY DEF RollbackBatch
  <2> QED
    BY <2>1, <2>2 DEF Row
<1>4. CASE c = b
  <2>1. LiveRows(c)' = {}
    BY <1>3, <1>4 DEF LiveRows
  <2> QED
    BY <1>2, <1>4, <2>1, FS_EmptySet DEF CountedBatch
<1>5. CASE c # b
  <2>1. LiveRows(c)' = LiveRows(c)
    BY <1>3, <1>5 DEF LiveRows
  <2> QED
    BY <1>1, <1>2, <1>5, <2>1, SameRowsCounted
<1> QED
  BY <1>4, <1>5

\* A hand-entered row makes the manual batch one larger.
LEMMA CreateManualKeepsCounted ==
    ASSUME IInv, Counted, NEW u \in Member, NEW m \in ManualId, NEW a \in Account,
           NEW content \in Content, NEW category \in Category \cup {None},
           NEW scope \in Scope, CreateManual(u, m, a, content, category, scope)
    PROVE  Counted'
<1> SUFFICES ASSUME NEW c \in Batch \cup {ManualBatch} PROVE CountedBatch(c)'
  BY DEF Counted, CountedBatch, BatchesCountable, RecordCountInStep
<1>1. /\ batches \in [Batch \cup {ManualBatch} -> BatchRow] /\ RolledBackEmpty
      /\ CountedBatch(c) /\ tx \in [TxId -> Row] /\ m \in TxId
      /\ batches[c] \in BatchRow
  BY CountedByBatch DEF IInv, TypeOK, TxId
<1>2. /\ members' = members /\ tx[m].status = "absent"
      /\ \A t \in TxId : t # m => tx'[t] = tx[t]
      /\ tx'[m].status = "live" /\ tx'[m].batch = ManualBatch
  BY <1>1 DEF CreateManual
<1>3. CASE c = ManualBatch
  <2>1. batches'[c].status = "active" /\ batches'[c].count = batches[c].count + 1
    <3> DEFINE n == batches[ManualBatch].count + 1
    <3>1. batches' = [batches EXCEPT ![ManualBatch].status = "active",
                                     ![ManualBatch].count = n]
      BY <1>1 DEF CreateManual, BatchRow
    <3> HIDE DEF n
    <3>2. batches'[c].status = "active" /\ batches'[c].count = n
      BY <1>1, <1>3, <3>1 DEF BatchRow
    <3> QED
      BY <1>3, <3>2 DEF n
  <2>2. LiveRows(c)' = LiveRows(c) \cup {m} /\ m \notin LiveRows(c)
    BY <1>1, <1>2, <1>3 DEF LiveRows
  <2>3. /\ IsFiniteSet(LiveRows(c)')
        /\ Cardinality(LiveRows(c)') = Cardinality(LiveRows(c)) + 1
    BY <1>1, <2>2, FS_AddElement DEF CountedBatch
  <2>4. Cardinality(LiveRows(c)) \in Nat /\ batches[c].count \in Nat
    BY <1>1, FS_CardinalityType DEF CountedBatch, BatchRow
  <2>5. batches[c].status = "unused" =>
          Cardinality(LiveRows(c)) = 0 /\ batches[c].count = 0
    BY <1>1, FS_EmptySet DEF CountedBatch
  <2>6. batches[c].status # "rolled_back"
    BY <1>1, <1>3 DEF RolledBackEmpty
  <2>7. /\ Cardinality(LiveRows(c)) <= batches[c].count
        /\ members = Member => Cardinality(LiveRows(c)) = batches[c].count
    BY <1>1, <2>4, <2>5, <2>6 DEF CountedBatch, BatchRow
  <2> QED
    BY <1>2, <2>1, <2>3, <2>4, <2>7 DEF CountedBatch
<1>4. CASE c # ManualBatch
  <2>1. LiveRows(c)' = LiveRows(c)
    BY <1>1, <1>2, <1>4 DEF LiveRows
  <2>2. batches'[c] = batches[c]
    BY <1>1, <1>4 DEF CreateManual
  <2> QED
    BY <1>1, <1>2, <2>1, <2>2, SameRowsCounted
<1> QED
  BY <1>3, <1>4

\* A verdict or an edit leaves its row live, in its batch.
LEMMA EditKeepsCounted ==
    ASSUME IInv, Counted, NEW u \in Member, NEW t \in TxId, EditsRow(u, t),
           tx'[t].status = "live", batches' = batches
    PROVE  Counted'
<1> SUFFICES ASSUME NEW c \in Batch \cup {ManualBatch} PROVE CountedBatch(c)'
  BY DEF Counted, CountedBatch, BatchesCountable, RecordCountInStep
<1>1. \A s \in TxId : s # t => tx'[s] = tx[s]
  BY DEF EditsRow, IInv, TypeOK
<1>2. tx[t].status = "live" /\ tx'[t].batch = tx[t].batch /\ members' = members
  BY DEF EditsRow, Visible
<1>3. LiveRows(c)' = LiveRows(c)
  BY <1>1, <1>2 DEF LiveRows
<1> QED
  BY <1>2, <1>3, CountedByBatch, SameRowsCounted

\* Deleting a hand-entered row makes the manual batch one smaller: the floor at
\* zero is never met.
LEMMA DeleteTransactionKeepsCounted ==
    ASSUME IInv, Counted, NEW u \in Member, NEW t \in TxId, DeleteTransaction(u, t)
    PROVE  Counted'
<1> SUFFICES ASSUME NEW c \in Batch \cup {ManualBatch} PROVE CountedBatch(c)'
  BY DEF Counted, CountedBatch, BatchesCountable, RecordCountInStep
<1>1. /\ batches \in [Batch \cup {ManualBatch} -> BatchRow] /\ RolledBackEmpty
      /\ CountedBatch(c) /\ batches[c] \in BatchRow /\ tx[t] \in Row
      /\ tx \in [TxId -> Row]
  BY CountedByBatch DEF IInv, TypeOK
<1>2. /\ members' = members /\ tx[t].status = "live" /\ tx[t].batch = ManualBatch
      /\ tx' = [tx EXCEPT ![t].status = "deleted"]
  BY DEF DeleteTransaction, Visible, IsManualEntry
<1>3. /\ \A s \in TxId : s # t => tx'[s] = tx[s]
      /\ tx'[t].status = "deleted" /\ tx'[t].batch = ManualBatch
  BY <1>1, <1>2 DEF Row
<1>4. CASE c = ManualBatch
  <2>1. LiveRows(c)' = LiveRows(c) \ {t} /\ t \in LiveRows(c)
    BY <1>1, <1>2, <1>3, <1>4 DEF LiveRows
  <2>2. /\ IsFiniteSet(LiveRows(c)')
        /\ Cardinality(LiveRows(c)') = Cardinality(LiveRows(c)) - 1
    BY <1>1, <2>1, FS_RemoveElement DEF CountedBatch
  <2>3. /\ Cardinality(LiveRows(c)) \in Nat /\ batches[c].count \in Nat
        /\ Cardinality(LiveRows(c)) # 0
    BY <1>1, <2>1, FS_CardinalityType, FS_EmptySet DEF CountedBatch, BatchRow
  <2>4. batches[c].status = "active"
    BY <1>1, <1>4, <2>1 DEF RolledBackEmpty, CountedBatch, BatchRow
  <2>5. /\ batches'[c].status = "active"
        /\ batches'[c].count = IF batches[c].count > 0 THEN batches[c].count - 1
                               ELSE batches[c].count
    <3> DEFINE old == batches[ManualBatch].count
               n == IF old > 0 THEN old - 1 ELSE old
    <3>1. batches' = [batches EXCEPT ![ManualBatch].count = n]
      BY <1>1, <1>2 DEF DeleteTransaction
    <3> HIDE DEF n
    <3>2. batches'[c].status = "active" /\ batches'[c].count = n
      BY <1>1, <1>4, <2>4, <3>1 DEF BatchRow
    <3> QED
      BY <1>4, <3>2 DEF n
  <2> QED
    BY <1>1, <1>2, <2>2, <2>3, <2>4, <2>5 DEF CountedBatch
<1>5. CASE c # ManualBatch
  <2>1. LiveRows(c)' = LiveRows(c)
    BY <1>1, <1>2, <1>3, <1>5 DEF LiveRows
  <2>2. batches'[c] = batches[c]
    BY <1>1, <1>2, <1>5 DEF DeleteTransaction
  <2> QED
    BY <1>1, <1>2, <2>1, <2>2, SameRowsCounted
<1> QED
  BY <1>4, <1>5

\* A departure can take rows out of a batch and leave its count: from then on
\* the count is an upper bound only.
LEMMA DeleteUserKeepsCounted ==
    ASSUME IInv, Counted, NEW u \in Member, NEW gone \in Member, DeleteUser(u, gone)
    PROVE  Counted'
<1> SUFFICES ASSUME NEW c \in Batch \cup {ManualBatch} PROVE CountedBatch(c)'
  BY DEF Counted, CountedBatch, BatchesCountable, RecordCountInStep
<1>1. /\ batches[c] \in BatchRow /\ CountedBatch(c) /\ tx \in [TxId -> Row]
  BY CountedByBatch DEF IInv, TypeOK
<1>2. members' # Member
  BY DEF DeleteUser
<1>3. batches'[c].status = batches[c].status /\ batches'[c].count = batches[c].count
  <2>1. batches'[c] \in {batches[c], [batches[c] EXCEPT !.owner = None]}
    BY DEF DeleteUser
  <2> QED
    BY <1>1, <2>1 DEF BatchRow
<1>4. \A t \in TxId : /\ tx'[t].batch = tx[t].batch
                      /\ tx'[t].status = "live" => tx[t].status = "live"
  <2> TAKE t \in TxId
  <2>1. tx[t] \in Row
    BY <1>1
  <2>2. tx'[t] \in {tx[t], [tx[t] EXCEPT !.status = "deleted", !.owner = None],
                   [tx[t] EXCEPT !.owner = None]}
    BY DEF DeleteUser
  <2> QED
    BY <2>1, <2>2 DEF Row
<1>5. LiveRows(c)' \in SUBSET LiveRows(c)
  BY <1>4 DEF LiveRows
<1>6. /\ IsFiniteSet(LiveRows(c)')
      /\ Cardinality(LiveRows(c)') <= Cardinality(LiveRows(c))
      /\ Cardinality(LiveRows(c)') \in Nat /\ Cardinality(LiveRows(c)) \in Nat
      /\ batches[c].count \in Nat
  BY <1>1, <1>5, FS_Subset, FS_CardinalityType DEF CountedBatch, BatchRow
<1> QED
  BY <1>1, <1>2, <1>3, <1>5, <1>6 DEF CountedBatch

\* Every request keeps the batches counted.
LEMMA NextKeepsCounted == IInv /\ Counted /\ [Next]_vars => Counted'
<1> SUFFICES ASSUME IInv, Counted, [Next]_vars PROVE Counted'
  OBVIOUS
<1>1. CASE UNCHANGED vars
  BY <1>1 DEF vars, Counted, BatchesCountable, RecordCountInStep, LiveRows
<1>2. ASSUME NEW u \in Member, MoneyStep(u) PROVE Counted'
  <2>1. ASSUME NEW t \in TxId, NEW category \in Category \cup {None}, NEW scope \in Scope,
               \/ SetCategory(u, t, category, scope)
               \/ \E money \in MoneyFields(t) : EditTransaction(u, t, category, scope, money)
        PROVE  Counted'
    <3>1. EditsRow(u, t) /\ batches' = batches /\ Visible(tx[t], u)
      BY <2>1, SetCategoryEdits, EditTransactionEdits DEF SetCategory, EditTransaction
    <3>2. tx'[t].status = tx[t].status
      <4>1. tx \in [TxId -> Row] /\ tx[t] \in Row
        BY DEF IInv, TypeOK
      <4>2. CASE SetCategory(u, t, category, scope)
        BY <4>1, <4>2 DEF SetCategory, Row
      <4>3. ASSUME NEW money, EditTransaction(u, t, category, scope, money)
            PROVE  tx'[t].status = tx[t].status
        BY <4>1, <4>3 DEF EditTransaction, Row
      <4> QED
        BY <2>1, <4>2, <4>3
    <3> QED
      BY <3>1, <3>2, EditKeepsCounted DEF Visible
  <2> QED
    BY <1>2, <2>1, ImportKeepsCounted, RollbackKeepsCounted, CreateManualKeepsCounted,
       DeleteTransactionKeepsCounted, RelabelsKeepCounted DEF MoneyStep, Relabels
<1>3. ASSUME NEW u \in Member, LayerStep(u) PROVE Counted'
  BY <1>3, RelabelsKeepCounted DEF Relabels
<1>4. ASSUME NEW u \in Member, HouseholdStep(u) PROVE Counted'
  <2>1. ASSUME NEW a \in Account, NEW o \in Member \cup {None}, EditAccount(u, a, o)
        PROVE  Counted'
    BY <2>1 DEF EditAccount, Counted, BatchesCountable, RecordCountInStep, LiveRows
  <2> QED
    BY <1>4, <2>1, DeleteUserKeepsCounted DEF HouseholdStep
<1> QED
  BY <1>1, <1>2, <1>3, <1>4 DEF Next

-----------------------------------------------------------------------------
(* The promises that rest on both                                          *)

\* Every reachable state of the ledger satisfies the strengthened invariant.
THEOREM BooksInvariant == Spec => []BooksInv
<1>1. Init => Paired
  BY DEF Init, Paired, Complete, PairedLegs, NoRow, TxId
<1>2. Init => Counted
  <2> SUFFICES ASSUME Init PROVE Counted
    OBVIOUS
  <2>1. \A b \in Batch \cup {ManualBatch} :
           LiveRows(b) = {} /\ batches[b].status = "unused" /\ batches[b].count = 0
    BY DEF Init, LiveRows, NoRow
  <2> QED
    BY <2>1, FS_EmptySet DEF Counted, BatchesCountable, RecordCountInStep
<1>3. BooksInv /\ [Next]_vars => BooksInv'
  BY NextKeepsIInv, NextKeepsPaired, NextKeepsCounted DEF BooksInv
<1>4. Init => BooksInv
  BY <1>1, <1>2, InitIInv DEF BooksInv
<1> QED
  BY <1>3, <1>4, PTL DEF Spec

\* Two linked legs that banks reported always cancel and sit on two accounts,
\* and the pairs a scan is about to link share no leg (transfers.link_transfer,
\* detect_and_autolink).
THEOREM TransfersStaySound == Spec => []TransfersSound
<1>1. BooksInv => TransfersSound
  <2> SUFFICES ASSUME BooksInv PROVE TransfersSound
    OBVIOUS
  <2>1. TypeOK /\ ImportedAsBanked /\ Complete(tx) /\ PairedLegs(tx) /\ tx \in [TxId -> Row]
    BY DEF BooksInv, IInv, Paired, TypeOK
  <2>2. LegsBalance
    <3> SUFFICES ASSUME NEW t \in Fingerprint, tx[t].group # {}
                 PROVE  \E s \in tx[t].group \ {t} :
                           /\ tx[t].group = {t, s}
                           /\ s \in Fingerprint =>
                                /\ Amount[tx[t].content] + Amount[tx[s].content] = 0
                                /\ tx[t].account # tx[s].account
      BY DEF LegsBalance
    <3>1. PICK s \in tx[t].group \ {t} :
             /\ tx[t].group = {t, s}
             /\ s \in Fingerprint => /\ tx[s].status # "absent"
                                     /\ t[1] # s[1]
                                     /\ Amount[t[2]] + Amount[s[2]] = 0
      BY <2>1 DEF PairedLegs
    <3>2. tx[t].status # "absent"
      BY <2>1 DEF PairedLegs
    <3>3. tx[t].account = t[1] /\ tx[t].content = t[2]
      BY <2>1, <3>2 DEF ImportedAsBanked
    <3>4. s \in Fingerprint => tx[s].account = s[1] /\ tx[s].content = s[2]
      BY <2>1, <3>1 DEF ImportedAsBanked
    <3> QED
      BY <3>1, <3>3, <3>4
  <2>3. AutoPairsDisjoint
    BY <2>1, AutoPairsAreDisjoint DEF AutoPairsDisjoint, Disjoint
  <2> QED
    BY <2>2, <2>3 DEF TransfersSound
<1> QED
  BY <1>1, BooksInvariant, PTL

\* What a batch shows as its count is what a rollback of it would remove, as
\* long as nobody has left; a rolled-back batch is empty; and imported rows say
\* what the bank said (pipeline.run_import, rollback_batch,
\* transactions.soft_delete_transaction).
THEOREM BatchesStaySound == Spec => []BatchesSound
<1>1. BooksInv => BatchesSound
  BY DEF BooksInv, IInv, Counted, BatchesSound
<1> QED
  BY <1>1, BooksInvariant, PTL
=============================================================================
