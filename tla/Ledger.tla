------------------------------- MODULE Ledger -------------------------------
(***************************************************************************)
(* The household's transaction ledger: the tables the money pages and the  *)
(* importer write, and one action per request that writes them.            *)
(*                                                                         *)
(* A request is one step: nearly all read, decide and commit once in one   *)
(* database session, and those that commit more than once (an import, a    *)
(* transfer scan) may stop after any of their commits.  Requests that      *)
(* overlap are the subject of other modules.  An imported row is           *)
(* identified by its fingerprint, the pair of the account and what the     *)
(* statement line says: Transaction.fingerprint is a UNIQUE column and is  *)
(* never rewritten.  A hand-entered row has a fresh id instead.            *)
(*                                                                         *)
(* Abstracted: amount, date and description of a line are one value of     *)
(* Content; notes, confidence scores, display names and timestamps are     *)
(* left out; links to loans and plan lines are not part of this module.    *)
(***************************************************************************)
EXTENDS Integers, FiniteSets

CONSTANTS
    Member,            \* login identities
    Admin,             \* the members with the admin role (fixed here)
    Account,           \* bank accounts, cash boxes, ...
    InitialOwner,      \* the member each account starts with, or None
    Content,           \* what a statement line can say
    Statement,         \* the lines each account's bank can list
    Amount, Day,       \* what a line says: signed amount and booked date
    Window,            \* transfer_window_days
    Category,          \* category ids
    TransferCategory,  \* the singleton category of kind "transfer"
    Rule,              \* rule ids, in order of creation
    Covers,            \* the lines whose text a rule's pattern occurs in
    Target, Priority,  \* the category a rule assigns and its priority
    MinSamples,        \* classifier_min_training_samples
    Batch,             \* ids of import batches (bounds the number of imports)
    ManualBatch,       \* the reuse-or-create batch of hand-entered rows
    ManualId,          \* ids of hand-entered rows (bounds their number)
    None               \* SQL NULL

\* The lines that can be imported, each under its fingerprint.
Fingerprint == UNION {{a} \X Statement[a] : a \in Account}

TxId == Fingerprint \cup ManualId

ASSUME LedgerAssumption ==
    /\ Admin \subseteq Member
    /\ None \notin Member \cup Account \cup Content \cup Category \cup Batch
    /\ InitialOwner \in [Account -> Member \cup {None}]
    /\ Statement \in [Account -> SUBSET Content]
    /\ \A a \in Account : IsFiniteSet(Statement[a])
    /\ Amount \in [Content -> Int] /\ Day \in [Content -> Int]
    /\ Window \in Nat /\ MinSamples \in Nat
    /\ TransferCategory \in Category
    /\ Rule \subseteq Nat
    /\ Covers \in [Rule -> SUBSET Content]
    /\ Target \in [Rule -> Category \ {TransferCategory}]
    /\ Priority \in [Rule -> Int]
    /\ ManualBatch \notin Batch \cup {None}
    /\ ManualId \cap (Account \X Content) = {}

VARIABLES
    members,       \* the rows of table owner
    accountOwner,  \* Account.owner_id
    rules,         \* the rows of table rule
    batches,       \* table import_batch
    tx,            \* table transaction
    requester      \* who made the last request (history, read by no action)

vars == <<members, accountOwner, rules, batches, tx, requester>>

-----------------------------------------------------------------------------
Scope == {"private", "household"}
Source == {"import_csv", "manual", "rule", "classifier", "llm"}

\* One row of table transaction.  "deleted" is a row with deleted_at set;
\* group is the pair of legs a transfer_group_id joins, {} for NULL.
Row == [status   : {"absent", "live", "deleted"},
        account  : Account \cup {None},
        content  : Content \cup {None},
        owner    : Member \cup {None},
        scope    : Scope,
        category : Category \cup {None},
        source   : Source,
        group    : SUBSET TxId,
        batch    : Batch \cup {ManualBatch, None}]

NoRow == [status |-> "absent", account |-> None, content |-> None,
          owner |-> None, scope |-> "private", category |-> None,
          source |-> "import_csv", group |-> {}, batch |-> None]

BatchRow == [status : {"unused", "active", "rolled_back"},
             owner  : Member \cup {None},
             count  : Nat]

TypeOK ==
    /\ members \subseteq Member
    /\ accountOwner \in [Account -> Member \cup {None}]
    /\ rules \subseteq Rule
    /\ batches \in [Batch \cup {ManualBatch} -> BatchRow]
    /\ tx \in [TxId -> Row]
    /\ requester \in Member \cup {None}

Init ==
    /\ members = Member
    /\ accountOwner = InitialOwner
    /\ rules = {}
    /\ batches = [b \in Batch \cup {ManualBatch} |->
                     [status |-> "unused", owner |-> None, count |-> 0]]
    /\ tx = [t \in TxId |-> NoRow]
    /\ requester = None

-----------------------------------------------------------------------------
(* Who may see a row, and the pure parts of the request handlers: each     *)
(* takes the table of transactions it works on, so that a handler can run  *)
(* one after the other.                                                    *)

\* visible_to: the shared rows and the viewer's own private ones.
InSight(row, viewer) == row.scope = "household" \/ row.owner = viewer

\* Mutant: the by-id load forgets the privacy check.
VisibleToAnyone(row, viewer) == row.status = "live"

\* _get_visible: what a request of this viewer can load by id.
Visible(row, viewer) == row.status = "live" /\ InSight(row, viewer)

Unmatched(table, viewer) ==
    {t \in TxId : Visible(table[t], viewer) /\ table[t].group = {}}

\* Two rows that can be the two sides of one transfer.
Opposite(out, in) ==
    /\ out.account # in.account
    /\ Amount[out.content] = -Amount[in.content]

IsCandidate(out, in) ==
    /\ Opposite(out, in)
    /\ Day[out.content] - Day[in.content] \in -Window .. Window

\* Candidate edges: an outflow, an inflow.
Edges(table, viewer) ==
    {e \in Unmatched(table, viewer) \X Unmatched(table, viewer) :
        Amount[table[e[1]].content] < 0 /\ IsCandidate(table[e[1]], table[e[2]])}

\* Mutant: only the outflow has to be unambiguous.
OutflowUniquePairs(table, viewer) ==
    LET edges == Edges(table, viewer)
    IN  {e \in edges : /\ \A f \in edges : f[1] = e[1] => f = e
                      /\ table[e[1]].category = None
                      /\ table[e[2]].category = None}

\* The edges that are the only one at both ends, between rows that carry no
\* category yet.
AutoPairs(table, viewer) ==
    LET edges == Edges(table, viewer)
    IN  {e \in edges : /\ \A f \in edges : f[1] = e[1] \/ f[2] = e[2] => f = e
                      /\ table[e[1]].category = None
                      /\ table[e[2]].category = None}

\* What link_transfer writes for each of a set of disjoint pairs.
Linked(table, pairs) ==
    [t \in TxId |->
        LET mine == {p \in pairs : t \in {p[1], p[2]}}
        IN  IF mine = {} THEN table[t]
            ELSE [table[t] EXCEPT !.group = UNION {{p[1], p[2]} : p \in mine},
                                  !.category = TransferCategory]]

\* The category the first matching rule assigns: highest priority first, then
\* the older rule.
Matching(active, content) == {k \in active : content \in Covers[k]}

FirstMatch(active, content) ==
    {k \in Matching(active, content) : \A j \in Matching(active, content) :
        Priority[k] > Priority[j] \/ (Priority[k] = Priority[j] /\ k <= j)}

MatchCategory(active, content) ==
    IF FirstMatch(active, content) = {} THEN None
    ELSE Target[CHOOSE k \in FirstMatch(active, content) : TRUE]

\* Rows no layer and no human has put in a category.
Untouched(row) == row.category = None /\ row.source = "import_csv"

\* Mutant: eligibility keyed on the missing category alone.
RuleMayTagUncategorized(row, viewer) ==
    Visible(row, viewer) /\ (row.source = "rule" \/ row.category = None)

RuleMayTag(row, viewer) ==
    Visible(row, viewer) /\ (row.source = "rule" \/ Untouched(row))

RuledRow(row, active, viewer) ==
    LET c == MatchCategory(active, row.content)
    IN  IF RuleMayTag(row, viewer) /\ c # None /\ c # row.category
        THEN [row EXCEPT !.category = c, !.source = "rule"]
        ELSE row

Ruled(table, active, viewer) ==
    [t \in TxId |-> RuledRow(table[t], active, viewer)]

\* The rows a classifier or LLM run may write.
ClassifyCandidates(table, viewer) ==
    {t \in TxId : Visible(table[t], viewer) /\ Untouched(table[t])}

Learnable == Category \ {TransferCategory}

\* Labels a human or a rule vouches for, among the rows the viewer may see.
ConfirmedLabels(viewer) ==
    {t \in TxId : /\ Visible(tx[t], viewer)
                  /\ tx[t].category \in Learnable
                  /\ tx[t].source \in {"manual", "rule"}}

\* Every request carries the session of a member who is still there.
By(u) == u \in members /\ requester' = u

-----------------------------------------------------------------------------
(* Importing a statement, and undoing it                                   *)

\* Mutant: a soft-deleted row no longer counts as known.
LinesNotLive(a, file) == {t \in {a} \X file : tx[t].status # "live"}

\* The lines of the file that are not known yet; a soft-deleted row keeps its
\* fingerprint, so its line counts as known.
NewLines(a, file) == {t \in {a} \X file : tx[t].status = "absent"}

\* A shared account imports household rows tagged with the uploader, a member's
\* account imports private rows of that member, whoever uploads.
RowOwner(u, a) == IF accountOwner[a] = None THEN u ELSE accountOwner[a]

WithImported(a, new, u, b) ==
    [t \in TxId |->
        IF t \in new
        THEN [status |-> "live", account |-> a, content |-> t[2],
              owner |-> RowOwner(u, a),
              scope |-> IF accountOwner[a] = None THEN "household" ELSE "private",
              category |-> None, source |-> "import_csv",
              group |-> {}, batch |-> b]
        ELSE tx[t]]

\* One upload.  The rows and their batch commit first; auto-linking (one commit
\* per pair) and the rules follow on behalf of the rows' owner, and an
\* exception in either is swallowed: `done` are the pairs linked before one,
\* `ruled` says whether the rules ran through.
Import(u, a, file, b) ==
    /\ By(u)
    /\ batches[b].status = "unused"
    /\ LET new == NewLines(a, file)
           owner == RowOwner(u, a)
           table == WithImported(a, new, u, b)
       IN  /\ new # {}
           /\ batches' = [batches EXCEPT
                ![b] = [status |-> "active", owner |-> u, count |-> Cardinality(new)]]
           /\ \E done \in SUBSET AutoPairs(table, owner), ruled \in BOOLEAN :
                 tx' = IF ruled THEN Ruled(Linked(table, done), rules, owner)
                       ELSE Linked(table, done)
    /\ UNCHANGED <<members, accountOwner, rules>>

\* Mutant: the rollback takes every row of the batch off its record_count,
\* those deleted before included.
RollbackRecounting(u, b) ==
    /\ By(u)
    /\ batches[b].status # "unused"
    /\ batches[b].owner = u
    /\ b # ManualBatch
    /\ LET rows == {t \in TxId : tx[t].batch = b}
       IN  /\ tx' = [t \in TxId |-> IF t \in rows
                                    THEN [tx[t] EXCEPT !.status = "deleted"]
                                    ELSE tx[t]]
           /\ batches' = [batches EXCEPT ![b].status = "rolled_back",
                                         ![b].count = @ - Cardinality(rows)]
    /\ UNCHANGED <<members, accountOwner, rules>>

\* Only the importer rolls a batch back, and nobody the manual one; the rows
\* stay, soft-deleted, with their links and the batch's record_count.
RollbackBatch(u, b) ==
    /\ By(u)
    /\ batches[b].status # "unused"
    /\ batches[b].owner = u
    /\ b # ManualBatch
    /\ tx' = [t \in TxId |-> IF tx[t].batch = b /\ tx[t].status = "live"
                             THEN [tx[t] EXCEPT !.status = "deleted"]
                             ELSE tx[t]]
    /\ batches' = [batches EXCEPT ![b].status = "rolled_back"]
    /\ UNCHANGED <<members, accountOwner, rules>>

-----------------------------------------------------------------------------
(* Hand-entered rows, and edits                                            *)

CreateManual(u, m, a, content, category, scope) ==
    /\ By(u)
    /\ tx[m].status = "absent"
    /\ batches' = [batches EXCEPT ![ManualBatch].status = "active",
                                  ![ManualBatch].count = @ + 1]
    /\ tx' = [tx EXCEPT ![m] =
                [status |-> "live", account |-> a, content |-> content,
                 owner |-> u, scope |-> scope, category |-> category,
                 source |-> "manual", group |-> {}, batch |-> ManualBatch]]
    /\ UNCHANGED <<members, accountOwner, rules>>

\* Mutant: the source column taken for membership in the manual batch.
IsManualSource(t) == tx[t].source = "manual"

IsManualEntry(t) == tx[t].batch = ManualBatch

\* Mutant: the owner is never stamped.
OwnerKept(scope, u, t) == tx[t].owner

\* A row marked private becomes the actor's own.
OwnerUnder(scope, u, t) == IF scope = "private" THEN u ELSE tx[t].owner

\* The categorize form of the transaction list and of the review queue.
SetCategory(u, t, category, scope) ==
    /\ By(u)
    /\ Visible(tx[t], u)
    /\ tx' = [tx EXCEPT ![t].category = category,
                        ![t].scope = scope,
                        ![t].owner = OwnerUnder(scope, u, t),
                        ![t].source = "manual"]
    /\ UNCHANGED <<members, accountOwner, rules, batches>>

\* What the edit form may put in account and content: those of an imported
\* row are the bank's and stay.
MoneyFields(t) == IF IsManualEntry(t) THEN Account \X Content
                  ELSE {<<tx[t].account, tx[t].content>>}

EditTransaction(u, t, category, scope, money) ==
    /\ By(u)
    /\ Visible(tx[t], u)
    /\ tx' = [tx EXCEPT
                ![t].source = IF tx[t].category # category \/ tx[t].scope # scope
                              THEN "manual" ELSE @,
                ![t].category = category,
                ![t].scope = scope,
                ![t].owner = OwnerUnder(scope, u, t),
                ![t].account = money[1],
                ![t].content = money[2]]
    /\ UNCHANGED <<members, accountOwner, rules, batches>>

DeleteTransaction(u, t) ==
    /\ By(u)
    /\ Visible(tx[t], u)
    /\ IsManualEntry(t)
    /\ tx' = [tx EXCEPT ![t].status = "deleted"]
    /\ batches' = [batches EXCEPT
                     ![tx[t].batch].count = IF @ > 0 THEN @ - 1 ELSE @]
    /\ UNCHANGED <<members, accountOwner, rules>>

-----------------------------------------------------------------------------
(* Transfers                                                               *)

\* A human confirms a pair: the date window does not apply.
LinkTransfer(u, x, y) ==
    /\ By(u)
    /\ Visible(tx[x], u) /\ Visible(tx[y], u)
    /\ tx[x].group = {} /\ tx[y].group = {}
    /\ Opposite(tx[x], tx[y]) /\ Amount[tx[x].content] # 0
    /\ tx' = Linked(tx, {<<x, y>>})
    /\ UNCHANGED <<members, accountOwner, rules, batches>>

\* The legs this viewer may see, soft-deleted ones included, leave the group.
UnlinkTransfer(u, g) ==
    /\ By(u)
    /\ LET legs == {t \in TxId : tx[t].group = g /\ InSight(tx[t], u)}
       IN  /\ legs # {}
           /\ tx' = [t \in TxId |->
                IF t \notin legs THEN tx[t]
                ELSE [tx[t] EXCEPT !.group = {},
                        !.category = IF @ = TransferCategory THEN None ELSE @]]
    /\ UNCHANGED <<members, accountOwner, rules, batches>>

\* Each pair is a commit of its own.
Rescan(u) ==
    /\ By(u)
    /\ AutoPairs(tx, u) # {}
    /\ \E done \in SUBSET AutoPairs(tx, u) : tx' = Linked(tx, done)
    /\ UNCHANGED <<members, accountOwner, rules, batches>>

-----------------------------------------------------------------------------
(* Categorization layers                                                   *)

CreateRule(u, k) ==
    /\ By(u)
    /\ k \notin rules
    /\ rules' = rules \cup {k}
    /\ UNCHANGED <<members, accountOwner, batches, tx>>

DeleteRule(u, k) ==
    /\ By(u)
    /\ k \in rules
    /\ rules' = rules \ {k}
    /\ UNCHANGED <<members, accountOwner, batches, tx>>

ApplyRules(u) ==
    /\ By(u)
    /\ tx' = Ruled(tx, rules, u)
    /\ UNCHANGED <<members, accountOwner, rules, batches>>

\* What a run writes: the rows it is confident about, and a category for each.
\* The others stay in the review queue.
Tagged(verdicts, layer) ==
    [t \in TxId |->
        IF t \in DOMAIN verdicts
        THEN [tx[t] EXCEPT !.category = verdicts[t], !.source = layer]
        ELSE tx[t]]

\* Layer 2: needs enough confirmed labels of two categories to train on, and
\* predicts their categories.
Classify(u) ==
    /\ By(u)
    /\ LET labels == {tx[t].category : t \in ConfirmedLabels(u)}
       IN  /\ Cardinality(ConfirmedLabels(u)) >= MinSamples
           /\ Cardinality(labels) >= 2
           /\ \E confident \in SUBSET ClassifyCandidates(tx, u) :
              \E verdicts \in [confident -> labels] :
                 tx' = Tagged(verdicts, "classifier")
    /\ UNCHANGED <<members, accountOwner, rules, batches>>

\* The LLM: any learnable category is a valid verdict.  A host that fails part
\* way through leaves the rows tagged so far committed.
ClassifyLlm(u) ==
    /\ By(u)
    /\ \E confident \in SUBSET ClassifyCandidates(tx, u) :
       \E verdicts \in [confident -> Learnable] :
          tx' = Tagged(verdicts, "llm")
    /\ UNCHANGED <<members, accountOwner, rules, batches>>

-----------------------------------------------------------------------------
(* Accounts and members                                                    *)

\* Who may move an account's owner: an admin, or a member who claims a shared
\* account or releases their own.
EditAccount(u, a, o) ==
    /\ By(u)
    /\ o \in members \cup {None}
    /\ o # accountOwner[a]
    /\ u \in Admin \/ {o, accountOwner[a]} \subseteq {None, u}
    /\ accountOwner' = [accountOwner EXCEPT ![a] = o]
    /\ UNCHANGED <<members, rules, batches, tx>>

\* The departed member's private rows leave with them; everything shared stays
\* and loses its owner.
DeleteUser(u, gone) ==
    /\ By(u) /\ u \in Admin
    /\ gone \in members \ {u}
    /\ members' = members \ {gone}
    /\ accountOwner' = [a \in Account |->
                          IF accountOwner[a] = gone THEN None ELSE accountOwner[a]]
    /\ batches' = [b \in Batch \cup {ManualBatch} |->
                     IF batches[b].owner = gone THEN [batches[b] EXCEPT !.owner = None]
                     ELSE batches[b]]
    /\ tx' = [t \in TxId |->
                CASE tx[t].owner # gone -> tx[t]
                  [] tx[t].owner = gone /\ tx[t].scope = "private" ->
                       [tx[t] EXCEPT !.status = "deleted", !.owner = None]
                  [] OTHER -> [tx[t] EXCEPT !.owner = None]]
    /\ UNCHANGED rules

-----------------------------------------------------------------------------
MoneyStep(u) ==
    \/ \E a \in Account, b \in Batch : \E file \in SUBSET Statement[a] :
          Import(u, a, file, b)
    \/ \E b \in Batch \cup {ManualBatch} : RollbackBatch(u, b)
    \/ \E m \in ManualId, a \in Account, content \in Content,
          category \in Category \cup {None}, scope \in Scope :
          CreateManual(u, m, a, content, category, scope)
    \/ \E t \in TxId, category \in Category \cup {None}, scope \in Scope :
          SetCategory(u, t, category, scope)
    \/ \E t \in TxId, category \in Category \cup {None}, scope \in Scope :
       \E money \in MoneyFields(t) : EditTransaction(u, t, category, scope, money)
    \/ \E t \in TxId : DeleteTransaction(u, t)
    \/ \E x, y \in TxId : LinkTransfer(u, x, y)
    \/ \E g \in {tx[t].group : t \in TxId} \ {{}} : UnlinkTransfer(u, g)
    \/ Rescan(u)

LayerStep(u) ==
    \/ \E k \in Rule : CreateRule(u, k)
    \/ \E k \in Rule : DeleteRule(u, k)
    \/ ApplyRules(u)
    \/ Classify(u)
    \/ ClassifyLlm(u)

HouseholdStep(u) ==
    \/ \E a \in Account, o \in Member \cup {None} : EditAccount(u, a, o)
    \/ \E gone \in Member : DeleteUser(u, gone)

Next == \E u \in Member : MoneyStep(u) \/ LayerStep(u) \/ HouseholdStep(u)

Spec == Init /\ [][Next]_vars

-----------------------------------------------------------------------------
(* What the ledger promises                                                *)

\* Every owner a row, account or batch names is a member who is still there
\* (the foreign keys a departure must not trip over), and a live private row
\* has one: nobody could ever see it otherwise (users.py, delete_user;
\* transactions.py, set_category).
OwnersExist ==
    /\ \A t \in TxId : /\ tx[t].owner \in members \cup {None}
                       /\ tx[t].status = "live" /\ tx[t].scope = "private"
                            => tx[t].owner \in members
    /\ \A a \in Account : accountOwner[a] \in members \cup {None}
    /\ \A b \in Batch \cup {ManualBatch} : batches[b].owner \in members \cup {None}

\* A rolled-back import has no live row left, whoever the rows belong to and
\* whatever was done to them between import and rollback (pipeline.py,
\* rollback_batch), and the manual batch is never rolled back.
RolledBackEmpty ==
    /\ batches[ManualBatch].status # "rolled_back"
    /\ \A t \in TxId, b \in Batch :
          tx[t].batch = b /\ batches[b].status = "rolled_back"
             => tx[t].status # "live"

\* The count shown for a batch is what a rollback would remove; only the
\* departure of a member can leave it too high (transactions.py,
\* soft_delete_transaction: "in step with the soft delete").
LiveRows(b) == {t \in TxId : tx[t].batch = b /\ tx[t].status = "live"}

RecordCountInStep ==
    \A b \in Batch \cup {ManualBatch} : batches[b].status = "active" =>
        /\ Cardinality(LiveRows(b)) <= batches[b].count
        /\ members = Member => Cardinality(LiveRows(b)) = batches[b].count

\* An imported row still says what its fingerprint was computed from, after
\* any number of edits: the money fields are the bank's (transactions.py,
\* edit_transaction), and with them the key that stops a second import.
ImportedAsBanked ==
    \A t \in Fingerprint : tx[t].status # "absent" =>
        <<tx[t].account, tx[t].content>> = t

\* What an import put on the books can be relied on: it counts what it holds,
\* says what the bank said, and is gone as a whole when it is rolled back.
BatchesSound == RolledBackEmpty /\ RecordCountInStep /\ ImportedAsBanked

\* Nothing brings a soft-deleted row back, an import of the same statement
\* included (pipeline.py, run_import: dedup is against every row).
KeepsDeleted == \A t \in TxId : tx[t].status = "deleted" => tx'[t].status = "deleted"

DeletedForGood == [][KeepsDeleted]_vars

\* The segregation boundary: a request changes a row only if its author may see
\* it, except for three things the code does on purpose: an importer rolls
\* back a batch (and only deletes its rows), an upload into a member's account
\* works on that member's rows, and a departing member's rows are settled.
MayTouch(t) ==
    \/ InSight(tx[t], requester')
    \/ tx[t].status = "absent" /\ tx'[t].owner = requester'
    \/ \E b \in Batch, a \in Account :
          /\ batches[b].status = "unused" /\ batches'[b].owner = requester'
          /\ tx'[t].owner = RowOwner(requester', a)
    \/ \E b \in Batch :
          /\ tx[t].batch = b /\ batches[b].owner = requester'
          /\ tx'[t] = [tx[t] EXCEPT !.status = "deleted"]
    \/ tx[t].owner \in members \ members'

TouchesInSight == \A t \in TxId : tx'[t] # tx[t] => MayTouch(t)

RequestStaysInSight == [][TouchesInSight]_vars

\* A row's source only moves up: what a human decided no layer touches, a
\* cleared category included, and no layer takes over another layer's row
\* (rules.py, apply_rules; classifier.py, _candidate_filter).
SourceMovesUp ==
    \A t \in TxId : tx'[t].source # tx[t].source =>
        tx[t].source = "import_csv" \/ tx'[t].source = "manual"

LayerPrecedence == [][SourceMovesUp]_vars

\* The pairs one scan links share no leg, whatever mix of imports, edits and
\* earlier links the candidates come from: each of them is still legal after
\* the others were linked (transfers.py, detect_and_autolink: "vertex-disjoint
\* (mutual uniqueness), so linking them in sequence is safe").
AutoPairsDisjoint ==
    \A u \in members : LET pairs == AutoPairs(tx, u) IN
        \A p, q \in pairs : {p[1], p[2]} \cap {q[1], q[2]} # {} => p = q

\* Two imported legs of one transfer cancel out and sit on two accounts, at any
\* time after they were linked (transfers.py, link_transfer).
LegsBalance ==
    \A t \in Fingerprint : tx[t].group # {} =>
        \E s \in tx[t].group \ {t} :
            /\ tx[t].group = {t, s}
            /\ s \in Fingerprint =>
                 /\ Amount[tx[t].content] + Amount[tx[s].content] = 0
                 /\ tx[t].account # tx[s].account

\* No scan, link, edit or import ever makes one leg part of two transfers, or
\* a transfer of legs that do not cancel.
TransfersSound == LegsBalance /\ AutoPairsDisjoint

-----------------------------------------------------------------------------
(* Why they hold: what every reachable state has besides                   *)

\* A row that was never written is blank; a row of an import is in a batch
\* that was used, and no line of a statement is in the manual batch.
RowsInPlace ==
    /\ \A t \in TxId : tx[t].status = "absent" => tx[t] = NoRow
    /\ \A t \in TxId : tx[t].batch \in Batch => batches[tx[t].batch].status # "unused"
    /\ \A t \in Fingerprint : tx[t].batch # ManualBatch

IInv == TypeOK /\ RowsInPlace /\ OwnersExist /\ RolledBackEmpty /\ ImportedAsBanked

\* A row that was written is on an account and says something.
Complete(table) ==
    \A t \in TxId : table[t].status # "absent" =>
        table[t].account \in Account /\ table[t].content \in Content

\* Legs of a table cancel by what their fingerprints say, which no edit changes.
\* The other leg may have left the group, and stays a row.
PairedLegs(table) ==
    \A t \in Fingerprint : table[t].group # {} =>
        /\ table[t].status # "absent"
        /\ \E s \in table[t].group \ {t} :
              /\ table[t].group = {t, s}
              /\ s \in Fingerprint =>
                   /\ table[s].status # "absent"
                   /\ t[1] # s[1]
                   /\ Amount[t[2]] + Amount[s[2]] = 0

\* A batch holds finitely many rows, and one that was never used holds none.
BatchesCountable ==
    \A b \in Batch \cup {ManualBatch} :
        /\ IsFiniteSet(LiveRows(b))
        /\ batches[b].status = "unused" => LiveRows(b) = {} /\ batches[b].count = 0

Paired == Complete(tx) /\ PairedLegs(tx)

Counted == BatchesCountable /\ RecordCountInStep

BooksInv == IInv /\ Paired /\ Counted

=============================================================================
