# Expense Analyzer: TLA+ models and proofs

TLA+ models of the household finance app in this repository: a FastAPI server
over PostgreSQL, a background worker, and the scripts that deploy it on one host. The models
are written from the code; `PROJECT.json` names, for every definition that
models code, the lines it was written from (`map`), and for every property a
plausible change of the code that breaks it (`mutants`).

Model checking: `tlc -config X.cfg M`, with M the module the table of runs names.
Proofs: `tlapm MProofs.tla`.

## 1. The system

### Parts, their state and their operations

| Part | State | Operations that change it |
|---|---|---|
| Transactions and imports (`importers/pipeline.py`, `queries/money/transactions.py`, `batches.py`) | tables `import_batch`, `transaction` | import a statement, roll a batch back, enter by hand, categorize, edit, soft-delete |
| Transfers (`transfers.py`, `queries/money/transfers.py`) | `transaction.transfer_group`, the category Transfer | auto-link after an import, rescan, link, unlink |
| Rules, classifier, LLM (`rules.py`, `classifier.py`, `queries/categorize/`) | `rule`; `transaction.category_id`, `source` | create and delete a rule, run each of the three layers |
| Members (`queries/core/users.py`, `auth.py`, `create_user.py`) | table `owner` | create, toggle active, toggle admin, delete |
| Accounts, categories, settings | `account`, `category` | create, rename, move an account to another member |
| Planned items (`queries/planning/planned.py`) | `planned_item`, `planned_item_payment` | create, edit, delete; tick, untick, link, unlink for a month |
| Loans (`queries/planning/loans.py`, `loans.py`) | `loan`, `loan_rate_change`, `transaction.loan_id` | create, edit, delete, rates, pin and unpin a payment |
| Loan documents (`attachments.py`, `queries/planning/loan_documents.py`) | `loan_document` and files on the data volume | upload, delete, delete with the loan |
| Budgets, subscriptions, positions (`queries/planning/budgets.py`, `subscriptions.py`, `importers/positions.py`) | `budget`, `subscription`, `investment_position` | set and delete a limit, set and clear a verdict, write a day's snapshot |
| Worker (`worker.py`), Home Assistant (`ha/`, `scripts/check_update.sh`) | timers in memory, broker connections, `data/update_status.json`; at the broker, what is retained | run due jobs, publish and wait for the acknowledgement, check for an update |
| Deployment (`scripts/deploy.sh`, `backup.py`, the container's boot) | image names, containers, the database, `data/backups` | build, back up, up, wait, roll back, restore, prune |
| Statistics, subscriptions found, net worth, month view, questions, embeddings | none, or a cache of vectors | reads |

### How they interact

The parts share one database and little else. A handler declared `def` runs in a
thread of the server's pool with a session of its own at READ COMMITTED, so two
handlers interleave at their statements. A handler declared `async def` (the two
uploads) is a coroutine of the one event loop: it is atomic between its awaits,
and it awaits only the body. The importer calls the transfer detector, which
writes the rows it imported; the three categorizing layers and the members write
the same two columns of a row; a departing member is settled across the ledger;
plan lines refer to loans and transactions, loans are referred to by
transactions, rates, documents and plan lines, and the foreign keys refuse a
dangling reference; a document is a row here and a file there; a deployment
replaces the program, migrates the schema and may put the whole database back.
Every page and every published sensor is derived anew from the same rows, each
through the eyes of one viewer. The worker, the app and cron's update check each
publish over connections of their own to one broker, which keeps what they retain.

### What is hard, and what makes each part correct

- **Visibility against bulk writes.** Almost every write is restricted to the
  rows its author may see; a rollback and a departure are not. A
  request must never change another member's private row, apart from those
  cases, and every private row must have an owner who exists.
- **Long histories.** A row keeps its fingerprint for ever; importing again,
  rolling back, deleting and departing in any order must neither revive a row
  nor change what the bank said, and the batch counters must stay in step.
- **Precedence of the layers.** rule < classifier < LLM < human, whatever the order of runs.
- **Checks that go stale** between a read and the commit it justifies: the last
  admin, a plan line's row, a transaction's other uses, the number of documents,
  the row an upsert did not find, the candidates of an LLM run.
- **One truth through many eyes:** dozens of reads filter by viewer, each for itself. None may
  let a private row through, not even into a suggestion or a hint, and the
  figures of two viewers must still reconcile.
- **A broker that answers late or not at all:** what was sent may arrive after
  the sender gave up, behind what was sent later, or be followed by a will that says offline.
- **Two stores, one truth:** file and row, image name and container, schema and image.
- **Stops anywhere:** of an upload, a deletion, a restore, the deployment itself.
- **Something must happen again:** the app is served again after a failed
  deployment, every job runs again, Home Assistant catches up.

Section `hazards` of `PROJECT.json` lists these one by one at their lines, with
the properties that catch them or why none does yet.

## 2. The modules

| Module | Models | Checked by | Proofs |
|---|---|---|---|
| `Ledger` | transactions, imports, transfers, rules, classifier, LLM, and what accounts and members do to rows | `MCLedgerHousehold`, `MCLedgerVerdicts` | `LedgerProofs` |
| `Members` | creation and management of login identities, overlapping requests | `MCMembers` | `MembersProofs` |
| `Planning` | plan lines, ticks and links, loans as others refer to them, overlapping requests | `MCPlanning` | `PlanningProofs` |
| `DocumentStore` | what the loan documents promise (abstract) | through `LoanDocuments` | |
| `LoanDocuments` | the documents' rows, files and requests; implements `DocumentStore` | `MCLoanDocuments` | `LoanProofs` |
| `LoanTerms` | a loan's terms, its base rates and the schedule computed from them | `MCLoanTerms` | `LoanProofs` |
| `Deploy` | deploy.sh, backup.py, the container's boot, cron, writers | `MCDeploy` | `DeployProofs` |
| `Mqtt` | a publisher's connection, the broker and the network between them | through `HomeAssistant` | |
| `HomeAssistant` | the scheduler, its jobs, the Publish button and the update check over `Mqtt` | `MCHomeAssistant` | `HomeAssistantProofs` |
| `Recurring` | the subscription detector, pure operators | through `Figures` | through `HouseholdProofs` |
| `Figures` | every read of a page or sensor, as an operator over the tables and a viewer | through `Household` | through `HouseholdProofs` |
| `Household` | the requests that change what `Figures` shows | `MCHousehold` | `HouseholdProofs` |
| `Upserts` | the writes that look a row up first, and the LLM run, as overlapping requests | `MCUpserts` | `UpsertsProofs` |

### Ledger

`tx` is table `transaction`: one record per fingerprint (account and line) and
per hand-entered id; `status` tells absent, live and soft-deleted rows apart.
`batches`, `rules`, `members`, `accountOwner` are the other tables, `requester`
a history variable for `RequestStaysInSight`. A request is one action; its
guard is the handler's conditions, its primed `tx` the whole table it leaves. An
import may stop after the commit of its rows and before the auto-link, because
the code commits twice. `AutoPairs` is `detect_transfers`: the edges between
unmatched opposite rows in the window, kept when unambiguous on both sides.
`FirstMatch` is the rules' order: priority, then id. The classifier's and the
LLM's predictions are free choices; which rows they read and may write is not.
What is one step here and several statements in the code is listed in section 6.

### Members

A management request is four steps, as in the code: the `AdminUser` dependency
reads the author (`Authorize`), the handler loads the target (`Load`), the
guards count active admins (`Check`), and the write commits what was computed
from the loaded row (`Commit`); a deletion that loses its target does nothing.
A request slot is reused when its request ends.

### Planning

`mark_paid`, `mark_unpaid`, `link` and `unlink` are `Load` and `Commit`; the
session's unit of work writes only the columns whose value changed from what it
loaded (`Updated`), and an insert that meets UNIQUE (planned_item_id, month) or a
missing foreign key fails. The other requests are one step. Deleting a loan
un-pins its transactions and meets the foreign key of plan lines.

### LoanDocuments and DocumentStore

`DocumentStore` says what members are promised: a document is not known, or a
download answers with its file, or it is gone for good. `LoanDocuments`
has the rows, the files, and every request step by step, with `Stop`
between any two steps; `Answer` is the download handler (row, then path, then file) and
the refinement mapping. `LoopFree` keeps the two coroutine steps of an upload
that no other coroutine can separate together.

### LoanTerms

`loan` is the row of the loan, `rates` its base rate observations; nothing else is
stored. `LoanSchedule` is `loan_schedule`: the rate of every due date, then the
rows one from the other as `generate_schedule` makes them, or `None` where the code
raises `LoanScheduleError`. An edit finds the observation it moves along with the start as
`update_loan` does, and may take any of several of one date, as SQL may. A date is a
month and whether the day is one that short months lack, all that `_add_months` looks
at. `RateUnit` scales the rates, so that few months show the effect of many.

### Deploy

`script` is deploy.sh: its next command and the variables it has set. `stack` is
the app's container, which boots (`Migrate`, `Serve`), crashes and is restarted by docker on its own; `db`
is the database (missing, being restored, or ready with a schema and the data members
entered); `backups` the directory, pruned in the order of the file names; `tag`
what the compose name points at. A version number stands for an image and for
the schema its migrations lead to. A rollback goes on whatever fails, as the
script does under `set +e`: `compose down` may leave the container as it was or
stopped, the restore may stop anywhere, `docker tag` and `up` may fail. `left` is
history: the container is one a rollback's `down` could not remove, so the
restore may run under an app that serves. So are `incident` and `cut`: what else
went wrong, which the liveness property excludes by name.

### Mqtt and HomeAssistant

`Mqtt` has the broker (`retained`, `announced`), each publisher's connection (`open`, and
`out`, what is not acknowledged), and what an abandoned connection left in the network
(`stale`). Its operators are the parts of `_with_connection`: connect with a will, hand
over all messages, wait under one deadline (`Acknowledged`, `TimedOut`,
`Rejected`, `Refused`), tear down. Giving up leaves a prefix of the
unacknowledged messages behind, and perhaps the will; the broker handles them whenever
it likes. `HomeAssistant` composes three publishers: the worker's scheduler,
whose round takes up the due jobs in their order and sets each one's next time after it
ran; the button; and cron's check, which saves its verdict to the file before
it publishes it. That check compares the newest release tag with `head`, the one
reachable from the checkout's HEAD, which `deploy.sh --pull` moves (`Pull`)
before what it builds runs (`DeployHead`), and which a rollback does not move
back. The household is a version number, a snapshot the version it
was read from; the plan, read after the metrics went out, may be of a later one.
`crowded` is history: two snapshots were under way at a time.

### Recurring, Figures and Household

`Figures` has no state. Each operator is one query or page function, takes the
tables and the viewer, and is named for it: `Spendable`, `BudgetOverview`,
`Balances`, `PlanOverview`, `SuggestLinks`, ...; `Shown` puts together all that
a viewer's pages show, and for the viewer `None` what is published. `Recurring` is the
detector of subscriptions on one merchant's charges: medians as order statistics, doubled so that
they stay integers. `Household` is the state they read: `rows`, table
`transaction`, with owner, scope, category, transfer group and pinned
installment, and `payments`, the plan's payment rows. Its actions are the
requests that change any of it, each one step here: how they overlap is the
subject of `Ledger`, `Planning` and `Upserts`.

### Upserts

A request reads (`Reads`: the row found for each key it looks up, its value, and
what it means to write) and commits (`Commit`, `CommitClear`, or `Fail` where a unique
constraint or a vanished row refuses it), with any other request in between. A
key is what the code looks a row up by; a row is known by its key and by the request that
added it, so two rows under one key are possible exactly where no unique
constraint covers the key, NULLs counting as distinct. As SQLAlchemy's unit of
work does, a commit writes the values that changed from what was read. An
LLM run reads its candidates once, collects `Answer`s, and commits what it has,
also where the LLM host fails half way. Deleting a manual entry reads twice:
`FindManual` is the handler's read of the entry, which its session keeps, so that
the check in `soft_delete_transaction` does not look again; `DeleteManual` is the
later read of the batch. `raced` and `asked` are history: whether a
request wrote a key another had read, or deleted an entry another is about to
delete, and what was last asked for the key.

## 3. What the runs show

Every passing run explores its instance completely.

| Run | Instance | Distinct states | Shows |
|---|---|---|---|
| `ledger_household` | 2 members (one admin), a joint and an owned account, one importable and one hand-entered line of opposite amounts, 2 imports | 244,575 | owners exist, rolled-back batches are empty, counters, banked fields, deleted rows stay deleted, requests stay in sight |
| `ledger_verdicts` | 1 member, 2 accounts, 3 lines of which two compete for one partner, 2 overlapping rules, 3 categories, 2 imports | 140,749 | transfers balance, auto-pairs are disjoint, layers keep their precedence |
| `members` | 3 identities, 2 requests in flight | 65,846 | a lock-out takes an overtaken request |
| `planning` | 2 items, 1 loan, 2 transactions, 2 payment rows, 2 months, 2 requests | 401,986 | references resolve, one status a line, a transaction settles twice only through a stale check or a pin |
| `loan_documents` | 2 loans, 3 documents, cap 1, 3 requests | 44,794 | implements `DocumentStore`, stray files are explained, the cap is exceeded by at most the other requests in flight |
| `loan_terms` | amounts of 2 and 38 minor units, up to 4 months, rates of 0 to 60 % a month, 3 observations, 3 dates about a short month, forms that must be refused | 14,449 | a variable loan keeps a first rate, only tiny loans have no schedule, installments are level and pay off exactly, late observations leave the past alone |
| `deploy` | versions 1..3 of which 2 is broken, 1 write, 2 backups kept, clock 0..3 | 1,607,507 | the app serves its own schema unless its container is one `down` failed to remove, a rollback ends startable, losses are of the two named kinds, a lost name needs a cut deployment, served again |
| `home_assistant` | one fault, one write, one release; the worker alone, the worker and the button, cron alone, the worker and cron | 867,263 | sensors are announced first, figures go back only while two publishers overlap, the page is not behind the sensor; every write is shown in the end, every job runs again, an update is shown unless it was only pulled |
| `household` | 2 members, an owned and a joint account, a loan's and a portfolio, 3 transactions (a bill from either account and the other leg of a transfer), 3 plan lines, 2 loans of which one has no schedule, 3 budgets, 2 questions, 2 months, 3 requests after the imports | 56,704 | nothing private is shown to others, a member's figures are the household's plus its own, suggestions are accepted, plans agree |
| `upserts` | 3 requests over 2 categories, a month, a merchant, a portfolio of 2 tickers, 2 transactions, with or without a manual entry | 230,549 | what was asked is there unless requests raced, as is the manual batch's count; refusals and overwritten categories take a race |
| `planning_loan_delete`, `home_assistant_published` | the instances above | | the findings of section 5 |

Some properties are conjunctions of named parts: `BatchesSound` (`RolledBackEmpty`,
`RecordCountInStep`, `ImportedAsBanked`), `TransfersSound` (`LegsBalance`,
`AutoPairsDisjoint`), `PlanRowsSound` (`ReferencesResolve`, `OneStatus`),
`ScheduleSound` (`OnlyTinyLoansFail`, `PaysOff`, `LevelPayments`), `AppCanServe`
(`ServesOwnSchema`, `RestartCanServe`).

The bounds are names: the ids a model may use (`Batch`, `ManualId`, `Item`,
`Payment`, `Document`, `Member`, ...) bound creations, the request slots bound
overlap, `MaxTime` bounds the clock of `Deploy`. Why these are enough:

- *Ledger.* Two imports of one line are what it takes for re-importing,
  rolling back the one or the other and counting wrong. Two members and one
  account of each kind give all cases of visibility. Three lines are the least
  in which a pair is ambiguous and becomes unambiguous when a row goes; two rules
  of one priority on one line are the least in which order matters. Rows are
  independent otherwise: no action compares more than the rows of two groups.
- *Members.* Every guard counts to one; two admins and two requests race, the
  third member can be created, promoted or deleted meanwhile.
- *Planning.* Two lines compete for a transaction, two transactions for a line,
  two requests overlap and the rest happens between their steps.
- *LoanDocuments.* With cap 1 three uploads overlap at the limit; with two loans a
  document of one must not be taken for one of the other.
- *LoanTerms.* Four months have a first, a last and two level installments, room for
  a rate change between them and for one just before the end. The two amounts lie on the two sides of
  `Tiny` for the highest rate and longest term. Three observations: the loan's own, an
  entered one and a correction.
- *Deploy.* Three versions: one to come from, a broken one, one to go to after it. One
  write comes before or after each backup, and what becomes of it does not depend on
  others: no action or property relates two writes. With two backups kept, cron's can
  push the deployment's out. `Keep = 1` is left out
  deliberately: there the deployment's own backup, the second of its second,
  sorts before cron's of that second (`...Z-1.dump` before `...Z.dump` in the order
  of `prune_backups`)
  and is pruned at once, so `RestartCanServe` fails; the default is 14.
- *HomeAssistant.* One fault is enough for a connection that is given up, refused, broken
  or cut while another goes on or comes later. With one write there is
  an older and a newer snapshot. Publishers of figures (worker, button) meet in one
  setup; cron, which shares only the availability topic and its will with the worker, is
  looked at alone and beside it.
- *Household.* The two charges of one merchant, from two members' accounts, are a
  subscription only together; one is the other leg of a transfer, each can be pinned to
  an installment of the loan or linked to a line with or without a fixed amount, in
  both months. `MaxRequests` lets a row be shared, then linked or pinned, then hidden again.
- *Upserts.* Two requests race for a key and a third comes before or after; two delete the
  manual entry that was there while a third's entry is still counted. Month
  and member show a budget key with and without NULLs; two tickers, a snapshot half of which was there.

Symmetry is used only in runs without liveness, on ids no property orders.
`CHECK_DEADLOCK FALSE` is set for `Members`, `Planning`, `Deploy`, `Household` and `Upserts`, whose
ids, clock or requests can be used up with nothing left to do. `FixedAccounts` keeps the owners of
accounts in `ledger_verdicts`: there is one member and it is not about them.

## 4. Fairness

`Deploy`, for `ServedAgain`:

- `WF(Migrate)`, `WF(Serve)`: a container that is up goes on booting; docker
  restarts it when it dies (`restart: unless-stopped` in `docker-compose.yml`).
- `WF(Command)`: bash runs its next command, and every wait in the script has a
  timeout (`HEALTH_TIMEOUT`, the database's healthcheck).

Nobody has to deploy, write or take a backup, and the script need not be killed or
spared. What `ServedAgain` does not promise after: docker or a restore
failing, a kill after `up`, and the image's name being gone (`incident`).

`HomeAssistant`, for `Refreshed`, `JobsRunAgain` and `UpdateShown`:

- the clock ticks, and the scheduler's thread goes on: its loop is `while True`,
  a job's exceptions are caught, and every wait of a job has a timeout;
- cron runs the check again and again (the crontab line of README.md) and a
  check that has begun goes on;
- for each publisher, one of: connecting, the broker's next acknowledgement, the end of an
  acknowledged publish. They follow each other, so this is the progress of
  the client's network thread; the broker also gets what an abandoned connection left.

Nobody clicks, writes, tags, pulls or deploys because the properties need it, and faults may
happen or not, at most `MaxFaults` of them: with a broker that is down for ever nothing is shown.

## 5. Where the code and its documentation differ

1. A loan that backs a plan line cannot be deleted: `delete_loan` clears the
   other foreign keys, not that one (`planning_loan_delete`).
2. A publish whose acknowledgements do not arrive within the deadline is given up
   without an error and torn down with its messages under way; the page says
   "Published", while `publish_metrics` says that nothing is dropped
   (`home_assistant_published`). `Refreshed` holds nevertheless: the next interval repairs it.

Where a passing run or a theorem states the exception by name:

- Two admins who act at the same time can leave the household without an active
  admin, contrary to the docstring of `api/endpoints/core/users.py`: `LockoutNeedsRace` says
  that it takes such a race, `SerialKeepsAdmin` that without one it cannot happen.
- A deployment after one that stopped between its build and its `up` does not
  know the running image's name any more; if it fails, its rollback leaves
  the stack down, while README.md calls the script safe to re-run (`UntaggedNeedsCut`).
- A rollback whose `compose down` fails restores the database under a container that may
  still serve (`scripts/deploy.sh:127-129`, under `set +e`); `ServesOwnSchema` holds of every other
  container. A `docker tag` that fails leaves the stack down (`incident`).
- The update check takes HEAD for what runs (`scripts/check_update.sh:60-63`). After a
  `deploy.sh --pull` that failed or was rolled back it says "up to date" while the old release
  runs (`PulledOnly` in `UpdateShown`).
- Two members who delete one manual entry at a time have it taken off the count twice
  (`raced` in `CountInStep`), since the second request does not look at the entry again.
- Two requests that set one budget slot for the first time make two rows, since
  the unique constraint does not cover NULLs (`Budget`'s docstring leaves it to a single
  writer); later ones change the row the database returns first, while the page may show the other.
  Likewise the Transfer category and the manual batch; two imports of one day's
  snapshot fail instead (`AsAsked`, `RefusedAfterRace`, `CountInStep`).
- A category a member sets while an LLM run asks is overwritten by the run (`RunYields`).
- A loan that is tiny for its term and rate (`Tiny`; at 30 % over 360 months
  that can still be several thousand PLN) has no schedule but an error, because
  rounded installments repay more than it is, while the module says "regardless of rounding".
- A plan line whose loan has no schedule is offered transactions to link, and none is
  accepted (`SuggestionsHold`).

Read, with no property about it: a confirmed transfer whose leg a rule had tagged
is tagged again by the next rules run, contrary to `apply_rules`' docstring; the edit
form of a loan shows the earliest base rate and saves it as the rate at the start;
of two base rates entered for one day the higher counts; `unlink_transfer` clears the legs its
author may see, its docstring says both; the month view counts a deleted linked transaction
as a payment; ended subscriptions count in the monthly cost; which
transaction a line is linked to is private, that it is linked is not; a private charge of
a member's own at the merchant of a shared subscription can hide it from that member;
an installment can be pinned twice when the first payment is another
member's private one; the breakdown of a question without a direction adds refunds by magnitude; a position
sold between two imports of one day stays in that day's snapshot; a plan line ticked and
then edited into one that a loan backs keeps its payment rows, which its
status no longer reads (`update_planned_item`).

## 6. What is abstracted or left out

- **Ledger:** a request is one step; the interleavings of its requests with one
  another are the later modules of the plan. Notes, confidences, names and times of rows are left
  out, and so is deactivation, which changes no row. Ids are used once, as
  PostgreSQL's sequences do; SQLite, the development database, may reuse them.
- **Members:** passwords, login and the cookie; the bootstrap command
  (`create_user.py`) run twice at the same time.
- **Planning:** display order, the retired flag, amounts; requests to delete a
  loan name loans that exist or existed.
- **LoanTerms:** a request is one step (two edits at once are left out); negative
  rates; Decimals are exact fractions here and have 28 digits in the code; payments and their
  reconciliation with the schedule.
- **LoanDocuments:** types, sizes and names of files; power loss before a file
  is synced; a database restored beside files that are not.
- **Deploy:** one script at a time; cron at most once a second and once per
  deployment; a partial `pg_restore` leaves any part of the data; `git pull` (see
  `HomeAssistant`), the worker, caddy and SQLite are left out; ten backups in one second, whose names
  sort differently again.
- **HomeAssistant and Mqtt:** payloads and the wording of the discovery documents; the
  alerts, sent last over connections of their own; a broker that loses what it retains;
  more than one abandoned connection of a publisher at a time.
- **Figures:** months have 30 days, so that no due day needs clamping; text search
  and the order, paging and layout of lists; how suggestions rank, of which pages show the
  best six; how a portfolio is valued; accounts, plan lines, loans, budgets and verdicts do not change
  while transactions do; how a question is understood by the LLM and its names resolved.
- **Household:** a request is one step; hand-entered rows, edits, deletion by hand and departures,
  which are `Ledger`'s; the categorizing layers, which write what `SetCategory` can write.
- **Upserts:** of a position all but its value; limits that do not parse; members and categories
  that go while a request is under way; departures, which delete manual entries without taking
  them off the count (`RecordCountInStep` of `Ledger` names them); a run takes up transactions
  whose category a member cleared, too, which the code leaves out.
- **Not modelled at all:** statement formats and reconciliation (text),
  embeddings (numeric similarity), training and HTTP of the two models, the web shell,
  migrations other than as schema numbers, demo data.

## 7. What is proved

Every safety property of section 3, state and step, and the refinement, for all values
of the constants that satisfy the assumptions named in the modules: types of constants,
`None` outside the id sets, and finiteness where things are counted or added up
(statement lines, accounts, observations, documents, requests). Two theorems assume more: `SerialKeepsAdmin`
(one request slot) and `AppsCanServe` (`Keep # 1`, see below). The argument is an inductive
invariant, `Init => IInv` and `IInv /\ [Next]_vars => IInv'`, with one step of the proof
per action; the leaks of `Household` and the schedule need the types alone.

| Theorems | Invariant and argument |
|---|---|
| `LedgerProofs`: `TypeOK`, `OwnersExist`, `DeletedForGood`, `RequestStaysInSight`, `LayerPrecedence` | `IInv`: `TypeOK`, `RowsInPlace`, `OwnersExist`, `RolledBackEmpty`, `ImportedAsBanked`. `RowsInPlace`: a row that was never written is blank, one of an import is in a batch that was used, and no statement line is in the manual batch, so no edit of money fields reaches it. Three lemmas cover most actions: what retagging, booking and editing one row leave alone. |
| `LedgerProofs`: `TransfersSound`, `BatchesSound` | `BooksInv` adds `Paired` and `Counted`. `Paired`: a group is of two rows whose amounts cancel by what their fingerprints say, which no edit changes; the other leg may have left the group but is still a row. `Counted`: an open import's counter is the number of its live rows, by cardinalities of the rows an action adds to, takes from or leaves in a batch. |
| `MembersProofs`: `TypeOK`, `GoneForGood`, `LockoutNeedsRace`; a lone request never locks out | a request nobody overtook still has its author and target as it loaded them, and the count it made is the present one |
| `PlanningProofs`: `TypeOK`, `PlanRowsSound`, `SettlesOnce` | plus `RequestsSound`: what a request loaded is a row that was there and can only have been changed in the named ways. A step that is not its commit keeps it sound (`SoundWhileAging`); a link whose check is still true settles one (`LinkSettlesOne`), every other step settles no more (`SettlesNoMore`). |
| `LoanProofs`, documents: `TypeOK`, `ImplementsStore`, `FilesAccounted`, `CapHolds` | `StoreSound` (every row has its file, every file a generated name) and `RequestsSound` (where each request stands determines which files and rows there are); each step maps to a step of `DocumentStore` or a stutter; the cap by cardinalities of finite sets: rows plus uploads beyond the check grow only at the check |
| `LoanProofs`, terms: `TypeOK`, `FirstMonthKnown`, `PastUntouched` | `TermsInv`: some observation is not later than the start of a variable loan. Edits keep it because they move or make one there, and no due date is before the start. An observation changes no rate due before its date, and two schedules with the same first rates have the same first rows (`RowsAgree`). |
| `LoanProofs`, schedule: `ScheduleSound` | From the types alone; see below. |
| `HouseholdProofs`: `TypeOK`, `PrivateStaysPrivate`, `MembersAgree`, `SuggestionsHold` | `SameSight`: two databases that agree on the rows a viewer may see. Every read of `Figures` gives that viewer the same on both, one lemma per read, and blanking the rows out of sight gives such a database: so nothing leaks, in any state, reachable or not. For `MembersAgree`: a shared row is in sight of both or neither, and the least installment and the latest linked month, `Min` and `Max` of sets, are found by well-foundedness. |
| `HouseholdProofs`: `OwnRowsOnTop` | A member sees what everyone sees and, apart from it, its own rows (`SightSplits`), so sums add (`AddedUnion`). Net worth is the same sum over all accounts, for one that is not shown has no row to add (`NetWorthIs`); the member's rows on top are added up account by account (`AddedByKey`). |
| `UpsertsProofs`: `TypeOK`, `AsAsked`, `CountInStep`, `RefusedAfterRace`, `RunYields` | what a request under way read still holds of a key that was not raced (`UpToDate`); set, clear and run requests never touch the manual batch, and a run read its rows as uncategorized bank rows (`Others`); what create and remove requests will write is one more or one less than what they read, for the batch their entry is in (`Counting`), and an entry's batch has a row (`Booked`); a deletion that has found its entry may rely on it, unless `raced`, until it reads the batch. Two steps, a read and a commit, carry all requests. |
| `DeployProofs`: `TypeOK`, `ServesOwnSchema`, `UntaggedNeedsCut` | while the script restores, the stack is down or its container one that `down` failed to remove, which is an incident (`RollsBackDown`); apart from that only the container's own migration moves the schema under it (`MigratedOwnSchema`), and unless a deployment was cut the name the script remembers is that of the running image (`NameInStep`). `LeastOf`, the least-number principle, gives the free suffix of a backup's name. |
| `DeployProofs`: `LossesNamed`, for any `Keep` | `CopiesInv`: no two backups have one name and none is of the future (`NamesInOrder`), a database without a schema is empty (`DroppedEmpty`), only what was entered is in it (`Entered`), and when the schema is dropped some file has what the backup to restore has (`DroppedCopied`) |
| `DeployProofs`: `AppCanServe`, for any `Keep` but 1 | `RestartInv`: at most one file is newer than the deployment's own, so that pruning keeps it (`BackupStays`), and the image the script remembers boots on what it would restore (`ImageFits`). The exceptions are those of the property: a container left by a failed `down` for the schema, an incident for the restart. With `Keep = 1` the property is false: cron's backup of the same second, or the order of the names `...Z-1.dump` and `...Z.dump`, gets the deployment's own pruned. The default is 14. |
| `HomeAssistantProofs`: `TypeOK`, `AnnouncedFirst`, `PageNotBehindSensor`, `OnlyCrowdsGoBack` | `IInv`: of every list a publisher has still to say, has on its connection, or left in the network, each state comes after its config and none is newer than what is known (`HandsSound`, `ListsSound`, `FileSound`, `ShownSound`). What an abandoned connection delivers is a prefix of such a list, so it keeps the order. While no two snapshots were under way at a time (`~crowded`) one publisher at most has figures anywhere, none older than those shown (`Alone`, `NotBehind`). |

*The schedule.* What is recursive in the modules (the rows, powers, compound growth,
the sums) cannot be unfolded by the provers and the library's induction theorems take an
operator they cannot instantiate. Both are got round with sets: `Counting` is
induction for a set of numbers, from well-foundedness; `StepByStep` shows that a sequence
given by its first value and its steps exists, so that the `CHOOSE` a
recursive function stands for is one that obeys its equation (`RowsAre`,
`PowersAre`, `GrownIs`, `RepaidIs`). Then:

- `PaysOff`: the last installment pays the balance (`LastPaysAll`), due dates are in
  order (`DueInOrder`), so what is owed on a due date is the balance of its row
  (`OwedIsBalance`), and it falls because no installment is negative (`OwedFalls`).
- `LevelPayments`: the level is computed at the last change of the rate
  (`LevelInForce`), and `AnnuityPayment` is off by half a unit a month, which grows to at most
  `Grown` / 2 by the end of the term (`AnnuityNear`).
- `OnlyTinyLoansFail`: let `h` be the highest rate (`HighestRate`). A loan that is not tiny
  owes at least its months times what one unit a month grows to over them at `h`. That
  stays true of the balance and the months that are left after every installment
  (`Enough`, `EnoughLeft`): between two changes of the rate the roundings move the balance by
  no more than half of what a unit a month has grown to by then (`BalanceNear`), and less
  has grown in the first months than their share of the whole (`GrownSpread`). So every level
  installment is at least its interest (`PaysMoreThanInterest`) and none overpays
  (`EqualFits`). For decreasing installments it is enough that the loan is
  the square of its term (`DecreasingFits`).

*Sums.* `Sum`, `Turnover` and `Total` are folds over finite sets whose order a `CHOOSE`
decides. `SumExists` finds the fold by the size of its sets, `SumAgree` shows it is one,
`AddedOne` that the order does not matter; the rest follows one element at a time
(`AddingUp`).

Only model-checked: `ServedAgain`, `Refreshed`, `JobsRunAgain` and `UpdateShown`, which are
liveness under fairness: `ENABLED` is out of the prover's reach. Only proved, for want of
anything a run would add: `GoneForGood`, `TypeOK` of `LoanDocuments` and of `LoanTerms`,
and what becomes of rates without a schedule (`PastRatesUntouched`).

## 8. Plan

In this order; each with its run and then its theorems.

1. `Household` composed with `Upserts`: budgets and verdicts that change while the figures are read,
   so that a page shows two limits of one slot.
2. Two uploads of one statement at a time, as statements, in the manner of `Upserts`:
   the unique fingerprint against the check before it.
3. Two deployments at a time in `Deploy`.
4. Safety lemmas for the liveness properties: that each step of the argument for `ServedAgain`
   and `Refreshed` moves a measure on, leaving only fairness to TLC.
