-------------------------------- MODULE Deploy --------------------------------
(***************************************************************************)
(* One host deploys new versions of the app with scripts/deploy.sh, whose  *)
(* rollback restores the backup it took (expense_analyzer/backup.py) and   *)
(* brings the previous image back.  Docker boots whatever image the        *)
(* container was made from, migrating the database on boot, members write  *)
(* while it serves, and cron takes backups of its own.                     *)
(*                                                                         *)
(* A version stands for its image and for the schema its migrations lead   *)
(* to.  The script runs one command at a time and may be killed between    *)
(* two of them; every command that can fail may fail.  The worker and      *)
(* caddy follow the app and are left out, and so is SQLite, the            *)
(* development database.                                                   *)
(***************************************************************************)
EXTENDS Integers, FiniteSets

CONSTANTS
    Version,    \* the commits that can be deployed, in the order of their schemas
    Broken,     \* those whose app migrates but never becomes healthy
    Write,      \* what members can enter, each once
    Keep,       \* EA_BACKUP_KEEP; 0 keeps every backup
    MaxTime     \* bounds the clock, and with it deployments and cron backups

ASSUME VersionAssumption == Version \subseteq Nat \ {0}
ASSUME BrokenAssumption == Broken \subseteq Version
ASSUME KeepAssumption == Keep \in Nat
ASSUME MaxTimeAssumption == MaxTime \in Nat

VARIABLES
    tag,        \* the image the compose name points at, NoImage before the first build
    stack,      \* the app's container: the image it was made from, and how far it is
    db,         \* the database: does it exist, its schema, its data
    backups,    \* the files under data/backups
    now,        \* the clock, in the seconds backups are named by
    cron,       \* when cron last took a backup, and whether in this deployment
    script,     \* the run of deploy.sh: its next command and what it remembers
    written,    \* history: what members have entered
    left,       \* history: the container is one that a rollback could not remove
    cut,        \* history: a deployment stopped before its image ran, or could not
                \* replace the container it had left,
    incident    \* and whether, since one last ended healthy, the script was killed
                \* or docker or a restore failed it, or a name was lost

vars == <<tag, stack, db, backups, now, cron, script, written, left, cut, incident>>

NoImage == 0
NoBackup == [stamp |-> -1, n |-> 0, schema |-> 0, data |-> {}]
Empty == [state |-> "ready", schema |-> 0, data |-> {}]
Down == [image |-> NoImage, state |-> "down"]
Idle == [pc |-> "idle", version |-> NoImage, prev |-> NoImage, named |-> FALSE,
         backup |-> NoBackup]

Image == Version \cup {NoImage}
Backup == [stamp : 0..MaxTime, n : Nat, schema : Image, data : SUBSET Write]

RollbackPC == {"down", "validate", "drop", "create", "load", "retag", "restart"}
PC == {"idle", "build", "backup", "up", "wait"} \cup RollbackPC

TypeOK ==
    /\ tag \in Image
    /\ stack \in [image : Image, state : {"down", "starting", "migrated", "serving"}]
    /\ db \in [state : {"absent", "dropped", "ready"}, schema : Image,
               data : SUBSET Write]
    /\ backups \subseteq Backup
    /\ now \in 0..MaxTime
    /\ cron \in [at : -1..MaxTime, now : BOOLEAN]
    /\ script \in [pc : PC, version : Image, prev : Image, named : BOOLEAN,
                   backup : Backup \cup {NoBackup}]
    /\ written \subseteq Write
    /\ left \in BOOLEAN
    /\ cut \in BOOLEAN
    /\ incident \in {"none", "failed", "untagged"}

(***************************************************************************)
(* The database is created by hand before or after the first deployment.   *)
(***************************************************************************)
Init ==
    /\ tag = NoImage
    /\ stack = Down
    /\ db \in {Empty, [Empty EXCEPT !.state = "absent"]}
    /\ backups = {}
    /\ now = 0
    /\ cron = [at |-> -1, now |-> FALSE]
    /\ script = Idle
    /\ written = {}
    /\ left = FALSE
    /\ cut = FALSE
    /\ incident = "none"

-----------------------------------------------------------------------------
(* The backups.                                                            *)

(***************************************************************************)
(* The order of file names: "...Z-1.dump" sorts before "...Z.dump".        *)
(***************************************************************************)
Before(a, b) ==
    \/ a.stamp < b.stamp
    \/ /\ a.stamp = b.stamp
       /\ a.n # 0
       /\ b.n = 0 \/ a.n < b.n

\* Mutant: one file too few is kept.
KeepOneLess(files) ==
    {b \in files : Cardinality({c \in files : Before(b, c)}) < Keep - 1}

prune_backups(files) ==
    IF Keep = 0 THEN files
    ELSE {b \in files : Cardinality({c \in files : Before(b, c)}) < Keep}

\* Mutant: the stamp is local time, an hour ahead.
LocalTimeBackup ==
    [stamp |-> now + 1, n |-> 0, schema |-> db.schema, data |-> db.data]

(***************************************************************************)
(* The dump of the database under the first free name of this second.      *)
(***************************************************************************)
NextBackup ==
    LET taken == {b.n : b \in {c \in backups : c.stamp = now}}
        free == {n \in 0..Cardinality(taken) : n \notin taken}
    IN  [stamp |-> now,
         n |-> CHOOSE n \in free : \A m \in free : n <= m,
         schema |-> db.schema, data |-> db.data]

(***************************************************************************)
(* `make backup`: at most once a second, and once while a deployment runs. *)
(***************************************************************************)
CronBackup ==
    /\ tag # NoImage
    /\ db.state # "absent"
    /\ cron.at < now
    /\ script.pc = "idle" \/ ~cron.now
    /\ backups' = prune_backups(backups \cup {NextBackup})
    /\ cron' = [at |-> now, now |-> script.pc # "idle"]
    /\ UNCHANGED <<tag, stack, db, now, script, written, left, cut, incident>>

Tick ==
    /\ now < MaxTime
    /\ now' = now + 1
    /\ UNCHANGED <<tag, stack, db, backups, cron, script, written, left, cut, incident>>

-----------------------------------------------------------------------------
(* The container and the database.                                         *)

CreateDatabase ==
    /\ db.state = "absent"
    /\ db' = Empty
    /\ UNCHANGED <<tag, stack, backups, now, cron, script, written, left, cut, incident>>

(***************************************************************************)
(* `alembic upgrade head`, one transaction: it needs a schema it knows.    *)
(***************************************************************************)
Migrate ==
    /\ stack.state = "starting"
    /\ db.state = "ready"
    /\ db.schema <= stack.image
    /\ db' = [db EXCEPT !.schema = stack.image]
    /\ stack' = [stack EXCEPT !.state = "migrated"]
    /\ UNCHANGED <<tag, backups, now, cron, script, written, left, cut, incident>>

Serve ==
    /\ stack.state = "migrated"
    /\ stack.image \notin Broken
    /\ stack' = [stack EXCEPT !.state = "serving"]
    /\ UNCHANGED <<tag, db, backups, now, cron, script, written, left, cut, incident>>

(***************************************************************************)
(* restart: unless-stopped, from the container's own image.                *)
(***************************************************************************)
Crash ==
    /\ stack.state = "serving"
    /\ stack' = [stack EXCEPT !.state = "starting"]
    /\ UNCHANGED <<tag, db, backups, now, cron, script, written, left, cut, incident>>

(***************************************************************************)
(* An app left running over a restore writes to whatever tables there are. *)
(***************************************************************************)
Enter(w) ==
    /\ stack.state = "serving"
    /\ db.state = "ready" /\ (db # Empty \/ script.pc = "load")
    /\ w \notin written
    /\ db' = [db EXCEPT !.data = @ \cup {w}]
    /\ written' = written \cup {w}
    /\ UNCHANGED <<tag, stack, backups, now, cron, script, left, cut, incident>>

-----------------------------------------------------------------------------
(* The script, on its way up.                                              *)

Goto(pc) == script' = [script EXCEPT !.pc = pc]

(***************************************************************************)
(* Records the image that runs, and whether the compose name still is its  *)
(* name: after a build that moved the name it reads <none>:<none>.         *)
(***************************************************************************)
StartDeploy(v) ==
    /\ script.pc = "idle"
    /\ now < MaxTime
    /\ now' = now + 1
    /\ script' = [pc |-> "build", version |-> v, prev |-> stack.image,
                  named |-> tag = stack.image, backup |-> NoBackup]
    /\ cron' = [cron EXCEPT !.now = FALSE]
    /\ UNCHANGED <<tag, stack, db, backups, written, left, cut, incident>>

Build ==
    /\ script.pc = "build"
    /\ \/ tag' = script.version /\ Goto("backup")
       \/ UNCHANGED tag /\ script' = Idle
    /\ UNCHANGED <<stack, db, backups, now, cron, written, left, cut, incident>>

(***************************************************************************)
(* A failed backup ends the script (set -e); a missing database is none.   *)
(***************************************************************************)
BackUp ==
    /\ script.pc = "backup"
    /\ \/ /\ db.state # "absent"
          /\ backups' = prune_backups(backups \cup {NextBackup})
          /\ script' = [script EXCEPT !.pc = "up", !.backup = NextBackup]
          /\ UNCHANGED cut
       \/ /\ db.state = "absent"
          /\ Goto("up")
          /\ UNCHANGED <<backups, cut>>
       \/ /\ db.state # "absent"
          /\ script' = Idle
          /\ cut' = (cut \/ tag # stack.image)
          /\ UNCHANGED backups
    /\ UNCHANGED <<tag, stack, db, now, cron, written, left, incident>>

(***************************************************************************)
(* `docker compose up -d`: a container of the same image is left running,  *)
(* or started if it was stopped.                                           *)
(***************************************************************************)
ComposeUp ==
    IF stack.image = tag /\ stack.state # "down" THEN stack
    ELSE [image |-> tag, state |-> "starting"]

\* A container that is made anew is not one that was left.
Composed == left' = (left /\ stack' = stack)

\* Mutant: a failed `up` ends the script.
UpOrDie ==
    /\ script.pc = "up"
    /\ \/ stack' = ComposeUp /\ Goto("wait")
       \/ stack' \in {stack, ComposeUp} /\ script' = Idle
    /\ Composed
    /\ UNCHANGED <<tag, db, backups, now, cron, written, cut, incident>>

Up ==
    /\ script.pc = "up"
    /\ \/ stack' = ComposeUp /\ Goto("wait")
       \/ stack' \in {stack, ComposeUp} /\ Goto("down")
    /\ Composed
    /\ UNCHANGED <<tag, db, backups, now, cron, written, cut, incident>>

(***************************************************************************)
(* Healthy, or unhealthy or out of time: that may happen at any moment.    *)
(* What went wrong is over, unless the container is one that was left.     *)
(***************************************************************************)
AwaitHealth ==
    /\ script.pc = "wait"
    /\ \/ /\ stack.state = "serving"
          /\ script' = Idle
          /\ incident' = IF left THEN incident ELSE "none"
          /\ cut' = FALSE
       \/ Goto("down") /\ UNCHANGED <<cut, incident>>
    /\ UNCHANGED <<tag, stack, db, backups, now, cron, written, left>>

-----------------------------------------------------------------------------
(* The script, rolling back.                                               *)

\* Is there a backup to restore?
AfterDown == Goto(IF script.backup \in backups THEN "validate" ELSE "retag")

\* Mutant: the stack stays up.
RollUnderTheApp ==
    /\ script.pc = "down"
    /\ AfterDown
    /\ UNCHANGED <<tag, stack, db, backups, now, cron, written, left, cut, incident>>

(***************************************************************************)
(* `docker compose down`.  It may fail, which set +e ignores, and leave    *)
(* the container running, or stopped but not removed.                      *)
(***************************************************************************)
RollDown ==
    /\ script.pc = "down"
    /\ AfterDown
    /\ \/ stack' = Down /\ UNCHANGED incident
       \/ /\ stack' \in {stack, [stack EXCEPT !.state = "down"]} \ {Down}
          /\ incident' = "failed"
    /\ left' = (stack' # Down)
    /\ UNCHANGED <<tag, db, backups, now, cron, written, cut>>

(***************************************************************************)
(* restore_backup.  Whatever fails, the script goes on to the image; what  *)
(* is in the schema by then, from this restore or by a container that was  *)
(* left, stays.                                                            *)
(***************************************************************************)
RestoreFails ==
    /\ script.pc \in {"validate", "drop", "create", "load"}
    /\ Goto("retag")
    /\ incident' = "failed"
    /\ IF script.pc = "load"
         THEN \E part \in SUBSET script.backup.data, schema \in {db.schema, script.backup.schema} :
                db' = [db EXCEPT !.schema = schema, !.data = @ \cup part]
         ELSE UNCHANGED db
    /\ UNCHANGED <<tag, stack, backups, now, cron, written, left, cut>>

Validate ==
    /\ script.pc = "validate"
    /\ script.backup \in backups
    /\ Goto("drop")
    /\ UNCHANGED <<tag, stack, db, backups, now, cron, written, left, cut, incident>>

DropSchema ==
    /\ script.pc = "drop"
    /\ db' = [Empty EXCEPT !.state = "dropped"]
    /\ Goto("create")
    /\ UNCHANGED <<tag, stack, backups, now, cron, written, left, cut, incident>>

CreateSchema ==
    /\ script.pc = "create"
    /\ db' = Empty
    /\ Goto("load")
    /\ UNCHANGED <<tag, stack, backups, now, cron, written, left, cut, incident>>

(***************************************************************************)
(* pg_restore fails on tables it finds, which a left container may have    *)
(* made by migrating; entries may come in while it fills its own.          *)
(***************************************************************************)
Load ==
    /\ script.pc = "load"
    /\ script.backup \in backups
    /\ db.schema = 0
    /\ db' = [db EXCEPT !.schema = script.backup.schema, !.data = @ \cup script.backup.data]
    /\ Goto("retag")
    /\ UNCHANGED <<tag, stack, backups, now, cron, written, left, cut, incident>>

(***************************************************************************)
(* `docker tag` of the previous image, which may fail; without it, or      *)
(* without a name for the image, the script ends here and starts nothing.  *)
(***************************************************************************)
Retag ==
    /\ script.pc = "retag"
    /\ \/ /\ script.prev # NoImage /\ script.named
          /\ tag' = script.prev /\ Goto("restart")
          /\ UNCHANGED <<cut, incident>>
       \/ /\ script' = Idle
          /\ cut' = (cut \/ left)
          /\ incident' = CASE script.prev = NoImage -> incident
                           [] script.prev # NoImage /\ script.named -> "failed"
                           [] OTHER -> "untagged"
          /\ UNCHANGED tag
    /\ UNCHANGED <<stack, db, backups, now, cron, written, left>>

Restart ==
    /\ script.pc = "restart"
    /\ script' = Idle
    /\ \/ stack' = ComposeUp /\ UNCHANGED <<cut, incident>>
       \/ UNCHANGED stack /\ incident' = "failed" /\ cut' = (cut \/ left)
    /\ Composed
    /\ UNCHANGED <<tag, db, backups, now, cron, written>>

(***************************************************************************)
(* The script's process dies between two commands.  Before `up` nothing    *)
(* but the name has moved.                                                 *)
(***************************************************************************)
Kill ==
    /\ script.pc # "idle"
    /\ script' = Idle
    /\ cut' = (cut \/ tag # stack.image)
    /\ incident' = IF script.pc \in {"build", "backup", "up"} THEN incident ELSE "failed"
    /\ UNCHANGED <<tag, stack, db, backups, now, cron, written, left>>

-----------------------------------------------------------------------------
Command ==
    \/ Build \/ BackUp \/ Up \/ AwaitHealth
    \/ RollDown \/ Validate \/ DropSchema \/ CreateSchema \/ Load \/ RestoreFails
    \/ Retag \/ Restart

Next ==
    \/ CronBackup \/ Tick \/ CreateDatabase
    \/ Migrate \/ Serve \/ Crash \/ (\E w \in Write : Enter(w))
    \/ (\E v \in Version : StartDeploy(v))
    \/ Command \/ Kill

(***************************************************************************)
(* Docker boots and restarts the container, and a script that is not       *)
(* killed runs its next command.  Nobody has to deploy, write or wait.     *)
(***************************************************************************)
Fairness == WF_vars(Migrate) /\ WF_vars(Serve) /\ WF_vars(Command)

Spec == Init /\ [][Next]_vars /\ Fairness

-----------------------------------------------------------------------------
(* What the script and its backups promise.                                *)

(***************************************************************************)
(* An app that serves finds the schema of its own version: nobody migrates *)
(* or restores the database under it (the rollback takes the stack down    *)
(* before restore_backup, and only a booting container migrates).  The one *)
(* exception is a container that a rollback's `down` failed to remove, for *)
(* as long as no other takes its place: the restore runs under it.         *)
(***************************************************************************)
ServesOwnSchema ==
    stack.state = "serving" /\ ~left => db.state = "ready" /\ db.schema = stack.image

(***************************************************************************)
(* When the rollback is about to start the previous image, the name points *)
(* at it and the database is one it can boot on, unless a restore, docker  *)
(* or the script failed since the last healthy deployment, or there was no *)
(* database to back up.  So the backup it took is still there to restore,  *)
(* which holds of every Keep but 1: there it may have been pruned.         *)
(***************************************************************************)
RestartCanServe ==
    script.pc = "restart" /\ script.backup # NoBackup /\ incident = "none" =>
        /\ tag = script.prev
        /\ db.state = "ready"
        /\ db.schema <= script.prev

(***************************************************************************)
(* Whatever is deployed, killed and rolled back, an image only ever runs   *)
(* on a database it can use, where `down` removes what ran before.         *)
(***************************************************************************)
AppCanServe == ServesOwnSchema /\ RestartCanServe

(***************************************************************************)
(* What a member entered is in the database or in a backup, and is lost    *)
(* for good in two ways only: a rollback drops a database that has what    *)
(* was entered after the backup it restores; or, when a restore has lost   *)
(* it, pruning reaches its last copy, with Keep backups named later.       *)
(***************************************************************************)
Copies(w) == {b \in backups : w \in b.data}
Kept(w) == w \in db.data \/ Copies(w) # {}

LossesNamed ==
    [][\A w \in Write : Kept(w) /\ ~Kept(w)' =>
          \/ script.pc = "drop" /\ w \notin script.backup.data
          \/ /\ w \notin db.data
             /\ Cardinality({b \in backups' : \A c \in Copies(w) : Before(c, b)})
                  >= Keep]_vars

(***************************************************************************)
(* A rollback finds that the previous image has lost its name, and so      *)
(* leaves the stack down, only if an earlier deployment was killed or its  *)
(* backup failed after its build had moved the name and before its image   *)
(* ran, or docker failed it twice, to remove the container and to replace  *)
(* it: one that ends healthy or completes its rollback leaves the running  *)
(* image its name.                                                         *)
(***************************************************************************)
UntaggedNeedsCut ==
    [][incident' = "untagged" /\ incident # "untagged" => cut]_vars

(***************************************************************************)
(* Once a deployment has ended with the app served, it is served again and *)
(* again, whatever is deployed on top of it, broken versions included,     *)
(* until the script is killed after `up`, docker or a restore fails, or    *)
(* the image's name is gone.                                               *)
(***************************************************************************)
ServedAgain ==
    [](stack.state = "serving" /\ script.pc = "idle"
         => []<>(stack.state = "serving" \/ incident # "none"))

(***************************************************************************)
(* The inductive invariant behind ServesOwnSchema and UntaggedNeedsCut:    *)
(* once the rollback has taken the stack down it is down, or its container *)
(* was left, and that is an incident; an app that has migrated finds its   *)
(* schema; and unless a deployment was cut short the running image has its *)
(* name whenever a deployment may start.                                   *)
(***************************************************************************)
RollsBackDown ==
    /\ script.pc \in RollbackPC \ {"down"} => stack = Down \/ left
    /\ left => incident # "none"

MigratedOwnSchema ==
    stack.state \in {"migrated", "serving"} /\ ~left =>
        db.state = "ready" /\ db.schema = stack.image

NameInStep ==
    /\ script.pc \in {"idle", "build"} /\ ~cut /\ stack.image # NoImage =>
           tag = stack.image
    /\ script.pc = "wait" => tag = stack.image
    /\ script.pc # "idle" /\ script.prev # NoImage /\ ~script.named => cut

IInv == TypeOK /\ IsFiniteSet(backups) /\ RollsBackDown /\ MigratedOwnSchema /\ NameInStep

(***************************************************************************)
(* The invariants behind LossesNamed: no two files have one name, none is  *)
(* of the future, and in the second that runs a deployment finds no file   *)
(* but its own and cron's; a database without a schema is empty, and has   *)
(* one when it is loaded; only what was entered is in the database and in  *)
(* the backup to restore; and what that backup has is in some file when    *)
(* the schema goes.                                                        *)
(***************************************************************************)
NamesInOrder ==
    /\ cron.at <= now
    /\ \A b \in backups : b.stamp <= now
    /\ \A b, c \in backups : b.stamp = c.stamp /\ b.n = c.n => b = c
    /\ script.pc \in {"idle", "build", "backup"} => script.backup = NoBackup
    /\ script.pc # "idle" /\ cron.at < now =>
           \A b \in backups : b.stamp = now => b = script.backup /\ b.n = 0
    /\ script.pc \in {"build", "backup"} /\ cron.at = now =>
           cron.now /\ \A b \in backups : b.stamp = now => b.n = 0

DroppedEmpty ==
    /\ db.state # "ready" => db.data = {}
    /\ script.pc = "create" => db.state = "dropped"
    /\ script.pc = "load" => db.state = "ready"

Entered ==
    /\ db.data \subseteq written /\ script.backup.data \subseteq written

DroppedCopied ==
    script.pc = "drop" =>
        \A w \in db.data \cap script.backup.data : Copies(w) # {}

CopiesInv == IInv /\ NamesInOrder /\ DroppedEmpty /\ Entered /\ DroppedCopied

(***************************************************************************)
(* The invariants behind RestartCanServe, for any Keep but 1: at most one  *)
(* file is newer than the deployment's own, which is kept therefore, and   *)
(* the script remembers an image that can boot on what it would restore.   *)
(***************************************************************************)
BackupStays ==
    script.backup # NoBackup =>
        /\ script.backup \in backups
        /\ \A b, c \in backups : Before(script.backup, b) /\ Before(script.backup, c)
                                    => b = c
        /\ ~cron.now => \A b \in backups : ~Before(script.backup, b)

ImageFits ==
    /\ script.pc \in {"build", "backup", "up"} => script.prev = stack.image
    /\ script.pc = "restart" => script.prev # NoImage /\ tag = script.prev
    /\ incident = "none" =>
         /\ script.pc \in {"idle", "build", "backup", "up"} /\ stack.image # NoImage =>
                db.state = "ready" /\ db.schema <= stack.image
         /\ script.pc \notin {"idle", "build", "backup"} /\ script.prev # NoImage =>
                script.backup # NoBackup /\ script.backup.schema <= script.prev
         /\ script.pc \in {"retag", "restart"} /\ script.prev # NoImage =>
                db.state = "ready" /\ db.schema <= script.prev

RestartInv == CopiesInv /\ BackupStays /\ ImageFits

=============================================================================
