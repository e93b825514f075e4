---------------------------- MODULE DeployProofs ----------------------------
(***************************************************************************)
(* Proofs about module Deploy, for any versions, writes, number of backups *)
(* kept and length of the clock: the app only ever serves on the schema of *)
(* its own version, where no rollback failed to remove its container; a    *)
(* rollback loses the previous image's name only to an earlier deployment  *)
(* that was cut short, starts that image on a database it can boot on      *)
(* unless just one backup is kept, and what members entered is lost in the *)
(* two named ways only.                                                    *)
(***************************************************************************)
EXTENDS Deploy, FiniteSetTheorems, WellFoundedInduction, TLAPS

-----------------------------------------------------------------------------
(* The name of the next backup.                                            *)

\* A set of naturals that has an element has a least one.
LEMMA LeastOf ==
    ASSUME NEW S \in SUBSET Nat, NEW x \in S
    PROVE  \E n \in S : \A m \in S : n <= m
  <1> DEFINE R == OpToRel(<, Nat)
  <1>1. IsWellFoundedOn(R, Nat)
    BY NatLessThanWellFounded
  <1>2. \A p \in Nat \X Nat : p[1] < p[2] => p \in R
    BY Zenon DEF OpToRel
  <1> HIDE DEF R
  <1>3. PICK n \in S : \A m \in S : ~(<<m, n>> \in R)
    BY <1>1, WFMin, Zenon
  <1>4. ASSUME NEW m \in S, m < n PROVE FALSE
    <2>1. <<m, n>> \in Nat \X Nat /\ <<m, n>>[1] < <<m, n>>[2]
      BY <1>4
    <2>2. <<m, n>> \in R
      BY <2>1, <1>2, Zenon
    <2> QED
      BY <1>3, <2>2, Zenon
  <1> QED
    BY <1>4

\* Among one number more than there are names taken, one is free, so the
\* next backup has a name of its own, and every smaller number is taken.
LEMMA NextBackupType ==
    ASSUME TypeOK, IsFiniteSet(backups)
    PROVE  /\ NextBackup \in Backup /\ NextBackup \notin backups
           /\ NextBackup.stamp = now /\ NextBackup.n \in Nat
           /\ NextBackup.schema = db.schema /\ NextBackup.data = db.data
           /\ \A b \in backups : b.stamp = now => b.n # NextBackup.n
           /\ \A m \in Nat : m < NextBackup.n => \E b \in backups : b.stamp = now /\ b.n = m
  <1> DEFINE now_ == {c \in backups : c.stamp = now}
             taken == {b.n : b \in now_}
             free == {n \in 0..Cardinality(taken) : n \notin taken}
  <1>1. IsFiniteSet(taken) /\ Cardinality(taken) \in Nat
    <2>1. IsFiniteSet(now_)
      BY FS_Subset
    <2> DEFINE number == [b \in now_ |-> b.n]
    <2>2. number \in Surjection(now_, taken)
      <3> HIDE DEF now_
      <3> QED
        BY DEF Surjection
    <2> HIDE DEF number, taken, now_
    <2> QED
      BY <2>1, <2>2, FS_Surjection, FS_CardinalityType
  <1>2. PICK x : x \in free
    <2> HIDE DEF taken
    <2>1. SUFFICES ASSUME 0..Cardinality(taken) \subseteq taken PROVE FALSE
      OBVIOUS
    <2>2. /\ IsFiniteSet(0..Cardinality(taken))
          /\ Cardinality(0..Cardinality(taken)) = Cardinality(taken) + 1
      BY <1>1, FS_Interval
    <2> QED
      BY <1>1, <2>1, <2>2, FS_Subset
  <1>3. free \subseteq Nat
    BY <1>1
  <1>4. \E n \in free : \A m \in free : n <= m
    BY <1>2, <1>3, LeastOf
  <1> DEFINE n0 == CHOOSE n \in free : \A m \in free : n <= m
  <1>5. n0 \in free /\ \A m \in free : n0 <= m
    <2> HIDE DEF free
    <2> QED
      BY <1>4
  <1>6. NextBackup = [stamp |-> now, n |-> n0, schema |-> db.schema, data |-> db.data]
    BY DEF NextBackup
  <1>7. n0 \in Nat /\ n0 \notin taken
    BY <1>3, <1>5
  <1>8. \A m \in Nat : m < n0 => m \in taken
    <2> SUFFICES ASSUME NEW m \in Nat, m < n0, m \notin taken PROVE FALSE
      OBVIOUS
    <2>1. m \in free
      BY <1>1, <1>5
    <2> HIDE DEF n0, free
    <2> QED
      BY <1>5, <1>7, <2>1
  <1> HIDE DEF n0
  <1>9. NextBackup \in Backup
    BY <1>6, <1>7 DEF TypeOK, Backup
  <1>10. /\ NextBackup.stamp = now /\ NextBackup.n = n0
         /\ NextBackup.schema = db.schema /\ NextBackup.data = db.data
    BY <1>6
  <1> QED
    BY <1>7, <1>8, <1>9, <1>10

-----------------------------------------------------------------------------
(* The order of the files, and which of them pruning keeps.                *)

\* Files of one directory: finitely many, no two of one name.
Files(S) ==
    /\ S \subseteq Backup /\ IsFiniteSet(S)
    /\ \A b, c \in S : b.stamp = c.stamp /\ b.n = c.n => b = c

Later(b, S) == {c \in S : Before(b, c)}

\* Pruning only takes away.
LEMMA PruneShrinks ==
    ASSUME NEW S PROVE prune_backups(S) \subseteq S
  BY DEF prune_backups

\* Before is a strict order, total on the files of one directory.
LEMMA BeforeIsOrder ==
    ASSUME NEW S, Files(S), NEW a \in S, NEW b \in S, NEW c \in S
    PROVE  /\ ~Before(a, a)
           /\ Before(a, b) /\ Before(b, c) => Before(a, c)
           /\ a # b => Before(a, b) \/ Before(b, a)
  <1>1. \A x \in {a, b, c} : x.stamp \in Int /\ x.n \in Nat
    BY DEF Files, Backup
  <1>2. a.stamp = b.stamp /\ a.n = b.n => a = b
    BY DEF Files
  <1> QED
    BY <1>1, <1>2 DEF Before

\* Fewer files come after a later one.
LEMMA LaterShrinks ==
    ASSUME NEW S, Files(S), NEW a \in S, NEW b \in S, Before(a, b)
    PROVE  Cardinality(Later(b, S)) < Cardinality(Later(a, S))
  <1>1. IsFiniteSet(Later(a, S))
    BY FS_Subset DEF Later, Files
  <1>2. Later(b, S) \in SUBSET Later(a, S)
    BY BeforeIsOrder DEF Later
  <1>3. b \in Later(a, S) /\ b \notin Later(b, S)
    BY BeforeIsOrder DEF Later
  <1>4. /\ Cardinality(Later(b, S)) <= Cardinality(Later(a, S))
        /\ Cardinality(Later(b, S)) # Cardinality(Later(a, S))
    BY <1>1, <1>2, <1>3, FS_Subset
  <1> QED
    BY <1>1, <1>2, <1>4, FS_Subset, FS_CardinalityType

\* A directory that has Keep files still has Keep of them after pruning.
LEMMA PruneKeeps ==
    ASSUME NEW S, Files(S), Keep # 0, Cardinality(S) >= Keep
    PROVE  Cardinality(prune_backups(S)) >= Keep
  <1> DEFINE size == Cardinality(S)
             rank == [b \in S |-> Cardinality(Later(b, S))]
             places == 0..(size - 1)
             top == 0..(Keep - 1)
             kept == prune_backups(S)
  <1>1. IsFiniteSet(S) /\ size \in Nat /\ Keep \in Nat /\ Keep <= size
    BY FS_CardinalityType, KeepAssumption DEF Files
  <1>2. ASSUME NEW b \in S PROVE rank[b] \in places
    <2>1. Later(b, S) \in SUBSET S /\ b \notin Later(b, S)
      BY BeforeIsOrder DEF Later
    <2>2. /\ IsFiniteSet(Later(b, S))
          /\ Cardinality(Later(b, S)) <= size /\ Cardinality(Later(b, S)) # size
      BY <1>1, <2>1, FS_Subset
    <2> QED
      BY <1>1, <2>2, FS_CardinalityType
  <1>3. rank \in Injection(S, places)
    <2>1. \A a, b \in S : rank[a] = rank[b] => a = b
      BY <1>2, LaterShrinks, BeforeIsOrder
    <2>2. rank \in [S -> places]
      BY <1>2
    <2> HIDE DEF rank, places
    <2> QED
      BY <2>1, <2>2 DEF Injection, IsInjective
  <1>4. IsFiniteSet(places) /\ Cardinality(places) = size
    <2> HIDE DEF size
    <2>1. size - 1 \in Int /\ 0 \in Int
      BY <1>1
    <2> QED
      BY <1>1, <2>1, FS_Interval
  <1>5. rank \in Surjection(S, places)
    <2> HIDE DEF rank, places
    <2> QED
      BY <1>3, <1>4, FS_Injection
  <1>6. kept = {b \in S : rank[b] < Keep}
    BY DEF prune_backups, Later
  <1> DEFINE restricted == [b \in kept |-> rank[b]]
  <1>7. restricted \in Surjection(kept, top)
    <2>1. \A b \in kept : restricted[b] \in top
      BY <1>1, <1>2, <1>6
    <2>2. \A i \in top : \E b \in kept : restricted[b] = i
      <3> TAKE i \in top
      <3>1. i \in places
        BY <1>1
      <3>2. PICK b \in S : rank[b] = i
        <4> HIDE DEF rank, places
        <4> QED
          BY <1>5, <3>1 DEF Surjection
      <3>3. b \in kept
        BY <1>1, <1>6, <3>2
      <3> HIDE DEF rank
      <3> QED
        BY <3>2, <3>3
    <2> HIDE DEF kept, rank, top
    <2> QED
      BY <2>1, <2>2 DEF Surjection
  <1>8. IsFiniteSet(kept)
    BY <1>1, <1>6, FS_Subset
  <1>9. Cardinality(top) <= Cardinality(kept) /\ Cardinality(kept) \in Nat
    <2> HIDE DEF restricted, kept, top
    <2> QED
      BY <1>7, <1>8, FS_Surjection, FS_CardinalityType
  <1>10. Cardinality(top) = Keep
    BY <1>1, FS_Interval
  <1> QED
    BY <1>1, <1>9, <1>10

\* If pruning takes the last of some files away, it keeps Keep files that are
\* later than every one of them.
LEMMA PruneLosesOldest ==
    ASSUME NEW S, Files(S), NEW C \in SUBSET S, C # {}, C \cap prune_backups(S) = {}
    PROVE  /\ Keep # 0
           /\ \A c \in C : Cardinality(Later(c, S)) >= Keep
           /\ Cardinality({b \in prune_backups(S) : \A c \in C : Before(c, b)}) >= Keep
  <1> DEFINE kept == prune_backups(S)
  <1>1. Keep # 0
    BY DEF prune_backups
  <1>2. Keep \in Nat /\ IsFiniteSet(S)
    BY KeepAssumption DEF Files
  <1>3. \A b \in S : Cardinality(Later(b, S)) \in Nat
    BY <1>2, FS_Subset, FS_CardinalityType DEF Later
  <1>4. \A b \in S : b \in kept <=> Cardinality(Later(b, S)) < Keep
    BY <1>1 DEF prune_backups, Later
  <1>5. \A c \in C : Cardinality(Later(c, S)) >= Keep
    BY <1>2, <1>3, <1>4
  <1>6. \A c \in C, b \in kept : Before(c, b)
    <2> SUFFICES ASSUME NEW c \in C, NEW b \in kept PROVE Before(c, b)
      OBVIOUS
    <2>1. b \in S /\ c \in S /\ b # c
      BY PruneShrinks
    <2>2. Cardinality(Later(b, S)) < Cardinality(Later(c, S))
      BY <1>2, <1>3, <1>4, <1>5, <2>1
    <2>3. ~Before(b, c)
      BY <1>3, <2>1, <2>2, LaterShrinks
    <2> QED
      BY <2>1, <2>3, BeforeIsOrder
  <1>7. {b \in kept : \A c \in C : Before(c, b)} = kept
    BY <1>6
  <1>8. Cardinality(S) >= Keep
    <2>1. PICK c \in C : TRUE
      OBVIOUS
    <2>2. Cardinality(Later(c, S)) <= Cardinality(S)
      BY <1>2, FS_Subset DEF Later
    <2> QED
      BY <1>2, <1>3, <1>5, <2>1, <2>2, FS_CardinalityType
  <1> QED
    BY <1>1, <1>5, <1>7, <1>8, PruneKeeps

\* With the next backup, the directory still is one.
LEMMA NextBackupFiles ==
    ASSUME IInv, NamesInOrder
    PROVE  Files(backups) /\ Files(backups \cup {NextBackup})
  <1>1. TypeOK /\ IsFiniteSet(backups)
    BY DEF IInv
  <1>2. Files(backups)
    BY <1>1 DEF Files, TypeOK, NamesInOrder
  <1>3. IsFiniteSet(backups \cup {NextBackup})
    BY <1>1, FS_AddElement
  <1> QED
    BY <1>1, <1>2, <1>3, NextBackupType DEF Files

\* The directory stays finite and well typed when a backup is added.
LEMMA BackupsGrow ==
    ASSUME TypeOK, IsFiniteSet(backups),
           backups' = prune_backups(backups \cup {NextBackup})
    PROVE  backups' \subseteq Backup /\ IsFiniteSet(backups')
  <1>1. backups' \subseteq backups \cup {NextBackup}
    BY PruneShrinks
  <1>2. IsFiniteSet(backups \cup {NextBackup})
    BY FS_AddElement
  <1> QED
    BY <1>1, <1>2, NextBackupType, FS_Subset DEF TypeOK

-----------------------------------------------------------------------------
(* The inductive invariant.                                                *)

\* What the shape of Idle, Down and Empty is.
LEMMA Shapes ==
    /\ Idle \in [pc : PC, version : Image, prev : Image, named : BOOLEAN,
                 backup : Backup \cup {NoBackup}]
    /\ Idle.pc = "idle" /\ Idle.prev = NoImage
    /\ Down \in [image : Image, state : {"down", "starting", "migrated", "serving"}]
    /\ Down.state = "down" /\ Down.image = NoImage
    /\ Empty \in [state : {"absent", "dropped", "ready"}, schema : Image,
                  data : SUBSET Write]
    /\ 0 \in Image
  BY DEF Idle, Down, Empty, Image, NoImage, PC, RollbackPC

\* The initial states satisfy it.
LEMMA InitInv == Init => IInv
  <1> SUFFICES ASSUME Init PROVE IInv
    OBVIOUS
  <1>1. TypeOK
    <2>1. db \in [state : {"absent", "dropped", "ready"}, schema : Image,
                  data : SUBSET Write]
      BY Shapes DEF Init
    <2>2. cron \in [at : -1..MaxTime, now : BOOLEAN]
      BY MaxTimeAssumption DEF Init
    <2>3. stack = Down /\ script = Idle /\ backups = {} /\ now = 0 /\ tag = 0
          /\ written = {} /\ left = FALSE /\ cut = FALSE /\ incident = "none"
      BY DEF Init, NoImage
    <2>4. /\ stack \in [image : Image, state : {"down", "starting", "migrated", "serving"}]
          /\ script \in [pc : PC, version : Image, prev : Image, named : BOOLEAN,
                         backup : Backup \cup {NoBackup}]
      BY <2>3, Shapes, Zenon
    <2>5. tag \in Image /\ cut \in BOOLEAN
      BY <2>3, Shapes, Zenon
    <2>6. now \in 0..MaxTime
      BY <2>3, MaxTimeAssumption
    <2> QED
      BY <2>1, <2>2, <2>3, <2>4, <2>5, <2>6 DEF TypeOK
  <1>2. IsFiniteSet(backups)
    BY FS_EmptySet DEF Init
  <1> QED
    BY <1>1, <1>2, Shapes
    DEF Init, IInv, RollsBackDown, MigratedOwnSchema, NameInStep, RollbackPC

\* The clock, cron, the members and docker keep it.
LEMMA AroundKeeps ==
    ASSUME IInv,
           \/ CronBackup \/ Tick \/ CreateDatabase \/ Migrate \/ Serve \/ Crash
           \/ \E w \in Write : Enter(w)
    PROVE  IInv'
  <1> USE DEF IInv
  <1>1. CASE CronBackup
    <2>1. backups' \subseteq Backup /\ IsFiniteSet(backups')
      BY <1>1, BackupsGrow DEF CronBackup
    <2>2. TypeOK'
      <3>1. PICK b \in BOOLEAN : cron' = [at |-> now, now |-> b]
        BY <1>1, Zenon DEF CronBackup
      <3>2. cron' \in [at : -1..MaxTime, now : BOOLEAN]
        BY <3>1 DEF TypeOK
      <3> QED
        BY <1>1, <2>1, <3>2 DEF CronBackup, TypeOK
    <2> QED
      BY <1>1, <2>1, <2>2
      DEF CronBackup, RollsBackDown, MigratedOwnSchema, NameInStep
  <1>2. CASE Tick
    BY <1>2, MaxTimeAssumption
    DEF Tick, TypeOK, RollsBackDown, MigratedOwnSchema, NameInStep
  <1>3. CASE CreateDatabase
    BY <1>3, Shapes
    DEF CreateDatabase, TypeOK, RollsBackDown, MigratedOwnSchema, NameInStep
  <1>4. CASE Migrate
    BY <1>4, Shapes DEF Migrate, TypeOK, RollsBackDown, MigratedOwnSchema, NameInStep
  <1>5. CASE Serve
    BY <1>5, Shapes DEF Serve, TypeOK, RollsBackDown, MigratedOwnSchema, NameInStep
  <1>6. CASE Crash
    BY <1>6, Shapes DEF Crash, TypeOK, RollsBackDown, MigratedOwnSchema, NameInStep
  <1>7. ASSUME NEW w \in Write, Enter(w) PROVE IInv'
    BY <1>7, Shapes DEF Enter, TypeOK, RollsBackDown, MigratedOwnSchema, NameInStep
  <1> QED
    BY <1>1, <1>2, <1>3, <1>4, <1>5, <1>6, <1>7

\* Going to another command leaves what the script remembers.
LEMMA GotoShape ==
    ASSUME TypeOK, NEW pc \in PC, Goto(pc)
    PROVE  /\ script' \in [pc : PC, version : Image, prev : Image, named : BOOLEAN,
                           backup : Backup \cup {NoBackup}]
           /\ script'.pc = pc
           /\ script'.prev = script.prev /\ script'.named = script.named
           /\ script'.version = script.version /\ script'.backup = script.backup
  BY DEF TypeOK, Goto

\* The container `up` leaves is made from the image the name points at.
LEMMA ComposeUpShape ==
    ASSUME TypeOK
    PROVE  /\ ComposeUp \in [image : Image,
                             state : {"down", "starting", "migrated", "serving"}]
           /\ ComposeUp.image = tag
           /\ ComposeUp = stack \/ ComposeUp.state = "starting"
  BY DEF TypeOK, ComposeUp

\* The script keeps it on its way up.
LEMMA DeployingKeeps ==
    ASSUME IInv,
           (\E v \in Version : StartDeploy(v)) \/ Build \/ BackUp \/ Up \/ AwaitHealth
    PROVE  IInv'
  <1> USE DEF IInv
  <1>1. ASSUME NEW v \in Version, StartDeploy(v) PROVE IInv'
    <2>1. PICK named \in BOOLEAN :
            /\ named <=> tag = stack.image
            /\ script' = [pc |-> "build", version |-> v, prev |-> stack.image,
                          named |-> named, backup |-> NoBackup]
      BY <1>1, Zenon DEF StartDeploy
    <2>2. script' \in [pc : PC, version : Image, prev : Image, named : BOOLEAN,
                       backup : Backup \cup {NoBackup}]
      BY <2>1 DEF TypeOK, PC, Image
    <2>3. /\ script'.pc = "build" /\ script'.prev = stack.image
          /\ script'.named <=> tag = stack.image
      BY <2>1
    <2>4. now' \in 0..MaxTime
      BY <1>1, MaxTimeAssumption DEF StartDeploy, TypeOK
    <2>5. cron' \in [at : -1..MaxTime, now : BOOLEAN]
      BY <1>1 DEF StartDeploy, TypeOK
    <2>6. UNCHANGED <<tag, stack, db, backups, written, left, cut, incident>>
      BY <1>1 DEF StartDeploy
    <2>7. TypeOK'
      BY <2>2, <2>4, <2>5, <2>6 DEF TypeOK
    <2> QED
      BY <1>1, <2>3, <2>7
      DEF StartDeploy, RollsBackDown, MigratedOwnSchema, NameInStep, RollbackPC
  <1>2. CASE Build
    <2>1. CASE tag' = script.version /\ Goto("backup")
      BY <1>2, <2>1, GotoShape
      DEF Build, TypeOK, RollsBackDown, MigratedOwnSchema, NameInStep, PC, RollbackPC
    <2>2. CASE UNCHANGED tag /\ script' = Idle
      BY <1>2, <2>2, Shapes
      DEF Build, TypeOK, RollsBackDown, MigratedOwnSchema, NameInStep, RollbackPC
    <2> QED
      BY <1>2, <2>1, <2>2 DEF Build
  <1>3. CASE BackUp
    <2>1. CASE /\ backups' = prune_backups(backups \cup {NextBackup})
               /\ script' = [script EXCEPT !.pc = "up", !.backup = NextBackup]
               /\ UNCHANGED cut
      <3>1. backups' \subseteq Backup /\ IsFiniteSet(backups')
        BY <2>1, BackupsGrow
      <3>2. TypeOK'
        BY <1>3, <2>1, <3>1, NextBackupType DEF BackUp, TypeOK, PC
      <3>3. script'.pc = "up" /\ script'.prev = script.prev /\ script'.named = script.named
        BY <2>1 DEF TypeOK
      <3> QED
        BY <1>3, <2>1, <3>1, <3>2, <3>3
        DEF BackUp, RollsBackDown, MigratedOwnSchema, NameInStep, RollbackPC
    <2>2. CASE Goto("up") /\ UNCHANGED <<backups, cut>>
      BY <1>3, <2>2, GotoShape
      DEF BackUp, TypeOK, RollsBackDown, MigratedOwnSchema, NameInStep, PC, RollbackPC
    <2>3. CASE script' = Idle /\ cut' = (cut \/ tag # stack.image) /\ UNCHANGED backups
      BY <1>3, <2>3, Shapes
      DEF BackUp, TypeOK, RollsBackDown, MigratedOwnSchema, NameInStep, RollbackPC
    <2> QED
      BY <1>3, <2>1, <2>2, <2>3 DEF BackUp
  <1>4. CASE Up
    <2>1. CASE stack' = ComposeUp /\ Goto("wait")
      BY <1>4, <2>1, GotoShape, ComposeUpShape
      DEF Up, Composed, TypeOK, RollsBackDown, MigratedOwnSchema, NameInStep, PC, RollbackPC
    <2>2. CASE stack' \in {stack, ComposeUp} /\ Goto("down")
      BY <1>4, <2>2, GotoShape, ComposeUpShape
      DEF Up, Composed, TypeOK, RollsBackDown, MigratedOwnSchema, NameInStep, PC, RollbackPC
    <2> QED
      BY <1>4, <2>1, <2>2 DEF Up
  <1>5. CASE AwaitHealth
    <2>1. CASE script' = Idle /\ incident' = (IF left THEN incident ELSE "none") /\ cut' = FALSE
      BY <1>5, <2>1, Shapes
      DEF AwaitHealth, TypeOK, RollsBackDown, MigratedOwnSchema, NameInStep, RollbackPC
    <2>2. CASE Goto("down") /\ UNCHANGED <<cut, incident>>
      BY <1>5, <2>2, GotoShape
      DEF AwaitHealth, TypeOK, RollsBackDown, MigratedOwnSchema, NameInStep, PC,
          RollbackPC
    <2> QED
      BY <1>5, <2>1, <2>2 DEF AwaitHealth
  <1> QED
    BY <1>1, <1>2, <1>3, <1>4, <1>5

\* It keeps it rolling back: from `down` on there is no container that could
\* see the schema go, or one that was left.
LEMMA RollingBackKeeps ==
    ASSUME IInv,
           \/ RollDown \/ RestoreFails \/ Validate \/ DropSchema \/ CreateSchema
           \/ Load \/ Retag \/ Restart
    PROVE  IInv'
  <1> USE DEF IInv
  <1>1. CASE RollDown
    <2>1. PICK pc \in {"validate", "retag"} : Goto(pc)
      BY <1>1 DEF RollDown, AfterDown
    <2>2. /\ stack' \in [image : Image, state : {"down", "starting", "migrated", "serving"}]
          /\ incident' = "failed" \/ (stack' = Down /\ UNCHANGED incident)
      <3>1. [stack EXCEPT !.state = "down"]
               \in [image : Image, state : {"down", "starting", "migrated", "serving"}]
        BY DEF TypeOK
      <3>2. \/ stack' = Down /\ UNCHANGED incident
            \/ stack' \in {stack, [stack EXCEPT !.state = "down"]} /\ incident' = "failed"
        BY <1>1 DEF RollDown
      <3> QED
        BY <3>1, <3>2, Shapes DEF TypeOK
    <2>3. /\ UNCHANGED <<tag, db, backups, now, cron, written, cut>>
          /\ left' = (stack' # Down) /\ script.pc = "down"
      BY <1>1 DEF RollDown
    <2>4. TypeOK'
      BY <2>1, <2>2, <2>3, GotoShape DEF TypeOK, PC, RollbackPC
    <2>5. RollsBackDown' /\ MigratedOwnSchema'
      BY <2>2, <2>3, Shapes DEF RollsBackDown, MigratedOwnSchema
    <2>6. NameInStep'
      BY <2>1, <2>2, <2>3, GotoShape DEF NameInStep, PC, RollbackPC
    <2> QED
      BY <2>3, <2>4, <2>5, <2>6
  <1>2. CASE RestoreFails
    <2>1. (stack = Down \/ left) /\ script.pc \in RollbackPC
      BY <1>2 DEF RestoreFails, RollsBackDown, RollbackPC
    <2>2. db' \in [state : {"absent", "dropped", "ready"}, schema : Image,
                   data : SUBSET Write]
      <3>1. CASE script.pc # "load"
        BY <1>2, <3>1 DEF RestoreFails, TypeOK
      <3>2. CASE script.pc = "load"
        <4>1. PICK part \in SUBSET script.backup.data,
                   schema \in {db.schema, script.backup.schema} :
                     db' = [db EXCEPT !.schema = schema, !.data = @ \cup part]
          BY <1>2, <3>2 DEF RestoreFails
        <4>2. script.backup.data \subseteq Write /\ script.backup.schema \in Image
          BY Shapes DEF TypeOK, Backup, NoBackup
        <4> QED
          BY <4>1, <4>2 DEF TypeOK
      <3> QED
        BY <3>1, <3>2
    <2>3. Goto("retag") /\ incident' = "failed"
      BY <1>2 DEF RestoreFails
    <2>4. UNCHANGED <<tag, stack, backups, now, cron, written, left, cut>>
      BY <1>2 DEF RestoreFails
    <2>5. "retag" \in PC /\ "retag" # "idle" /\ "retag" # "build" /\ "retag" # "wait"
      BY DEF PC, RollbackPC
    <2>6. TypeOK'
      BY <2>2, <2>3, <2>4, <2>5, GotoShape DEF TypeOK
    <2>7. RollsBackDown' /\ MigratedOwnSchema'
      BY <2>1, <2>3, <2>4, Shapes DEF RollsBackDown, MigratedOwnSchema
    <2>8. NameInStep'
      BY <2>1, <2>3, <2>4, <2>5, GotoShape DEF NameInStep, RollbackPC
    <2> QED
      BY <2>4, <2>6, <2>7, <2>8
  <1>3. CASE Validate
    BY <1>3, GotoShape
    DEF Validate, TypeOK, RollsBackDown, MigratedOwnSchema, NameInStep, PC, RollbackPC
  <1>4. CASE DropSchema \/ CreateSchema
    <2>1. stack = Down \/ left
      BY <1>4 DEF DropSchema, CreateSchema, RollsBackDown, RollbackPC
    <2>2. PICK pc \in {"create", "load"} : Goto(pc)
      BY <1>4 DEF DropSchema, CreateSchema
    <2> QED
      BY <1>4, <2>1, <2>2, GotoShape, Shapes
      DEF DropSchema, CreateSchema, TypeOK, RollsBackDown, MigratedOwnSchema,
          NameInStep, PC, RollbackPC
  <1>5. CASE Load
    <2>1. stack = Down \/ left
      BY <1>5 DEF Load, RollsBackDown, RollbackPC
    <2>2. script.backup.data \subseteq Write /\ script.backup.schema \in Image
      BY Shapes DEF TypeOK, Backup, NoBackup
    <2>3. db' \in [state : {"absent", "dropped", "ready"}, schema : Image,
                   data : SUBSET Write]
      BY <1>5, <2>2 DEF Load, TypeOK
    <2>4. /\ UNCHANGED <<tag, stack, backups, now, cron, written, left, cut, incident>>
          /\ Goto("retag")
      BY <1>5 DEF Load
    <2>5. TypeOK'
      BY <2>3, <2>4, GotoShape DEF TypeOK, PC, RollbackPC
    <2>6. RollsBackDown' /\ MigratedOwnSchema'
      BY <2>1, <2>4, Shapes DEF RollsBackDown, MigratedOwnSchema
    <2>7. NameInStep'
      BY <1>5, <2>4, GotoShape DEF Load, NameInStep, PC, RollbackPC
    <2> QED
      BY <2>4, <2>5, <2>6, <2>7
  <1>6. CASE Retag
    <2>1. stack = Down \/ left
      BY <1>6 DEF Retag, RollsBackDown, RollbackPC
    <2>2. UNCHANGED <<stack, db, backups, now, cron, written, left>>
      BY <1>6 DEF Retag
    <2>3. CASE tag' = script.prev /\ Goto("restart") /\ UNCHANGED <<cut, incident>>
      BY <1>6, <2>1, <2>2, <2>3, GotoShape, Shapes
      DEF TypeOK, RollsBackDown, MigratedOwnSchema, NameInStep, PC, RollbackPC, Retag
    <2>4. CASE script' = Idle /\ cut' = (cut \/ left) /\ UNCHANGED tag
      <3>1. incident' \in {incident, "failed", "untagged"}
        BY <1>6, <2>4 DEF Retag, Goto, Idle
      <3> QED
        BY <2>1, <2>2, <2>4, <3>1, Shapes
        DEF TypeOK, RollsBackDown, MigratedOwnSchema, NameInStep, RollbackPC
    <2> QED
      BY <1>6, <2>3, <2>4 DEF Retag
  <1>7. CASE Restart
    <2>1. stack = Down \/ left
      BY <1>7 DEF Restart, RollsBackDown, RollbackPC
    <2>2. UNCHANGED <<tag, db, backups, now, cron, written>> /\ script' = Idle
      BY <1>7 DEF Restart
    <2>3. left' = (left /\ stack' = stack)
      BY <1>7 DEF Restart, Composed
    <2>4. \/ stack' = ComposeUp /\ UNCHANGED <<cut, incident>>
          \/ stack' = stack /\ incident' = "failed" /\ cut' = (cut \/ left)
      BY <1>7 DEF Restart
    <2>5. TypeOK'
      BY <2>2, <2>3, <2>4, ComposeUpShape, Shapes DEF TypeOK
    <2>6. RollsBackDown' /\ MigratedOwnSchema'
      BY <2>1, <2>2, <2>3, <2>4, ComposeUpShape, Shapes
      DEF RollsBackDown, MigratedOwnSchema, RollbackPC
    <2>7. NameInStep'
      BY <2>1, <2>2, <2>3, <2>4, ComposeUpShape, Shapes DEF NameInStep
    <2> QED
      BY <2>2, <2>5, <2>6, <2>7
  <1> QED
    BY <1>1, <1>2, <1>3, <1>4, <1>5, <1>6, <1>7

\* A killed script leaves the record that it was cut short.
LEMMA KillKeeps == ASSUME IInv, Kill PROVE IInv'
  BY Shapes
  DEF IInv, Kill, TypeOK, RollsBackDown, MigratedOwnSchema, NameInStep, RollbackPC

\* Every step keeps the invariant.
LEMMA NextKeeps == IInv /\ [Next]_vars => IInv'
  <1> SUFFICES ASSUME IInv, [Next]_vars PROVE IInv'
    OBVIOUS
  <1>1. CASE UNCHANGED vars
    BY <1>1 DEF IInv, vars, TypeOK, RollsBackDown, MigratedOwnSchema, NameInStep
  <1>2. CASE Next
    BY <1>2, AroundKeeps, DeployingKeeps, RollingBackKeeps, KillKeeps DEF Next, Command
  <1> QED
    BY <1>1, <1>2

-----------------------------------------------------------------------------
(* The theorems.                                                           *)

\* The inductive invariant holds of every behaviour, fair or not: among others,
\* from `down` to the end of a rollback (deploy.sh, 129-158) there is either no
\* container or one that `down`, run under set +e, failed to remove, and that is
\* an incident until another container takes its place.
THEOREM DeployInvariant == Spec => []IInv
  BY InitInv, NextKeeps, PTL DEF Spec

\* Image, container, database and files keep their shape.
THEOREM DeployTypeCorrect == Spec => []TypeOK
  <1>1. IInv => TypeOK
    BY DEF IInv
  <1> QED
    BY <1>1, DeployInvariant, PTL

\* The app that serves finds the schema of its own version (deploy.sh, 129:
\* `down` before restore_backup), unless a rollback's `down` failed and this is
\* the container it left, under which the database is restored.
THEOREM ServingOnOwnSchema == Spec => []ServesOwnSchema
  <1>1. IInv => ServesOwnSchema
    BY DEF IInv, MigratedOwnSchema, ServesOwnSchema
  <1> QED
    BY <1>1, DeployInvariant, PTL

\* A rollback that finds no name to retag (deploy.sh, 144) follows a deployment
\* that was cut short before its image ran, or that could neither remove nor
\* replace the container it found.
THEOREM RetagFailsAfterCut == Spec => UntaggedNeedsCut
  <1>1. IInv /\ [Next]_vars =>
          [incident' = "untagged" /\ incident # "untagged" => cut]_vars
    <2> SUFFICES ASSUME IInv, Next, incident' = "untagged", incident # "untagged"
                 PROVE  cut
      OBVIOUS
    <2>1. CASE Retag
      BY <2>1 DEF Retag, IInv, NameInStep
    <2>2. CASE ~Retag
      BY <2>2
      DEF Next, Command, CronBackup, Tick, CreateDatabase, Migrate, Serve, Crash, Enter,
          StartDeploy, Build, BackUp, Up, AwaitHealth, RollDown, RestoreFails, Validate,
          DropSchema, CreateSchema, Load, Restart, Kill
    <2> QED
      BY <2>1, <2>2
  <1> QED
    BY <1>1, DeployInvariant, PTL DEF Spec, UntaggedNeedsCut

-----------------------------------------------------------------------------
(* What is never lost but in two ways.                                     *)

\* A command that takes no backup either ends the script or leaves what it
\* remembers as the backup, and never goes back to before `backup`.
Moves ==
    /\ UNCHANGED <<backups, now, cron>>
    /\ \/ script' = script
       \/ script' = Idle
       \/ /\ script.pc # "idle" /\ script'.pc # "idle" /\ script'.backup = script.backup
          /\ script'.pc \in {"build", "backup"} => script.pc \in {"build", "backup"}

\* The two ways the backup command ends: with a file, or without one.
TakesBackup ==
    /\ BackUp /\ db.state # "absent"
    /\ backups' = prune_backups(backups \cup {NextBackup})
    /\ script' = [script EXCEPT !.pc = "up", !.backup = NextBackup]

SkipsBackup ==
    /\ BackUp /\ UNCHANGED backups
    /\ (Goto("up") /\ db.state = "absent") \/ script' = Idle

QuietStep ==
    \/ CreateDatabase \/ Migrate \/ Serve \/ Crash \/ (\E w \in Write : Enter(w))
    \/ Build \/ SkipsBackup
    \/ Up \/ AwaitHealth
    \/ RollDown \/ Validate \/ DropSchema \/ CreateSchema \/ Load \/ RestoreFails
    \/ Retag \/ Restart \/ Kill

LEMMA QuietMoves == ASSUME TypeOK, QuietStep PROVE Moves
  <1>1. ASSUME NEW pc \in PC, Goto(pc), pc # "idle", script.pc # "idle",
               pc \in {"build", "backup"} => script.pc \in {"build", "backup"},
               UNCHANGED <<backups, now, cron>>
        PROVE  Moves
    BY <1>1, GotoShape DEF Moves
  <1>2. CASE CreateDatabase \/ Migrate \/ Serve \/ Crash \/ (\E w \in Write : Enter(w))
    BY <1>2 DEF CreateDatabase, Migrate, Serve, Crash, Enter, Moves
  <1>3. CASE Build \/ Up \/ AwaitHealth \/ Retag \/ Restart \/ Kill
    BY <1>1, <1>3 DEF Build, Up, AwaitHealth, Retag, Restart, Kill, PC, RollbackPC, Moves
  <1>4. CASE SkipsBackup
    BY <1>1, <1>4 DEF SkipsBackup, BackUp, PC, RollbackPC, Moves
  <1>5. CASE \/ RollDown \/ Validate \/ DropSchema \/ CreateSchema \/ Load
             \/ RestoreFails
    BY <1>1, <1>5
    DEF RollDown, AfterDown, Validate, DropSchema, CreateSchema, Load, RestoreFails, PC,
        RollbackPC
  <1> QED
    BY <1>2, <1>3, <1>4, <1>5 DEF QuietStep

\* Every step is one of these.
LEMMA StepKinds ==
    ASSUME Next
    PROVE  \/ QuietStep \/ CronBackup \/ Tick \/ TakesBackup
           \/ \E v \in Version : StartDeploy(v)
  <1>1. BackUp => TakesBackup \/ SkipsBackup
    BY DEF BackUp, TakesBackup, SkipsBackup
  <1> QED
    BY <1>1 DEF Next, Command, QuietStep

\* Names stay in order: the next file's is free and not of the future, and only
\* cron or the deployment itself writes one in the second that runs.
LEMMA NamesStayInOrder ==
    ASSUME IInv, NamesInOrder, Next
    PROVE  NamesInOrder'
  <1>1. /\ TypeOK /\ IsFiniteSet(backups) /\ now \in Nat /\ cron.at \in Int
        /\ \A b \in backups : b.stamp \in Nat /\ b.n \in Nat
    BY DEF IInv, TypeOK, Backup
  <1>2. CASE QuietStep
    BY <1>1, <1>2, QuietMoves DEF Moves, NamesInOrder, Idle
  <1>3. CASE Tick
    <2>1. /\ now' = now + 1 /\ UNCHANGED <<backups, cron, script>>
      BY <1>3 DEF Tick
    <2>2. cron'.at < now' /\ \A b \in backups' : b.stamp < now'
      BY <1>1, <2>1 DEF NamesInOrder
    <2> QED
      BY <1>1, <2>1, <2>2 DEF NamesInOrder
  <1>4. ASSUME NEW v \in Version, StartDeploy(v) PROVE NamesInOrder'
    <2>1. /\ now' = now + 1 /\ UNCHANGED backups /\ cron'.at = cron.at
          /\ script'.pc = "build" /\ script'.backup = NoBackup
      BY <1>1, <1>4 DEF StartDeploy, TypeOK
    <2>2. cron'.at < now' /\ \A b \in backups' : b.stamp < now'
      BY <1>1, <2>1 DEF NamesInOrder
    <2> QED
      BY <1>1, <2>1, <2>2 DEF NamesInOrder
  <1> DEFINE N == NextBackup
  <1>5. /\ Files(backups \cup {N}) /\ Files(backups)
        /\ N.stamp = now /\ N.n \in Nat
        /\ \A m \in Nat : m < N.n => \E b \in backups : b.stamp = now /\ b.n = m
    BY <1>1, NextBackupType, NextBackupFiles
  <1>6. NoBackup.stamp = -1
    BY DEF NoBackup
  <1>7. script.pc \in {"build", "backup"} /\ cron.at < now =>
           \A b \in backups : b.stamp # now
    BY <1>1, <1>6 DEF NamesInOrder
  <1> HIDE DEF N
  <1>8. CASE CronBackup
    <2>1. /\ backups' \subseteq backups \cup {N}
          /\ UNCHANGED <<now, script>> /\ cron'.at = now
          /\ cron'.now <=> script.pc # "idle"
          /\ cron.at < now
      BY <1>8, PruneShrinks DEF CronBackup, N
    <2>2. script.pc \in {"build", "backup"} => N.n = 0
      BY <1>1, <1>5, <1>7, <2>1
    <2> QED
      BY <1>1, <1>5, <1>7, <2>1, <2>2 DEF NamesInOrder, Files
  <1>9. CASE TakesBackup
    <2>1. /\ backups' \subseteq backups \cup {N}
          /\ UNCHANGED <<now, cron>>
          /\ script'.pc = "up" /\ script'.backup = N
          /\ script.pc = "backup"
      BY <1>1, <1>9, PruneShrinks DEF TakesBackup, BackUp, N, TypeOK
    <2>2. cron.at < now => N.n = 0
      BY <1>1, <1>5, <1>7, <2>1
    <2> QED
      BY <1>1, <1>5, <1>7, <2>1, <2>2 DEF NamesInOrder, Files
  <1> QED
    BY <1>2, <1>3, <1>4, <1>8, <1>9, StepKinds

\* Loading a backup, in whole or in part, adds to what is in the schema.
LEMMA LoadShape ==
    ASSUME TypeOK, Load \/ (RestoreFails /\ script.pc = "load")
    PROVE  /\ db'.state = db.state
           /\ db.data \subseteq db'.data
           /\ db'.data \subseteq db.data \cup script.backup.data
           /\ Load => db'.schema = script.backup.schema
  <1>1. db \in [state : {"absent", "dropped", "ready"}, schema : Image, data : SUBSET Write]
    BY DEF TypeOK
  <1>2. ASSUME NEW schema, NEW data, db' = [db EXCEPT !.schema = schema, !.data = @ \cup data]
        PROVE  /\ db'.state = db.state /\ db'.schema = schema
               /\ db'.data = db.data \cup data
    BY <1>1, <1>2
  <1>3. CASE Load
    BY <1>2, <1>3 DEF Load
  <1>4. ASSUME RestoreFails, script.pc = "load"
        PROVE  /\ db'.state = db.state
               /\ db.data \subseteq db'.data
               /\ db'.data \subseteq db.data \cup script.backup.data
    <2>1. PICK part \in SUBSET script.backup.data,
               schema \in {db.schema, script.backup.schema} :
                 db' = [db EXCEPT !.schema = schema, !.data = @ \cup part]
      BY <1>4 DEF RestoreFails
    <2> QED
      BY <1>2, <2>1
  <1> QED
    BY <1>3, <1>4

\* A database without a schema is empty, and has one when it is loaded: an app
\* that was left only writes to tables.
LEMMA DroppedStaysEmpty ==
    ASSUME IInv, DroppedEmpty, Next
    PROVE  DroppedEmpty'
  <1>1. TypeOK
    BY DEF IInv
  <1>2. Empty.data = {} /\ Empty.state = "ready" /\ Idle.pc = "idle"
    BY DEF Empty, Idle
  <1>3. ASSUME db'.state = db.state, db'.data = db.data \/ db.state = "ready",
               script'.pc \in {"create", "load"} => script'.pc = script.pc
        PROVE  DroppedEmpty'
    BY <1>3 DEF DroppedEmpty
  <1>4. ASSUME NEW pc \in PC, Goto(pc) PROVE script'.pc = pc
    BY <1>1, <1>4, GotoShape
  <1>5. CASE CronBackup \/ Tick \/ Serve \/ Crash \/ (\E v \in Version : StartDeploy(v))
    <2>1. UNCHANGED db /\ script'.pc \in {script.pc, "build"}
      BY <1>1, <1>5 DEF CronBackup, Tick, Serve, Crash, StartDeploy
    <2> QED
      BY <1>3, <2>1
  <1>6. CASE Build \/ BackUp \/ Up \/ AwaitHealth \/ RollDown \/ Validate \/ Retag
             \/ Restart \/ Kill
    <2>1. UNCHANGED db
      BY <1>6 DEF Build, BackUp, Up, AwaitHealth, RollDown, Validate, Retag, Restart, Kill
    <2>2. script'.pc \in {"idle", "backup", "up", "wait", "down", "validate", "retag",
                          "drop", "restart"}
      <3>1. CASE BackUp
        BY <1>1, <1>2, <1>4, <3>1 DEF BackUp, PC, TypeOK
      <3>2. CASE ~BackUp
        BY <1>2, <1>4, <1>6, <3>2
        DEF Build, Up, AwaitHealth, RollDown, AfterDown, Validate, Retag, Restart, Kill,
            PC, RollbackPC
      <3> QED
        BY <3>1, <3>2
    <2> QED
      BY <1>3, <2>1, <2>2
  <1>7. CASE CreateDatabase
    BY <1>2, <1>7 DEF CreateDatabase, DroppedEmpty
  <1>8. CASE Migrate \/ (\E w \in Write : Enter(w))
    <2>1. script' = script /\ db'.state = db.state /\ db.state = "ready"
      BY <1>1, <1>8 DEF Migrate, Enter, TypeOK
    <2> QED
      BY <1>3, <2>1
  <1>9. CASE DropSchema
    BY <1>1, <1>2, <1>4, <1>9 DEF DropSchema, DroppedEmpty, Empty, PC, RollbackPC
  <1>10. CASE CreateSchema
    BY <1>1, <1>2, <1>4, <1>10 DEF CreateSchema, DroppedEmpty, PC, RollbackPC
  <1>11. CASE Load \/ RestoreFails
    <2>1. script'.pc = "retag"
      BY <1>4, <1>11 DEF Load, RestoreFails, PC, RollbackPC
    <2>2. CASE script.pc = "load"
      <3>1. db'.state = db.state /\ db.state = "ready"
        BY <1>1, <1>11, <2>2, LoadShape DEF DroppedEmpty
      <3> QED
        BY <1>3, <2>1, <3>1
    <2>3. CASE script.pc # "load"
      BY <1>3, <1>11, <2>1, <2>3 DEF Load, RestoreFails
    <2> QED
      BY <2>2, <2>3
  <1> QED
    BY <1>5, <1>6, <1>7, <1>8, <1>9, <1>10, <1>11 DEF Next, Command

\* Nothing is in the database or in the backup to restore that was not entered.
LEMMA EnteredStays ==
    ASSUME IInv, DroppedEmpty, Entered, Next
    PROVE  Entered'
  <1>1. TypeOK /\ IsFiniteSet(backups)
    BY DEF IInv
  <1>2. Empty.data = {} /\ Idle.backup.data = {} /\ NoBackup.data = {}
    BY DEF Empty, Idle, NoBackup
  <1>3. ASSUME NEW pc \in PC, Goto(pc) PROVE script'.backup = script.backup
    BY <1>1, <1>3, GotoShape
  <1>4. ASSUME written \subseteq written',
               db'.data \subseteq db.data \cup script.backup.data,
               script'.backup.data \in {{}, script.backup.data, db.data}
        PROVE  Entered'
    BY <1>4 DEF Entered
  <1>5. CASE CronBackup \/ Tick \/ Serve \/ Crash
    BY <1>4, <1>5 DEF CronBackup, Tick, Serve, Crash
  <1>6. CASE \E v \in Version : StartDeploy(v)
    BY <1>2, <1>4, <1>6 DEF StartDeploy
  <1>7. CASE Build \/ Up \/ AwaitHealth \/ RollDown \/ Validate \/ Retag \/ Restart \/ Kill
    <2>1. UNCHANGED <<db, written>>
      BY <1>7 DEF Build, Up, AwaitHealth, RollDown, Validate, Retag, Restart, Kill
    <2>2. script' = Idle \/ script'.backup = script.backup
      BY <1>3, <1>7
      DEF Build, Up, AwaitHealth, RollDown, AfterDown, Validate, Retag, Restart, Kill, PC,
          RollbackPC
    <2> QED
      BY <1>2, <1>4, <2>1, <2>2
  <1>8. CASE BackUp
    <2>1. UNCHANGED <<db, written>>
      BY <1>8 DEF BackUp
    <2>2. CASE script' = [script EXCEPT !.pc = "up", !.backup = NextBackup]
      <3>1. script'.backup.data = db.data
        BY <1>1, <2>2, NextBackupType DEF TypeOK
      <3> QED
        BY <1>4, <2>1, <3>1
    <2>3. CASE Goto("up") \/ script' = Idle
      BY <1>2, <1>3, <1>4, <2>1, <2>3 DEF PC
    <2> QED
      BY <1>8, <2>2, <2>3 DEF BackUp
  <1>9. CASE CreateDatabase \/ Migrate
    <2>1. UNCHANGED <<written, script>> /\ db'.data \in {{}, db.data}
      BY <1>1, <1>2, <1>9 DEF CreateDatabase, Migrate, TypeOK
    <2> QED
      BY <1>4, <2>1
  <1>10. ASSUME NEW w \in Write, Enter(w) PROVE Entered'
    BY <1>1, <1>10 DEF Enter, Entered, TypeOK
  <1>11. CASE DropSchema \/ CreateSchema
    <2>1. /\ UNCHANGED written /\ db'.data = {}
          /\ script'.backup = script.backup
      BY <1>2, <1>3, <1>11 DEF DropSchema, CreateSchema, Empty, PC, RollbackPC
    <2> QED
      BY <1>4, <2>1
  <1>12. CASE Load \/ RestoreFails
    <2>1. UNCHANGED written /\ script'.backup = script.backup
      BY <1>3, <1>12 DEF Load, RestoreFails, PC, RollbackPC
    <2>2. db'.data \subseteq db.data \cup script.backup.data
      BY <1>1, <1>12, LoadShape DEF RestoreFails
    <2> QED
      BY <1>4, <2>1, <2>2
  <1> QED
    BY <1>5, <1>6, <1>7, <1>8, <1>9, <1>10, <1>11, <1>12 DEF Next, Command

\* Adding a backup of the current database: what the database has and a file
\* had is still in a file, as long as the next name is not sorted below Keep
\* others.
LEMMA BackupKeepsCopies ==
    ASSUME IInv, NamesInOrder, NEW w \in db.data,
           backups' = prune_backups(backups \cup {NextBackup}),
           \E b \in backups : w \in b.data,
           script.pc # "idle", cron.at < now, w \in script.backup.data
    PROVE  \E b \in backups' : w \in b.data
  <1> DEFINE N == NextBackup
             S == backups \cup {N}
             C == {b \in S : w \in b.data}
  <1>1. /\ TypeOK /\ IsFiniteSet(backups) /\ now \in Nat
        /\ \A b \in backups : b.stamp \in Nat /\ b.n \in Nat
    BY DEF IInv, TypeOK, Backup
  <1>2. Files(S) /\ N.stamp = now /\ N.n \in Nat /\ N.data = db.data
    BY <1>1, NextBackupType, NextBackupFiles
  <1>3. N \in C
    BY <1>2
  <1> HIDE DEF N
  <1> SUFFICES ASSUME C \cap prune_backups(S) = {} PROVE FALSE
    BY PruneShrinks DEF N
  <1>4. Keep # 0 /\ \A c \in C : Cardinality(Later(c, S)) >= Keep
    <2> HIDE DEF S
    <2>1. C \in SUBSET S /\ C # {}
      BY <1>3
    <2> HIDE DEF C
    <2> QED
      BY <1>2, <2>1, PruneLosesOldest
  <1>5. Later(N, S) # {}
    <2> SUFFICES ASSUME Later(N, S) = {} PROVE FALSE
      OBVIOUS
    <2>1. Cardinality(Later(N, S)) >= Keep
      BY <1>3, <1>4
    <2>2. 0 >= Keep
      BY <2>1, FS_EmptySet, Zenon
    <2> QED
      BY <1>4, <2>2, KeepAssumption
  <1>6. PICK b \in S : Before(N, b)
    BY <1>5 DEF Later
  <1>7. b \in backups /\ b.stamp = now
    BY <1>1, <1>2, <1>6, BeforeIsOrder DEF Before, NamesInOrder
  <1>8. b = script.backup /\ b.n = 0
    BY <1>7 DEF NamesInOrder
  <1>9. Later(b, S) = {}
    BY <1>1, <1>2, <1>7, <1>8 DEF Later, Before, NamesInOrder
  <1>10. b \in C
    BY <1>6, <1>8
  <1>11. Cardinality(Later(b, S)) >= Keep
    BY <1>4, <1>10
  <1>12. 0 >= Keep
    BY <1>9, <1>11, FS_EmptySet, Zenon
  <1> QED
    BY <1>4, <1>12, KeepAssumption

\* So when the schema goes, what the backup to restore has is in a file: it was
\* there when it was validated, and cron adds the whole database to it.
LEMMA DroppedStaysCopied ==
    ASSUME CopiesInv, Next
    PROVE  DroppedCopied'
  <1>1. /\ IInv /\ TypeOK /\ RollsBackDown /\ MigratedOwnSchema /\ NamesInOrder
        /\ Entered /\ DroppedCopied
    BY DEF CopiesInv, IInv
  <1>2. Idle.pc = "idle" /\ Empty.data = {}
    BY DEF Idle, Empty
  <1> SUFFICES ASSUME script'.pc = "drop", NEW w \in db'.data \cap script'.backup.data
               PROVE  \E b \in backups' : w \in b.data
    BY DEF DroppedCopied, Copies
  <1>4. ASSUME NEW pc \in PC, Goto(pc) PROVE pc = "drop"
    BY <1>1, <1>4, GotoShape
  <1>5. CASE Validate
    BY <1>1, <1>5, GotoShape DEF Validate, PC, RollbackPC
  <1>6. CASE CronBackup
    <2>1. /\ UNCHANGED <<script, db>> /\ cron.at < now
          /\ backups' = prune_backups(backups \cup {NextBackup})
      BY <1>6 DEF CronBackup
    <2>2. \E b \in backups : w \in b.data
      BY <1>1, <2>1 DEF DroppedCopied, Copies
    <2> QED
      BY <1>1, <2>1, <2>2, BackupKeepsCopies
  <1>7. CASE Tick \/ Serve \/ Crash
    BY <1>1, <1>7 DEF Tick, Serve, Crash, DroppedCopied, Copies
  <1>8. CASE CreateDatabase
    <2>1. db'.data = {}
      BY <1>2, <1>8 DEF CreateDatabase
    <2> QED
      BY <2>1
  <1>9. CASE Migrate \/ (\E v \in Write : Enter(v))
    <2>1. /\ UNCHANGED <<script, backups>>
          /\ db'.data = db.data \/ \E v \in Write \ written : db'.data = db.data \cup {v}
      BY <1>1, <1>9 DEF Migrate, Enter, TypeOK
    <2>2. w \in db.data
      BY <1>1, <2>1 DEF Entered
    <2> QED
      BY <1>1, <2>1, <2>2 DEF DroppedCopied, Copies
  <1>10. CASE \E v \in Version : StartDeploy(v)
    BY <1>10 DEF StartDeploy
  <1>11. CASE BackUp
    BY <1>1, <1>2, <1>4, <1>11 DEF BackUp, TypeOK, PC, RollbackPC
  <1>12. CASE Build \/ Up \/ AwaitHealth \/ RollDown \/ DropSchema \/ CreateSchema \/ Load
              \/ RestoreFails \/ Retag \/ Restart \/ Kill
    BY <1>2, <1>4, <1>12
    DEF Build, Up, AwaitHealth, RollDown, AfterDown, DropSchema, CreateSchema, Load,
        RestoreFails, Retag, Restart, Kill, PC, RollbackPC
  <1> QED
    BY <1>5, <1>6, <1>7, <1>8, <1>9, <1>10, <1>11, <1>12 DEF Next, Command

\* The copies' invariant holds of every behaviour.
LEMMA CopiesInvariant == Spec => []CopiesInv
  <1>1. Init => CopiesInv
    <2> SUFFICES ASSUME Init PROVE CopiesInv
      OBVIOUS
    <2>1. NamesInOrder
      BY DEF Init, NamesInOrder, Idle
    <2>2. DroppedEmpty /\ Entered /\ DroppedCopied
      BY DEF Init, DroppedEmpty, Entered, DroppedCopied, Idle, Empty, NoBackup
    <2> QED
      BY <2>1, <2>2, InitInv DEF CopiesInv
  <1>2. CopiesInv /\ [Next]_vars => CopiesInv'
    <2> SUFFICES ASSUME CopiesInv, [Next]_vars PROVE CopiesInv'
      OBVIOUS
    <2>1. CASE Next
      BY <2>1, NextKeeps, NamesStayInOrder, DroppedStaysEmpty, EnteredStays,
         DroppedStaysCopied
      DEF CopiesInv
    <2>2. CASE UNCHANGED vars
      BY <2>2, NextKeeps DEF CopiesInv, vars, NamesInOrder, DroppedEmpty, Entered,
                            DroppedCopied, Copies
    <2> QED
      BY <2>1, <2>2
  <1> QED
    BY <1>1, <1>2, PTL DEF Spec

\* What a step of LossesNamed may do to one entry.
LossNamed(w) ==
    Kept(w) /\ ~Kept(w)' =>
        \/ script.pc = "drop" /\ w \notin script.backup.data
        \/ /\ w \notin db.data
           /\ Cardinality({b \in backups' : \A c \in Copies(w) : Before(c, b)}) >= Keep

\* Whoever adds a backup prunes an entry's last copy only if Keep files are
\* newer than all its copies.
LEMMA PruningNamesLosses ==
    ASSUME CopiesInv, UNCHANGED db,
           backups' = prune_backups(backups \cup {NextBackup}), NEW w \in Write
    PROVE  LossNamed(w)
  <1> DEFINE S == backups \cup {NextBackup}
             C == Copies(w)
  <1> SUFFICES ASSUME Kept(w), ~Kept(w)'
               PROVE  /\ w \notin db.data
                      /\ Cardinality({b \in backups' : \A c \in C : Before(c, b)}) >= Keep
    BY DEF LossNamed
  <1>1. Files(S)
    BY NextBackupFiles DEF CopiesInv
  <1>2. w \notin db.data /\ C # {} /\ C \in SUBSET S
    BY DEF Kept, Copies
  <1>3. C \cap prune_backups(S) = {}
    BY DEF Kept, Copies
  <1> HIDE DEF S, C
  <1>4. Cardinality({b \in prune_backups(S) : \A c \in C : Before(c, b)}) >= Keep
    BY <1>1, <1>2, <1>3, PruneLosesOldest
  <1> QED
    BY <1>2, <1>4 DEF S

\* Every step names the entries it loses.
LEMMA StepNamesLosses ==
    ASSUME CopiesInv, Next, NEW w \in Write
    PROVE  LossNamed(w)
  <1>1. /\ IInv /\ TypeOK /\ DroppedEmpty /\ DroppedCopied /\ Empty.data = {}
    BY DEF CopiesInv, IInv, Empty
  <1>2. CASE CronBackup
    BY <1>2, PruningNamesLosses DEF CronBackup
  <1>3. CASE TakesBackup
    BY <1>3, PruningNamesLosses DEF TakesBackup, BackUp
  <1>4. ASSUME backups' = backups, db.data \subseteq db'.data PROVE LossNamed(w)
    BY <1>4 DEF LossNamed, Kept, Copies
  <1>5. CASE Tick \/ Serve \/ Crash \/ (\E v \in Version : StartDeploy(v)) \/ Build
             \/ SkipsBackup \/ Up \/ AwaitHealth \/ RollDown \/ Validate \/ Retag
             \/ Restart \/ Kill
    BY <1>4, <1>5
    DEF Tick, Serve, Crash, StartDeploy, Build, SkipsBackup, BackUp, Up, AwaitHealth,
        RollDown, Validate, Retag, Restart, Kill
  <1>6. CASE Migrate \/ (\E v \in Write : Enter(v))
    BY <1>1, <1>4, <1>6 DEF Migrate, Enter, TypeOK
  <1>7. CASE CreateDatabase \/ CreateSchema
    BY <1>1, <1>4, <1>7 DEF CreateDatabase, CreateSchema, DroppedEmpty
  <1>8. CASE Load \/ RestoreFails
    <2>1. UNCHANGED backups
      BY <1>8 DEF Load, RestoreFails
    <2>2. db.data \subseteq db'.data
      BY <1>1, <1>8, LoadShape DEF RestoreFails
    <2> QED
      BY <1>4, <2>1, <2>2
  <1>9. CASE DropSchema
    <2>1. backups' = backups /\ script.pc = "drop"
      BY <1>9 DEF DropSchema
    <2> QED
      BY <1>1, <2>1 DEF LossNamed, Kept, Copies, DroppedCopied
  <1> QED
    BY <1>2, <1>3, <1>5, <1>6, <1>7, <1>8, <1>9, StepKinds DEF QuietStep

\* What a member entered leaves the database and its last backup in two ways
\* only: a rollback drops a database that has more than the backup it restores,
\* or pruning reaches its last copy with Keep newer backups (backup.py,
\* prune_backups, restore_backup).  For every Keep.
THEOREM LossesAreNamed == Spec => LossesNamed
  <1>1. CopiesInv /\ [Next]_vars =>
          [\A w \in Write : Kept(w) /\ ~Kept(w)' =>
              \/ script.pc = "drop" /\ w \notin script.backup.data
              \/ /\ w \notin db.data
                 /\ Cardinality({b \in backups' : \A c \in Copies(w) : Before(c, b)})
                      >= Keep]_vars
    BY StepNamesLosses DEF LossNamed
  <1> QED
    BY <1>1, CopiesInvariant, PTL DEF Spec, LossesNamed

-----------------------------------------------------------------------------
(* The image a rollback starts can boot.                                   *)

\* A file with at most one newer one is kept, unless a single file is.
LEMMA PruneKeepsSecond ==
    ASSUME NEW S, Files(S), NEW b \in S, Keep # 1,
           \A c, d \in S : Before(b, c) /\ Before(b, d) => c = d
    PROVE  b \in prune_backups(S)
  <1>1. IsFiniteSet(Later(b, S))
    BY FS_Subset DEF Later, Files
  <1>2. Cardinality(Later(b, S)) < 2
    <2>1. CASE Later(b, S) = {}
      <3>1. Cardinality(Later(b, S)) = 0
        BY <2>1, FS_EmptySet, Zenon
      <3> QED
        BY <3>1
    <2>2. CASE Later(b, S) # {}
      <3>1. PICK c : Later(b, S) = {c}
        BY <2>2 DEF Later
      <3>2. Cardinality({c}) = 1
        BY FS_Singleton, Zenon
      <3> QED
        BY <3>1, <3>2
    <2> QED
      BY <2>1, <2>2
  <1>3. Cardinality(Later(b, S)) \in Nat /\ Keep \in Nat
    BY <1>1, FS_CardinalityType, KeepAssumption
  <1> QED
    BY <1>2, <1>3 DEF prune_backups, Later

\* The backup of a deployment stays while it runs: cron adds at most one file
\* that is newer.
LEMMA BackupStaysThere ==
    ASSUME Keep # 1, CopiesInv, BackupStays, Next
    PROVE  BackupStays'
  <1> DEFINE N == NextBackup
             S == backups \cup {N}
             B == script.backup
  <1>1. /\ IInv /\ TypeOK /\ NamesInOrder /\ now \in Nat /\ cron.at \in Int
        /\ \A b \in backups : b.stamp \in Nat /\ b.n \in Nat
        /\ IsFiniteSet(backups) /\ Idle.backup = NoBackup
    BY DEF CopiesInv, IInv, TypeOK, Backup, Idle
  <1>2. /\ Files(S) /\ Files(backups) /\ N.stamp = now /\ N.n \in Nat
        /\ prune_backups(S) \subseteq S
    BY <1>1, NextBackupType, NextBackupFiles, PruneShrinks
  <1>3. CASE QuietStep
    BY <1>1, <1>3, QuietMoves DEF Moves, BackupStays
  <1>4. CASE Tick
    BY <1>4 DEF Tick, BackupStays
  <1>5. CASE \E v \in Version : StartDeploy(v)
    BY <1>5 DEF StartDeploy, BackupStays
  <1>6. CASE CronBackup
    <2>1. backups' = prune_backups(S) /\ UNCHANGED script
          /\ (cron'.now <=> script.pc # "idle")
      BY <1>6 DEF CronBackup
    <2> SUFFICES ASSUME B # NoBackup
                 PROVE  /\ B \in backups'
                        /\ \A b, c \in backups' : Before(B, b) /\ Before(B, c) => b = c
                        /\ cron'.now
      BY <2>1 DEF BackupStays
    <2>2. script.pc # "idle" /\ ~cron.now
      BY <1>1, <1>6 DEF NamesInOrder, CronBackup
    <2>3. B \in S /\ \A b \in backups : ~Before(B, b)
      BY <2>2 DEF BackupStays
    <2> HIDE DEF N
    <2>4. \A b, c \in S : Before(B, b) /\ Before(B, c) => b = c
      BY <2>3
    <2>5. B \in prune_backups(S)
      <3> HIDE DEF S, B
      <3> QED
        BY <1>2, <2>3, <2>4, PruneKeepsSecond
    <2> QED
      BY <1>2, <2>1, <2>2, <2>4, <2>5
  <1>7. CASE TakesBackup
    <2>1. /\ backups' = prune_backups(S) /\ script'.backup = N /\ UNCHANGED cron
          /\ script.pc = "backup"
      BY <1>1, <1>7 DEF TakesBackup, BackUp, TypeOK
    <2>2. \A b \in S : Before(N, b) => b \in backups /\ b.stamp = now
      <3> TAKE b \in S
      <3> HAVE Before(N, b)
      <3>1. b # N
        BY <1>2, BeforeIsOrder
      <3>2. b \in backups /\ b.stamp <= now
        BY <1>1, <3>1 DEF NamesInOrder
      <3> HIDE DEF N
      <3> QED
        BY <1>1, <1>2, <3>2 DEF Before
    <2>3. script.backup = NoBackup /\ NoBackup \notin backups
      BY <1>1, <2>1 DEF NamesInOrder, NoBackup
    <2>4. cron.at < now => \A b \in backups : b.stamp # now
      BY <1>1, <2>1, <2>3 DEF NamesInOrder
    <2>5. cron.at = now => cron.now /\ \A b \in backups : b.stamp = now => b.n = 0
      BY <1>1, <2>1 DEF NamesInOrder
    <2>6. cron.at < now \/ cron.at = now
      BY <1>1 DEF NamesInOrder
    <2>7. \A b, c \in S : Before(N, b) /\ Before(N, c) => b = c
      BY <1>1, <2>2, <2>4, <2>5, <2>6 DEF NamesInOrder
    <2>8. ~cron.now => \A b \in S : ~Before(N, b)
      BY <2>2, <2>4, <2>5, <2>6
    <2>9. N \in prune_backups(S)
      <3>1. N \in S
        OBVIOUS
      <3> HIDE DEF S, N
      <3> QED
        BY <1>2, <2>7, <3>1, PruneKeepsSecond
    <2> HIDE DEF N
    <2> QED
      BY <1>2, <2>1, <2>7, <2>8, <2>9 DEF BackupStays
  <1> QED
    BY <1>3, <1>4, <1>5, <1>6, <1>7, StepKinds

\* The script remembers an image that can boot on what it would restore.
LEMMA ImageStaysFit ==
    ASSUME CopiesInv, BackupStays, ImageFits, Next
    PROVE  ImageFits'
  <1>1. /\ TypeOK /\ RollsBackDown /\ MigratedOwnSchema /\ NamesInOrder /\ IsFiniteSet(backups)
    BY DEF CopiesInv, IInv
  <1>2. /\ Idle.pc = "idle" /\ Idle.prev = NoImage /\ Idle.backup = NoBackup
        /\ Down.image = NoImage /\ Down.state = "down"
        /\ Empty.state = "ready" /\ Empty.schema = 0
        /\ stack.image \in Nat /\ db.schema \in Nat
    <2>1. stack.image \in Image /\ db.schema \in Image
      BY <1>1 DEF TypeOK
    <2>2. Image \subseteq Nat
      BY VersionAssumption DEF Image, NoImage
    <2> QED
      BY <2>1, <2>2 DEF Idle, Down, Empty
  <1>3. incident = "none" =>
          /\ ~left
          /\ script.pc \in RollbackPC \ {"down"} => stack.state = "down" /\ stack.image = NoImage
    BY <1>1, <1>2 DEF RollsBackDown
  <1>4. ASSUME NEW pc \in PC, Goto(pc)
        PROVE  /\ script'.pc = pc /\ script'.prev = script.prev
               /\ script'.backup = script.backup
    BY <1>1, <1>4, GotoShape
  <1>5. CASE CronBackup \/ Tick \/ Serve \/ Crash
    BY <1>1, <1>5 DEF CronBackup, Tick, Serve, Crash, ImageFits, TypeOK
  <1>6. CASE CreateDatabase
    BY <1>2, <1>6 DEF CreateDatabase, ImageFits, NoImage
  <1>7. CASE Migrate \/ (\E w \in Write : Enter(w))
    <2>1. /\ stack'.image = stack.image /\ stack.state # "down"
          /\ db'.state = db.state
          /\ db'.schema = db.schema \/ (db'.schema = stack.image /\ db'.state = "ready")
          /\ UNCHANGED <<tag, script, incident>>
      BY <1>1, <1>7 DEF Migrate, Enter, TypeOK
    <2>2. incident = "none" => script.pc \notin {"retag", "restart"}
      BY <1>3, <2>1 DEF RollbackPC
    <2> QED
      BY <1>2, <2>1, <2>2 DEF ImageFits
  <1>8. CASE \E v \in Version : StartDeploy(v)
    BY <1>2, <1>8 DEF StartDeploy, ImageFits
  <1>9. CASE Build
    <2>1. UNCHANGED <<stack, db, incident>>
      BY <1>9 DEF Build
    <2>2. \/ script' = Idle
          \/ /\ script'.pc = "backup" /\ script'.prev = script.prev
             /\ script'.backup = script.backup
      BY <1>4, <1>9 DEF Build, PC
    <2> QED
      BY <1>2, <1>9, <2>1, <2>2 DEF Build, ImageFits
  <1>10. CASE BackUp
    <2>1. UNCHANGED <<tag, stack, db, incident>> /\ script.pc = "backup"
      BY <1>10 DEF BackUp
    <2>2. CASE TakesBackup
      <3>1. /\ script'.pc = "up" /\ script'.prev = script.prev
            /\ script'.backup = NextBackup
        BY <1>1, <2>2 DEF TakesBackup, TypeOK
      <3>2. NextBackup # NoBackup /\ NextBackup.schema = db.schema
        BY <1>1, NextBackupType DEF NoBackup, Backup
      <3> QED
        BY <2>1, <3>1, <3>2 DEF ImageFits
    <2>3. CASE SkipsBackup
      <3>1. CASE script' = Idle
        BY <1>2, <2>1, <3>1 DEF ImageFits
      <3>2. CASE Goto("up") /\ db.state = "absent"
        <4>1. script'.pc = "up" /\ script'.prev = script.prev
          BY <1>4, <3>2 DEF PC
        <4> QED
          BY <2>1, <3>2, <4>1 DEF ImageFits
      <3> QED
        BY <2>3, <3>1, <3>2 DEF SkipsBackup
    <2> QED
      BY <1>10, <2>2, <2>3 DEF BackUp, TakesBackup, SkipsBackup
  <1>11. CASE Up
    <2>1. /\ UNCHANGED <<tag, db, incident>> /\ script.pc = "up"
          /\ script'.pc \in {"wait", "down"} /\ script'.prev = script.prev
          /\ script'.backup = script.backup
      BY <1>4, <1>11 DEF Up, PC, RollbackPC
    <2> QED
      BY <2>1 DEF ImageFits
  <1>12. CASE AwaitHealth
    <2>1. UNCHANGED <<tag, stack, db>> /\ script.pc = "wait"
      BY <1>12 DEF AwaitHealth
    <2>2. CASE /\ stack.state = "serving" /\ script' = Idle
               /\ incident' = IF left THEN incident ELSE "none"
      BY <1>1, <1>2, <1>3, <2>1, <2>2 DEF ImageFits, MigratedOwnSchema
    <2>3. CASE Goto("down") /\ UNCHANGED incident
      <3>1. /\ script'.pc = "down" /\ script'.prev = script.prev
            /\ script'.backup = script.backup
        BY <1>4, <2>3 DEF PC, RollbackPC
      <3> QED
        BY <2>1, <2>3, <3>1 DEF ImageFits
    <2> QED
      BY <1>12, <2>2, <2>3 DEF AwaitHealth
  <1>13. CASE RollDown
    <2>1. /\ UNCHANGED <<tag, db>> /\ script.pc = "down"
          /\ UNCHANGED incident \/ incident' = "failed"
          /\ Goto(IF script.backup \in backups THEN "validate" ELSE "retag")
      BY <1>13 DEF RollDown, AfterDown
    <2>2. /\ script'.pc = IF script.backup \in backups THEN "validate" ELSE "retag"
          /\ script'.prev = script.prev /\ script'.backup = script.backup
      BY <1>4, <2>1 DEF PC, RollbackPC
    <2> QED
      BY <2>1, <2>2 DEF ImageFits, BackupStays
  <1>14. CASE Validate \/ DropSchema \/ CreateSchema
    <2>1. /\ UNCHANGED <<tag, stack, incident>>
          /\ script.pc \in {"validate", "drop", "create"}
          /\ script'.pc \in {"drop", "create", "load"}
          /\ script'.prev = script.prev /\ script'.backup = script.backup
      BY <1>4, <1>14 DEF Validate, DropSchema, CreateSchema, PC, RollbackPC
    <2> QED
      BY <2>1 DEF ImageFits
  <1>15. CASE Load
    <2>1. /\ UNCHANGED <<tag, stack, incident>> /\ script.pc = "load"
          /\ script'.pc = "retag"
          /\ script'.prev = script.prev /\ script'.backup = script.backup
      BY <1>4, <1>15 DEF Load, PC, RollbackPC
    <2>2. db.state = "ready"
      BY <2>1 DEF CopiesInv, DroppedEmpty
    <2>3. db'.state = "ready" /\ db'.schema = script.backup.schema
      BY <1>1, <1>15, <2>2, LoadShape
    <2> QED
      BY <2>1, <2>3 DEF ImageFits
  <1>16. CASE RestoreFails
    <2>1. incident' = "failed" /\ script'.pc = "retag"
      BY <1>4, <1>16 DEF RestoreFails, PC, RollbackPC
    <2> QED
      BY <2>1 DEF ImageFits
  <1>17. CASE Retag
    <2>1. UNCHANGED <<stack, db>> /\ script.pc = "retag"
      BY <1>17 DEF Retag
    <2>2. incident = "none" => stack.image = NoImage
      BY <1>3, <2>1 DEF RollbackPC
    <2>3. CASE /\ script.prev # NoImage /\ tag' = script.prev /\ Goto("restart")
               /\ UNCHANGED incident
      <3>1. /\ script'.pc = "restart" /\ script'.prev = script.prev
            /\ script'.backup = script.backup
        BY <1>4, <2>3 DEF PC, RollbackPC
      <3> QED
        BY <2>1, <2>3, <3>1 DEF ImageFits
    <2>4. CASE script' = Idle
      <3>1. incident' \in {incident, "failed", "untagged"}
        BY <1>17, <2>4 DEF Retag
      <3> QED
        BY <1>2, <2>1, <2>2, <2>4, <3>1 DEF ImageFits
    <2> QED
      BY <1>17, <2>3, <2>4 DEF Retag
  <1>18. CASE Restart
    <2>1. /\ script.pc = "restart" /\ script' = Idle /\ UNCHANGED <<tag, db>>
          /\ (stack' = ComposeUp /\ UNCHANGED incident) \/ incident' = "failed"
      BY <1>18 DEF Restart
    <2>2. ComposeUp.image = tag
      BY <1>1, ComposeUpShape
    <2> QED
      BY <1>2, <2>1, <2>2 DEF ImageFits
  <1>19. CASE Kill
    <2>1. /\ script' = Idle /\ UNCHANGED <<tag, stack, db>>
          /\ incident' = IF script.pc \in {"build", "backup", "up"} THEN incident
                         ELSE "failed"
      BY <1>19 DEF Kill
    <2> QED
      BY <1>2, <2>1 DEF ImageFits
  <1> QED
    BY <1>5, <1>6, <1>7, <1>8, <1>9, <1>10, <1>11, <1>12, <1>13, <1>14, <1>15, <1>16,
       <1>17, <1>18, <1>19 DEF Next, Command

\* An image only ever runs on a database it can use: who serves finds its own
\* schema, and what a rollback is about to start is the previous image, on a
\* database restored to what it can boot on (deploy.sh, rollback; backup.py,
\* restore_backup) - provided that not just one backup is kept, and but for a
\* container that `down` failed to remove, under which the restore takes place.
THEOREM AppsCanServe ==
    ASSUME Keep # 1
    PROVE  Spec => []AppCanServe
  <1>1. Init => BackupStays /\ ImageFits
    BY DEF Init, BackupStays, ImageFits, Idle, Down, NoImage
  <1>2. CopiesInv /\ BackupStays /\ ImageFits /\ [Next]_vars => (BackupStays /\ ImageFits)'
    <2> SUFFICES ASSUME CopiesInv, BackupStays, ImageFits, [Next]_vars
                 PROVE  (BackupStays /\ ImageFits)'
      OBVIOUS
    <2>1. CASE Next
      BY <2>1, BackupStaysThere, ImageStaysFit
    <2>2. CASE UNCHANGED vars
      BY <2>2 DEF vars, BackupStays, ImageFits
    <2> QED
      BY <2>1, <2>2
  <1>3. CopiesInv /\ BackupStays /\ ImageFits => AppCanServe
    BY DEF CopiesInv, IInv, MigratedOwnSchema, ImageFits, AppCanServe, ServesOwnSchema,
           RestartCanServe
  <1> QED
    BY <1>1, <1>2, <1>3, CopiesInvariant, PTL DEF Spec
=============================================================================
