----------------------------- MODULE Migrations -----------------------------
(* The database schema over the life of a deployment: the four migrations of
   src/migrations as statements, the init container that runs the pending
   ones before a pod serves (k8s deployment.yaml), rollouts of newer and of
   older images beside a pod that still serves, and what the entities of a
   serving image need of the table they write.

   Postgres runs DDL in transactions and an ALTER TABLE locks its table, so
   one run of TypeORM's pending migrations is one step. What a run reads of
   the applied migrations it reads before that transaction, in a step of its
   own. A generated column's default is uuid_generate_v4(), which Postgres
   has only once somebody created the extension uuid-ossp in the database:
   not the init container, but a job of the pipeline started by hand.       *)
EXTENDS InOrder, SequencesExt

CONSTANTS
  Environment,          \* where it is deployed: "production" or "development"
  Images,               \* the images rolled out: how many migrations each has
  Keys, Urls, Devices,  \* account keys, backend urls, device ids
  MaxRollouts,          \* bound: rollouts of the deployment
  MaxInserts,           \* bound: registrations
  MaxKills,             \* bound: pods that restart
  MaxReverts            \* bound: migration:revert by an operator

ASSUME EnvironmentAssumption == Environment \in {"production", "development"}

ASSUME BoundsAssumption ==
  {MaxRollouts, MaxInserts, MaxKills, MaxReverts} \subseteq Nat

VARIABLES
  provisioned, \* whether the job that provisions the database was run
  db,        \* [tables, rows, ok]: the schema, the rows of account, and
             \* whether the statements so far were all accepted
  applied,   \* custom_migration_table: the migrations run, in order
  image,     \* rollout -> the number of migrations its image carries
  phase,     \* rollout -> where its pod is
  read,      \* rollout -> the applied migrations its init container read
  rollouts,  \* the rollouts so far
  inserts, kills, reverts

bounds == <<inserts, kills, reverts>>
pods == <<image, phase, read, rollouts>>
vars == <<provisioned, db, applied, pods, bounds>>

-----------------------------------------------------------------------------
(* Statements. A column is its type and the default it is given.            *)

Column(type, default) == [type |-> type, default |-> default]
Text == Column("varchar", "none")
GeneratedId == Column("uuid", "generated")
Now == Column("timestamp", "now")
Flag == Column("boolean", "none")

\* A function with a value more, and with one less.
With(f, x, v) == [y \in DOMAIN f \union {x} |-> IF y \in DOMAIN f THEN f[y] ELSE v]
Without(f, x) == Restrict(f, DOMAIN f \ {x})

\* The columns of a table: every table has the time its rows were created.
Columns(generated, texts) ==
  [c \in generated \union texts \union {"created_at"} |->
     IF c \in generated THEN GeneratedId
     ELSE IF c = "created_at" THEN Now ELSE Text]
NoConstraints == [u \in {} |-> {}]

CreateTable(table, columns, uniques) ==
  [kind |-> "create table", table |-> table,
   columns |-> columns, uniques |-> uniques]
DropTable(table) == [kind |-> "drop table", table |-> table]

\* ALTER TABLE "account" ...
AddColumn(name, column) ==
  [kind |-> "add column", name |-> name, column |-> column]
DropColumn(name) == [kind |-> "drop column", name |-> name]
AddUnique(name, columns) ==
  [kind |-> "add unique", name |-> name, columns |-> columns]
DropUnique(name) == [kind |-> "drop unique", name |-> name]

Unique(rows, columns) ==
  \A r, s \in rows : (\A c \in columns : r[c] = s[c]) => r = s

\* What Postgres asks of a statement: names that are free or taken, a default
\* for a new column when there are rows, rows that satisfy a new constraint.
\* The function that a default calls it asks for as well: see Callable.
Admissible(d, st) ==
  LET account == d.tables["account"]
  IN CASE st.kind = "create table" -> st.table \notin DOMAIN d.tables
       [] st.kind = "drop table" -> st.table \in DOMAIN d.tables
       [] OTHER ->
            /\ "account" \in DOMAIN d.tables
            /\ CASE st.kind = "add column" ->
                      /\ st.name \notin DOMAIN account.columns
                      /\ st.column.default = "none" => d.rows = {}
                 [] st.kind = "drop column" ->
                      st.name \in DOMAIN account.columns
                 [] st.kind = "add unique" ->
                      /\ st.name \notin DOMAIN account.uniques
                      /\ st.columns \subseteq DOMAIN account.columns
                      /\ Unique(d.rows, st.columns)
                 [] OTHER -> st.name \in DOMAIN account.uniques

\* The value a row that exists gets in a new column.
Backfill(row, column) ==
  IF column.default = "generated" THEN <<"generated", row["id"][2]>>
  ELSE column.default

\* What an accepted statement does. Dropping a column drops the constraints
\* that name it.
Effect(d, st) ==
  LET account == d.tables["account"]
      Altered(columns, uniques, rows) ==
        [tables |-> [d.tables EXCEPT !["account"] =
                       [columns |-> columns, uniques |-> uniques]],
         rows |-> rows, ok |-> TRUE]
  IN CASE st.kind = "create table" ->
            [tables |-> With(d.tables, st.table,
                          [columns |-> st.columns, uniques |-> st.uniques]),
             rows |-> d.rows, ok |-> TRUE]
       [] st.kind = "drop table" ->
            [tables |-> Without(d.tables, st.table),
             rows |-> IF st.table = "account" THEN {} ELSE d.rows, ok |-> TRUE]
       [] st.kind = "add column" ->
            Altered(With(account.columns, st.name, st.column), account.uniques,
                    {With(r, st.name, Backfill(r, st.column)) : r \in d.rows})
       [] st.kind = "drop column" ->
            Altered(Without(account.columns, st.name),
                    Restrict(account.uniques,
                      {u \in DOMAIN account.uniques :
                         st.name \notin account.uniques[u]}),
                    {Without(r, st.name) : r \in d.rows})
       [] st.kind = "add unique" ->
            Altered(account.columns, With(account.uniques, st.name, st.columns),
                    d.rows)
       [] OTHER ->
            Altered(account.columns, Without(account.uniques, st.name), d.rows)

Execute(d, st) ==
  IF d.ok /\ Admissible(d, st) THEN Effect(d, st)
  ELSE [tables |-> d.tables, rows |-> d.rows, ok |-> FALSE]

\* The statements of a migration, one after another.
Run(d, statements) ==
  LET after[n \in 0 .. Len(statements)] ==
        IF n = 0 THEN d ELSE Execute(after[n - 1], statements[n])
  IN after[Len(statements)]

-----------------------------------------------------------------------------
(* The migrations.                                                          *)

\* Names the constraints have in the migrations.
AccessTokenUnique == "UQ_00f68a29f4383ddb928f8f36d66"
ManagementTokenUnique == "UQ_dfc943a13fbba84503660730bb6"
BackendUnique == "pubkey-backend"
DeviceUnique == "UQ_1aae194bd20bfc9e9615504f05c"

InitialUniques ==
  [u \in {AccessTokenUnique, ManagementTokenUnique, BackendUnique} |->
     CASE u = AccessTokenUnique -> {"accessToken"}
       [] u = ManagementTokenUnique -> {"managementToken"}
       [] OTHER -> {"accountPublicKey", "backendUrl"}]

InitialMigrationUp ==
  << CreateTable("account",
       Columns({"id"},
               {"name", "challenge", "address", "accountPublicKey",
                "backendUrl", "signature", "accessToken", "managementToken"}),
       InitialUniques),
     CreateTable("challenge", Columns({"id"}, {}), NoConstraints),
     CreateTable("notification_entity",
       With(Columns({"id"}, {"accountId", "recipient", "title", "body",
                             "payload", "senderPublicKey"}),
            "usingAccessToken", Flag),
       NoConstraints),
     CreateTable("whitelist_entity",
       With(Columns({"id"}, {"publicKey"}), "isActive", Flag),
       NoConstraints) >>

InitialMigrationDown ==
  << DropTable("whitelist_entity"), DropTable("notification_entity"),
     DropTable("challenge"), DropTable("account") >>

ProtocolIdentifierUp ==
  << AddColumn("protocolIdentifier", Column("varchar", "xtz")) >>

ProtocolIdentifierDown == << DropColumn("protocolIdentifier") >>

\* Replaces a token's column by one of another kind.
Retype(token, unique, column) ==
  << DropUnique(unique), DropColumn(token), AddColumn(token, column),
     AddUnique(unique, {token}) >>

\* A removePublic that gives the new column a default, and so passes with rows.
RemovePublicWithRows ==
  << AddColumn("deviceId", Column("varchar", "")) >>
  \o Retype("accessToken", AccessTokenUnique, GeneratedId)
  \o Retype("managementToken", ManagementTokenUnique, GeneratedId)
  \o << AddUnique(DeviceUnique, {"deviceId", "address"}) >>

\* A removePublic that drops a column, and its constraint, for good.
RemovePublicUnconstrained ==
  << AddColumn("deviceId", Text) >>
  \o Retype("accessToken", AccessTokenUnique, GeneratedId)
  \o << DropColumn("managementToken"),
        AddColumn("managementToken", GeneratedId),
        AddUnique(DeviceUnique, {"deviceId", "address"}) >>

RemovePublicUp ==
  << AddColumn("deviceId", Text) >>
  \o Retype("accessToken", AccessTokenUnique, GeneratedId)
  \o Retype("managementToken", ManagementTokenUnique, GeneratedId)
  \o << AddUnique(DeviceUnique, {"deviceId", "address"}) >>

\* A down that forgets the column its up added.
RemovePublicDownKeepsDevice ==
  << DropUnique(DeviceUnique) >>
  \o Retype("managementToken", ManagementTokenUnique, Text)
  \o Retype("accessToken", AccessTokenUnique, Text)

RemovePublicDown ==
  << DropUnique(DeviceUnique) >>
  \o Retype("managementToken", ManagementTokenUnique, Text)
  \o Retype("accessToken", AccessTokenUnique, Text)
  \o << DropColumn("deviceId") >>

\* An adjustAccount that takes the other constraint of two columns.
AdjustsTheWrongConstraint == << DropUnique(BackendUnique) >>

AdjustAccountUp == << DropUnique(DeviceUnique) >>

AdjustAccountDown == << AddUnique(DeviceUnique, {"address", "deviceId"}) >>

Up == << InitialMigrationUp, ProtocolIdentifierUp,
         RemovePublicUp, AdjustAccountUp >>
Down == << InitialMigrationDown, ProtocolIdentifierDown,
           RemovePublicDown, AdjustAccountDown >>

Migration == 1 .. Len(Up)

ASSUME ImagesAssumption == Images \subseteq Migration

\* Runs the first i migrations, but for those executed before.
Upgrade(d, i, executed) ==
  LET after[n \in 0 .. i] ==
        IF n = 0 THEN d
        ELSE IF n \in executed THEN after[n - 1] ELSE Run(after[n - 1], Up[n])
  IN after[i]

\* The schema the first migrations make of an empty database.
EmptyDatabase == [tables |-> [t \in {} |-> {}], rows |-> {}, ok |-> TRUE]
SchemaAfter ==
  [i \in 0 .. Len(Up) |-> Upgrade(EmptyDatabase, i, {}).tables]

\* Statements with a column whose default calls uuid_generate_v4().
Generates(st) ==
  CASE st.kind = "create table" ->
         GeneratedId \in {st.columns[c] : c \in DOMAIN st.columns}
    [] st.kind = "add column" -> st.column = GeneratedId
    [] OTHER -> FALSE

\* The job creates uuid-ossp in the service's database, as the master user.
\* That of development asks for "uuid_ossp", which is no extension, in the
\* database postgres, and ignores the error. The connection of a migration run
\* creates pgcrypto alone (ormconfig.js), and that of the backend, which
\* creates uuid-ossp, opens when the init container is done.
HasExtension == provisioned /\ Environment = "production"

\* Whether the functions are there that the migrations to run call.
Callable(i, executed) ==
  (\E n \in (1 .. i) \ executed : \E st \in Range(Up[n]) : Generates(st))
  => HasExtension

-----------------------------------------------------------------------------
(* The entities of the image built from this source. That of an older image,
   which is not in it, is what the migrations that image carries make.      *)

AccountEntity ==
  [columns |->
     With(Columns({"id", "accessToken", "managementToken"},
                  {"name", "challenge", "address", "accountPublicKey",
                   "backendUrl", "signature", "deviceId"}),
          "protocolIdentifier", Column("varchar", "xtz")),
   uniques |-> {{"accountPublicKey", "backendUrl"}, {"accessToken"},
                {"managementToken"}}]
ChallengeEntity == [columns |-> Columns({"id"}, {}), uniques |-> {}]
NotificationEntity ==
  [columns |->
     With(Columns({"id"}, {"accountId", "recipient", "title", "body",
                           "payload", "senderPublicKey"}),
          "usingAccessToken", Flag),
   uniques |-> {}]
WhitelistEntity ==
  [columns |-> With(Columns({"id"}, {"publicKey"}), "isActive", Flag),
   uniques |-> {}]

Entities ==
  [account |-> AccountEntity, challenge |-> ChallengeEntity,
   notification_entity |-> NotificationEntity,
   whitelist_entity |-> WhitelistEntity]

\* The columns of account that the entity of an image maps.
MappedColumns ==
  [i \in Migration |->
     IF i = Len(Up) THEN DOMAIN AccountEntity.columns
     ELSE DOMAIN SchemaAfter[i]["account"].columns]

\* A row an image inserts: the columns it maps, n for every value that is
\* this row's own. A generated token is as fresh as one the image made.
NewRow(i, key, url, device, n) ==
  [c \in MappedColumns[i] |->
     CASE c = "accountPublicKey" -> key
       [] c = "address" -> key
       [] c = "backendUrl" -> url
       [] c = "deviceId" -> device
       [] c = "protocolIdentifier" -> "xtz"
       [] OTHER -> <<"given", n>>]

Accepted(d, row) ==
  /\ "account" \in DOMAIN d.tables
  /\ LET account == d.tables["account"]
     IN /\ DOMAIN row \subseteq DOMAIN account.columns
        /\ \A c \in DOMAIN account.columns \ DOMAIN row :
             account.columns[c].default # "none"
        /\ \A u \in DOMAIN account.uniques :
             \A r \in d.rows :
               \E c \in account.uniques[u] : c \in DOMAIN row => r[c] # row[c]

\* The row with the defaults of the columns it leaves out.
Completed(d, row) ==
  LET columns == d.tables["account"].columns
  IN [c \in DOMAIN columns |->
        IF c \in DOMAIN row THEN row[c] ELSE Backfill(row, columns[c])]

-----------------------------------------------------------------------------
Rollouts == 1 .. MaxRollouts
Phases == {"none", "init", "read", "migrated", "serving", "gone"}
Live(k) == phase[k] \notin {"none", "gone"}
Serving(k) == phase[k] = "serving"

Init ==
  /\ provisioned = FALSE
  /\ db = EmptyDatabase
  /\ applied = <<>>
  /\ image = [k \in Rollouts |-> 0]
  /\ phase = [k \in Rollouts |-> "none"]
  /\ read = [k \in Rollouts |-> {}]
  /\ rollouts = 0
  /\ inserts = 0 /\ kills = 0 /\ reverts = 0

\* Somebody starts the job that provisions the database.
Provision ==
  /\ ~provisioned
  /\ provisioned' = TRUE
  /\ UNCHANGED <<db, applied, pods, bounds>>

\* An image is rolled out, newer or older than the one before: its pod is
\* created beside the one that serves.
Rollout(i) ==
  /\ rollouts < MaxRollouts
  /\ rollouts' = rollouts + 1
  /\ image' = [image EXCEPT ![rollouts + 1] = i]
  /\ phase' = [phase EXCEPT ![rollouts + 1] = "init"]
  /\ UNCHANGED <<provisioned, db, applied, read, bounds>>

\* The init container: migration:run reads which migrations were executed.
ReadApplied(k) ==
  /\ phase[k] = "init"
  /\ phase' = [phase EXCEPT ![k] = "read"]
  /\ read' = [read EXCEPT ![k] = Range(applied)]
  /\ UNCHANGED <<provisioned, db, applied, image, rollouts, bounds>>

\* The migrations of an image that were not among the executed ones.
Pending(i, executed) ==
  InOrder({n \in 1 .. i : n \notin executed})

\* migration:run without a transaction: what ran before a refusal stays.
RunsUnprotected(k) ==
  /\ phase[k] = "read" /\ Callable(image[k], read[k])
  /\ db' = Upgrade(db, image[k], read[k])
  /\ applied' = IF db'.ok THEN applied \o Pending(image[k], read[k])
                ELSE applied
  /\ phase' = [phase EXCEPT ![k] = IF db'.ok THEN "migrated" ELSE "init"]
  /\ read' = [read EXCEPT ![k] = {}]
  /\ UNCHANGED <<provisioned, image, rollouts, bounds>>

\* ... and runs the pending ones, in one transaction: one statement that is
\* refused undoes them all, the container fails, and is started again.
RunMigrations(k) ==
  /\ phase[k] = "read"
  /\ LET after == Upgrade(db, image[k], read[k])
     IN \/ /\ after.ok /\ Callable(image[k], read[k])
           /\ db' = after
           /\ applied' = applied \o Pending(image[k], read[k])
           /\ phase' = [phase EXCEPT ![k] = "migrated"]
        \/ /\ ~after.ok \/ ~Callable(image[k], read[k])
           /\ UNCHANGED <<db, applied>>
           /\ phase' = [phase EXCEPT ![k] = "init"]
  /\ read' = [read EXCEPT ![k] = {}]
  /\ UNCHANGED <<provisioned, image, rollouts, bounds>>

\* The init container is done: the backend starts, and its probe succeeds.
Start(k) ==
  /\ phase[k] = "migrated"
  /\ phase' = [phase EXCEPT ![k] = "serving"]
  /\ UNCHANGED <<provisioned, db, applied, image, read, rollouts, bounds>>

\* A pod of a superseded rollout is ended: one that serves only when another
\* serves (maxUnavailable: 0).
Stop(k) ==
  /\ Live(k) /\ k < rollouts
  /\ Serving(k) => \E j \in Rollouts \ {k} : Serving(j)
  /\ phase' = [phase EXCEPT ![k] = "gone"]
  /\ read' = [read EXCEPT ![k] = {}]
  /\ UNCHANGED <<provisioned, db, applied, image, rollouts, bounds>>

\* A pod is lost and created again: its init container runs once more.
Kill(k) ==
  /\ Live(k) /\ kills < MaxKills
  /\ kills' = kills + 1
  /\ phase' = [phase EXCEPT ![k] = "init"]
  /\ read' = [read EXCEPT ![k] = {}]
  /\ UNCHANGED <<provisioned, db, applied, image, rollouts, inserts, reverts>>

\* An operator runs migration:revert: the last executed migration is undone,
\* when no pod is left of an image that carries it.
Revert ==
  /\ applied # <<>> /\ reverts < MaxReverts
  /\ \A k \in Rollouts : Live(k) => image[k] < Last(applied)
  /\ reverts' = reverts + 1
  /\ LET after == Run(db, Down[Last(applied)])
     IN IF after.ok
        THEN db' = after /\ applied' = Front(applied)
        ELSE UNCHANGED <<db, applied>>
  /\ UNCHANGED <<provisioned, pods, inserts, kills>>

\* The database with other rows.
Holding(d, rows) == [tables |-> d.tables, rows |-> rows, ok |-> d.ok]

\* A serving pod stores a registration, or the database refuses it.
Insert(k, key, url, device) ==
  /\ Serving(k) /\ inserts < MaxInserts
  /\ LET row == NewRow(image[k], key, url, device, inserts)
     IN /\ Accepted(db, row)
        /\ db' = Holding(db, db.rows \union {Completed(db, row)})
  /\ inserts' = inserts + 1
  /\ UNCHANGED <<provisioned, applied, pods, kills, reverts>>

\* A serving pod revokes a registration.
Delete(k, row) ==
  /\ Serving(k)
  /\ db' = Holding(db, db.rows \ {row})
  /\ UNCHANGED <<provisioned, applied, pods, bounds>>

Next ==
  \/ Provision
  \/ \E i \in Images : Rollout(i)
  \/ \E k \in Rollouts :
       \/ ReadApplied(k)
       \/ RunMigrations(k)
       \/ Start(k)
       \/ Stop(k)
       \/ Kill(k)
       \/ \E key \in Keys, url \in Urls, device \in Devices :
            Insert(k, key, url, device)
       \/ \E row \in db.rows : Delete(k, row)
  \/ Revert

Spec == Init /\ [][Next]_vars

\* The kubelet starts the containers of a pod, in their order, and starts one
\* again that failed: ReadApplied, RunMigrations or Start, whichever is next.
Advance(k) ==
  /\ phase[k] \in {"init", "read", "migrated"}
  /\ \E p \in {"init", "read", "migrated", "serving"} \ {phase[k]} :
       phase' = [phase EXCEPT ![k] = p]

FairSpec == Spec /\ \A k \in Rollouts : WF_phase(Advance(k))

-----------------------------------------------------------------------------
(* Properties.                                                              *)

\* Types, and every row has a value in every column of its table: whatever
\* statements ran while there were rows.
TypeOK ==
  /\ provisioned \in BOOLEAN
  /\ db.ok
  /\ applied \in Seq(Migration)
  /\ image \in [Rollouts -> 0 .. Len(Up)]
  /\ phase \in [Rollouts -> Phases]
  /\ read \in [Rollouts -> SUBSET Migration]
  /\ db.rows # {} => "account" \in DOMAIN db.tables
  /\ \A r \in db.rows : DOMAIN r = DOMAIN db.tables["account"].columns

\* custom_migration_table says what the schema is: every migration is in it
\* once, in order, and the tables are those its migrations make, although
\* init containers decide from what they read before another one's run, and
\* reverts undo what ups did (src/migrations, deployment.yaml).
SchemaOfApplied ==
  /\ applied = [n \in 1 .. Len(applied) |-> n]
  /\ db.tables = SchemaAfter[Len(applied)]

\* A pod that serves finds the columns its entity maps, and the tables the
\* migrations of this source make are the ones its entities describe: the
\* tests cannot see a difference, they run with synchronize: true
\* (app.module.ts, account.entity.ts and its siblings).
EntityFits ==
  \A k \in Rollouts : Serving(k) =>
    /\ MappedColumns[image[k]] \subseteq DOMAIN db.tables["account"].columns
    /\ image[k] = Len(Up) =>
         [t \in DOMAIN db.tables |->
            [columns |-> db.tables[t].columns,
             uniques |-> Range(db.tables[t].uniques)]] = Entities

\* A pod of this source is refused a registration only for one of the same
\* key at the same backend: no constraint of an older schema is left that
\* refuses a wallet its second backend, or leaves a column without a value
\* (account.entity.ts:11, 1663053436041-adjustAccount.ts).
RefusedOnlyForPeer ==
  \A k \in Rollouts, key \in Keys, url \in Urls, device \in Devices :
    Serving(k) /\ image[k] = Len(Up)
    /\ ~Accepted(db, NewRow(image[k], key, url, device, MaxInserts))
    => \E r \in db.rows : r["accountPublicKey"] = key /\ r["backendUrl"] = url

\* A run of migrations, with whatever rows the pod that still serves has
\* stored, ends with the same registrations, and every value a wallet or a
\* dApp was given: an access token, a management token, an id.
UpgradeKeepsRegistrations ==
  [][ (\E k \in Rollouts : RunMigrations(k)) =>
        /\ Cardinality(db'.rows) = Cardinality(db.rows)
        /\ \A r \in db.rows : \E s \in db'.rows :
             \A c \in DOMAIN r : c \in DOMAIN s /\ s[c] = r[c] ]_vars

\* Once the database is provisioned, whatever was rolled out last serves in
\* the end, or rows keep its migrations from being run: a run refused because
\* of what another pod's run or a revert changed after it read, or before the
\* extension was there, is done again, and a schema that was migrated down can
\* be migrated up again (deployment.yaml, the down of every migration,
\* .gitlab-ci.yml).
RolloutServes ==
  provisioned /\ rollouts > 0
  ~> \/ \E k \in Rollouts : k = rollouts /\ Serving(k)
     \/ db.rows # {}
=============================================================================
