-------------------------- MODULE SchemaMigration --------------------------
(***************************************************************************)
(* The Core's container: `db migrate && exec serve`, restarted whenever it *)
(* ends (docker-compose).  The migrator (dbschema/migrate.go) brings a     *)
(* database of any age up to date, may be killed between any two           *)
(* statements, and starts over.  Of the database only what an interrupted  *)
(* migration could spoil is kept.                                          *)
(***************************************************************************)
EXTENDS Naturals, Sequences, FiniteSets

CONSTANTS
  Driver,   \* the database drivers to be looked at
  OldId     \* ids of the device commands an old database may hold

ASSUME DriverAssumption == Driver \subseteq {"sqlite", "postgres"}
ASSUME OldIdAssumption == OldId \subseteq Nat \ {0} /\ IsFiniteSet(OldId)

VARIABLES
  driver,
  schema,    \* the database as it is committed
  image,     \* ... and as the open transaction sees it, if there is one
  migrator   \* the Core's process: where it is, and the column, file and statement it is at

coreVars == <<driver, schema, image, migrator>>

Files == <<"0001_init.sql", "0002_device_commands.sql", "0003_tenant_invitations.sql">>
\* Columns younger than the oldest tables, in the order they are added
Columns == <<"metrics.type", "tenant_id">>

All(seq) == {seq[i] : i \in DOMAIN seq}
First(set) == CHOOSE i \in set : \A j \in set : i <= j
Largest(set) == IF set = {} THEN 0 ELSE CHOOSE i \in set : \A j \in set : j <= i

\* The table whose creation stands for what a file creates
TableOf(f) ==
  CASE f = Files[1] -> "devices" [] f = Files[2] -> "device_commands" [] f = Files[3] -> "tenant_invitations"

-----------------------------------------------------------------------------
\* A new database, one older than the migrations, which has the tables without
\* the young columns, and one from before device_commands had a table of its own.
Database(recorded, tables, columns, old) ==
  [recorded |-> recorded, tables |-> tables, columns |-> columns, old |-> old,
   commands |-> {}, next |-> 1,
   born |-> old]   \* the ids it came with, for the properties

Databases ==
  {Database({}, {}, {}, {})}
  \cup {Database({}, {"devices"}, {}, ids) : ids \in SUBSET OldId}
  \cup {Database({Files[1]}, {"devices"}, All(Columns), ids) : ids \in SUBSET OldId}

Down == [at |-> "down", column |-> 1, file |-> 1, statement |-> 1]

CoreInit ==
  /\ driver \in Driver
  /\ schema \in Databases /\ image = schema
  /\ migrator = Down

At(pc) == migrator.at = pc

\* Ensure: read what has been applied; a database that has tables but no record
\* of a migration gets the young columns first.
StartMigrate ==
  /\ At("down")
  /\ migrator' = [Down EXCEPT
       !.at = IF schema.recorded = {} /\ schema.tables # {} THEN "columns" ELSE "files"]
  /\ UNCHANGED <<driver, schema, image>>

\* ALTER TABLE ... ADD COLUMN, outside any transaction.  A column that is already
\* there is no error: IF NOT EXISTS on PostgreSQL, and SQLite's error is recognized.
AddColumn ==
  /\ At("columns") \/ At("columnsAgain")
  /\ schema' = [schema EXCEPT !.columns = @ \cup {Columns[migrator.column]}]
  /\ image' = schema'
  /\ migrator' =
       IF migrator.column < Len(Columns) THEN [migrator EXCEPT !.column = @ + 1]
       ELSE [migrator EXCEPT !.column = 1, !.at = IF At("columns") THEN "files" ELSE "post"]
  /\ UNCHANGED driver

\* applyMigrationFile opens the transaction of the next file that is not
\* recorded; after the last one the columns are looked at once more.
BeginFile ==
  LET pending == {i \in DOMAIN Files : Files[i] \notin schema.recorded} IN
  /\ At("files")
  /\ migrator' =
       IF pending = {} THEN [migrator EXCEPT !.at = "columnsAgain"]
       ELSE [migrator EXCEPT !.at = "file", !.file = First(pending), !.statement = 1]
  /\ UNCHANGED <<driver, schema, image>>

\* What the statements of a file make of a database.  Those of 0001 need the young
\* columns for their indexes, and create them with a table that is not there;
\* 0002 moves the commands the Core kept among the external ones.  The id of the
\* next row is the largest so far plus one on SQLite; a PostgreSQL sequence
\* does not see the ids of the moved rows and is set at the end.
Statements(db) ==
  LET moved == [db EXCEPT !.commands = @ \cup db.old] IN
  CASE migrator.file = 1 ->
         <<[db EXCEPT !.tables = @ \cup {TableOf(Files[1])}, !.columns = All(Columns)]>>
    [] migrator.file = 2 ->
         <<[db EXCEPT !.tables = @ \cup {TableOf(Files[2])}],
           IF driver = "sqlite" THEN [moved EXCEPT !.next = Largest(moved.commands) + 1] ELSE moved,
           [db EXCEPT !.old = {}]>>
         \o (IF driver = "postgres" THEN <<[db EXCEPT !.next = Largest(db.commands) + 1]>> ELSE <<>>)
    [] migrator.file = 3 -> <<[db EXCEPT !.tables = @ \cup {TableOf(Files[3])}]>>

StatementFails(db) ==
  migrator.file = 1 /\ TableOf(Files[1]) \in db.tables /\ db.columns # All(Columns)

\* Faulty variant: the statements of a file run outside a transaction.
BugAutocommit ==
  /\ At("file") /\ migrator.statement \in DOMAIN Statements(image)
  /\ ~StatementFails(image)
  /\ image' = Statements(image)[migrator.statement]
  /\ schema' = image'
  /\ migrator' = [migrator EXCEPT !.statement = @ + 1]
  /\ UNCHANGED driver

\* tx.Exec: nobody else sees what a statement did.  One that fails ends the
\* process, and the next process comes to it again: the migration stays here.
RunStatement ==
  /\ At("file") /\ migrator.statement \in DOMAIN Statements(image)
  /\ ~StatementFails(image)
  /\ image' = Statements(image)[migrator.statement]
  /\ migrator' = [migrator EXCEPT !.statement = @ + 1]
  /\ UNCHANGED <<driver, schema>>

\* The version is recorded in the same transaction.
CommitFile ==
  /\ At("file") /\ migrator.statement > Len(Statements(image))
  /\ schema' = [image EXCEPT !.recorded = @ \cup {Files[migrator.file]}]
  /\ image' = schema'
  /\ migrator' = [migrator EXCEPT !.at = "files"]
  /\ UNCHANGED driver

\* applyCompatPost (indexes, the default tenant and what it has to do with roles
\* is part of Accounts); then serve opens its stores without migrating, which
\* needs the tables of 0001, and listens.
StartServing ==
  /\ At("post") /\ TableOf(Files[1]) \in schema.tables
  /\ migrator' = [Down EXCEPT !.at = "serving"]
  /\ UNCHANGED <<driver, schema, image>>

\* The process ends between two statements: its transaction is rolled back.
Killed ==
  /\ ~At("down")
  /\ migrator' = Down
  /\ image' = schema
  /\ UNCHANGED <<driver, schema>>

Migrate == StartMigrate \/ AddColumn \/ BeginFile \/ RunStatement \/ CommitFile \/ StartServing

Serving == At("serving")
=============================================================================
