------------------------------ MODULE Catalog ------------------------------
(***************************************************************************)
(* The catalog of one FerretDB database on PostgreSQL (package pgdb and    *)
(* the handlers that call it).  A database is a schema; a collection is a  *)
(* table, found through the one-row table _ferretdb_settings, whose        *)
(* document records the collections.  formatCollectionName makes the table *)
(* name a function of the collection name, so a recorded collection and    *)
(* its table are both named by the collection.                             *)
(*                                                                         *)
(* One action is one SQL statement together with the Go code that follows  *)
(* it up to the next statement.  A statement of a command that runs in     *)
(* InTransaction adds to the command's pending change; a statement run on  *)
(* the pool is committed at once.  PostgreSQL (READ COMMITTED) is          *)
(* external: a statement sees what is committed and what its own           *)
(* transaction did, CREATE waits for an uncommitted creator of the same    *)
(* name, UPDATE waits for the row lock, DROP waits for every transaction   *)
(* that touched the table.                                                 *)
(***************************************************************************)
EXTENDS Naturals, Sequences, FiniteSets

CONSTANTS Clients,  \* connections issuing commands
          Colls,    \* collection names
          Ops,      \* the commands the clients issue
          Overlap,  \* sets of commands that may run at the same time
          Spread,   \* whether commands on different collections may overlap
          MaxDocs,  \* writes are issued while fewer documents than this are stored
          Faults    \* commands whose statements may fail for reasons of their own

AllOps == {"create", "insert", "find", "list", "update", "drop", "dropDatabase"}

\* What a client runs: an update goes on to "set" after it created the collection.
Running == AllOps \cup {"set"}

ASSUME CatalogAssumption ==
  /\ Ops \subseteq AllOps
  /\ Overlap \subseteq SUBSET Running
  /\ Spread \in BOOLEAN
  /\ MaxDocs \in Nat
  /\ Faults \subseteq AllOps

VARIABLES
  db,     \* what is committed: schema, settings table, its rows, tables, documents
  pend,   \* pend[c]: what c's open transaction has done and not committed
  sess,   \* sess[c]: the command c runs, its position and its local variables
  acked   \* history: documents whose insert was answered with ok

vars == <<db, pend, sess, acked>>

-----------------------------------------------------------------------------
(* The database and changes to it.                                         *)

EmptyDB ==
  [schema |-> FALSE, settings |-> FALSE, rows |-> <<>>, tables |-> {}, docs |-> {}]

\* A change: n rows of the settings table set to doc, and what is created.
NoChange ==
  [schema |-> FALSE, settings |-> FALSE, row |-> FALSE, n |-> 0, doc |-> {},
   tables |-> {}, docs |-> {}]

\* The rows after a change: the inserted empty document, then the UPDATE.
ApplyRows(rows, p) ==
  LET all == IF p.row THEN Append(rows, {}) ELSE rows
  IN  [i \in 1..Len(all) |-> IF i <= p.n THEN p.doc ELSE all[i]]

Apply(d, p) ==
  [schema   |-> d.schema \/ p.schema,
   settings |-> d.settings \/ p.settings,
   rows     |-> ApplyRows(d.rows, p),
   tables   |-> d.tables \cup p.tables,
   docs     |-> d.docs \cup p.docs]

\* Change p followed by change q.
Merge(p, q) ==
  [schema   |-> p.schema \/ q.schema,
   settings |-> p.settings \/ q.settings,
   row      |-> p.row \/ q.row,
   n        |-> IF q.n > 0 THEN q.n ELSE p.n,
   doc      |-> IF q.n > 0 THEN q.doc ELSE p.doc,
   tables   |-> p.tables \cup q.tables,
   docs     |-> p.docs \cup q.docs]

\* Faulty variants: MsgCreate, or the insert, runs on the pool.
FaultyCreateInTx(o) == o \in {"insert", "find", "updateFind", "set"}
FaultyInsertInTx(o) == o \in {"create", "find", "updateFind", "set"}

\* Commands, or phases of a command, that run in InTransaction.
InTx(o) == o \in {"create", "insert", "find", "updateFind", "set"}

\* What a statement of client c sees.
View(c) == Apply(db, pend[c])

\* A statement of c makes change p.
Exec(c, p) ==
  IF InTx(sess[c].op)
  THEN pend' = [pend EXCEPT ![c] = Merge(@, p)] /\ UNCHANGED db
  ELSE db' = Apply(db, p) /\ UNCHANGED pend

-----------------------------------------------------------------------------
(* Control of a command.                                                   *)

Idle == [op |-> "none", coll |-> "none", pc |-> "idle", ret |-> "coll",
         seen |-> {}, found |-> FALSE, settingsLock |-> FALSE, tableLocks |-> {},
         reply |-> "none"]

Goto(c, label) == sess' = [sess EXCEPT ![c].pc = label]

\* Faulty variant: the transaction is neither committed nor rolled back.
FaultyFinish(c, reply) ==
  /\ sess' = [sess EXCEPT ![c] = [Idle EXCEPT !.reply = reply,
                                              !.settingsLock = sess[c].settingsLock,
                                              !.tableLocks = sess[c].tableLocks]]
  /\ UNCHANGED pend

\* The command returns: an open transaction is gone, its locks are released.
Finish(c, reply) ==
  /\ sess' = [sess EXCEPT ![c] = [Idle EXCEPT !.reply = reply]]
  /\ pend' = [pend EXCEPT ![c] = NoChange]

\* The command returns an error: a transaction is rolled back, what was done on
\* the pool stays.
Fail(c) == Finish(c, "error") /\ UNCHANGED <<db, acked>>

\* Label of the first statement of a command.
Start(o) ==
  CASE o = "create"       -> "createSchema"
    [] o = "drop"         -> "dropSchemaCheck"
    [] o = "dropDatabase" -> "dropDatabase"
    [] o = "set"          -> "nameSchema"
    [] OTHER              -> "existsSchema"

\* The next phase of a command begins with a new transaction.
Phase(c, o) ==
  /\ sess' = [sess EXCEPT ![c] = [Idle EXCEPT !.op = o, !.coll = sess[c].coll, !.pc = Start(o)]]
  /\ pend' = [pend EXCEPT ![c] = NoChange]

\* The workload: which command may start while others run.
MayStart(c, o, l) ==
  /\ \A d \in Clients \ {c} :
       sess[d].pc # "idle" =>
         /\ \E together \in Overlap : {o, sess[d].op} \subseteq together
         /\ Spread \/ sess[d].coll = l
  /\ o \in {"insert", "update"} => Cardinality(db.docs) < MaxDocs

\* A handler begins: it has read the database and the collection from the message.
Request(c, o, l) ==
  /\ sess[c].pc = "idle"
  /\ MayStart(c, o, l)
  /\ sess' = [sess EXCEPT ![c] = [Idle EXCEPT !.op = o, !.coll = l, !.pc = Start(o)]]
  /\ UNCHANGED <<db, pend, acked>>

\* c reads row i of the settings table (any: there is no ORDER BY) and continues
\* at label; in a transaction the table stays locked against DROP.
ReadSettings(c, i, label) ==
  /\ sess' = [sess EXCEPT ![c].seen = View(c).rows[i], ![c].pc = label,
                          ![c].settingsLock = InTx(sess[c].op)]
  /\ UNCHANGED <<db, pend, acked>>

\* There is no settings table, or it has no row: "no settings found".
NoSettings(c) == ~View(c).settings \/ View(c).rows = <<>>

\* Row i of the settings table records the collection of the command.
Recorded(c, i) == sess[c].coll \in View(c).rows[i]

\* Another transaction holds the row lock of an uncommitted UPDATE.
RowLocked(c) == \E d \in Clients \ {c} : pend[d].n > 0

\* UPDATE _ferretdb_settings SET settings = doc.
UpdateSettings(c, doc) ==
  Exec(c, [NoChange EXCEPT !.n = Len(View(c).rows), !.doc = doc])

-----------------------------------------------------------------------------
(* CollectionExists: schemaExists, then the settings document.             *)

\* Where a command goes with the result of CollectionExists.
AfterExists(o, exists) ==
  CASE o = "insert"              -> IF exists THEN "nameSchema" ELSE "createSchema"
    [] o = "update"              -> IF exists THEN "ensured" ELSE "createSchema"
    [] o \in {"find", "updateFind"} -> IF exists THEN "nameSchema" ELSE "commit"

\* schemaExists never looks at rows.Err(): on the pool, where no commit follows,
\* a failed query reads as "no such schema".
ExistsSchema(c) ==
  /\ sess[c].pc = "existsSchema"
  /\ \/ /\ View(c).schema
        /\ Goto(c, "existsSettings")
        /\ UNCHANGED pend
     \/ /\ ~View(c).schema \/ (sess[c].op \in Faults /\ ~InTx(sess[c].op))
        /\ sess[c].op # "list"
        /\ Goto(c, AfterExists(sess[c].op, FALSE))
        /\ UNCHANGED pend
     \/ /\ ~View(c).schema \/ "list" \in Faults
        /\ sess[c].op = "list"
        /\ Finish(c, "ok")
  /\ UNCHANGED <<db, acked>>

ExistsSettings(c) ==
  /\ sess[c].pc = "existsSettings"
  /\ \/ /\ NoSettings(c)
        /\ Fail(c)
     \/ /\ ~NoSettings(c)
        /\ sess[c].op = "list"
        /\ Finish(c, "ok")
        /\ UNCHANGED <<db, acked>>
     \/ /\ ~NoSettings(c)
        /\ sess[c].op # "list"
        /\ \E i \in DOMAIN View(c).rows :
             ReadSettings(c, i, AfterExists(sess[c].op, Recorded(c, i)))

-----------------------------------------------------------------------------
(* CreateDatabaseIfNotExists (create, insert) and CreateDatabase (update): *)
(* CREATE SCHEMA, then createSettingsTable.  A PostgreSQL error aborts the *)
(* transaction: whatever the Go code makes of it, the next statement       *)
(* fails and the command is rolled back.                                   *)

SchemaBeingCreated(c) == \E d \in Clients \ {c} : pend[d].schema

\* The schema exists already: no error with IF NOT EXISTS; ErrAlreadyExist from
\* CreateDatabase, which CreateCollectionIfNotExist ignores without looking for
\* the settings table.
CreateSchema(c) ==
  /\ sess[c].pc = "createSchema"
  /\ \/ /\ View(c).schema
        /\ Goto(c, IF sess[c].op = "update" THEN "collSchema" ELSE "settingsTables")
        /\ UNCHANGED <<db, pend>>
     \/ /\ ~View(c).schema /\ SchemaBeingCreated(c)
        /\ Goto(c, "createSchemaWait")
        /\ UNCHANGED <<db, pend>>
     \/ /\ ~View(c).schema /\ ~SchemaBeingCreated(c)
        /\ Goto(c, "settingsTables")
        /\ Exec(c, [NoChange EXCEPT !.schema = TRUE])
  /\ UNCHANGED acked

\* The creator the statement waited for is over.  If it committed, the statement
\* fails with unique_violation even though it says IF NOT EXISTS.
CreateSchemaWait(c) ==
  /\ sess[c].pc = "createSchemaWait"
  /\ ~SchemaBeingCreated(c)
  /\ \/ /\ View(c).schema /\ sess[c].op # "update"
        /\ Fail(c)
     \/ /\ View(c).schema /\ sess[c].op = "update"
        /\ Goto(c, "collSchema")
        /\ UNCHANGED <<db, pend, acked>>
     \/ /\ ~View(c).schema
        /\ Goto(c, "settingsTables")
        /\ Exec(c, [NoChange EXCEPT !.schema = TRUE])
        /\ UNCHANGED acked

\* Where createSettingsTable returns to: CreateDatabase* goes on with
\* CreateCollection, getTableName reads the settings.
AfterSettings(c) == IF sess[c].ret = "name" THEN "nameSettings" ELSE "collSchema"

\* createSettingsTable returned ErrAlreadyExist: getTableName and a transaction
\* that PostgreSQL aborted fail, the others take it for success.
SettingsExist(c, aborted) ==
  IF sess[c].ret = "name" \/ aborted
  THEN Fail(c)
  ELSE Goto(c, "collSchema") /\ UNCHANGED <<db, pend, acked>>

\* createSettingsTable: tables().
SettingsTables(c) ==
  /\ sess[c].pc = "settingsTables"
  /\ \/ /\ View(c).settings
        /\ SettingsExist(c, FALSE)
     \/ /\ ~View(c).settings
        /\ Goto(c, "createSettings")
        /\ UNCHANGED <<db, pend, acked>>

SettingsBeingCreated(c) == \E d \in Clients \ {c} : pend[d].settings

\* CREATE TABLE _ferretdb_settings.
CreateSettings(c) ==
  /\ sess[c].pc = "createSettings"
  /\ \/ /\ ~View(c).schema
        /\ Fail(c)
     \/ /\ View(c).schema /\ View(c).settings
        /\ SettingsExist(c, InTx(sess[c].op))
     \/ /\ View(c).schema /\ ~View(c).settings /\ SettingsBeingCreated(c)
        /\ Goto(c, "createSettingsWait")
        /\ UNCHANGED <<db, pend, acked>>
     \/ /\ View(c).schema /\ ~View(c).settings /\ ~SettingsBeingCreated(c)
        /\ sess' = [sess EXCEPT ![c].pc = "insertSettings",
                                ![c].settingsLock = InTx(sess[c].op)]
        /\ Exec(c, [NoChange EXCEPT !.settings = TRUE])
        /\ UNCHANGED acked

\* The other creator of the settings table is over: try again.  A waiting CREATE
\* TABLE holds a lock on the schema, so the schema is still there.
CreateSettingsWait(c) ==
  /\ sess[c].pc = "createSettingsWait"
  /\ ~SettingsBeingCreated(c)
  /\ \/ /\ View(c).settings
        /\ SettingsExist(c, InTx(sess[c].op))
     \/ /\ ~View(c).settings
        /\ sess' = [sess EXCEPT ![c].pc = "insertSettings",
                                ![c].settingsLock = InTx(sess[c].op)]
        /\ Exec(c, [NoChange EXCEPT !.settings = TRUE])
        /\ UNCHANGED acked

\* INSERT INTO _ferretdb_settings: the document without collections.
InsertSettings(c) ==
  /\ sess[c].pc = "insertSettings"
  /\ \/ /\ ~View(c).settings
        /\ Fail(c)
     \/ /\ View(c).settings
        /\ Goto(c, AfterSettings(c))
        /\ Exec(c, [NoChange EXCEPT !.row = TRUE])
        /\ UNCHANGED acked

-----------------------------------------------------------------------------
(* CreateCollection.                                                       *)

\* Where a command goes when CreateCollection returned nil, or ErrAlreadyExist
\* (which the handlers of insert and update ignore).
AfterCreate(o) ==
  CASE o = "create" -> "commit"
    [] o = "insert" -> "nameSchema"
    [] o = "update" -> "ensured"

CollSchema(c) ==
  /\ sess[c].pc = "collSchema"
  /\ \/ /\ ~View(c).schema
        /\ Fail(c)
     \/ /\ View(c).schema
        /\ Goto(c, "collTables")
        /\ UNCHANGED <<db, pend, acked>>

CollTables(c) ==
  /\ sess[c].pc = "collTables"
  /\ \/ /\ sess[c].coll \in View(c).tables /\ sess[c].op = "create"
        /\ Fail(c)
     \/ /\ sess[c].coll \in View(c).tables /\ sess[c].op # "create"
        /\ Goto(c, AfterCreate(sess[c].op))
        /\ UNCHANGED <<db, pend, acked>>
     \/ /\ sess[c].coll \notin View(c).tables
        /\ Goto(c, "collSettings")
        /\ UNCHANGED <<db, pend, acked>>

\* A collection that is recorded already is reported as created.
CollSettings(c) ==
  /\ sess[c].pc = "collSettings"
  /\ \/ /\ NoSettings(c)
        /\ Fail(c)
     \/ /\ ~NoSettings(c)
        /\ \E i \in DOMAIN View(c).rows :
             ReadSettings(c, i, IF Recorded(c, i) THEN AfterCreate(sess[c].op) ELSE "collUpdate")

\* Faulty variant: the collection is recorded and its table never created.
FaultyCollUpdate(c) ==
  /\ sess[c].pc = "collUpdate"
  /\ View(c).settings /\ ~RowLocked(c)
  /\ Goto(c, AfterCreate(sess[c].op))
  /\ UpdateSettings(c, sess[c].seen \cup {sess[c].coll})
  /\ UNCHANGED acked

\* updateSettingsTable with the document read before, the collection added.
CollUpdate(c) ==
  /\ sess[c].pc = "collUpdate"
  /\ \/ /\ ~View(c).settings
        /\ Fail(c)
     \/ /\ View(c).settings /\ ~RowLocked(c)
        /\ Goto(c, "collTable")
        /\ UpdateSettings(c, sess[c].seen \cup {sess[c].coll})
        /\ UNCHANGED acked

TableBeingCreated(c) == \E d \in Clients \ {c} : sess[c].coll \in pend[d].tables

CreateTable(c) ==
  /\ sess' = [sess EXCEPT ![c].pc = AfterCreate(sess[c].op),
                          ![c].tableLocks = IF InTx(sess[c].op) THEN @ \cup {sess[c].coll} ELSE @]
  /\ Exec(c, [NoChange EXCEPT !.tables = {sess[c].coll}])
  /\ UNCHANGED acked

\* CREATE TABLE IF NOT EXISTS.
CollTable(c) ==
  /\ sess[c].pc = "collTable"
  /\ \/ /\ ~View(c).schema
        /\ Fail(c)
     \/ /\ View(c).schema /\ sess[c].coll \in View(c).tables
        /\ Goto(c, AfterCreate(sess[c].op))
        /\ UNCHANGED <<db, pend, acked>>
     \/ /\ View(c).schema /\ sess[c].coll \notin View(c).tables /\ TableBeingCreated(c)
        /\ Goto(c, "collTableWait")
        /\ UNCHANGED <<db, pend, acked>>
     \/ /\ View(c).schema /\ sess[c].coll \notin View(c).tables /\ ~TableBeingCreated(c)
        /\ CreateTable(c)

\* The other creator of the table is over; unique_violation if it committed.
CollTableWait(c) ==
  /\ sess[c].pc = "collTableWait"
  /\ ~TableBeingCreated(c)
  /\ \/ /\ sess[c].coll \in View(c).tables /\ InTx(sess[c].op)
        /\ Fail(c)
     \/ /\ sess[c].coll \in View(c).tables /\ ~InTx(sess[c].op)
        /\ Goto(c, AfterCreate(sess[c].op))
        /\ UNCHANGED <<db, pend, acked>>
     \/ /\ sess[c].coll \notin View(c).tables
        /\ CreateTable(c)

-----------------------------------------------------------------------------
(* getTableName: the recorded name, recording it if it is not there.       *)

NameSchema(c) ==
  /\ sess[c].pc = "nameSchema"
  /\ Goto(c, IF View(c).schema THEN "nameTables" ELSE "data")
  /\ UNCHANGED <<db, pend, acked>>

NameTables(c) ==
  /\ sess[c].pc = "nameTables"
  /\ sess' = [sess EXCEPT ![c].pc = IF View(c).settings THEN "nameSettings" ELSE "settingsTables",
                          ![c].ret = "name"]
  /\ UNCHANGED <<db, pend, acked>>

NameSettings(c) ==
  /\ sess[c].pc = "nameSettings"
  /\ \/ /\ NoSettings(c)
        /\ Fail(c)
     \/ /\ ~NoSettings(c)
        /\ \E i \in DOMAIN View(c).rows :
             ReadSettings(c, i, IF Recorded(c, i) THEN "data" ELSE "nameUpdate")

NameUpdate(c) ==
  /\ sess[c].pc = "nameUpdate"
  /\ ~RowLocked(c)
  /\ Goto(c, "data")
  /\ UpdateSettings(c, sess[c].seen \cup {sess[c].coll})
  /\ UNCHANGED acked

-----------------------------------------------------------------------------
(* The statement on the collection's table, and the end of a transaction.  *)

\* INSERT, SELECT or UPDATE; the table stays locked against DROP.  found is
\* whether the filter of an update matched any document of the collection.
Data(c) ==
  /\ sess[c].pc = "data"
  /\ \/ /\ sess[c].coll \notin View(c).tables
        /\ Fail(c)
     \/ /\ sess[c].coll \in View(c).tables
        /\ \E f \in BOOLEAN :
             /\ f => sess[c].op = "updateFind" /\ \E x \in View(c).docs : x[1] = sess[c].coll
             /\ sess' = [sess EXCEPT ![c].pc = "commit", ![c].found = f,
                                     ![c].tableLocks = @ \cup {sess[c].coll}]
        /\ Exec(c, [NoChange EXCEPT !.docs = IF sess[c].op = "insert" THEN {<<sess[c].coll, c>>} ELSE {}])
        /\ UNCHANGED acked

\* After COMMIT: an update goes on to SetDocumentByID for the document it found
\* (unless UpdateDocument changed nothing) or to the upsert; the others return.
Committed(c) ==
  \/ /\ sess[c].op = "updateFind" /\ sess[c].found
     /\ Phase(c, "set")
     /\ UNCHANGED acked
  \/ /\ sess[c].op = "updateFind" /\ ~sess[c].found
     /\ Phase(c, "insert")
     /\ UNCHANGED acked
  \/ /\ Finish(c, "ok")
     /\ acked' = acked \cup (IF sess[c].op = "insert" THEN {<<sess[c].coll, c>>} ELSE {})

\* Faulty variant: InTransaction returns without tx.Commit.
FaultyCommit(c) ==
  /\ sess[c].pc = "commit"
  /\ UNCHANGED db
  /\ Committed(c)

\* The end of InTransaction.  With faults the answer to COMMIT may be lost.
Commit(c) ==
  /\ sess[c].pc = "commit"
  /\ db' = Apply(db, pend[c])
  /\ \/ Committed(c)
     \/ sess[c].op \in Faults /\ Finish(c, "error") /\ UNCHANGED acked

\* CreateCollectionIfNotExist returned: the update reads the collection, unless
\* its "updates" array is empty.
Ensured(c) ==
  /\ sess[c].pc = "ensured"
  /\ Phase(c, "updateFind") \/ Finish(c, "ok")
  /\ UNCHANGED <<db, acked>>

-----------------------------------------------------------------------------
(* DropCollection and DropDatabase, on the pool.                           *)

DropSchemaCheck(c) ==
  /\ sess[c].pc = "dropSchemaCheck"
  /\ \/ /\ ~db.schema
        /\ Fail(c)
     \/ /\ db.schema
        /\ Goto(c, "dropTables")
        /\ UNCHANGED <<db, pend, acked>>

DropTables(c) ==
  /\ sess[c].pc = "dropTables"
  /\ \/ /\ sess[c].coll \notin db.tables
        /\ Fail(c)
     \/ /\ sess[c].coll \in db.tables
        /\ Goto(c, "dropSettings")
        /\ UNCHANGED <<db, pend, acked>>

DropSettings(c) ==
  /\ sess[c].pc = "dropSettings"
  /\ \/ /\ NoSettings(c) \/ \E i \in DOMAIN db.rows : ~Recorded(c, i)
        /\ Fail(c)
     \/ /\ ~NoSettings(c)
        /\ \E i \in DOMAIN db.rows : Recorded(c, i) /\ ReadSettings(c, i, "dropUpdate")

DropUpdate(c) ==
  /\ sess[c].pc = "dropUpdate"
  /\ \/ /\ ~db.settings
        /\ Fail(c)
     \/ /\ db.settings /\ ~RowLocked(c)
        /\ Goto(c, "dropTable")
        /\ UpdateSettings(c, sess[c].seen \ {sess[c].coll})
        /\ UNCHANGED acked

TableLocked(c) == \E d \in Clients \ {c} : sess[c].coll \in sess[d].tableLocks

\* DROP TABLE IF EXISTS.
DropTable(c) ==
  /\ sess[c].pc = "dropTable"
  /\ sess[c].coll \in db.tables => ~TableLocked(c)
  /\ db' = [db EXCEPT !.tables = @ \ {sess[c].coll},
                      !.docs = {x \in @ : x[1] # sess[c].coll}]
  /\ acked' = {x \in acked : x[1] # sess[c].coll}
  /\ Finish(c, "ok")

\* A transaction that used the settings table or a table of the schema, or a
\* CREATE TABLE that waits, keeps DROP SCHEMA waiting.
SchemaLocked(c) ==
  \E d \in Clients \ {c} :
    \/ sess[d].settingsLock
    \/ sess[d].tableLocks # {}
    \/ sess[d].pc \in {"createSettingsWait", "collTableWait"}

\* DROP SCHEMA CASCADE; dropping a database that does not exist is no error.
DropDatabase(c) ==
  /\ sess[c].pc = "dropDatabase"
  /\ \/ ~db.schema /\ UNCHANGED <<db, acked>>
     \/ db.schema /\ ~SchemaLocked(c) /\ db' = EmptyDB /\ acked' = {}
  /\ Finish(c, "ok")

-----------------------------------------------------------------------------
\* A statement fails: a PostgreSQL error, a cancelled context, a lost connection
\* or a FerretDB that stopped.
Fault(c) ==
  /\ sess[c].op \in Faults
  /\ Fail(c)

\* The running command of c takes its next step.
Step(c) ==
  \/ ExistsSchema(c) \/ ExistsSettings(c)
  \/ CreateSchema(c) \/ CreateSchemaWait(c)
  \/ SettingsTables(c) \/ CreateSettings(c) \/ CreateSettingsWait(c) \/ InsertSettings(c)
  \/ CollSchema(c) \/ CollTables(c) \/ CollSettings(c) \/ CollUpdate(c)
  \/ CollTable(c) \/ CollTableWait(c)
  \/ NameSchema(c) \/ NameTables(c) \/ NameSettings(c) \/ NameUpdate(c)
  \/ Data(c) \/ Commit(c) \/ Ensured(c)
  \/ DropSchemaCheck(c) \/ DropTables(c) \/ DropSettings(c) \/ DropUpdate(c)
  \/ DropTable(c) \/ DropDatabase(c)

Init ==
  /\ db = EmptyDB
  /\ pend = [c \in Clients |-> NoChange]
  /\ sess = [c \in Clients |-> Idle]
  /\ acked = {}

Next ==
  \E c \in Clients :
    \/ \E o \in Ops, l \in Colls : Request(c, o, l)
    \/ Step(c)
    \/ Fault(c)

Spec == Init /\ [][Next]_vars

\* PostgreSQL grants locks in the order of the requests and a statement does not
\* wait for ever unless the holder does: every running command goes on.
Fairness == \A c \in Clients : SF_vars(Step(c))

FairSpec == Spec /\ Fairness

-----------------------------------------------------------------------------
(* Types.                                                                  *)

Labels ==
  {"idle", "existsSchema", "existsSettings", "createSchema", "createSchemaWait",
   "settingsTables", "createSettings", "createSettingsWait", "insertSettings",
   "collSchema", "collTables", "collSettings", "collUpdate", "collTable", "collTableWait",
   "nameSchema", "nameTables", "nameSettings", "nameUpdate", "data", "commit", "ensured",
   "dropSchemaCheck", "dropTables", "dropSettings", "dropUpdate", "dropTable", "dropDatabase"}

DB == [schema : BOOLEAN, settings : BOOLEAN, rows : Seq(SUBSET Colls),
       tables : SUBSET Colls, docs : SUBSET (Colls \X Clients)]

Change == [schema : BOOLEAN, settings : BOOLEAN, row : BOOLEAN, n : Nat,
           doc : SUBSET Colls, tables : SUBSET Colls, docs : SUBSET (Colls \X Clients)]

Session == [op : AllOps \cup {"none", "updateFind", "set"}, coll : Colls \cup {"none"}, pc : Labels,
            ret : {"coll", "name"}, seen : SUBSET Colls, found : BOOLEAN,
            settingsLock : BOOLEAN, tableLocks : SUBSET Colls,
            reply : {"none", "ok", "error"}]

\* The type invariant.
TypeOK ==
  /\ db \in DB
  /\ pend \in [Clients -> Change]
  /\ sess \in [Clients -> Session]
  /\ acked \subseteq Colls \X Clients

-----------------------------------------------------------------------------
(* Properties.                                                             *)

\* No update is creating on the pool, statement by statement.
Settled == \A c \in Clients : sess[c].op # "update"

\* A collection that the settings document records has its table: otherwise
\* CollectionExists answers true, every insert and find of the collection fails
\* and DropCollection answers "ns not found".
RecordHasTable ==
  Settled => \A i \in DOMAIN db.rows : db.rows[i] \subseteq db.tables

\* createSettingsTable leaves a settings table of exactly one document.
SettingsSingleRow ==
  Settled /\ db.settings => Len(db.rows) = 1

BeingDropped(l) == \E c \in Clients : sess[c].op = "drop" /\ sess[c].coll = l

\* A document whose insert was answered with ok can be read back unless its
\* collection is being dropped: it is stored, and CollectionExists and
\* getTableName lead to its table.
AckedReadable ==
  \A x \in {y \in acked : ~BeingDropped(y[1])} :
    /\ x \in db.docs
    /\ x[1] \in db.tables
    /\ db.rows # <<>>
    /\ \A i \in DOMAIN db.rows : x[1] \in db.rows[i]

\* A record without a table is the work of a CreateCollection that is about to
\* create the table.
RecordCovered ==
  \A i \in DOMAIN db.rows : \A l \in db.rows[i] \ db.tables :
    \E c \in Clients : sess[c].coll = l /\ sess[c].pc \in {"collTable", "collTableWait"}

Quiet == \A c \in Clients : sess[c].pc = "idle"

\* What insert.go says of InsertDocument ("If database or collection does not
\* exist, it will be created") needs RecordHasTable whenever no command runs.
QuietRecordHasTable == Quiet => RecordHasTable

\* Every command ends: no cycle of commands waits for each other's locks.
CommandsEnd ==
  \A c \in Clients : sess[c].pc # "idle" ~> sess[c].pc = "idle"

-----------------------------------------------------------------------------
(* Catalog implements Namespace: a collection exists when it is recorded   *)
(* and has its table; its documents and acknowledgements count while it    *)
(* exists.                                                                 *)

Existing == {l \in db.tables : \E i \in DOMAIN db.rows : l \in db.rows[i]}

Kind(o) ==
  CASE o \in {"insert", "update", "updateFind", "set"} -> "write"
    [] o \in {"find", "list"} -> "read"
    [] OTHER -> o

Abstract == INSTANCE Namespace WITH
  colls <- Existing,
  docs  <- {x \in db.docs : x[1] \in Existing},
  acked <- {x \in acked : x[1] \in Existing},
  cmd   <- [c \in Clients |-> [kind |-> Kind(sess[c].op), coll |-> sess[c].coll]]

\* The commands of the handlers, each of many SQL statements, behave as single
\* steps on the set of collections and documents (Namespace).
RefinesNamespace == Abstract!Spec

=============================================================================
