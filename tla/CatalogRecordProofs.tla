------------------------ MODULE CatalogRecordProofs ------------------------
(***************************************************************************)
(* What the settings document records: proofs of RecordCovered,            *)
(* RecordHasTable and SettingsSingleRow of Catalog, for every set of       *)
(* clients and collections, all commands, and commands on different        *)
(* collections at the same time.                                           *)
(*                                                                         *)
(* The three hold when the commands that change the catalog outside a      *)
(* transaction are kept apart from those that undo their work (PoolApart): *)
(* a drop runs alone, an update runs without dropDatabase and its          *)
(* statements do not fail.  The inductive invariant RecordInv says what a  *)
(* command has read or is about to write but has not committed, who may    *)
(* be creating the settings table, and which locks keep DROP SCHEMA away.  *)
(***************************************************************************)
EXTENDS CatalogProofs

\* The limits on the commands that work on the pool, statement by statement.  The
\* runs CatalogDropRace and CatalogLost show what happens without them.
PoolApart ==
  /\ "drop" \in Ops => \A together \in Overlap : "drop" \notin together
  /\ {"update", "dropDatabase"} \subseteq Ops =>
       \A together \in Overlap : ~({"update", "dropDatabase"} \subseteq together)
  /\ "update" \in Ops => "update" \notin Faults

-----------------------------------------------------------------------------
(* The inductive invariant.                                                *)

\* An update on the pool that has recorded its collection and creates the table
\* next, and one that has created the settings table and inserts its row next.
Creating(s) == s.op = "update" /\ s.pc \in {"collTable", "collTableWait"}
Inserting(s) == s.op = "update" /\ s.pc = "insertSettings"

\* The collections that may be recorded: with a table, or with a table to come.
Held ==
  db.tables \cup {l \in Colls : \E c \in Clients : Creating(sess[c]) /\ sess[c].coll = l}

\* What the transaction p of a session s will write to the settings document may be
\* recorded, the collection whose table it creates or uses next excepted ...
DocHeld(H, p, s) ==
  p.doc \subseteq
    H \cup p.tables
    \cup (IF s.pc \in {"collTable", "collTableWait", "data"} THEN {s.coll} ELSE {})

\* ... and so may what a command has read and is about to write back ...
SeenHeld(H, p, s) ==
  s.pc \in {"collUpdate", "nameUpdate", "dropUpdate"} => s.seen \subseteq H \cup p.tables

\* ... because a transaction holds the lock that DROP SCHEMA waits for.
SettingsLocked(p, s) ==
  (InTx(s.op) /\ s.pc \in {"collUpdate", "nameUpdate"}) \/ p.doc # {}
    => s.settingsLock /\ s.pc # "idle"

\* The transaction that creates the settings table inserts its row next.
CreatorInserts(p, s) ==
  /\ p.row <=> p.settings /\ s.pc # "insertSettings"
  /\ InTx(s.op) /\ s.pc = "insertSettings" => p.settings

\* On the pool nothing is pending.
NothingPending(p, s) == ~InTx(s.op) => p = NoChange

SessionInv(H, p, s) ==
  /\ DocHeld(H, p, s)
  /\ SeenHeld(H, p, s)
  /\ SettingsLocked(p, s)
  /\ CreatorInserts(p, s)
  /\ NothingPending(p, s)

\* The rows that are committed: at most one, and none only while its table is
\* missing or an update is about to insert it.
RowsHeld == \A i \in DOMAIN db.rows : db.rows[i] \subseteq Held
OneRow == Len(db.rows) <= 1
NoRowsWithoutTable == ~db.settings => db.rows = <<>>
RowComes == db.settings /\ db.rows = <<>> => \E c \in Clients : Inserting(sess[c])

\* One command at a time creates the settings table, in a transaction or not.
OneInserter ==
  \A c \in Clients :
    Inserting(sess[c]) =>
      db.settings /\ db.rows = <<>> /\ \A d \in Clients \ {c} : ~Inserting(sess[d])

OneCreator ==
  \A c \in Clients :
    pend[c].settings => ~db.settings /\ \A d \in Clients \ {c} : ~pend[d].settings

\* The schema that an update has seen stays.
UpdateHasSchema ==
  \A c \in Clients :
    /\ sess[c].op = "update"
    /\ sess[c].pc \in {"collTables", "collSettings", "collUpdate", "collTable", "collTableWait"}
    => db.schema

\* DROP TABLE comes when the collection is not recorded any more.
DropForgets ==
  \A c \in Clients :
    sess[c].pc = "dropTable" => \A i \in DOMAIN db.rows : sess[c].coll \notin db.rows[i]

CommittedInv ==
  /\ RowsHeld /\ OneRow /\ NoRowsWithoutTable /\ RowComes
  /\ OneInserter /\ OneCreator
  /\ UpdateHasSchema /\ DropForgets

\* PoolApart, of the commands that run.
DropAlone ==
  \A c \in Clients : sess[c].op = "drop" => \A d \in Clients \ {c} : sess[d].pc = "idle"

UpdateApart ==
  \A c, d \in Clients : ~(sess[c].op = "update" /\ sess[d].op = "dropDatabase")

Issued ==
  \A c \in Clients : sess[c].op \in {"update", "drop", "dropDatabase"} => sess[c].op \in Ops

ApartInv == DropAlone /\ UpdateApart /\ Issued

RecordInv ==
  /\ CommittedInv
  /\ ApartInv
  /\ \A c \in Clients : SessionInv(Held, pend[c], sess[c])

-----------------------------------------------------------------------------
\* The sessions after a step that leaves c in session s.
LEMMA BecomesAt ==
  ASSUME Typed, NEW c \in Clients, NEW s, Becomes(c, s)
  PROVE  sess'[c] = s /\ \A d \in Clients \ {c} : sess'[d] = sess[d]
BY Zenon DEF Typed, TypeOK, Becomes

\* What the invariants say of one client.
LEMMA ClientFacts ==
  ASSUME Typed, RecordInv, NEW c \in Clients
  PROVE  /\ db \in DB /\ pend[c] \in Change /\ sess[c] \in Session
         /\ SessionInv(Held, pend[c], sess[c])
         /\ sess[c].pc = "idle" <=> sess[c].op = "none"
         /\ sess[c].pc # "idle" => sess[c].coll \in Colls
<1>1. db \in DB /\ pend[c] \in Change /\ sess[c] \in Session
  BY Zenon DEF Typed, TypeOK
<1>2. SessionInv(Held, pend[c], sess[c])
  BY Zenon DEF RecordInv
<1>3. sess[c].op = "none" => sess[c].pc = "idle"
  BY Zenon DEF Typed, ControlOK, ControlOf, At
<1>4. sess[c].pc = "idle" => sess[c].op = "none"
  <2>1. sess[c].op \in AllOps \cup {"none", "updateFind", "set"} /\ sess[c].pc \in At(sess[c].op)
    BY Zenon, <1>1 DEF Typed, ControlOK, ControlOf, Session
  <2> QED
    BY Zenon, <2>1 DEF AllOps, At, SettingsLabels, CollLabels, NameLabels, CreateLabels, ExistsLabels, DropLabels
<1>5. sess[c].op # "none" => sess[c].coll \in Colls
  BY Zenon DEF Typed, ControlOK, ControlOf
<1> QED
  BY Zenon, <1>1, <1>2, <1>3, <1>4, <1>5

\* What a statement on the pool sees is what is committed.
LEMMA PoolView ==
  ASSUME Typed, RecordInv, NEW c \in Clients, ~InTx(sess[c].op)
  PROVE  /\ pend[c] = NoChange
         /\ View(c).rows = db.rows /\ View(c).tables = db.tables
         /\ View(c).settings <=> db.settings
         /\ View(c).schema <=> db.schema
<1>1. db \in DB /\ SessionInv(Held, pend[c], sess[c])
  BY Zenon, ClientFacts
<1>2. pend[c] = NoChange /\ NoChange \in Change
  BY Zenon, <1>1, NoChangeType DEF SessionInv, NothingPending
<1>3. /\ View(c).schema <=> db.schema \/ NoChange.schema
      /\ View(c).settings <=> db.settings \/ NoChange.settings
      /\ View(c).rows = ApplyRows(db.rows, NoChange)
      /\ View(c).tables = db.tables \cup NoChange.tables
  BY Zenon, <1>1, <1>2, ApplyFields DEF View
<1>4. db.rows \in Seq(SUBSET Colls)
  BY Zenon, <1>1 DEF DB
<1>5. ApplyRows(db.rows, NoChange) = db.rows
  BY Zenon, <1>4, NoChangeFields, ApplyRowsSame
<1> QED
  BY Zenon, <1>2, <1>3, <1>5, NoChangeFields

\* The fields of the database that a transaction sees.
LEMMA ViewFields ==
  ASSUME Typed, NEW c \in Clients
  PROVE  /\ View(c).schema <=> db.schema \/ pend[c].schema
         /\ View(c).settings <=> db.settings \/ pend[c].settings
         /\ View(c).rows = ApplyRows(db.rows, pend[c])
         /\ View(c).tables = db.tables \cup pend[c].tables
<1>1. db \in DB /\ pend[c] \in Change
  BY Zenon DEF Typed, TypeOK
<1> QED
  BY Zenon, <1>1, ApplyFields DEF View

\* The session after a command or a phase of it has ended.
LEMMA RestInv ==
  ASSUME NEW H, NEW s,
         s.pc \notin {"collTable", "collTableWait", "data", "collUpdate", "nameUpdate",
                      "dropUpdate", "insertSettings"}
  PROVE  SessionInv(H, NoChange, s)
BY Zenon, NoChangeFields DEF SessionInv, DocHeld, SeenHeld, SettingsLocked, CreatorInserts, NothingPending

\* A reply leaves the session idle, without a change.
LEMMA FinishAs ==
  ASSUME Typed, NEW c \in Clients, NEW r, Finish(c, r)
  PROVE  \E s : /\ Becomes(c, s) /\ s.pc = "idle" /\ s.op = "none" /\ s.coll = "none"
                /\ pend'[c] = NoChange /\ \A d \in Clients \ {c} : pend'[d] = pend[d]
<1> DEFINE s == [Idle EXCEPT !.reply = r]
<1>1. s.pc = "idle" /\ s.op = "none" /\ s.coll = "none"
  BY Zenon DEF Idle
<1>2. Becomes(c, s)
  BY Zenon DEF Finish, Becomes
<1>3. pend'[c] = NoChange /\ \A d \in Clients \ {c} : pend'[d] = pend[d]
  BY Zenon DEF Finish, Typed, TypeOK
<1> HIDE DEF s
<1> QED
  BY Zenon, <1>1, <1>2, <1>3

\* The next phase of a command begins with its first statement and no change.
LEMMA PhaseAs ==
  ASSUME Typed, NEW c \in Clients, NEW o \in {"updateFind", "set", "insert"}, Phase(c, o)
  PROVE  \E s : /\ Becomes(c, s) /\ s.pc \in {"existsSchema", "nameSchema"}
                /\ s.op = o /\ s.coll = sess[c].coll
                /\ pend'[c] = NoChange /\ \A d \in Clients \ {c} : pend'[d] = pend[d]
<1> DEFINE s == [Idle EXCEPT !.op = o, !.coll = sess[c].coll, !.pc = Start(o)]
<1>1. Start(o) \in {"existsSchema", "nameSchema"}
  BY Zenon DEF Start
<1>2. s.pc = Start(o) /\ s.op = o /\ s.coll = sess[c].coll
  BY Zenon DEF Idle
<1>3. Becomes(c, s)
  BY Zenon DEF Phase, Becomes
<1>4. pend'[c] = NoChange /\ \A d \in Clients \ {c} : pend'[d] = pend[d]
  BY Zenon DEF Phase, Typed, TypeOK
<1> HIDE DEF s
<1> QED
  BY Zenon, <1>1, <1>2, <1>3, <1>4

-----------------------------------------------------------------------------
(* The statements of a transaction.                                        *)

\* A statement in a transaction adds to its change only.
LEMMA ExecTx ==
  ASSUME Typed, NEW c \in Clients, NEW q, Exec(c, q), InTx(sess[c].op)
  PROVE  /\ db' = db /\ pend'[c] = Merge(pend[c], q)
         /\ \A d \in Clients \ {c} : pend'[d] = pend[d]
BY Zenon DEF Exec, Typed, TypeOK

-----------------------------------------------------------------------------
(* The statements of an update on the pool.                                *)

\* A statement on the pool changes the database at once.
LEMMA ExecPool ==
  ASSUME Typed, RecordInv, NEW c \in Clients, NEW q \in Change, Exec(c, q), ~InTx(sess[c].op)
  PROVE  /\ db' \in DB /\ pend' = pend /\ pend[c] = NoChange
         /\ db'.schema <=> db.schema \/ q.schema
         /\ db'.settings <=> db.settings \/ q.settings
         /\ db'.rows = ApplyRows(db.rows, q)
         /\ db'.tables = db.tables \cup q.tables
         /\ db'.docs = db.docs \cup q.docs
<1>1. db \in DB /\ pend[c] = NoChange
  BY Zenon, ClientFacts, PoolView
<1>2. db' = Apply(db, q) /\ pend' = pend
  BY Zenon DEF Exec
<1> QED
  BY Zenon, <1>1, <1>2, ApplyFields

-----------------------------------------------------------------------------
(* The end of a transaction.                                               *)

\* COMMIT applies the change of the transaction to the database.
LEMMA CommitAs ==
  ASSUME Typed, RecordInv, NEW c \in Clients, Commit(c)
  PROVE  /\ sess[c].pc = "commit" /\ InTx(sess[c].op)
         /\ db' = Apply(db, pend[c])
         /\ \E s : /\ Becomes(c, s) /\ s.pc \in {"idle", "existsSchema", "nameSchema"}
                   /\ s.op \in {"none", "set", "insert"}
                   /\ s.pc # "idle" => s.coll = sess[c].coll
                   /\ pend'[c] = NoChange /\ \A d \in Clients \ {c} : pend'[d] = pend[d]
<1>1. sess[c].pc = "commit" /\ db' = Apply(db, pend[c])
  BY Zenon DEF Commit
<1>2. InTx(sess[c].op)
  BY Zenon, <1>1, LabelOps DEF InTx, Typed
<1> DEFINE Ends == \E s : /\ Becomes(c, s) /\ s.pc \in {"idle", "existsSchema", "nameSchema"}
                          /\ s.op \in {"none", "set", "insert"}
                          /\ s.pc # "idle" => s.coll = sess[c].coll
                          /\ pend'[c] = NoChange /\ \A d \in Clients \ {c} : pend'[d] = pend[d]
<1>3. ASSUME NEW r, Finish(c, r) PROVE Ends
  <2>1. PICK s : /\ Becomes(c, s) /\ s.pc = "idle" /\ s.op = "none"
                 /\ pend'[c] = NoChange /\ \A d \in Clients \ {c} : pend'[d] = pend[d]
    BY Zenon, <1>3, FinishAs
  <2> QED
    BY Zenon, <2>1
<1>4. ASSUME NEW o \in {"set", "insert"}, Phase(c, o) PROVE Ends
  <2>1. PICK s : /\ Becomes(c, s) /\ s.pc \in {"existsSchema", "nameSchema"}
                 /\ s.op = o /\ s.coll = sess[c].coll
                 /\ pend'[c] = NoChange /\ \A d \in Clients \ {c} : pend'[d] = pend[d]
    BY <1>4, PhaseAs
  <2> QED
    BY Zenon, <2>1
<1> HIDE DEF Ends
<1>5. Ends
  BY Zenon, <1>3, <1>4 DEF Commit, Committed
<1> QED
  BY Zenon, <1>1, <1>2, <1>5 DEF Ends

-----------------------------------------------------------------------------
(* drop and dropDatabase.                                                  *)

\* A drop runs alone.
LEMMA AloneFacts ==
  ASSUME Typed, RecordInv, NEW c \in Clients, sess[c].op = "drop"
  PROVE  /\ pend[c] = NoChange
         /\ \A d \in Clients \ {c} :
              sess[d].pc = "idle" /\ sess[d].op = "none" /\ pend[d] = NoChange
         /\ \A d \in Clients : ~Inserting(sess[d]) /\ ~Creating(sess[d])
         /\ Held = db.tables
<1>1. pend[c] = NoChange
  BY Zenon, PoolView DEF InTx
<1>2. \A d \in Clients \ {c} : sess[d].pc = "idle" /\ sess[d].op = "none"
  BY Zenon, ClientFacts DEF RecordInv, ApartInv, DropAlone
<1>3. \A d \in Clients \ {c} : pend[d] = NoChange
  <2> TAKE d \in Clients \ {c}
  <2>1. ~InTx(sess[d].op)
    BY Zenon, <1>2 DEF InTx
  <2> QED
    BY Zenon, <2>1, PoolView
<1>4. \A d \in Clients : ~Inserting(sess[d]) /\ ~Creating(sess[d])
  BY Zenon, <1>2 DEF Inserting, Creating
<1> QED
  BY Zenon, <1>1, <1>2, <1>3, <1>4 DEF Held

-----------------------------------------------------------------------------
\* A command outside a transaction that creates is an update.
LEMMA CreatesOnPool ==
  ASSUME Typed, NEW c \in Clients, ~InTx(sess[c].op), Makes(c)
  PROVE  sess[c].op = "update"
<1>1. sess[c].pc \in {"createSchema", "createSchemaWait", "createSettings", "createSettingsWait",
                      "insertSettings", "collUpdate", "nameUpdate", "collTable", "collTableWait"}
  BY Zenon DEF Makes, MakesSchema, MakesSettings, MakesRow, Records, MakesTable
<1> QED
  BY Zenon, <1>1, LabelOps DEF Typed, InTx, CreateLabels, SettingsLabels, CollLabels, NameLabels

\* RecordInv holds initially.
LEMMA RecordInit ==
  ASSUME Init
  PROVE  RecordInv
<1>1. \A c \in Clients : pend[c] = NoChange /\ sess[c] = Idle
  BY Zenon DEF Init
<1>2. Idle.pc = "idle" /\ Idle.op = "none"
  BY Zenon DEF Idle
<1>3. db.rows = <<>>
  BY Zenon DEF Init, EmptyDB
<1>4. ~db.settings
  BY Zenon DEF Init, EmptyDB
<1>5. \A c \in Clients : SessionInv(Held, pend[c], sess[c])
  BY Zenon, <1>1, <1>2, RestInv
<1>6. ApartInv
  BY Zenon, <1>1, <1>2 DEF ApartInv, DropAlone, UpdateApart, Issued
<1>7. RowsHeld /\ OneRow /\ NoRowsWithoutTable /\ RowComes
  BY <1>3, <1>4 DEF RowsHeld, OneRow, NoRowsWithoutTable, RowComes
<1>8. OneInserter /\ UpdateHasSchema /\ DropForgets
  BY Zenon, <1>1, <1>2 DEF OneInserter, UpdateHasSchema, DropForgets, Inserting
<1>9. OneCreator
  BY Zenon, <1>1, NoChangeFields DEF OneCreator
<1> QED
  BY Zenon, <1>5, <1>6, <1>7, <1>8, <1>9 DEF RecordInv, CommittedInv

\* RecordInv is kept by every step, when commands on the pool are kept apart.
LEMMA RecordNext ==
  ASSUME Typed, RecordInv, PoolApart, [Next]_vars
  PROVE  RecordInv'

<1>SessionInvGrows.
  ASSUME NEW H, NEW K, H \subseteq K, NEW p, NEW s, SessionInv(H, p, s)
  PROVE  SessionInv(K, p, s)
  BY Zenon, <1>SessionInvGrows DEF SessionInv, DocHeld, SeenHeld

\* What may be recorded stays so when tables stay and the command creates the table
\* it has recorded, or goes on to.
<1>HeldKept.
  ASSUME NEW c \in Clients, NEW s, Becomes(c, s), db.tables \subseteq db'.tables,
         Creating(sess[c]) => \/ sess[c].coll \in db'.tables
                              \/ Creating(s) /\ s.coll = sess[c].coll
  PROVE  Held \subseteq Held'
  <2> USE <1>HeldKept
  <2> SUFFICES ASSUME NEW l \in Colls, NEW d \in Clients, Creating(sess[d]), sess[d].coll = l
               PROVE  l \in Held'
    BY Zenon DEF Held
  <2>1. sess'[c] = s /\ \A e \in Clients \ {c} : sess'[e] = sess[e]
    BY Zenon, BecomesAt
  <2> QED
    BY Zenon, <2>1 DEF Held

<1>SessionsKept.
  ASSUME NEW c \in Clients, NEW s, Becomes(c, s), Held \subseteq Held',
         \A d \in Clients \ {c} : pend'[d] = pend[d],
         SessionInv(Held', pend'[c], s)
  PROVE  \A d \in Clients : SessionInv(Held', pend'[d], sess'[d])
  <2> USE <1>SessionsKept
  <2> SUFFICES ASSUME NEW d \in Clients PROVE SessionInv(Held', pend'[d], sess'[d])
    BY Zenon
  <2>1. sess'[c] = s /\ \A e \in Clients \ {c} : sess'[e] = sess[e]
    BY Zenon, BecomesAt
  <2>2. CASE d = c
    BY Zenon, <2>1, <2>2
  <2>3. CASE d # c
    <3>1. SessionInv(Held, pend[d], sess[d])
      BY Zenon DEF RecordInv
    <3>2. SessionInv(Held', pend[d], sess[d])
      BY Zenon, <3>1, <1>SessionInvGrows
    <3> QED
      BY Zenon, <2>1, <2>3, <3>2
  <2> QED
    BY Zenon, <2>2, <2>3

\* A running command stays the command it is, or becomes one that the limits do not
\* concern.
<1>ApartKept.
  ASSUME NEW c \in Clients, NEW s, Becomes(c, s), sess[c].pc # "idle",
         s.op \in {"update", "drop", "dropDatabase"} => s.op = sess[c].op
  PROVE  ApartInv'
  <2> USE <1>ApartKept
  <2>1. sess'[c] = s /\ \A e \in Clients \ {c} : sess'[e] = sess[e]
    BY Zenon, BecomesAt
  <2>2. DropAlone /\ UpdateApart /\ Issued
    BY Zenon DEF RecordInv, ApartInv
  <2>3. DropAlone'
    BY Zenon, <2>1, <2>2 DEF DropAlone
  <2>4. UpdateApart'
    BY Zenon, <2>1, <2>2 DEF UpdateApart
  <2>5. Issued'
    BY Zenon, <2>1, <2>2 DEF Issued
  <2> QED
    BY Zenon, <2>3, <2>4, <2>5 DEF ApartInv

\* A step that leaves the rows, the tables and the settings table as they are.
<1>LocalStep.
  ASSUME NEW c \in Clients, NEW s, Becomes(c, s), sess[c].pc # "idle",
         db'.rows = db.rows, db'.tables = db.tables, db'.settings = db.settings,
         db.schema => db'.schema,
         \A d \in Clients \ {c} : pend'[d] = pend[d],
         pend'[c].settings => \/ pend[c].settings
                              \/ ~db.settings /\ \A d \in Clients \ {c} : ~pend[d].settings,
         ~Inserting(sess[c]), ~Inserting(s), s.pc # "dropTable",
         s.op = "update" /\ s.pc \in {"collTables", "collSettings", "collUpdate", "collTable", "collTableWait"}
           => db'.schema,
         s.op \in {"update", "drop", "dropDatabase"} => s.op = sess[c].op,
         Creating(sess[c]) => \/ sess[c].coll \in db.tables
                              \/ Creating(s) /\ s.coll = sess[c].coll,
         SessionInv(Held, pend'[c], s)
  PROVE  RecordInv'
  <2> USE <1>LocalStep
  <2>1. sess'[c] = s /\ \A d \in Clients \ {c} : sess'[d] = sess[d]
    BY Zenon, BecomesAt
  <2>2. Held \subseteq Held'
    BY Zenon, <1>HeldKept
  <2>3. \A d \in Clients : SessionInv(Held', pend'[d], sess'[d])
    <3>1. SessionInv(Held', pend'[c], s)
      BY Zenon, <2>2, <1>SessionInvGrows
    <3> QED
      BY Zenon, <2>2, <3>1, <1>SessionsKept
  <2>4. ApartInv'
    BY Zenon, <1>ApartKept
  <2>5. CommittedInv
    BY Zenon DEF RecordInv
  <2>6. RowsHeld' /\ OneRow' /\ NoRowsWithoutTable'
    BY Zenon, <2>2, <2>5 DEF CommittedInv, RowsHeld, OneRow, NoRowsWithoutTable
  <2>7. RowComes' /\ OneInserter'
    BY Zenon, <2>1, <2>5 DEF CommittedInv, RowComes, OneInserter
  <2>8. OneCreator'
    BY Zenon, <2>5 DEF CommittedInv, OneCreator
  <2>9. UpdateHasSchema' /\ DropForgets'
    BY Zenon, <2>1, <2>5 DEF CommittedInv, UpdateHasSchema, DropForgets
  <2> QED
    BY Zenon, <2>3, <2>4, <2>6, <2>7, <2>8, <2>9 DEF RecordInv, CommittedInv

\* A command ends without effect: a statement failed, or there is nothing to do.
<1>EndRecord.
  ASSUME NEW c \in Clients, NEW r, Finish(c, r), UNCHANGED db,
         sess[c].pc # "idle", ~Inserting(sess[c]), ~Creating(sess[c])
  PROVE  RecordInv'
  <2> USE <1>EndRecord
  <2>1. PICK s : /\ Becomes(c, s) /\ s.pc = "idle" /\ s.op = "none"
                 /\ pend'[c] = NoChange /\ \A d \in Clients \ {c} : pend'[d] = pend[d]
    BY Zenon, FinishAs
  <2>2. SessionInv(Held, NoChange, s)
    BY Zenon, <2>1, RestInv
  <2>3. ~Inserting(s) /\ ~pend'[c].settings
    BY Zenon, <2>1, NoChangeFields DEF Inserting
  <2> QED
    BY Zenon, <2>1, <2>2, <2>3, <1>LocalStep

<1>CommitRecord.
  \A c \in Clients : Commit(c) => RecordInv'

  \* What a transaction that commits makes of the rows.
  <2>CommitRows.
    ASSUME NEW c \in Clients, sess[c].pc = "commit", InTx(sess[c].op),
           db' = Apply(db, pend[c])
    PROVE  /\ db'.schema <=> db.schema \/ pend[c].schema
           /\ db'.settings <=> db.settings \/ pend[c].settings
           /\ db'.tables = db.tables \cup pend[c].tables
           /\ pend[c].row <=> pend[c].settings
           /\ pend[c].settings => db.rows = <<>> /\ Len(db'.rows) = 1
           /\ ~pend[c].settings => Len(db'.rows) = Len(db.rows)
           /\ db'.rows \in Seq(SUBSET Colls)
           /\ \A i \in DOMAIN db'.rows : db'.rows[i] \subseteq Held \cup pend[c].tables
    <3> USE <2>CommitRows
    <3>1. db \in DB /\ pend[c] \in Change /\ SessionInv(Held, pend[c], sess[c])
      BY Zenon, ClientFacts
    <3>2. /\ db'.schema <=> db.schema \/ pend[c].schema
          /\ db'.settings <=> db.settings \/ pend[c].settings
          /\ db'.tables = db.tables \cup pend[c].tables
          /\ db'.rows = ApplyRows(db.rows, pend[c])
      BY Zenon, <3>1, ApplyFields
    <3>3. pend[c].row <=> pend[c].settings
      BY Zenon, <3>1 DEF SessionInv, CreatorInserts
    <3>4. db.rows \in Seq(SUBSET Colls)
      BY Zenon, <3>1 DEF DB
    <3>5. pend[c].settings => db.rows = <<>>
      BY Zenon DEF RecordInv, CommittedInv, OneCreator, NoRowsWithoutTable
    <3>6. /\ db'.rows \in Seq(SUBSET Colls)
          /\ Len(db'.rows) = IF pend[c].row THEN Len(db.rows) + 1 ELSE Len(db.rows)
          /\ \A i \in 1..Len(db'.rows) :
               db'.rows[i] \in {pend[c].doc, {}} \cup {db.rows[j] : j \in 1..Len(db.rows)}
      BY Zenon, <3>1, <3>2, <3>4, ApplyRowsType
    <3>7. pend[c].settings => Len(db'.rows) = 1
      BY <3>3, <3>5, <3>6
    <3>8. ~pend[c].settings => Len(db'.rows) = Len(db.rows)
      BY Zenon, <3>3, <3>6
    <3>9. \A i \in DOMAIN db'.rows : db'.rows[i] \subseteq Held \cup pend[c].tables
      <4>1. pend[c].doc \subseteq Held \cup pend[c].tables
        BY Zenon, <3>1 DEF SessionInv, DocHeld
      <4>2. \A j \in 1..Len(db.rows) : db.rows[j] \subseteq Held
        BY <3>4 DEF RecordInv, CommittedInv, RowsHeld
      <4>3. DOMAIN db'.rows = 1..Len(db'.rows)
        BY <3>6
      <4> QED
        BY <3>6, <4>1, <4>2, <4>3
    <3> QED
      BY Zenon, <3>2, <3>3, <3>5, <3>6, <3>7, <3>8, <3>9
  <2> SUFFICES ASSUME NEW c \in Clients, Commit(c)
               PROVE  RecordInv'
    BY Zenon
  <2>1. sess[c].pc = "commit" /\ InTx(sess[c].op) /\ db' = Apply(db, pend[c])
    BY Zenon, CommitAs
  <2>2. PICK s : /\ Becomes(c, s) /\ s.pc \in {"idle", "existsSchema", "nameSchema"}
                 /\ s.op \in {"none", "set", "insert"}
                 /\ pend'[c] = NoChange /\ \A d \in Clients \ {c} : pend'[d] = pend[d]
    BY Zenon, CommitAs
  <2>3. sess'[c] = s /\ \A d \in Clients \ {c} : sess'[d] = sess[d]
    BY Zenon, <2>2, BecomesAt
  <2>4. db'.tables = db.tables \cup pend[c].tables
    BY Zenon, <2>1, <2>CommitRows
  <2>5. ~Creating(sess[c]) /\ ~Inserting(sess[c]) /\ ~Inserting(s)
    BY Zenon, <2>1, <2>2 DEF Creating, Inserting
  <2>6. Held \subseteq Held' /\ pend[c].tables \subseteq Held'
    <3>1. Held \subseteq Held'
      BY Zenon, <2>2, <2>4, <2>5, <1>HeldKept
    <3> QED
      BY Zenon, <2>4, <3>1 DEF Held
  <2>7. SessionInv(Held', pend'[c], s)
    BY Zenon, <2>2, RestInv
  <2>8. \A d \in Clients : SessionInv(Held', pend'[d], sess'[d])
    BY Zenon, <2>2, <2>6, <2>7, <1>SessionsKept
  <2>9. ApartInv'
    BY Zenon, <2>1, <2>2, <1>ApartKept
  <2>10. CommittedInv /\ db.rows \in Seq(SUBSET Colls)
    BY Zenon, ClientFacts DEF RecordInv, DB
  <2>11. RowsHeld'
    <3>1. \A i \in DOMAIN db'.rows : db'.rows[i] \subseteq Held \cup pend[c].tables
      BY Zenon, <2>1, <2>CommitRows
    <3> QED
      BY Zenon, <2>6, <3>1 DEF RowsHeld
  <2>12. ASSUME pend[c].settings
         PROVE  OneRow' /\ NoRowsWithoutTable' /\ RowComes' /\ OneInserter' /\ OneCreator'
    <3>1. Len(db'.rows) = 1 /\ db'.settings /\ db'.rows # <<>>
      <4>1. Len(db'.rows) = 1 /\ db'.settings
        BY Zenon, <2>1, <2>12, <2>CommitRows
      <4> QED
        BY <4>1
    <3>2. OneRow' /\ NoRowsWithoutTable' /\ RowComes'
      BY <3>1 DEF OneRow, NoRowsWithoutTable, RowComes
    <3>3. ~db.settings /\ \A d \in Clients \ {c} : ~pend[d].settings
      BY Zenon, <2>10, <2>12 DEF CommittedInv, OneCreator
    <3>4. OneInserter'
      <4>1. \A d \in Clients : ~Inserting(sess'[d])
        BY Zenon, <2>3, <2>5, <2>10, <3>3 DEF CommittedInv, OneInserter
      <4> QED
        BY Zenon, <4>1 DEF OneInserter
    <3>5. OneCreator'
      BY Zenon, <2>2, <3>3, NoChangeFields DEF OneCreator
    <3> QED
      BY Zenon, <3>2, <3>4, <3>5
  <2>13. ASSUME ~pend[c].settings
         PROVE  OneRow' /\ NoRowsWithoutTable' /\ RowComes' /\ OneInserter' /\ OneCreator'
    <3>1. Len(db'.rows) = Len(db.rows) /\ db'.rows \in Seq(SUBSET Colls)
      BY Zenon, <2>1, <2>13, <2>CommitRows
    <3>2. db'.settings <=> db.settings
      BY Zenon, <2>1, <2>13, <2>CommitRows
    <3>3. db'.rows = <<>> <=> db.rows = <<>>
      BY <2>10, <3>1
    <3>4. OneRow'
      BY Zenon, <2>10, <3>1 DEF CommittedInv, OneRow
    <3>5. NoRowsWithoutTable'
      BY Zenon, <2>10, <3>2, <3>3 DEF CommittedInv, NoRowsWithoutTable
    <3>6. RowComes' /\ OneInserter'
      <4>1. \A d \in Clients : Inserting(sess'[d]) <=> Inserting(sess[d])
        BY Zenon, <2>3, <2>5
      <4>2. RowComes'
        BY Zenon, <2>10, <3>2, <3>3, <4>1 DEF CommittedInv, RowComes
      <4> QED
        BY Zenon, <2>10, <3>2, <3>3, <4>1, <4>2 DEF CommittedInv, OneInserter
    <3>7. OneCreator'
      <4>1. ~pend'[c].settings
        BY Zenon, <2>2, NoChangeFields
      <4>2. \A d \in Clients : pend'[d].settings => pend[d].settings
        BY Zenon, <2>2, <4>1
      <4> QED
        BY Zenon, <2>10, <3>2, <4>2 DEF CommittedInv, OneCreator
    <3> QED
      BY Zenon, <3>4, <3>5, <3>6, <3>7
  <2>14. UpdateHasSchema'
    <3>1. db.schema => db'.schema
      BY Zenon, <2>1, <2>CommitRows
    <3> QED
      BY Zenon, <2>2, <2>3, <2>10, <3>1 DEF CommittedInv, UpdateHasSchema
  <2>15. DropForgets'
    <3>1. \A d \in Clients : sess[d].pc = "dropTable" => sess[d].op = "drop"
      BY Zenon, LabelOps DEF Typed, DropLabels
    <3>2. \A d \in Clients \ {c} : sess[d].op # "drop"
      BY Zenon, <2>1 DEF RecordInv, ApartInv, DropAlone
    <3> QED
      BY Zenon, <2>2, <2>3, <3>1, <3>2 DEF DropForgets
  <2> QED
    BY Zenon, <2>8, <2>9, <2>11, <2>12, <2>13, <2>14, <2>15 DEF RecordInv, CommittedInv

<1>RequestRecord.
  ASSUME PoolApart
  PROVE  \A c \in Clients, o \in Ops, l \in Colls : Request(c, o, l) => RecordInv'

  \* A command starts only beside those that it may overlap.
  <2> USE <1>RequestRecord
  <2>RequestApart.
    ASSUME PoolApart,
           NEW c \in Clients, NEW o \in Ops, NEW l \in Colls, Request(c, o, l)
    PROVE  ApartInv'
    <3> USE <2>RequestApart
    <3> DEFINE s == [Idle EXCEPT !.op = o, !.coll = l, !.pc = Start(o)]
    <3>1. s.op = o
      BY Zenon DEF Idle
    <3>2. Becomes(c, s)
      BY Zenon DEF Request, Becomes
    <3> HIDE DEF s
    <3>3. sess'[c] = s /\ \A d \in Clients \ {c} : sess'[d] = sess[d]
      BY Zenon, <3>2, BecomesAt
    <3>4. DropAlone /\ UpdateApart /\ Issued
      BY Zenon DEF RecordInv, ApartInv
    <3>5. \A d \in Clients \ {c} :
            sess[d].pc # "idle" => \E together \in Overlap : {o, sess[d].op} \subseteq together
      BY Zenon DEF Request, MayStart
    <3>6. \A d \in Clients : sess[d].pc = "idle" <=> sess[d].op = "none"
      BY Zenon, ClientFacts
    <3>7. Issued'
      BY Zenon, <3>1, <3>3, <3>4 DEF Issued
    <3>8. \A d \in Clients \ {c} : o = "drop" => sess[d].pc = "idle"
      BY Zenon, <3>5 DEF PoolApart
    <3>9. \A d \in Clients \ {c} : sess[d].op # "drop"
      BY Zenon, <3>4, <3>5, <3>6 DEF PoolApart, Issued
    <3>10. DropAlone'
      BY Zenon, <3>1, <3>3, <3>8, <3>9 DEF DropAlone
    <3>11. \A d \in Clients \ {c} : /\ ~(o = "update" /\ sess[d].op = "dropDatabase")
                                    /\ ~(o = "dropDatabase" /\ sess[d].op = "update")
      <4> SUFFICES ASSUME NEW d \in Clients \ {c}, sess[d].op \in {"update", "dropDatabase"}
                   PROVE  {o, sess[d].op} # {"update", "dropDatabase"}
        BY Zenon
      <4>1. sess[d].op \in Ops /\ sess[d].pc # "idle"
        BY Zenon, <3>4, <3>6 DEF Issued
      <4> QED
        BY <3>5, <4>1 DEF PoolApart
    <3>12. UpdateApart'
      BY Zenon, <3>1, <3>3, <3>4, <3>11 DEF UpdateApart
    <3> QED
      BY Zenon, <3>7, <3>10, <3>12 DEF ApartInv
  <2> SUFFICES ASSUME NEW c \in Clients, NEW o \in Ops, NEW l \in Colls, Request(c, o, l)
               PROVE  RecordInv'
    BY Zenon
  <2> DEFINE s == [Idle EXCEPT !.op = o, !.coll = l, !.pc = Start(o)]
  <2>1. s.op = o /\ s.pc = Start(o)
    BY Zenon DEF Idle
  <2>2. s.pc \in {"createSchema", "dropSchemaCheck", "dropDatabase", "nameSchema", "existsSchema"}
    BY Zenon, <2>1 DEF Start
  <2>3. Becomes(c, s) /\ UNCHANGED <<db, pend>> /\ sess[c].pc = "idle"
    BY Zenon DEF Request, Becomes
  <2> HIDE DEF s
  <2>4. sess'[c] = s /\ \A d \in Clients \ {c} : sess'[d] = sess[d]
    BY Zenon, <2>3, BecomesAt
  <2>5. pend[c] = NoChange
    BY Zenon, <2>3, ClientFacts, PoolView DEF InTx
  <2>6. Held \subseteq Held'
    BY Zenon, <2>3, <1>HeldKept DEF Creating
  <2>7. SessionInv(Held', NoChange, s)
    BY Zenon, <2>2, RestInv
  <2>8. \A d \in Clients : SessionInv(Held', pend'[d], sess'[d])
    BY Zenon, <2>3, <2>5, <2>6, <2>7, <1>SessionsKept
  <2>9. ApartInv'
    BY Zenon, <2>RequestApart
  <2>10. CommittedInv
    BY Zenon DEF RecordInv
  <2>11. RowsHeld' /\ OneRow' /\ NoRowsWithoutTable' /\ OneCreator'
    BY Zenon, <2>3, <2>6, <2>10 DEF CommittedInv, RowsHeld, OneRow, NoRowsWithoutTable, OneCreator
  <2>12. \A d \in Clients : Inserting(sess'[d]) <=> Inserting(sess[d])
    BY Zenon, <2>2, <2>3, <2>4 DEF Inserting
  <2>13. RowComes' /\ OneInserter'
    BY Zenon, <2>3, <2>10, <2>12 DEF CommittedInv, RowComes, OneInserter
  <2>14. UpdateHasSchema' /\ DropForgets'
    BY Zenon, <2>2, <2>3, <2>4, <2>10 DEF CommittedInv, UpdateHasSchema, DropForgets
  <2> QED
    BY Zenon, <2>8, <2>9, <2>11, <2>13, <2>14 DEF RecordInv, CommittedInv

\* The statements of an update do not fail: a fault ends a transaction or a command
\* that creates nothing.
<1>FaultRecord.
  ASSUME NEW c \in Clients, Fault(c)
  PROVE  RecordInv'
  <2> USE <1>FaultRecord
  <2>1. sess[c].op \in Faults /\ Finish(c, "error") /\ UNCHANGED db
    BY Zenon DEF Fault, Fail
  <2>2. sess[c].op # "none" /\ sess[c].op # "update"
    BY <2>1, CatalogAssumption DEF AllOps, PoolApart, RecordInv, ApartInv, Issued
  <2>3. sess[c].pc # "idle" /\ ~Inserting(sess[c]) /\ ~Creating(sess[c])
    BY Zenon, <2>2, ClientFacts DEF Inserting, Creating
  <2> QED
    BY Zenon, <2>1, <2>3, <1>EndRecord

<1>RecordLocal.
  \A c \in Clients : Stops(c) \/ GoesOn(c) \/ Moves(c) \/ Reads(c) => RecordInv'

  <2>StopsRecord.
    ASSUME NEW c \in Clients, Stops(c)
    PROVE  RecordInv'
    <3> USE <2>StopsRecord
    <3>1. PICK r : Finish(c, r)
      BY Zenon DEF Stops
    <3>2. UNCHANGED db /\ StopOK(c)
      BY Zenon DEF Stops
    <3>3. ~Inserting(sess[c])
      <4> SUFFICES ASSUME Inserting(sess[c]) PROVE FALSE
        BY Zenon
      <4>1. db.settings /\ sess[c].pc = "insertSettings" /\ ~InTx(sess[c].op)
        BY Zenon DEF RecordInv, CommittedInv, OneInserter, Inserting, InTx
      <4> QED
        BY Zenon, <3>2, <4>1, PoolView DEF StopOK
    <3>4. ~Creating(sess[c])
      <4> SUFFICES ASSUME Creating(sess[c]) PROVE FALSE
        BY Zenon
      <4>1. db.schema /\ sess[c].pc \in {"collTable", "collTableWait"} /\ ~InTx(sess[c].op)
        BY Zenon DEF RecordInv, CommittedInv, UpdateHasSchema, Creating, InTx
      <4> QED
        BY Zenon, <3>2, <4>1, PoolView DEF StopOK
    <3>5. sess[c].pc # "idle"
      BY Zenon, <3>2 DEF StopOK
    <3> QED
      BY Zenon, <3>1, <3>2, <3>3, <3>4, <3>5, <1>EndRecord

  <2>GoesOnRecord.
    ASSUME NEW c \in Clients, GoesOn(c)
    PROVE  RecordInv'
    <3> USE <2>GoesOnRecord
    <3>1. PICK s : /\ Becomes(c, s) /\ s.pc \in {"existsSchema", "nameSchema"}
                   /\ s.op = "updateFind" /\ s.coll = sess[c].coll
                   /\ pend'[c] = NoChange /\ \A d \in Clients \ {c} : pend'[d] = pend[d]
      BY Zenon, PhaseAs DEF GoesOn
    <3>2. SessionInv(Held, NoChange, s)
      BY Zenon, <3>1, RestInv
    <3>3. ~Inserting(s) /\ ~pend'[c].settings
      BY Zenon, <3>1, NoChangeFields DEF Inserting
    <3>4. /\ db' = db /\ sess[c].pc # "idle" /\ ~Inserting(sess[c]) /\ ~Creating(sess[c])
      BY ZenonT(60) DEF GoesOn, Inserting, Creating
    <3> QED
      BY Zenon, <3>1, <3>2, <3>3, <3>4, <1>LocalStep

  <2>MovesRecord.
    ASSUME NEW c \in Clients, Moves(c)
    PROVE  RecordInv'
    <3> USE <2>MovesRecord
    <3>1. PICK s : Becomes(c, s) /\ SameBut(s, sess[c]) /\ MoveOK(c, s.pc)
      BY Zenon DEF Moves
    <3>2. db' = db /\ pend' = pend
      BY Zenon DEF Moves
    <3>3. /\ db \in DB /\ pend[c] \in Change
          /\ SessionInv(Held, pend[c], sess[c])
      BY Zenon, ClientFacts
    <3>4. View(c).tables = db.tables \cup pend[c].tables
      BY Zenon, ViewFields
    <3>5. db.tables \subseteq Held
      BY ZenonT(60) DEF Held
    <3>6. DocHeld(Held, pend[c], s)
      BY ZenonT(60), <3>1, <3>3, <3>4, <3>5 DEF SessionInv, DocHeld, SameBut, SameCommand, MoveOK
    <3>7. SeenHeld(Held, pend[c], s) /\ NothingPending(pend[c], s)
      BY ZenonT(60), <3>1, <3>3 DEF SessionInv, SeenHeld, NothingPending, SameBut, SameCommand, MoveOK
    <3>8. SettingsLocked(pend[c], s)
      BY ZenonT(60), <3>1, <3>3 DEF SessionInv, SettingsLocked, SameBut, SameCommand, MoveOK
    <3>9. CreatorInserts(pend[c], s)
      BY Zenon, <3>1, <3>3 DEF SessionInv, CreatorInserts, SameBut, SameCommand, MoveOK
    <3>10. SessionInv(Held, pend'[c], s)
      BY ZenonT(60), <3>2, <3>6, <3>7, <3>8, <3>9 DEF SessionInv
    <3>11. /\ ~Inserting(sess[c]) /\ ~Inserting(s) /\ s.pc # "dropTable" /\ sess[c].pc # "idle"
           /\ s.op = sess[c].op /\ s.coll = sess[c].coll
      BY Zenon, <3>1 DEF Inserting, SameBut, SameCommand, MoveOK
    <3>12. ASSUME s.op = "update",
                  s.pc \in {"collTables", "collSettings", "collUpdate", "collTable", "collTableWait"}
           PROVE  db.schema
      <4>1. ~InTx(sess[c].op)
        BY Zenon, <3>11, <3>12 DEF InTx
      <4>2. View(c).schema => db.schema
        BY Zenon, <4>1, PoolView
      <4> QED
        BY ZenonT(60), <3>1, <3>11, <3>12, <4>2 DEF MoveOK, RecordInv, CommittedInv, UpdateHasSchema
    <3>13. ASSUME Creating(sess[c])
           PROVE  sess[c].coll \in db.tables \/ Creating(s)
      <4>1. ~InTx(sess[c].op)
        BY Zenon, <3>13 DEF InTx, Creating
      <4>2. View(c).tables = db.tables
        BY Zenon, <4>1, PoolView
      <4> QED
        BY Zenon, <3>1, <3>11, <3>13, <4>2 DEF MoveOK, Creating
    <3> QED
      BY Zenon, <3>1, <3>2, <3>10, <3>11, <3>12, <3>13, <1>LocalStep

  \* What a command reads may be recorded.
  <2>ViewRowsHeld.
    ASSUME NEW c \in Clients,
           sess[c].pc \notin {"collTable", "collTableWait", "data"},
           NEW i \in DOMAIN View(c).rows
    PROVE  View(c).rows[i] \subseteq Held \cup pend[c].tables
    <3> USE <2>ViewRowsHeld
    <3>1. /\ db \in DB /\ pend[c] \in Change
          /\ SessionInv(Held, pend[c], sess[c])
      BY Zenon, ClientFacts
    <3>2. db.rows \in Seq(SUBSET Colls)
      BY Zenon, <3>1 DEF DB
    <3>3. View(c).rows = ApplyRows(db.rows, pend[c])
      BY Zenon, ViewFields
    <3>4. pend[c].doc \subseteq Held \cup pend[c].tables
      BY Zenon, <3>1 DEF SessionInv, DocHeld
    <3>5. \A j \in DOMAIN db.rows : db.rows[j] \subseteq Held
      BY Zenon DEF RecordInv, CommittedInv, RowsHeld
    <3>6. CASE pend[c].row
      <4>1. View(c).rows = [j \in 1..Len(Append(db.rows, {})) |->
                              IF j <= pend[c].n THEN pend[c].doc ELSE Append(db.rows, {})[j]]
        BY Zenon, <3>3, <3>6 DEF ApplyRows
      <4>2. \A j \in 1..Len(Append(db.rows, {})) : Append(db.rows, {})[j] \subseteq Held
        BY <3>2, <3>5
      <4> QED
        BY Zenon, <3>4, <4>1, <4>2
    <3>7. CASE ~pend[c].row
      <4>1. View(c).rows = [j \in 1..Len(db.rows) |->
                              IF j <= pend[c].n THEN pend[c].doc ELSE db.rows[j]]
        BY Zenon, <3>3, <3>7 DEF ApplyRows
      <4>2. \A j \in 1..Len(db.rows) : db.rows[j] \subseteq Held
        BY ZenonT(60), <3>2, <3>5, RowsDomain
      <4> QED
        BY Zenon, <3>4, <4>1, <4>2
    <3> QED
      BY Zenon, <3>6, <3>7

  <2>ReadsRecord.
    ASSUME NEW c \in Clients, Reads(c)
    PROVE  RecordInv'
    <3> USE <2>ReadsRecord
    <3>1. PICK i, s : i \in DOMAIN View(c).rows /\ Becomes(c, s) /\ ReadOK(c, i, s)
      BY Zenon DEF Reads
    <3>2. db' = db /\ pend' = pend
      BY ZenonT(60) DEF Reads
    <3>3. /\ sess[c].pc \in {"existsSettings", "collSettings", "nameSettings", "dropSettings"}
          /\ s.seen = View(c).rows[i]
          /\ s.op = sess[c].op /\ s.coll = sess[c].coll /\ s.settingsLock = InTx(sess[c].op)
          /\ s.pc \notin {"idle", "insertSettings", "collTables", "collSettings", "collTable",
                          "collTableWait", "dropTable"}
          /\ s.pc = "collUpdate" => sess[c].pc = "collSettings"
      BY Zenon, <3>1 DEF ReadOK, SameCommand
    <3>4. SessionInv(Held, pend[c], sess[c])
      BY Zenon, ClientFacts
    <3>5. s.seen \subseteq Held \cup pend[c].tables
      BY ZenonT(60), <3>1, <3>3, <2>ViewRowsHeld
    <3>6. DocHeld(Held, pend[c], s)
      BY Zenon, <3>3, <3>4 DEF SessionInv, DocHeld
    <3>7. SeenHeld(Held, pend[c], s)
      BY ZenonT(60), <3>5 DEF SeenHeld
    <3>8. NothingPending(pend[c], s)
      BY ZenonT(60), <3>3, <3>4 DEF SessionInv, NothingPending
    <3>9. SettingsLocked(pend[c], s)
      BY ZenonT(60), <3>3, <3>4, <3>8, NoChangeFields DEF SettingsLocked, NothingPending
    <3>10. CreatorInserts(pend[c], s)
      BY Zenon, <3>3, <3>4 DEF SessionInv, CreatorInserts
    <3>11. SessionInv(Held, pend'[c], s)
      BY Zenon, <3>2, <3>6, <3>7, <3>8, <3>9, <3>10 DEF SessionInv
    <3>12. s.op = "update" /\ s.pc = "collUpdate" => db.schema
      BY ZenonT(60), <3>3 DEF RecordInv, CommittedInv, UpdateHasSchema
    <3>13. ~Inserting(sess[c]) /\ ~Inserting(s) /\ ~Creating(sess[c]) /\ sess[c].pc # "idle"
      BY Zenon, <3>3 DEF Inserting, Creating
    <3> QED
      BY Zenon, <3>1, <3>2, <3>3, <3>11, <3>12, <3>13, <1>LocalStep
  <2> QED
    BY Zenon, <2>StopsRecord, <2>GoesOnRecord, <2>MovesRecord, <2>ReadsRecord

<1>RecordTx.
  \A c \in Clients : (InTx(sess[c].op) /\ Makes(c)) \/ Stores(c) => RecordInv'

  \* A statement of a transaction keeps the invariant when its session does.
  <2>TxStep.
    ASSUME NEW c \in Clients, NEW s, Becomes(c, s), NEW q, Exec(c, q),
           InTx(sess[c].op), SameCommand(s, sess[c]), sess[c].pc # "idle",
           Merge(pend[c], q).settings =>
             pend[c].settings \/ (~db.settings /\ ~SettingsBeingCreated(c)),
           s.pc # "dropTable",
           SessionInv(Held, Merge(pend[c], q), s)
    PROVE  RecordInv'
    <3> USE <2>TxStep
    <3>1. /\ db' = db /\ pend'[c] = Merge(pend[c], q)
          /\ \A d \in Clients \ {c} : pend'[d] = pend[d]
      BY ZenonT(60), ExecTx
    <3>2. /\ s.op = sess[c].op /\ s.op \notin {"update", "drop", "dropDatabase"}
          /\ ~Inserting(sess[c]) /\ ~Inserting(s) /\ ~Creating(sess[c])
      BY ZenonT(60) DEF InTx, SameCommand, Inserting, Creating
    <3>3. pend'[c].settings => \/ pend[c].settings
                               \/ ~db.settings /\ \A d \in Clients \ {c} : ~pend[d].settings
      BY ZenonT(60), <3>1 DEF SettingsBeingCreated
    <3> QED
      BY ZenonT(60), <3>1, <3>2, <3>3, <1>LocalStep

  <2>SchemaRecordTx.
    ASSUME NEW c \in Clients, MakesSchema(c), InTx(sess[c].op)
    PROVE  RecordInv'
    <3> USE <2>SchemaRecordTx
    <3>1. PICK s : Becomes(c, s) /\ SameBut(s, sess[c]) /\ s.pc = "settingsTables"
      BY Zenon DEF MakesSchema
    <3> DEFINE m == Merge(pend[c], SchemaMade)
    <3>2. pend[c] \in Change /\ SessionInv(Held, pend[c], sess[c])
      BY Zenon, ClientFacts
    <3>3. sess[c].pc \in {"createSchema", "createSchemaWait"}
      BY Zenon DEF MakesSchema
    <3>4. /\ m.settings <=> pend[c].settings
          /\ m.row <=> pend[c].row
          /\ m.doc = pend[c].doc /\ m.tables = pend[c].tables
      <4>1. SchemaMade \in Change
        BY Zenon, ChangesTyped
      <4> QED
        BY Zenon, <3>2, <4>1, MergeFields, MergeKeeps, SchemaMadeFields DEF SameDoc
    <3> HIDE DEF m
    <3>5. DocHeld(Held, m, s) /\ SeenHeld(Held, m, s)
      BY ZenonT(60), <3>1, <3>2, <3>3, <3>4 DEF SessionInv, DocHeld, SeenHeld
    <3>6. SettingsLocked(m, s) /\ NothingPending(m, s)
      BY ZenonT(60), <3>1, <3>2, <3>3, <3>4 DEF SessionInv, SettingsLocked, NothingPending, SameBut, SameCommand
    <3>7. CreatorInserts(m, s)
      BY Zenon, <3>1, <3>2, <3>3, <3>4 DEF SessionInv, CreatorInserts
    <3>8. SessionInv(Held, m, s)
      BY Zenon, <3>5, <3>6, <3>7 DEF SessionInv
    <3>9. SameCommand(s, sess[c]) /\ Exec(c, SchemaMade)
      BY ZenonT(60), <3>1 DEF SameBut, MakesSchema
    <3> QED
      BY ZenonT(60), <3>1, <3>3, <3>4, <3>8, <3>9, <2>TxStep DEF m

  <2>SettingsRecordTx.
    ASSUME NEW c \in Clients, MakesSettings(c), InTx(sess[c].op)
    PROVE  RecordInv'
    <3> USE <2>SettingsRecordTx
    <3>1. PICK s : /\ Becomes(c, s) /\ SameCommand(s, sess[c])
                   /\ s.pc = "insertSettings" /\ s.settingsLock = InTx(sess[c].op)
      BY ZenonT(60) DEF MakesSettings
    <3> DEFINE m == Merge(pend[c], SettingsMade)
    <3>2. pend[c] \in Change /\ SessionInv(Held, pend[c], sess[c])
      BY Zenon, ClientFacts
    <3>3. sess[c].pc \in {"createSettings", "createSettingsWait"} /\ ~SettingsBeingCreated(c)
      BY Zenon DEF MakesSettings
    <3>4. m.settings /\ (m.row <=> pend[c].row)
          /\ m.doc = pend[c].doc /\ m.tables = pend[c].tables
      <4>1. SettingsMade \in Change
        BY ZenonT(60), ChangesTyped
      <4> QED
        BY Zenon, <3>2, <4>1, MergeFields, MergeKeeps, SettingsMadeFields DEF SameDoc
    <3>5. ~db.settings /\ ~pend[c].settings
      BY ZenonT(60), ViewFields DEF MakesSettings
    <3> HIDE DEF m
    <3>6. DocHeld(Held, m, s) /\ SeenHeld(Held, m, s)
      BY ZenonT(60), <3>1, <3>2, <3>3, <3>4 DEF SessionInv, DocHeld, SeenHeld
    <3>7. SettingsLocked(m, s) /\ NothingPending(m, s)
      BY ZenonT(60), <3>1, <3>2, <3>3, <3>4 DEF SessionInv, SettingsLocked, NothingPending, SameCommand
    <3>8. CreatorInserts(m, s)
      BY Zenon, <3>1, <3>2, <3>4, <3>5 DEF SessionInv, CreatorInserts
    <3>9. SessionInv(Held, m, s)
      BY Zenon, <3>6, <3>7, <3>8 DEF SessionInv
    <3>10. Exec(c, SettingsMade)
      BY ZenonT(60) DEF MakesSettings
    <3> QED
      BY Zenon, <3>1, <3>3, <3>5, <3>9, <3>10, <2>TxStep DEF m

  <2>RowRecordTx.
    ASSUME NEW c \in Clients, MakesRow(c), InTx(sess[c].op)
    PROVE  RecordInv'
    <3> USE <2>RowRecordTx
    <3>1. PICK s : Becomes(c, s) /\ SameBut(s, sess[c]) /\ s.pc \in {"nameSettings", "collSchema"}
      BY Zenon DEF MakesRow
    <3> DEFINE m == Merge(pend[c], RowMade)
    <3>2. pend[c] \in Change /\ SessionInv(Held, pend[c], sess[c])
      BY Zenon, ClientFacts
    <3>3. sess[c].pc = "insertSettings"
      BY Zenon DEF MakesRow
    <3>4. m.row /\ (m.settings <=> pend[c].settings)
          /\ m.doc = pend[c].doc /\ m.tables = pend[c].tables
      <4>1. RowMade \in Change
        BY ZenonT(60), ChangesTyped
      <4> QED
        BY Zenon, <3>2, <4>1, MergeFields, MergeKeeps, RowMadeFields DEF SameDoc
    <3> HIDE DEF m
    <3>5. DocHeld(Held, m, s) /\ SeenHeld(Held, m, s)
      BY ZenonT(60), <3>1, <3>2, <3>3, <3>4 DEF SessionInv, DocHeld, SeenHeld
    <3>6. SettingsLocked(m, s) /\ NothingPending(m, s)
      BY ZenonT(60), <3>1, <3>2, <3>3, <3>4 DEF SessionInv, SettingsLocked, NothingPending, SameBut, SameCommand
    <3>7. CreatorInserts(m, s)
      BY Zenon, <3>1, <3>2, <3>3, <3>4 DEF SessionInv, CreatorInserts
    <3>8. SessionInv(Held, m, s)
      BY ZenonT(60), <3>5, <3>6, <3>7 DEF SessionInv
    <3>9. SameCommand(s, sess[c]) /\ Exec(c, RowMade)
      BY ZenonT(60), <3>1 DEF SameBut, MakesRow
    <3> QED
      BY ZenonT(60), <3>1, <3>3, <3>4, <3>8, <3>9, <2>TxStep DEF m

  <2>RecordsRecordTx.
    ASSUME NEW c \in Clients, Records(c), InTx(sess[c].op)
    PROVE  RecordInv'
    <3> USE <2>RecordsRecordTx
    <3>1. PICK s : /\ Becomes(c, s) /\ SameBut(s, sess[c])
                   /\ s.pc = IF sess[c].pc = "collUpdate" THEN "collTable" ELSE "data"
      BY Zenon DEF Records
    <3> DEFINE doc == sess[c].seen \cup {sess[c].coll}
               n == Len(View(c).rows)
               q == DocSet(n, doc)
               m == Merge(pend[c], q)
    <3>2. pend[c] \in Change /\ SessionInv(Held, pend[c], sess[c])
      BY Zenon, ClientFacts
    <3>3. sess[c].pc \in {"collUpdate", "nameUpdate"} /\ Exec(c, q)
      BY ZenonT(60) DEF Records
    <3>4. sess[c].seen \subseteq Held \cup pend[c].tables /\ sess[c].settingsLock
      BY Zenon, <3>2, <3>3 DEF SessionInv, SeenHeld, SettingsLocked
    <3>5. q \in Change
      <4>1. sess[c].coll \in Colls /\ sess[c].seen \in SUBSET Colls
        BY Zenon, <3>3, ClientFacts DEF Session
      <4>2. db.rows \in Seq(SUBSET Colls)
        BY ZenonT(60), ClientFacts DEF DB
      <4>3. n \in Nat
        BY <3>2, <4>2, ApplyRowsType, ViewFields
      <4> HIDE DEF n
      <4> QED
        BY ZenonT(60), <4>1, <4>3, ChangesTyped
    <3>14. ~q.settings /\ ~q.row /\ q.tables = {} /\ q.doc = doc
      <4> HIDE DEF n, doc
      <4> QED
        BY DocSetFields
    <3> HIDE DEF q
    <3>6. /\ (m.settings <=> pend[c].settings) /\ (m.row <=> pend[c].row)
          /\ m.tables = pend[c].tables
      BY Zenon, <3>2, <3>5, <3>14, MergeKeeps
    <3>7. m.doc = pend[c].doc \/ m.doc = doc
      BY Zenon, <3>2, <3>5, <3>14, MergeKeeps DEF SameDoc
    <3> HIDE DEF m
    <3>8. s.coll = sess[c].coll /\ s.op = sess[c].op /\ s.settingsLock
      BY ZenonT(60), <3>1, <3>4 DEF SameBut, SameCommand
    <3>9. DocHeld(Held, m, s) /\ SeenHeld(Held, m, s)
      BY ZenonT(60), <3>1, <3>2, <3>3, <3>4, <3>6, <3>7, <3>8 DEF SessionInv, DocHeld, SeenHeld
    <3>10. SettingsLocked(m, s) /\ NothingPending(m, s)
      BY ZenonT(60), <3>1, <3>8 DEF SettingsLocked, NothingPending
    <3>11. CreatorInserts(m, s)
      BY Zenon, <3>1, <3>2, <3>3, <3>6, <3>8 DEF SessionInv, CreatorInserts
    <3>12. SessionInv(Held, m, s)
      BY ZenonT(60), <3>9, <3>10, <3>11 DEF SessionInv
    <3>13. SameCommand(s, sess[c])
      BY ZenonT(60), <3>1 DEF SameBut
    <3> QED
      BY ZenonT(60), <3>1, <3>3, <3>6, <3>12, <3>13, <2>TxStep DEF m

  <2>TableRecordTx.
    ASSUME NEW c \in Clients, MakesTable(c), InTx(sess[c].op)
    PROVE  RecordInv'
    <3> USE <2>TableRecordTx
    <3>1. PICK s : /\ Becomes(c, s) /\ SameCommand(s, sess[c]) /\ s.settingsLock = sess[c].settingsLock
                   /\ s.pc \in {"commit", "nameSchema", "ensured"}
      BY ZenonT(60) DEF MakesTable
    <3> DEFINE q == TableMade(sess[c].coll)
               m == Merge(pend[c], q)
    <3>2. pend[c] \in Change /\ SessionInv(Held, pend[c], sess[c])
      BY ZenonT(60), ClientFacts
    <3>3. sess[c].pc \in {"collTable", "collTableWait"} /\ Exec(c, q)
      BY ZenonT(60) DEF MakesTable
    <3>4. q \in Change /\ ~q.settings /\ ~q.row /\ q.n = 0 /\ q.tables = {sess[c].coll}
      BY Zenon, <3>3, ClientFacts, ChangesTyped, TableMadeFields
    <3> HIDE DEF q
    <3>5. /\ (m.settings <=> pend[c].settings) /\ (m.row <=> pend[c].row)
          /\ m.doc = pend[c].doc /\ m.tables = pend[c].tables \cup {sess[c].coll}
      <4>1. m.tables = pend[c].tables \cup {sess[c].coll}
        BY ZenonT(60), <3>4 DEF Merge
      <4> QED
        BY Zenon, <3>2, <3>4, <4>1, MergeKeeps DEF SameDoc
    <3> HIDE DEF m
    <3>6. DocHeld(Held, m, s) /\ SeenHeld(Held, m, s)
      BY Zenon, <3>1, <3>2, <3>3, <3>5 DEF SessionInv, DocHeld, SeenHeld
    <3>7. SettingsLocked(m, s) /\ NothingPending(m, s)
      BY ZenonT(60), <3>1, <3>2, <3>3, <3>5 DEF SessionInv, SettingsLocked, NothingPending, SameCommand
    <3>8. CreatorInserts(m, s)
      BY Zenon, <3>1, <3>2, <3>3, <3>5 DEF SessionInv, CreatorInserts
    <3>9. SessionInv(Held, m, s)
      BY ZenonT(60), <3>6, <3>7, <3>8 DEF SessionInv
    <3> QED
      BY ZenonT(60), <3>1, <3>3, <3>5, <3>9, <2>TxStep DEF m

  <2>StoresRecord.
    ASSUME NEW c \in Clients, Stores(c)
    PROVE  RecordInv'
    <3> USE <2>StoresRecord
    <3>1. PICK s : /\ Becomes(c, s) /\ SameCommand(s, sess[c]) /\ s.settingsLock = sess[c].settingsLock
                   /\ s.pc = "commit"
      BY Zenon DEF Stores
    <3> DEFINE docs == IF sess[c].op = "insert" THEN {<<sess[c].coll, c>>} ELSE {}
               q == DocsStored(docs)
               m == Merge(pend[c], q)
    <3>2. pend[c] \in Change /\ SessionInv(Held, pend[c], sess[c])
      BY Zenon, ClientFacts
    <3>3. sess[c].pc = "data" /\ sess[c].coll \in View(c).tables /\ Exec(c, q)
      BY Zenon DEF Stores
    <3>4. sess[c].coll \in db.tables \cup pend[c].tables /\ db.tables \subseteq Held
      BY ZenonT(60), <3>3, ViewFields DEF Held
    <3>5. InTx(sess[c].op)
      BY Zenon, <3>3, LabelOps DEF InTx, Typed
    <3>6. docs \in SUBSET (Colls \X Clients)
      BY <3>3, ClientFacts
    <3> HIDE DEF docs
    <3>7. q \in Change /\ ~q.settings /\ ~q.row /\ q.n = 0 /\ q.tables = {}
      BY Zenon, <3>6, ChangesTyped, DocsStoredFields
    <3> HIDE DEF q
    <3>8. /\ (m.settings <=> pend[c].settings) /\ (m.row <=> pend[c].row)
          /\ m.doc = pend[c].doc /\ m.tables = pend[c].tables
      BY Zenon, <3>2, <3>7, MergeKeeps DEF SameDoc
    <3> HIDE DEF m
    <3>9. DocHeld(Held, m, s) /\ SeenHeld(Held, m, s)
      BY ZenonT(60), <3>1, <3>2, <3>3, <3>4, <3>8 DEF SessionInv, DocHeld, SeenHeld
    <3>10. SettingsLocked(m, s) /\ NothingPending(m, s)
      BY ZenonT(60), <3>1, <3>2, <3>3, <3>5, <3>8 DEF SessionInv, SettingsLocked, NothingPending, SameCommand
    <3>11. CreatorInserts(m, s)
      BY Zenon, <3>1, <3>2, <3>3, <3>8 DEF SessionInv, CreatorInserts
    <3>12. SessionInv(Held, m, s)
      BY Zenon, <3>9, <3>10, <3>11 DEF SessionInv
    <3> QED
      BY ZenonT(60), <3>1, <3>3, <3>5, <3>8, <3>12, <2>TxStep DEF m
  <2> QED
    BY Zenon, <2>SchemaRecordTx, <2>SettingsRecordTx, <2>RowRecordTx, <2>RecordsRecordTx, <2>TableRecordTx,
       <2>StoresRecord DEF Makes

<1>RecordPool.
  \A c \in Clients : sess[c].op = "update" /\ Makes(c) => RecordInv'

  <2>UpdateSession.
    ASSUME NEW H, NEW s, s.op = "update", s.pc \notin {"collUpdate", "nameUpdate", "dropUpdate"}
    PROVE  SessionInv(H, NoChange, s)
    BY Zenon, <2>UpdateSession, NoChangeFields DEF SessionInv, DocHeld, SeenHeld, SettingsLocked, CreatorInserts,
       NothingPending, InTx

  \* A statement of an update keeps the invariant when the rows and the settings
  \* table are as they should be.
  <2>PoolStep.
    ASSUME NEW c \in Clients, NEW s, Becomes(c, s), SameCommand(s, sess[c]),
           sess[c].op = "update", sess[c].pc # "idle",
           s.pc \notin {"collUpdate", "nameUpdate", "dropUpdate", "dropTable"},
           pend' = pend,
           db.tables \subseteq db'.tables,
           db.schema => db'.schema,
           s.pc \in {"collTables", "collSettings", "collTable", "collTableWait"} => db'.schema,
           Creating(sess[c]) => sess[c].coll \in db'.tables,
           RowsHeld', OneRow', NoRowsWithoutTable', RowComes', OneInserter', OneCreator'
    PROVE  RecordInv'
    <3> USE <2>PoolStep
    <3>1. sess'[c] = s /\ \A d \in Clients \ {c} : sess'[d] = sess[d]
      BY Zenon, BecomesAt
    <3>2. Held \subseteq Held'
      BY Zenon, <1>HeldKept
    <3>3. s.op = "update" /\ pend[c] = NoChange
      BY ZenonT(60), PoolView DEF SameCommand, InTx
    <3>4. SessionInv(Held', pend'[c], s)
      BY Zenon, <3>3, <2>UpdateSession
    <3>5. \A d \in Clients : SessionInv(Held', pend'[d], sess'[d])
      BY Zenon, <3>2, <3>4, <1>SessionsKept
    <3>6. ApartInv'
      BY Zenon, <3>3, <1>ApartKept
    <3>7. UpdateHasSchema'
      BY Zenon, <3>1 DEF RecordInv, CommittedInv, UpdateHasSchema
    <3>8. DropForgets'
      <4>1. \A d \in Clients : sess[d].pc = "dropTable" => sess[d].op = "drop"
        BY ZenonT(60), LabelOps DEF Typed, DropLabels
      <4>2. \A d \in Clients \ {c} : sess[d].op # "drop"
        BY Zenon DEF RecordInv, ApartInv, DropAlone
      <4> QED
        BY ZenonT(60), <3>1, <4>1, <4>2 DEF DropForgets
    <3> QED
      BY ZenonT(60), <3>5, <3>6, <3>7, <3>8 DEF RecordInv, CommittedInv

  <2>SchemaRecordPool.
    ASSUME NEW c \in Clients, MakesSchema(c), sess[c].op = "update"
    PROVE  RecordInv'
    <3> USE <2>SchemaRecordPool
    <3>1. PICK s : Becomes(c, s) /\ SameBut(s, sess[c]) /\ s.pc = "settingsTables"
      BY Zenon DEF MakesSchema
    <3>2. sess[c].pc \in {"createSchema", "createSchemaWait"} /\ Exec(c, SchemaMade)
      BY Zenon DEF MakesSchema
    <3>3. SchemaMade \in Change /\ ~InTx(sess[c].op) /\ db.rows \in Seq(SUBSET Colls)
      BY Zenon, ChangesTyped, ClientFacts DEF InTx, DB
    <3>4. /\ pend' = pend /\ pend[c] = NoChange
          /\ db'.schema
          /\ db'.settings <=> db.settings
          /\ db'.rows = ApplyRows(db.rows, SchemaMade)
          /\ db'.tables = db.tables \cup {}
      BY Zenon, <3>2, <3>3, ExecPool, SchemaMadeFields
    <3>5. db'.rows = db.rows
      BY ZenonT(60), <3>3, <3>4, ApplyRowsSame, SchemaMadeFields
    <3>6. db'.settings = db.settings
      <4>1. db \in DB /\ db' \in DB
        BY Zenon, <3>2, <3>3, ClientFacts, ExecPool
      <4>2. db.settings \in BOOLEAN /\ db'.settings \in BOOLEAN
        BY Zenon, <4>1 DEF DB
      <4> QED
        BY ZenonT(60), <3>4, <4>2
    <3>7. SessionInv(Held, pend'[c], s) /\ s.op = "update"
      BY Zenon, <3>1, <3>4, <2>UpdateSession DEF SameBut, SameCommand
    <3>8. ~Inserting(sess[c]) /\ ~Inserting(s) /\ ~Creating(sess[c])
      BY Zenon, <3>1, <3>2 DEF Inserting, Creating
    <3>9. ~pend'[c].settings
      BY ZenonT(60), <3>4, NoChangeFields
    <3> QED
      BY ZenonT(60), <3>1, <3>2, <3>4, <3>5, <3>6, <3>7, <3>8, <3>9, <1>LocalStep

  \* CREATE TABLE _ferretdb_settings: no one else creates it, and its row comes next.
  <2>SettingsRecordPool.
    ASSUME NEW c \in Clients, MakesSettings(c), sess[c].op = "update"
    PROVE  RecordInv'
    <3> USE <2>SettingsRecordPool
    <3>1. PICK s : Becomes(c, s) /\ SameCommand(s, sess[c]) /\ s.pc = "insertSettings"
      BY Zenon DEF MakesSettings
    <3>2. sess[c].pc \in {"createSettings", "createSettingsWait"} /\ Exec(c, SettingsMade)
      BY ZenonT(60) DEF MakesSettings
    <3>3. SettingsMade \in Change /\ ~InTx(sess[c].op) /\ db.rows \in Seq(SUBSET Colls)
      BY ZenonT(60), ChangesTyped, ClientFacts DEF InTx, DB
    <3>4. ~db.settings /\ \A d \in Clients \ {c} : ~pend[d].settings
      BY Zenon, <3>3, PoolView DEF MakesSettings, SettingsBeingCreated
    <3>5. /\ pend' = pend /\ pend[c] = NoChange
          /\ db.schema => db'.schema
          /\ db'.settings
          /\ db'.rows = ApplyRows(db.rows, SettingsMade)
          /\ db'.tables = db.tables \cup SettingsMade.tables
      BY Zenon, <3>2, <3>3, ExecPool, SettingsMadeFields
    <3>6. db.rows = <<>> /\ \A d \in Clients : ~Inserting(sess[d])
      BY Zenon, <3>4 DEF RecordInv, CommittedInv, NoRowsWithoutTable, OneInserter
    <3>7. db'.rows = <<>>
      BY ZenonT(60), <3>3, <3>5, <3>6, ApplyRowsSame, SettingsMadeFields
    <3>8. sess'[c] = s /\ \A d \in Clients \ {c} : sess'[d] = sess[d]
      BY Zenon, <3>1, BecomesAt
    <3>9. Inserting(sess'[c])
      BY Zenon, <3>1, <3>8 DEF Inserting, SameCommand
    <3>10. RowsHeld' /\ OneRow' /\ NoRowsWithoutTable'
      BY <3>7 DEF RowsHeld, OneRow, NoRowsWithoutTable
    <3>11. RowComes' /\ OneInserter'
      BY Zenon, <3>5, <3>6, <3>7, <3>8, <3>9 DEF RowComes, OneInserter
    <3>12. OneCreator'
      BY Zenon, <3>4, <3>5, NoChangeFields DEF OneCreator
    <3>13. ~Creating(sess[c])
      BY ZenonT(60), <3>2 DEF Creating
    <3> QED
      BY ZenonT(60), <3>1, <3>2, <3>5, <3>10, <3>11, <3>12, <3>13, <2>PoolStep

  \* INSERT INTO _ferretdb_settings: it is the first row.
  <2>RowRecordPool.
    ASSUME NEW c \in Clients, MakesRow(c), sess[c].op = "update"
    PROVE  RecordInv'
    <3> USE <2>RowRecordPool
    <3>1. PICK s : Becomes(c, s) /\ SameBut(s, sess[c]) /\ s.pc \in {"nameSettings", "collSchema"}
      BY Zenon DEF MakesRow
    <3>2. sess[c].pc = "insertSettings" /\ Exec(c, RowMade)
      BY Zenon DEF MakesRow
    <3>3. RowMade \in Change /\ ~InTx(sess[c].op)
      BY Zenon, ChangesTyped DEF InTx
    <3>4. /\ pend' = pend
          /\ db.schema => db'.schema
          /\ db'.settings <=> db.settings
          /\ db'.rows = ApplyRows(db.rows, RowMade)
          /\ db'.tables = db.tables \cup RowMade.tables
      BY Zenon, <3>2, <3>3, ExecPool, RowMadeFields
    <3>5. db.settings /\ db.rows = <<>> /\ \A d \in Clients \ {c} : ~Inserting(sess[d])
      BY Zenon, <3>2 DEF RecordInv, CommittedInv, OneInserter, Inserting
    <3>6. Len(db'.rows) = 1 /\ DOMAIN db'.rows = 1..1 /\ db'.rows[1] = {}
      <4>1. db'.rows = [i \in 1..Len(Append(<<>>, {})) |->
                          IF i <= RowMade.n THEN RowMade.doc ELSE Append(<<>>, {})[i]]
        BY Zenon, <3>4, <3>5, RowMadeFields DEF ApplyRows
      <4>2. Len(Append(<<>>, {})) = 1 /\ Append(<<>>, {})[1] = {}
        OBVIOUS
      <4>3. db'.rows = [i \in 1..1 |-> IF i <= 0 THEN RowMade.doc ELSE Append(<<>>, {})[i]]
        BY Zenon, <4>1, <4>2, RowMadeFields
      <4> QED
        BY <4>2, <4>3
    <3>7. sess'[c] = s /\ \A d \in Clients \ {c} : sess'[d] = sess[d]
      BY Zenon, <3>1, BecomesAt
    <3>8. RowsHeld' /\ OneRow' /\ NoRowsWithoutTable'
      <4>1. RowsHeld' /\ OneRow'
        BY <3>6 DEF RowsHeld, OneRow
      <4>2. NoRowsWithoutTable'
        BY Zenon, <3>4, <3>5 DEF NoRowsWithoutTable
      <4> QED
        BY Zenon, <4>1, <4>2
    <3>9. RowComes' /\ OneInserter'
      <4>1. db'.rows # <<>>
        BY <3>6
      <4>2. \A d \in Clients : ~Inserting(sess'[d])
        BY Zenon, <3>1, <3>5, <3>7 DEF Inserting
      <4> QED
        BY Zenon, <4>1, <4>2 DEF RowComes, OneInserter
    <3>10. OneCreator'
      BY Zenon, <3>4 DEF RecordInv, CommittedInv, OneCreator
    <3>11. ~Creating(sess[c]) /\ SameCommand(s, sess[c])
      BY ZenonT(60), SMTT(60), <3>1, <3>2 DEF Creating, SameBut
    <3> QED
      BY Zenon, <3>1, <3>2, <3>4, <3>8, <3>9, <3>10, <3>11, <2>PoolStep

  \* UPDATE _ferretdb_settings on the pool: the table of the collection comes next.
  <2>RecordsRecordPool.
    ASSUME NEW c \in Clients, Records(c), sess[c].op = "update"
    PROVE  RecordInv'
    <3> USE <2>RecordsRecordPool
    <3> DEFINE doc == sess[c].seen \cup {sess[c].coll}
               q == DocSet(Len(db.rows), doc)
    <3>1. sess[c].pc = "collUpdate" /\ ~InTx(sess[c].op)
      <4>1. sess[c].pc \in {"collUpdate", "nameUpdate"} /\ sess[c].pc # "nameUpdate"
        BY Zenon, LabelOps DEF Records, Typed, NameLabels
      <4> QED
        BY ZenonT(60), <4>1 DEF InTx
    <3>2. PICK s : Becomes(c, s) /\ SameBut(s, sess[c]) /\ s.pc = "collTable"
      BY ZenonT(60), <3>1 DEF Records
    <3>3. Exec(c, q)
      BY Zenon, <3>1, PoolView DEF Records
    <3>4. db.rows \in Seq(SUBSET Colls)
      BY ZenonT(60), ClientFacts DEF DB
    <3>5. sess[c].coll \in Colls /\ sess[c].seen \in SUBSET Colls /\ sess[c].seen \subseteq Held
      <4>1. SessionInv(Held, pend[c], sess[c]) /\ pend[c] = NoChange
        BY ZenonT(60), <3>1, ClientFacts, PoolView
      <4> QED
        BY ZenonT(60), <3>1, <4>1, ClientFacts, NoChangeFields DEF Session, SessionInv, SeenHeld
    <3>6. q \in Change
      BY <3>4, <3>5, ChangesTyped
    <3> HIDE DEF doc
    <3>7. ~q.settings /\ ~q.row /\ q.n = Len(db.rows) /\ q.doc = doc /\ q.tables = {}
      BY DocSetFields
    <3> HIDE DEF q
    <3>8. /\ pend' = pend
          /\ db.schema => db'.schema
          /\ db'.settings <=> db.settings
          /\ db'.rows = ApplyRows(db.rows, q)
          /\ db'.tables = db.tables \cup q.tables
      BY Zenon, <3>1, <3>3, <3>6, <3>7, ExecPool
    <3>9. db'.rows = [i \in 1..Len(db.rows) |-> doc] /\ Len(db'.rows) = Len(db.rows)
      BY <3>4, <3>7, <3>8, ApplyRowsSet
    <3>10. sess'[c] = s /\ \A d \in Clients \ {c} : sess'[d] = sess[d]
      BY Zenon, <3>2, BecomesAt
    <3>11. ~Creating(sess[c]) /\ ~Inserting(sess[c])
      BY Zenon, <3>1 DEF Creating, Inserting
    <3>12. Held \subseteq Held' /\ sess[c].coll \in Held'
      <4>1. Held \subseteq Held'
        BY Zenon, <3>2, <3>7, <3>8, <3>11, <1>HeldKept
      <4>2. Creating(s) /\ s.coll = sess[c].coll
        BY ZenonT(60), <3>2 DEF Creating, SameBut, SameCommand
      <4> QED
        BY ZenonT(60), <3>5, <3>10, <4>1, <4>2 DEF Held
    <3>13. RowsHeld' /\ OneRow' /\ NoRowsWithoutTable'
      <4>1. doc \subseteq Held'
        BY Zenon, <3>5, <3>12 DEF doc
      <4>2. OneRow /\ NoRowsWithoutTable
        BY Zenon DEF RecordInv, CommittedInv
      <4>3. RowsHeld'
        BY Zenon, <3>9, <4>1 DEF RowsHeld
      <4>4. db.rows = <<>> => db'.rows = <<>>
        BY <3>9
      <4> QED
        BY Zenon, <3>8, <3>9, <4>2, <4>3, <4>4 DEF OneRow, NoRowsWithoutTable
    <3>14. RowComes' /\ OneInserter' /\ OneCreator'
      <4>1. RowComes /\ OneInserter /\ OneCreator
        BY Zenon DEF RecordInv, CommittedInv
      <4>2. db.rows = <<>> <=> db'.rows = <<>>
        BY <3>4, <3>9
      <4>3. RowComes'
        BY ZenonT(60), <3>8, <3>10, <3>11, <4>1, <4>2 DEF RowComes
      <4>4. OneInserter'
        BY Zenon, <3>2, <3>8, <3>10, <4>1, <4>2 DEF OneInserter, Inserting
      <4> QED
        BY Zenon, <3>8, <4>1, <4>3, <4>4 DEF OneCreator
    <3>15. db.schema
      BY ZenonT(60), SMTT(60), <3>1 DEF RecordInv, CommittedInv, UpdateHasSchema
    <3> QED
      BY Zenon, <3>1, <3>2, <3>7, <3>8, <3>11, <3>13, <3>14, <3>15, <2>PoolStep DEF SameBut

  <2>TableRecordPool.
    ASSUME NEW c \in Clients, MakesTable(c), sess[c].op = "update"
    PROVE  RecordInv'
    <3> USE <2>TableRecordPool
    <3> DEFINE q == TableMade(sess[c].coll)
    <3>1. PICK s : /\ Becomes(c, s) /\ SameCommand(s, sess[c])
                   /\ s.pc \in {"commit", "nameSchema", "ensured"}
      BY Zenon DEF MakesTable
    <3>2. sess[c].pc \in {"collTable", "collTableWait"} /\ Exec(c, q) /\ ~InTx(sess[c].op)
      BY Zenon DEF MakesTable, InTx
    <3>3. db.rows \in Seq(SUBSET Colls)
      BY Zenon, ClientFacts DEF DB
    <3>4. q \in Change /\ ~q.settings /\ ~q.row /\ q.n = 0 /\ q.tables = {sess[c].coll}
      BY Zenon, <3>2, ClientFacts, ChangesTyped, TableMadeFields
    <3> HIDE DEF q
    <3>5. /\ pend' = pend
          /\ db.schema => db'.schema
          /\ db'.settings <=> db.settings
          /\ db'.rows = ApplyRows(db.rows, q)
          /\ db'.tables = db.tables \cup q.tables
      BY Zenon, <3>2, <3>4, ExecPool
    <3>6. db'.rows = db.rows
      BY ZenonT(60), <3>3, <3>4, <3>5, ApplyRowsSame
    <3>7. sess'[c] = s /\ \A d \in Clients \ {c} : sess'[d] = sess[d]
      BY Zenon, <3>1, BecomesAt
    <3>8. Held \subseteq Held'
      BY Zenon, <3>1, <3>4, <3>5, <1>HeldKept
    <3>9. ~Inserting(sess[c]) /\ ~Inserting(s)
      BY ZenonT(60), <3>1, <3>2 DEF Inserting
    <3>10. RowsHeld' /\ OneRow' /\ NoRowsWithoutTable'
      BY ZenonT(60), <3>5, <3>6, <3>8 DEF RecordInv, CommittedInv, RowsHeld, OneRow, NoRowsWithoutTable
    <3>11. RowComes' /\ OneInserter' /\ OneCreator'
      BY Zenon, <3>5, <3>6, <3>7, <3>9 DEF RecordInv, CommittedInv, RowComes, OneInserter, OneCreator
    <3> QED
      BY Zenon, <3>1, <3>2, <3>4, <3>5, <3>10, <3>11, <2>PoolStep
  <2> QED
    BY Zenon, <2>SchemaRecordPool, <2>SettingsRecordPool, <2>RowRecordPool, <2>RecordsRecordPool,
       <2>TableRecordPool DEF Makes

<1>RecordDrop.
  \A c \in Clients : Unrecords(c) \/ DropTable(c) \/ DropsDatabase(c) => RecordInv'

  \* A step of a drop, alone as it is, keeps the invariant when the rows do.
  <2>DropStep.
    ASSUME NEW c \in Clients, NEW s, Becomes(c, s),
           sess[c].op = "drop", sess[c].pc # "idle", s.op \in {"drop", "none"},
           s.pc \in {"idle", "dropTable"},
           pend'[c] = NoChange, \A d \in Clients \ {c} : pend'[d] = pend[d],
           db'.settings <=> db.settings,
           Len(db'.rows) = Len(db.rows), db'.rows \in Seq(SUBSET Colls),
           \A i \in DOMAIN db'.rows : db'.rows[i] \subseteq db'.tables,
           s.pc = "dropTable" => \A i \in DOMAIN db'.rows : s.coll \notin db'.rows[i]
    PROVE  RecordInv'
    <3> USE <2>DropStep
    <3>1. sess'[c] = s /\ \A d \in Clients \ {c} : sess'[d] = sess[d]
      BY ZenonT(60), SMTT(60), BecomesAt
    <3>2. \A d \in Clients \ {c} : sess[d].pc = "idle" /\ sess[d].op = "none" /\ pend[d] = NoChange
      BY Zenon, AloneFacts
    <3>3. \A d \in Clients : pend'[d] = NoChange
      BY Zenon, <3>2
    <3>4. \A d \in Clients : sess'[d].pc \in {"idle", "dropTable"} /\ sess'[d].op \in {"drop", "none"}
      BY <3>1, <3>2
    <3>5. \A d \in Clients : SessionInv(Held', pend'[d], sess'[d])
      BY ZenonT(60), <3>3, <3>4, RestInv
    <3>6. ApartInv'
      BY ZenonT(60), <1>ApartKept
    <3>7. db.rows \in Seq(SUBSET Colls) /\ CommittedInv
      BY Zenon, ClientFacts DEF DB, RecordInv
    <3>8. db'.rows = <<>> <=> db.rows = <<>>
      BY <3>7
    <3>9. RowsHeld' /\ OneRow'
      BY Zenon, <3>7 DEF RowsHeld, Held, OneRow, CommittedInv
    <3>10. NoRowsWithoutTable'
      BY Zenon, <3>7, <3>8 DEF NoRowsWithoutTable, CommittedInv
    <3>11. RowComes'
      <4>1. ~(db.settings /\ db.rows = <<>>)
        BY ZenonT(60), <3>7, AloneFacts DEF CommittedInv, RowComes
      <4> QED
        BY ZenonT(60), <3>8, <4>1 DEF RowComes
    <3>12. OneInserter' /\ UpdateHasSchema'
      BY Zenon, <3>4 DEF OneInserter, UpdateHasSchema, Inserting
    <3>13. OneCreator'
      BY ZenonT(60), <3>3, NoChangeFields DEF OneCreator
    <3>14. DropForgets'
      BY ZenonT(60), <3>1, <3>2 DEF DropForgets
    <3> QED
      BY Zenon, <3>5, <3>6, <3>9, <3>10, <3>11, <3>12, <3>13, <3>14 DEF RecordInv, CommittedInv

  <2>UnrecordsRecord.
    ASSUME NEW c \in Clients, Unrecords(c)
    PROVE  RecordInv'
    <3> USE <2>UnrecordsRecord
    <3> DEFINE doc == sess[c].seen \ {sess[c].coll}
               q == DocSet(Len(db.rows), doc)
    <3>1. sess[c].pc = "dropUpdate" /\ sess[c].op = "drop" /\ ~InTx(sess[c].op)
      BY ZenonT(60), LabelOps DEF Unrecords, Typed, DropLabels, InTx
    <3>2. PICK s : Becomes(c, s) /\ SameBut(s, sess[c]) /\ s.pc = "dropTable"
      BY ZenonT(60) DEF Unrecords
    <3>3. Exec(c, q)
      BY Zenon, <3>1, PoolView DEF Unrecords
    <3>4. db.rows \in Seq(SUBSET Colls)
      BY Zenon, ClientFacts DEF DB
    <3>5. sess[c].seen \in SUBSET Colls /\ sess[c].seen \subseteq db.tables
      <4>1. SessionInv(Held, pend[c], sess[c]) /\ pend[c] = NoChange /\ Held = db.tables
        BY ZenonT(60), <3>1, ClientFacts, AloneFacts
      <4> QED
        BY ZenonT(60), <3>1, <4>1, ClientFacts, NoChangeFields DEF Session, SessionInv, SeenHeld
    <3>6. q \in Change
      BY <3>4, <3>5, ChangesTyped
    <3> HIDE DEF doc
    <3>7. ~q.settings /\ ~q.row /\ q.n = Len(db.rows) /\ q.doc = doc /\ q.tables = {}
      BY DocSetFields
    <3> HIDE DEF q
    <3>8. /\ pend' = pend /\ pend[c] = NoChange
          /\ db'.settings <=> db.settings
          /\ db'.rows = ApplyRows(db.rows, q)
          /\ db'.tables = db.tables \cup q.tables
          /\ db' \in DB
      BY Zenon, <3>1, <3>3, <3>6, <3>7, ExecPool
    <3>9. db'.rows = [i \in 1..Len(db.rows) |-> doc] /\ Len(db'.rows) = Len(db.rows)
      BY <3>4, <3>7, <3>8, ApplyRowsSet
    <3>10. db'.rows \in Seq(SUBSET Colls)
      BY Zenon, <3>8 DEF DB
    <3>11. doc \subseteq db'.tables /\ sess[c].coll \notin doc
      BY Zenon, <3>5, <3>7, <3>8 DEF doc
    <3>12. \A i \in DOMAIN db'.rows : db'.rows[i] = doc
      BY ZenonT(60), <3>9
    <3>13. s.op = "drop" /\ s.coll = sess[c].coll
      BY ZenonT(60), <3>1, <3>2 DEF SameBut, SameCommand
    <3> QED
      BY ZenonT(60), <3>1, <3>2, <3>8, <3>9, <3>10, <3>11, <3>12, <3>13, <2>DropStep

  <2>DropTableRecord.
    ASSUME NEW c \in Clients, DropTable(c)
    PROVE  RecordInv'
    <3> USE <2>DropTableRecord
    <3>1. sess[c].pc = "dropTable" /\ sess[c].op = "drop"
      BY Zenon, LabelOps DEF DropTable, Typed, DropLabels
    <3>2. PICK s : /\ Becomes(c, s) /\ s.pc = "idle" /\ s.op = "none"
                   /\ pend'[c] = NoChange /\ \A d \in Clients \ {c} : pend'[d] = pend[d]
      BY Zenon, FinishAs DEF DropTable
    <3>3. db \in DB /\ db.rows \in Seq(SUBSET Colls)
      BY Zenon, ClientFacts DEF DB
    <3>4. /\ db'.settings = db.settings /\ db'.rows = db.rows
          /\ db'.tables = db.tables \ {sess[c].coll}
      BY ZenonT(60), <3>3 DEF DropTable, DB
    <3>5. \A i \in DOMAIN db.rows : sess[c].coll \notin db.rows[i] /\ db.rows[i] \subseteq db.tables
      BY Zenon, <3>1, AloneFacts DEF RecordInv, CommittedInv, DropForgets, RowsHeld
    <3>6. \A i \in DOMAIN db'.rows : db'.rows[i] \subseteq db'.tables
      BY ZenonT(60), <3>4, <3>5
    <3> QED
      BY Zenon, <3>1, <3>2, <3>3, <3>4, <3>6, <2>DropStep

  \* DROP SCHEMA waits for whoever has read the settings document in a transaction.
  <2>DropsDatabaseRecord.
    ASSUME NEW c \in Clients, DropsDatabase(c)
    PROVE  RecordInv'
    <3> USE <2>DropsDatabaseRecord
    <3>1. sess[c].pc = "dropDatabase" /\ sess[c].op = "dropDatabase" /\ db' = EmptyDB
      BY ZenonT(60), LabelOps DEF DropsDatabase, Typed
    <3>2. PICK s : /\ Becomes(c, s) /\ s.pc = "idle" /\ s.op = "none"
                   /\ pend'[c] = NoChange /\ \A d \in Clients \ {c} : pend'[d] = pend[d]
      BY ZenonT(60), FinishAs DEF DropsDatabase
    <3>3. sess'[c] = s /\ \A d \in Clients \ {c} : sess'[d] = sess[d]
      BY Zenon, <3>2, BecomesAt
    <3>4. \A d \in Clients \ {c} : ~sess[d].settingsLock
      BY Zenon DEF DropsDatabase, SchemaLocked
    <3>5. \A d \in Clients \ {c} : sess[d].op # "update" /\ sess[d].op # "drop"
      BY ZenonT(60), <3>1 DEF RecordInv, ApartInv, DropAlone, UpdateApart
    <3>6. \A d \in Clients \ {c} : SessionInv(Held', pend[d], sess[d])
      <4> SUFFICES ASSUME NEW d \in Clients \ {c} PROVE SessionInv(Held', pend[d], sess[d])
        BY Zenon
      <4>1. SessionInv(Held, pend[d], sess[d])
        BY ZenonT(60), ClientFacts
      <4>2. pend[d].doc = {} /\ ~(InTx(sess[d].op) /\ sess[d].pc \in {"collUpdate", "nameUpdate"})
        BY ZenonT(60), <3>4, <4>1 DEF SessionInv, SettingsLocked
      <4>3. sess[d].pc \notin {"collUpdate", "nameUpdate", "dropUpdate"}
        BY ZenonT(60), <3>5, <4>2, LabelOps DEF Typed, InTx, CollLabels, NameLabels, DropLabels
      <4>4. DocHeld(Held', pend[d], sess[d]) /\ SeenHeld(Held', pend[d], sess[d])
        BY Zenon, <4>2, <4>3 DEF DocHeld, SeenHeld
      <4> QED
        BY ZenonT(60), <4>1, <4>4 DEF SessionInv
    <3>7. SessionInv(Held', NoChange, s)
      BY Zenon, <3>2, RestInv
    <3>8. \A d \in Clients : SessionInv(Held', pend'[d], sess'[d])
      BY Zenon, <3>2, <3>3, <3>6, <3>7
    <3>9. ApartInv'
      BY Zenon, <3>1, <3>2, <1>ApartKept
    <3>10. db'.rows = <<>>
      BY Zenon, <3>1 DEF EmptyDB
    <3>11. ~db'.settings
      BY Zenon, <3>1 DEF EmptyDB
    <3>12. RowsHeld' /\ OneRow' /\ NoRowsWithoutTable' /\ RowComes' /\ DropForgets'
      BY <3>10, <3>11 DEF RowsHeld, OneRow, NoRowsWithoutTable, RowComes, DropForgets
    <3>13. OneInserter' /\ UpdateHasSchema'
      BY ZenonT(60), <3>2, <3>3, <3>5 DEF OneInserter, UpdateHasSchema, Inserting
    <3>14. OneCreator'
      <4>1. ~pend'[c].settings
        BY Zenon, <3>2, NoChangeFields
      <4>2. \A d \in Clients : pend'[d].settings => pend[d].settings
        BY Zenon, <3>2, <4>1
      <4> QED
        BY Zenon, <3>11, <4>2 DEF RecordInv, CommittedInv, OneCreator
    <3> QED
      BY ZenonT(60), <3>8, <3>9, <3>12, <3>13, <3>14 DEF RecordInv, CommittedInv
  <2> QED
    BY Zenon, <2>UnrecordsRecord, <2>DropTableRecord, <2>DropsDatabaseRecord

<1>MakesRecord.
  ASSUME NEW c \in Clients, Makes(c)
  PROVE  RecordInv'
  <2> USE <1>MakesRecord
  <2>1. CASE InTx(sess[c].op)
    BY Zenon, <2>1, <1>RecordTx
  <2>2. CASE ~InTx(sess[c].op)
    <3>1. sess[c].op = "update"
      BY Zenon, <2>2, CreatesOnPool
    <3> QED
      BY Zenon, <3>1, <1>RecordPool
  <2> QED
    BY Zenon, <2>1, <2>2

<1>StepRecord.
  ASSUME NEW c \in Clients, Step(c)
  PROVE  RecordInv'
  <2> USE <1>StepRecord
  <2>1. StepShape(c)
    BY Zenon, StepHasShape
  <2> QED
    BY Zenon, <2>1, <1>RecordLocal, <1>MakesRecord, <1>RecordTx, <1>CommitRecord, <1>RecordDrop
       DEF StepShape, Makes
<1>1. CASE Next
  BY Zenon, <1>1, <1>RequestRecord, <1>StepRecord, <1>FaultRecord DEF Next
<1>2. CASE UNCHANGED vars
  BY ZenonT(60), <1>2 DEF vars, RecordInv, CommittedInv, ApartInv, RowsHeld, OneRow, NoRowsWithoutTable, RowComes,
              OneInserter, OneCreator, UpdateHasSchema, DropForgets, DropAlone, UpdateApart, Issued, Held
<1> QED
  BY Zenon, <1>1, <1>2

\* The tables are recorded.
LEMMA RecordInvariant ==
  ASSUME PoolApart
  PROVE  Spec => [](Typed /\ RecordInv)
<1>1. Init => Typed /\ RecordInv
  BY Zenon, TypedInit, RecordInit
<1>2. Typed /\ RecordInv /\ [Next]_vars => (Typed /\ RecordInv)'
  BY Zenon, TypedNext, RecordNext
<1> QED
  BY <1>1, <1>2, PTL DEF Spec

-----------------------------------------------------------------------------
(* The theorems.                                                           *)

\* A collection that the settings document records and that has no table is being
\* created by a CreateCollection that updated the document and runs CREATE TABLE
\* next (collections.go), for every number of clients and collections.
THEOREM RecordsCovered ==
  ASSUME PoolApart
  PROVE  Spec => []RecordCovered
<1>1. RecordInv => RecordCovered
  <2> SUFFICES ASSUME RecordInv, NEW i \in DOMAIN db.rows, NEW l \in db.rows[i] \ db.tables
               PROVE  \E c \in Clients :
                        sess[c].coll = l /\ sess[c].pc \in {"collTable", "collTableWait"}
    BY Zenon DEF RecordCovered
  <2>1. l \in Held
    BY Zenon DEF RecordInv, CommittedInv, RowsHeld
  <2> QED
    BY Zenon, <2>1 DEF Held, Creating
<1> QED
  BY <1>1, RecordInvariant, PTL

\* A collection that the settings document records has its table whenever no update
\* is creating one on the pool: CollectionExists and getTableName never lead to a
\* table that is missing.
THEOREM RecordsHaveTables ==
  ASSUME PoolApart
  PROVE  Spec => []RecordHasTable
<1>1. RecordInv => RecordHasTable
  <2> SUFFICES ASSUME RecordInv, Settled, NEW i \in DOMAIN db.rows
               PROVE  db.rows[i] \subseteq db.tables
    BY Zenon DEF RecordHasTable
  <2>1. Held = db.tables
    BY Zenon DEF Held, Creating, Settled
  <2> QED
    BY Zenon, <2>1 DEF RecordInv, CommittedInv, RowsHeld
<1> QED
  BY <1>1, RecordInvariant, PTL

\* createSettingsTable leaves a settings table of exactly one document, although the
\* check for the table, its creation and the insertion of the row are three
\* statements and many commands run them at the same time.
THEOREM SettingsHaveOneRow ==
  ASSUME PoolApart
  PROVE  Spec => []SettingsSingleRow
<1>1. Typed /\ RecordInv => SettingsSingleRow
  <2> SUFFICES ASSUME Typed, RecordInv, Settled, db.settings
               PROVE  Len(db.rows) = 1
    BY Zenon DEF SettingsSingleRow
  <2>1. db.rows # <<>>
    BY Zenon DEF RecordInv, CommittedInv, RowComes, Inserting, Settled
  <2>2. db.rows \in Seq(SUBSET Colls)
    BY Zenon DEF Typed, TypeOK, DB
  <2>3. Len(db.rows) <= 1
    BY Zenon DEF RecordInv, CommittedInv, OneRow
  <2> QED
    <3>1. Len(db.rows) = 0 => db.rows = <<>>
      BY <2>2
    <3>2. Len(db.rows) \in Nat
      BY <2>2
    <3>3. Len(db.rows) # 0
      BY Zenon, <2>1, <3>1
    <3>4. \A n \in Nat : n <= 1 /\ n # 0 => n = 1
      OBVIOUS
    <3> QED
      BY Zenon, <2>3, <3>2, <3>3, <3>4
<1> QED
  BY <1>1, RecordInvariant, PTL
=============================================================================
