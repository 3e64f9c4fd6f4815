------------------------- MODULE CatalogReadProofs -------------------------
(***************************************************************************)
(* What clients see of the catalog: a proof that an acknowledged document  *)
(* can be read back (AckedReadable), and that the commands, each of many   *)
(* SQL statements, behave as the single steps of Namespace on the set of   *)
(* collections and documents (RefinesNamespace).                           *)
(*                                                                         *)
(* Both need more than PoolApart: commands that run at the same time work  *)
(* on one collection, and the statements of a drop do not fail (Together). *)
(* The inductive invariant ReadInv says that what a command has read of    *)
(* the settings document is still what a statement would read, but for     *)
(* the collection that all of them record.                                 *)
(***************************************************************************)
EXTENDS CatalogRecordProofs

\* The limits on the workload.  updateSettingsTable writes back a document that was
\* read before, which loses the record of another collection (CatalogLost).
Together ==
  /\ PoolApart
  /\ ~Spread
  /\ "drop" \in Ops => "drop" \notin Faults

-----------------------------------------------------------------------------
(* The inductive invariant.                                                *)

\* The settings document that a transaction with change p sees in d.
HasDoc(d, p) == p.row \/ d.rows # <<>>
Doc(d, p) == IF p.n # 0 THEN p.doc ELSE IF p.row THEN {} ELSE d.rows[1]

\* What a command has read and writes back is what it would read now, ...
SeenCurrent(d, p, s) ==
  s.pc \in {"collUpdate", "nameUpdate"}
    => HasDoc(d, p) /\ Doc(d, p) \cup {s.coll} = s.seen \cup {s.coll}

\* ... and what a transaction has written is the committed document with its
\* collection.
DocCurrent(d, p, s) ==
  p.n # 0 => /\ HasDoc(d, p) /\ s.coll \in p.doc
             /\ d.rows # <<>> => p.doc = d.rows[1] \cup {s.coll}

\* A transaction creates at most the table of its collection, once it is recorded.
OwnTable(p, s) ==
  /\ p.tables \subseteq {s.coll}
  /\ p.tables # {} => p.n # 0 /\ s.op \in {"create", "insert"}
  /\ InTx(s.op) /\ s.pc \in {"collTable", "collTableWait"} => p.n # 0

\* An insert that is about to commit has stored its document in a table it locks.
OwnDocs(d, p, s, c) ==
  IF s.op = "insert" /\ s.pc = "commit"
  THEN p.docs = {<<s.coll, c>>} /\ s.coll \in d.tables \cup p.tables /\ s.tableLocks # {}
  ELSE p.docs = {}

\* An update on the pool has recorded the collection whose table it creates.
CreatingRecorded(d, s) == Creating(s) => d.rows # <<>> /\ s.coll \in d.rows[1]

\* A drop, alone, has read the current document and found the collection there.
DropKnows(d, s) ==
  /\ s.pc \in {"dropSettings", "dropUpdate"} => s.coll \in d.tables
  /\ s.pc = "dropUpdate" => d.rows # <<>> /\ s.seen = d.rows[1]

ReadSession(d, p, s, c) ==
  /\ SeenCurrent(d, p, s) /\ DocCurrent(d, p, s)
  /\ OwnTable(p, s) /\ OwnDocs(d, p, s, c)
  /\ CreatingRecorded(d, s) /\ DropKnows(d, s)

OneColl ==
  \A c, d \in Clients : sess[c].pc # "idle" /\ sess[d].pc # "idle" => sess[c].coll = sess[d].coll

\* A table is recorded, or DROP TABLE comes next.
Found ==
  \A l \in db.tables :
    \/ db.rows # <<>> /\ l \in db.rows[1]
    \/ \E c \in Clients : sess[c].pc = "dropTable" /\ sess[c].coll = l

Stored == acked \subseteq db.docs /\ \A x \in db.docs : x[1] \in db.tables

ReadInv ==
  /\ OneColl /\ Found /\ Stored
  /\ \A c \in Clients : ReadSession(db, pend[c], sess[c], c)

-----------------------------------------------------------------------------
(* Parts of a step.                                                        *)

\* A session that starts, ends or has no transaction under way.
LEMMA RestRead ==
  ASSUME NEW d, NEW s, NEW c,
         s.pc \notin {"collUpdate", "nameUpdate", "collTable", "collTableWait", "commit",
                      "dropSettings", "dropUpdate"}
  PROVE  ReadSession(d, NoChange, s, c)
BY Zenon, NoChangeFields DEF ReadSession, SeenCurrent, DocCurrent, OwnTable, OwnDocs, CreatingRecorded,
                      DropKnows, Creating

\* A statement sees one row at most, and it is the document of the transaction.
LEMMA ViewDoc ==
  ASSUME Typed, RecordInv, NEW c \in Clients
  PROVE  /\ HasDoc(db, pend[c]) => /\ View(c).rows # <<>> /\ DOMAIN View(c).rows = {1}
                                   /\ Len(View(c).rows) = 1
                                   /\ View(c).rows[1] = Doc(db, pend[c])
         /\ ~HasDoc(db, pend[c]) => View(c).rows = <<>>
         /\ pend[c].row => db.rows = <<>>
<1>1. db \in DB /\ pend[c] \in Change /\ SessionInv(Held, pend[c], sess[c])
  BY Zenon, ClientFacts
<1>2. db.rows \in Seq(SUBSET Colls) /\ pend[c].n \in Nat
  BY Zenon, <1>1 DEF DB, Change
<1>3. View(c).rows = ApplyRows(db.rows, pend[c])
  BY Zenon, ViewFields
<1>4. pend[c].row => db.rows = <<>>
  BY Zenon, <1>1 DEF SessionInv, CreatorInserts, RecordInv, CommittedInv, OneCreator, NoRowsWithoutTable
<1>5. ASSUME pend[c].row
      PROVE  View(c).rows = [i \in 1..1 |-> IF i <= pend[c].n THEN pend[c].doc ELSE {}]
  <2>1. View(c).rows = [i \in 1..Len(Append(<<>>, {})) |->
                          IF i <= pend[c].n THEN pend[c].doc ELSE Append(<<>>, {})[i]]
    BY Zenon, <1>3, <1>4, <1>5 DEF ApplyRows
  <2>2. Len(Append(<<>>, {})) = 1 /\ Append(<<>>, {})[1] = {}
    OBVIOUS
  <2> QED
    BY <2>1, <2>2
<1>6. ASSUME ~pend[c].row
      PROVE  View(c).rows = [i \in 1..Len(db.rows) |-> IF i <= pend[c].n THEN pend[c].doc ELSE db.rows[i]]
  BY Zenon, <1>3, <1>6 DEF ApplyRows
<1>7. db.rows # <<>> => Len(db.rows) = 1
  <2> SUFFICES ASSUME db.rows # <<>> PROVE Len(db.rows) = 1
    BY Zenon
  <2>1. Len(db.rows) \in Nat \ {0}
    BY Zenon, <1>2, NonEmptyRows
  <2>2. Len(db.rows) <= 1
    BY Zenon DEF RecordInv, CommittedInv, OneRow
  <2>3. \A n \in Nat \ {0} : n <= 1 => n = 1
    OBVIOUS
  <2> QED
    BY Zenon, <2>1, <2>2, <2>3
<1>8. ~HasDoc(db, pend[c]) => View(c).rows = <<>>
  BY <1>6 DEF HasDoc
<1>9. ASSUME HasDoc(db, pend[c])
      PROVE  View(c).rows = [i \in 1..1 |-> Doc(db, pend[c])]
  <2>1. CASE pend[c].row
    <3>1. 1 <= pend[c].n <=> pend[c].n # 0
      BY <1>2
    <3>2. (IF 1 <= pend[c].n THEN pend[c].doc ELSE {}) = Doc(db, pend[c])
      BY Zenon, <2>1, <3>1 DEF Doc
    <3> QED
      BY <1>5, <2>1, <3>2
  <2>2. CASE ~pend[c].row
    <3>1. Len(db.rows) = 1
      BY Zenon, <1>7, <1>9, <2>2 DEF HasDoc
    <3> QED
      BY <1>2, <1>6, <2>2, <3>1 DEF Doc
  <2> QED
    BY Zenon, <2>1, <2>2
<1>10. ASSUME HasDoc(db, pend[c])
       PROVE  /\ View(c).rows # <<>> /\ DOMAIN View(c).rows = {1}
              /\ Len(View(c).rows) = 1 /\ View(c).rows[1] = Doc(db, pend[c])
  BY <1>9, <1>10
<1> QED
  BY Zenon, <1>4, <1>8, <1>10

\* The catalog grows: rows and tables stay, and only l is recorded in addition.
Grown(l) ==
  /\ db.tables \subseteq db'.tables
  /\ db.rows # <<>> => /\ db'.rows # <<>>
                       /\ db.rows[1] \subseteq db'.rows[1]
                       /\ db'.rows[1] \subseteq db.rows[1] \cup {l}

\* Changes m and p write the same rows, tables and documents.
SameWrites(m, p) ==
  (m.row <=> p.row) /\ SameDoc(m, p) /\ m.tables = p.tables /\ m.docs = p.docs

-----------------------------------------------------------------------------
(* The end of a transaction.                                               *)

\* COMMIT adds to the catalog, and only what the transaction recorded.
LEMMA CommitGrows ==
  ASSUME Typed, RecordInv, ReadInv, NEW c \in Clients, sess[c].pc = "commit", InTx(sess[c].op),
         db' = Apply(db, pend[c])
  PROVE  /\ Grown(sess[c].coll)
         /\ db.rows = <<>> /\ db'.rows # <<>> => \A d \in Clients \ {c} : ~pend[d].row
         /\ \A l \in db'.tables \ db.tables : db'.rows # <<>> /\ l \in db'.rows[1]
         /\ db'.tables = db.tables \cup pend[c].tables
         /\ db'.docs = db.docs \cup pend[c].docs
<1>1. /\ db \in DB /\ pend[c] \in Change /\ ReadSession(db, pend[c], sess[c], c)
  BY Zenon, ClientFacts DEF ReadInv
<1>2. /\ db'.rows = View(c).rows
      /\ db'.tables = db.tables \cup pend[c].tables
      /\ db'.docs = db.docs \cup pend[c].docs
  BY Zenon, <1>1, ApplyFields DEF View
<1>3. ASSUME db.rows # <<>>
      PROVE  /\ db'.rows # <<>> /\ db.rows[1] \subseteq db'.rows[1]
             /\ db'.rows[1] \subseteq db.rows[1] \cup {sess[c].coll}
  <2>1. HasDoc(db, pend[c]) /\ ~pend[c].row
    BY Zenon, <1>3, ViewDoc DEF HasDoc
  <2>2. db'.rows # <<>> /\ db'.rows[1] = Doc(db, pend[c])
    BY Zenon, <1>2, <2>1, ViewDoc
  <2>3. CASE pend[c].n = 0
    BY Zenon, <2>1, <2>2, <2>3 DEF Doc
  <2>4. CASE pend[c].n # 0
    <3>1. pend[c].doc = db.rows[1] \cup {sess[c].coll}
      BY Zenon, <1>1, <1>3, <2>4 DEF ReadSession, DocCurrent
    <3> QED
      BY Zenon, <2>2, <2>4, <3>1 DEF Doc
  <2> QED
    BY Zenon, <2>3, <2>4
<1>4. ASSUME db.rows = <<>>, db'.rows # <<>>
      PROVE  \A d \in Clients \ {c} : ~pend[d].row
  <2> TAKE d \in Clients \ {c}
  <2>1. pend[c].row
    BY Zenon, <1>2, <1>4, ViewDoc DEF HasDoc
  <2>2. pend[c].settings
    BY Zenon, <2>1, ClientFacts DEF SessionInv, CreatorInserts
  <2>3. ~pend[d].settings
    BY Zenon, <2>2 DEF RecordInv, CommittedInv, OneCreator
  <2> QED
    BY Zenon, <2>3, ClientFacts DEF SessionInv, CreatorInserts
<1>5. ASSUME NEW l \in db'.tables \ db.tables
      PROVE  db'.rows # <<>> /\ l \in db'.rows[1]
  <2>1. l = sess[c].coll /\ pend[c].n # 0
    BY Zenon, <1>1, <1>2 DEF ReadSession, OwnTable
  <2>2. HasDoc(db, pend[c]) /\ l \in Doc(db, pend[c])
    BY Zenon, <1>1, <2>1 DEF ReadSession, DocCurrent, Doc
  <2> QED
    BY Zenon, <1>2, <2>2, ViewDoc
<1> QED
  BY Zenon, <1>2, <1>3, <1>4, <1>5 DEF Grown

\* What a commit adds to the acknowledged documents is what it stores.
LEMMA CommitAcks ==
  ASSUME Typed, RecordInv, ReadInv, NEW c \in Clients, Commit(c)
  PROVE  \/ acked' = acked
         \/ /\ sess[c].op = "insert" /\ acked' = acked \cup {<<sess[c].coll, c>>}
            /\ pend[c].docs = {<<sess[c].coll, c>>}
<1>1. sess[c].pc = "commit" /\ ReadSession(db, pend[c], sess[c], c)
  BY Zenon DEF Commit, ReadInv
<1>2. CASE sess[c].op = "insert"
  <2>1. pend[c].docs = {<<sess[c].coll, c>>}
    BY Zenon, <1>1, <1>2 DEF ReadSession, OwnDocs
  <2>2. acked' = acked \/ acked' = acked \cup {<<sess[c].coll, c>>}
    BY Zenon, <1>2 DEF Commit, Committed
  <2> QED
    BY Zenon, <1>2, <2>1, <2>2
<1>3. CASE sess[c].op # "insert"
  <2>1. acked' = acked \/ acked' = acked \cup {}
    BY ZenonT(60), <1>3 DEF Commit, Committed
  <2> QED
    BY Zenon, <2>1
<1> QED
  BY Zenon, <1>2, <1>3

-----------------------------------------------------------------------------
(* drop and dropDatabase.                                                  *)

\* The UPDATE of a drop takes the one collection out of the settings document.
LEMMA UnrecordsFacts ==
  ASSUME Typed, RecordInv, ReadInv, NEW c \in Clients, Unrecords(c)
  PROVE  /\ sess[c].pc = "dropUpdate" /\ sess[c].op = "drop" /\ sess[c].coll \in db.tables
         /\ db.rows # <<>> /\ db'.rows # <<>> /\ db'.rows[1] = db.rows[1] \ {sess[c].coll}
         /\ db'.tables = db.tables /\ db'.docs = db.docs
         /\ pend' = pend /\ acked' = acked
         /\ Len(db'.rows) = Len(db.rows)
<1> DEFINE doc == sess[c].seen \ {sess[c].coll}
           q == DocSet(Len(db.rows), doc)
<1>1. sess[c].pc = "dropUpdate" /\ sess[c].op = "drop" /\ ~InTx(sess[c].op) /\ acked' = acked
  BY Zenon, LabelOps DEF Unrecords, Typed, DropLabels, InTx
<1>2. Exec(c, q)
  BY Zenon, <1>1, PoolView DEF Unrecords
<1>3. db.rows \in Seq(SUBSET Colls)
  BY Zenon, ClientFacts DEF DB
<1>4. db.rows # <<>> /\ sess[c].seen = db.rows[1] /\ sess[c].coll \in db.tables
  BY Zenon, <1>1 DEF ReadInv, ReadSession, DropKnows
<1>5. sess[c].seen \in SUBSET Colls
  BY Zenon, ClientFacts DEF Session
<1>6. q \in Change
  BY <1>3, <1>5, ChangesTyped
<1>7. doc = db.rows[1] \ {sess[c].coll}
  BY Zenon, <1>4
<1> HIDE DEF doc
<1>8. ~q.row /\ q.n = Len(db.rows) /\ q.doc = doc /\ q.tables = {} /\ q.docs = {}
  BY DocSetFields
<1> HIDE DEF q
<1>9. /\ pend' = pend
      /\ db'.rows = ApplyRows(db.rows, q)
      /\ db'.tables = db.tables \cup q.tables
      /\ db'.docs = db.docs \cup q.docs
  BY Zenon, <1>1, <1>2, <1>6, ExecPool
<1>10. db'.rows = [i \in 1..Len(db.rows) |-> doc] /\ Len(db'.rows) = Len(db.rows)
  BY <1>3, <1>8, <1>9, ApplyRowsSet
<1>11. db'.rows # <<>> /\ db'.rows[1] = doc
  <2>1. Len(db.rows) \in Nat \ {0}
    BY Zenon, <1>3, <1>4, NonEmptyRows
  <2>2. 1 \in 1..Len(db.rows)
    BY <2>1
  <2> QED
    BY <1>10, <2>2
<1> QED
  BY Zenon, <1>1, <1>4, <1>7, <1>8, <1>9, <1>10, <1>11

-----------------------------------------------------------------------------
\* ReadInv holds initially.
LEMMA ReadInit ==
  ASSUME Init
  PROVE  ReadInv
<1>1. \A c \in Clients : pend[c] = NoChange /\ sess[c].pc = "idle"
  BY Zenon DEF Init, Idle
<1>2. \A c \in Clients : ReadSession(db, pend[c], sess[c], c)
  BY Zenon, <1>1, RestRead
<1>3. OneColl /\ Found /\ Stored
  BY Zenon, <1>1 DEF Init, OneColl, Found, Stored, EmptyDB
<1> QED
  BY Zenon, <1>2, <1>3 DEF ReadInv

\* ReadInv is kept by every step, when commands stay together.
LEMMA ReadNext ==
  ASSUME Typed, RecordInv, ReadInv, Together, [Next]_vars
  PROVE  ReadInv'

<1>IdleRead.
  ASSUME NEW d, NEW c \in Clients, sess[c].pc = "idle"
  PROVE  pend[c] = NoChange /\ ReadSession(d, pend[c], sess[c], c)
  <2> USE <1>IdleRead
  <2>1. pend[c] = NoChange
    BY Zenon, ClientFacts, PoolView DEF InTx
  <2> QED
    BY Zenon, <2>1, RestRead

\* What another command has read stays current: it works on the same collection, and
\* it is not the one that creates the row.
<1>OthersRead.
  ASSUME NEW c \in Clients, sess[c].pc # "idle", sess[c].op # "drop",
         Grown(sess[c].coll), NEW d \in Clients \ {c},
         db.rows = <<>> /\ db'.rows # <<>> => ~pend[d].row
  PROVE  ReadSession(db', pend[d], sess[d], d)
  <2> USE <1>OthersRead
  <2>1. CASE sess[d].pc = "idle"
    BY Zenon, <2>1, <1>IdleRead
  <2>2. CASE sess[d].pc # "idle"
    <3> DEFINE p == pend[d]
               s == sess[d]
    <3>1. s.coll = sess[c].coll /\ ReadSession(db, p, s, d)
      BY Zenon, <2>2 DEF ReadInv, OneColl
    <3>2. s.op # "drop"
      BY Zenon DEF RecordInv, ApartInv, DropAlone
    <3>3. s.pc \notin {"dropSettings", "dropUpdate"}
      BY Zenon, <3>2, LabelOps DEF Typed, DropLabels
    <3>4. p.row => db.rows = <<>>
      BY Zenon, ViewDoc
    <3> HIDE DEF p, s
    <3>5. HasDoc(db, p) => HasDoc(db', p) /\ Doc(db, p) \cup {s.coll} = Doc(db', p) \cup {s.coll}
      <4>1. HasDoc(db, p) => HasDoc(db', p)
        BY Zenon DEF HasDoc, Grown
      <4>2. CASE p.n # 0
        BY Zenon, <4>1, <4>2 DEF Doc
      <4>3. CASE p.n = 0 /\ p.row
        BY Zenon, <4>1, <4>3 DEF Doc
      <4>4. CASE p.n = 0 /\ ~p.row
        BY Zenon, <3>1, <4>1, <4>4 DEF Doc, HasDoc, Grown
      <4> QED
        BY Zenon, <4>2, <4>3, <4>4
    <3>6. SeenCurrent(db', p, s)
      BY Zenon, <3>1, <3>5 DEF ReadSession, SeenCurrent
    <3>7. DocCurrent(db', p, s)
      <4> SUFFICES ASSUME p.n # 0 PROVE DocCurrent(db', p, s)
        BY Zenon DEF DocCurrent
      <4>1. /\ HasDoc(db, p) /\ s.coll \in p.doc
            /\ db.rows # <<>> => p.doc = db.rows[1] \cup {s.coll}
        BY Zenon, <3>1 DEF ReadSession, DocCurrent
      <4>2. HasDoc(db', p)
        BY Zenon, <3>5, <4>1
      <4>3. db'.rows # <<>> => p.doc = db'.rows[1] \cup {s.coll}
        <5>1. db'.rows # <<>> => db.rows # <<>>
          BY Zenon, <4>1 DEF HasDoc, p
        <5> QED
          BY Zenon, <3>1, <4>1, <5>1 DEF Grown
      <4> QED
        BY Zenon, <4>1, <4>2, <4>3 DEF DocCurrent
    <3>8. OwnTable(p, s) /\ OwnDocs(db', p, s, d)
      BY Zenon, <3>1 DEF ReadSession, OwnTable, OwnDocs, Grown
    <3>9. CreatingRecorded(db', s)
      BY Zenon, <3>1 DEF ReadSession, CreatingRecorded, Grown
    <3>10. DropKnows(db', s)
      BY Zenon, <3>3 DEF DropKnows
    <3>11. ReadSession(db', p, s, d)
      BY Zenon, <3>6, <3>7, <3>8, <3>9, <3>10 DEF ReadSession
    <3> QED
      BY Zenon, <3>11 DEF p, s
  <2> QED
    BY Zenon, <2>1, <2>2

<1>OneCollKept.
  ASSUME NEW c \in Clients, NEW s, Becomes(c, s),
         s.pc # "idle" => \/ sess[c].pc # "idle" /\ s.coll = sess[c].coll
                          \/ \A d \in Clients \ {c} : sess[d].pc # "idle" => sess[d].coll = s.coll
  PROVE  OneColl'
  <2> USE <1>OneCollKept
  <2>1. sess'[c] = s /\ \A d \in Clients \ {c} : sess'[d] = sess[d]
    BY Zenon, BecomesAt
  <2>2. OneColl
    BY Zenon DEF ReadInv
  <2> QED
    BY <2>1, <2>2 DEF OneColl

\* A step that leaves the database as it is.
<1>LocalRead.
  ASSUME NEW c \in Clients, NEW s, Becomes(c, s), sess[c].pc # "dropTable",
         s.pc # "idle" => \/ sess[c].pc # "idle" /\ s.coll = sess[c].coll
                          \/ \A d \in Clients \ {c} : sess[d].pc # "idle" => sess[d].coll = s.coll,
         db' = db, acked' = acked, \A d \in Clients \ {c} : pend'[d] = pend[d],
         ReadSession(db, pend'[c], s, c)
  PROVE  ReadInv'
  <2> USE <1>LocalRead
  <2>1. sess'[c] = s /\ \A d \in Clients \ {c} : sess'[d] = sess[d]
    BY Zenon, BecomesAt
  <2>2. OneColl'
    BY Zenon, <1>OneCollKept
  <2>3. Found /\ Stored /\ \A d \in Clients : ReadSession(db, pend[d], sess[d], d)
    BY Zenon DEF ReadInv
  <2>4. Found'
    BY <2>1, <2>3 DEF Found
  <2>5. Stored'
    BY Zenon, <2>3 DEF Stored
  <2>6. \A d \in Clients : ReadSession(db', pend'[d], sess'[d], d)
    BY Zenon, <2>1, <2>3
  <2> QED
    BY Zenon, <2>2, <2>4, <2>5, <2>6 DEF ReadInv

\* A step that lets the database grow.
<1>GrowStep.
  ASSUME NEW c \in Clients, NEW s, Becomes(c, s),
         sess[c].pc # "idle", sess[c].op # "drop",
         s.pc # "idle" => s.coll = sess[c].coll,
         Grown(sess[c].coll),
         db.rows = <<>> /\ db'.rows # <<>> => \A d \in Clients \ {c} : ~pend[d].row,
         \A l \in db'.tables \ db.tables : db'.rows # <<>> /\ l \in db'.rows[1],
         \A x \in db'.docs \ db.docs : x[1] \in db'.tables,
         acked' \subseteq db'.docs,
         \A d \in Clients \ {c} : pend'[d] = pend[d],
         ReadSession(db', pend'[c], s, c)
  PROVE  ReadInv'
  <2> USE <1>GrowStep
  <2>1. sess'[c] = s /\ \A d \in Clients \ {c} : sess'[d] = sess[d]
    BY Zenon, BecomesAt
  <2>2. OneColl'
    BY Zenon, <1>OneCollKept
  <2>3. Found /\ Stored
    BY Zenon DEF ReadInv
  <2>4. \A d \in Clients : sess[d].pc # "dropTable"
    BY Zenon, LabelOps DEF Typed, DropLabels, RecordInv, ApartInv, DropAlone
  <2>5. Found'
    BY Zenon, <2>3, <2>4 DEF Found, Grown
  <2>6. Stored'
    BY Zenon, <2>3 DEF Stored, Grown
  <2>7. \A d \in Clients \ {c} : ReadSession(db', pend'[d], sess'[d], d)
    <3> TAKE d \in Clients \ {c}
    <3>1. ReadSession(db', pend[d], sess[d], d)
      BY Zenon, <1>OthersRead
    <3> QED
      BY Zenon, <2>1, <3>1
  <2> QED
    BY Zenon, <2>1, <2>2, <2>5, <2>6, <2>7 DEF ReadInv

<1>EndRead.
  ASSUME NEW c \in Clients, NEW r, Finish(c, r),
         UNCHANGED <<db, acked>>, sess[c].pc # "dropTable"
  PROVE  ReadInv'
  <2> USE <1>EndRead
  <2>1. PICK s : /\ Becomes(c, s) /\ s.pc = "idle" /\ s.op = "none"
                 /\ pend'[c] = NoChange /\ \A d \in Clients \ {c} : pend'[d] = pend[d]
    BY Zenon, FinishAs
  <2>2. ReadSession(db, pend'[c], s, c)
    BY Zenon, <2>1, RestRead
  <2> QED
    BY Zenon, <2>1, <2>2, <1>LocalRead

\* The statements of a drop do not fail.
<1>FaultRead.
  ASSUME NEW c \in Clients, Fault(c)
  PROVE  ReadInv'
  <2> USE <1>FaultRead
  <2>1. sess[c].op \in Faults /\ Finish(c, "error") /\ UNCHANGED <<db, acked>>
    BY Zenon DEF Fault, Fail
  <2>2. sess[c].op # "drop"
    BY Zenon, <2>1 DEF Together, RecordInv, ApartInv, Issued
  <2>3. sess[c].pc # "dropTable"
    BY Zenon, <2>2, LabelOps DEF Typed, DropLabels
  <2> QED
    BY Zenon, <2>1, <2>3, <1>EndRead

\* A command starts on the collection that the running ones work on.
<1>RequestRead.
  ASSUME Together,
         NEW c \in Clients, NEW o \in Ops, NEW l \in Colls, Request(c, o, l)
  PROVE  ReadInv'
  <2> USE <1>RequestRead
  <2> DEFINE s == [Idle EXCEPT !.op = o, !.coll = l, !.pc = Start(o)]
  <2>1. s.coll = l /\ s.pc = Start(o)
    BY Zenon DEF Idle
  <2>2. s.pc \in {"createSchema", "dropSchemaCheck", "dropDatabase", "nameSchema", "existsSchema"}
    BY Zenon, <2>1 DEF Start
  <2>3. Becomes(c, s) /\ UNCHANGED <<db, pend, acked>> /\ sess[c].pc = "idle"
    BY Zenon DEF Request, Becomes
  <2> HIDE DEF s
  <2>4. \A d \in Clients \ {c} : sess[d].pc # "idle" => sess[d].coll = s.coll
    BY Zenon, <2>1 DEF Request, MayStart, Together
  <2>5. pend[c] = NoChange
    BY Zenon, <2>3, <1>IdleRead
  <2>6. ReadSession(db, pend'[c], s, c)
    BY Zenon, <2>2, <2>3, <2>5, RestRead
  <2> QED
    BY Zenon, <2>3, <2>4, <2>6, <1>LocalRead

<1>CommitRead.
  ASSUME NEW c \in Clients, Commit(c)
  PROVE  ReadInv'
  <2> USE <1>CommitRead
  <2>1. sess[c].pc = "commit" /\ InTx(sess[c].op) /\ db' = Apply(db, pend[c])
    BY Zenon, CommitAs
  <2>2. PICK s : /\ Becomes(c, s) /\ s.pc \in {"idle", "existsSchema", "nameSchema"}
                 /\ s.pc # "idle" => s.coll = sess[c].coll
                 /\ pend'[c] = NoChange /\ \A d \in Clients \ {c} : pend'[d] = pend[d]
    BY Zenon, CommitAs
  <2>3. /\ Grown(sess[c].coll)
        /\ db.rows = <<>> /\ db'.rows # <<>> => \A d \in Clients \ {c} : ~pend[d].row
        /\ \A l \in db'.tables \ db.tables : db'.rows # <<>> /\ l \in db'.rows[1]
        /\ db'.tables = db.tables \cup pend[c].tables
        /\ db'.docs = db.docs \cup pend[c].docs
    BY Zenon, <2>1, CommitGrows
  <2>4. ReadSession(db', pend'[c], s, c)
    BY Zenon, <2>2, RestRead
  <2>5. ReadSession(db, pend[c], sess[c], c) /\ Stored
    BY Zenon DEF ReadInv
  <2>6. acked' \subseteq db'.docs
    BY Zenon, <2>3, <2>5, CommitAcks DEF Stored
  <2>7. \A x \in db'.docs \ db.docs : x[1] \in db'.tables
    BY <2>3, <2>5 DEF ReadSession, OwnDocs
  <2>8. sess[c].op # "drop"
    BY Zenon, <2>1 DEF InTx
  <2> QED
    BY Zenon, <2>1, <2>2, <2>3, <2>4, <2>6, <2>7, <2>8, <1>GrowStep

<1>ReadLocal.
  \A c \in Clients : Stops(c) \/ GoesOn(c) \/ Moves(c) \/ Reads(c) => ReadInv'

  <2>StopsRead.
    ASSUME NEW c \in Clients, Stops(c)
    PROVE  ReadInv'
    BY Zenon, <2>StopsRead, <1>EndRead DEF Stops, StopOK

  <2>GoesOnRead.
    ASSUME NEW c \in Clients, GoesOn(c)
    PROVE  ReadInv'
    <3> USE <2>GoesOnRead
    <3>1. PICK s : /\ Becomes(c, s) /\ s.pc \in {"existsSchema", "nameSchema"}
                   /\ s.op = "updateFind" /\ s.coll = sess[c].coll
                   /\ pend'[c] = NoChange /\ \A d \in Clients \ {c} : pend'[d] = pend[d]
      BY Zenon, PhaseAs DEF GoesOn
    <3>2. ReadSession(db, pend'[c], s, c)
      BY Zenon, <3>1, RestRead
    <3>3. db' = db /\ acked' = acked /\ sess[c].pc # "idle" /\ sess[c].pc # "dropTable"
      BY Zenon DEF GoesOn
    <3> QED
      BY Zenon, <3>1, <3>2, <3>3, <1>LocalRead

  <2>MovesRead.
    ASSUME NEW c \in Clients, Moves(c)
    PROVE  ReadInv'
    <3> USE <2>MovesRead
    <3>1. PICK s : Becomes(c, s) /\ SameBut(s, sess[c]) /\ MoveOK(c, s.pc)
      BY Zenon DEF Moves
    <3>2. db' = db /\ pend' = pend /\ acked' = acked
      BY Zenon DEF Moves
    <3>3. ReadSession(db, pend[c], sess[c], c)
      BY Zenon DEF ReadInv
    <3>4. s.op = sess[c].op /\ s.coll = sess[c].coll /\ s.tableLocks = sess[c].tableLocks
      BY Zenon, <3>1 DEF SameBut, SameCommand
    <3>5. /\ s.pc \notin {"collUpdate", "nameUpdate", "collTable", "dropUpdate"}
          /\ sess[c].pc \notin {"idle", "commit", "dropTable"}
          /\ s.pc = "commit" => s.op # "insert"
          /\ s.pc = "collTableWait" => sess[c].pc = "collTable"
          /\ s.pc = "dropSettings" => s.coll \in db.tables
      BY Zenon, <3>1, <3>4 DEF MoveOK
    <3>6. SeenCurrent(db, pend[c], s) /\ DocCurrent(db, pend[c], s)
      BY Zenon, <3>3, <3>4, <3>5 DEF ReadSession, SeenCurrent, DocCurrent
    <3>7. OwnTable(pend[c], s) /\ OwnDocs(db, pend[c], s, c)
      BY Zenon, <3>3, <3>4, <3>5 DEF ReadSession, OwnTable, OwnDocs
    <3>8. CreatingRecorded(db, s) /\ DropKnows(db, s)
      BY Zenon, <3>3, <3>4, <3>5 DEF ReadSession, CreatingRecorded, DropKnows, Creating
    <3>9. ReadSession(db, pend'[c], s, c)
      BY Zenon, <3>2, <3>6, <3>7, <3>8 DEF ReadSession
    <3> QED
      BY Zenon, <3>1, <3>2, <3>4, <3>5, <3>9, <1>LocalRead

  <2>ReadsRead.
    ASSUME NEW c \in Clients, Reads(c)
    PROVE  ReadInv'
    <3> USE <2>ReadsRead
    <3>1. PICK i, s : i \in DOMAIN View(c).rows /\ Becomes(c, s) /\ ReadOK(c, i, s)
      BY Zenon DEF Reads
    <3>2. db' = db /\ pend' = pend /\ acked' = acked
      BY Zenon DEF Reads
    <3>3. /\ sess[c].pc \in {"existsSettings", "collSettings", "nameSettings", "dropSettings"}
          /\ s.seen = View(c).rows[i]
          /\ s.op = sess[c].op /\ s.coll = sess[c].coll
          /\ s.pc \notin {"collTable", "collTableWait", "dropSettings"}
          /\ s.pc = "dropUpdate" => sess[c].pc = "dropSettings"
          /\ s.pc = "commit" => s.op # "insert"
      BY Zenon, <3>1 DEF ReadOK, SameCommand
    <3>4. ReadSession(db, pend[c], sess[c], c)
      BY Zenon DEF ReadInv
    <3>5. HasDoc(db, pend[c]) /\ s.seen = Doc(db, pend[c])
      <4>1. View(c).rows # <<>>
        BY <3>1
      <4>2. HasDoc(db, pend[c])
        BY Zenon, <4>1, ViewDoc
      <4>3. i = 1
        BY ZenonT(60), <3>1, <4>2, ViewDoc
      <4> QED
        BY Zenon, <3>3, <4>2, <4>3, ViewDoc
    <3>6. SeenCurrent(db, pend[c], s) /\ DocCurrent(db, pend[c], s)
      BY ZenonT(60), <3>3, <3>4, <3>5 DEF ReadSession, SeenCurrent, DocCurrent
    <3>7. OwnTable(pend[c], s) /\ OwnDocs(db, pend[c], s, c)
      BY Zenon, <3>3, <3>4 DEF ReadSession, OwnTable, OwnDocs
    <3>8. CreatingRecorded(db, s)
      BY Zenon, <3>3 DEF CreatingRecorded, Creating
    <3>9. DropKnows(db, s)
      <4> SUFFICES ASSUME s.pc = "dropUpdate" PROVE DropKnows(db, s)
        BY Zenon, <3>3 DEF DropKnows
      <4>1. sess[c].pc = "dropSettings" /\ sess[c].op = "drop"
        BY Zenon, <3>3, LabelOps DEF Typed, DropLabels
      <4>2. pend[c] = NoChange
        BY Zenon, <4>1, PoolView DEF InTx
      <4>3. db.rows # <<>> /\ s.seen = db.rows[1]
        BY Zenon, <3>5, <4>2, NoChangeFields DEF HasDoc, Doc
      <4> QED
        BY Zenon, <3>3, <3>4, <4>1, <4>3 DEF ReadSession, DropKnows
    <3>10. ReadSession(db, pend'[c], s, c)
      BY Zenon, <3>2, <3>6, <3>7, <3>8, <3>9 DEF ReadSession
    <3> QED
      BY Zenon, <3>1, <3>2, <3>3, <3>10, <1>LocalRead
  <2> QED
    BY Zenon, <2>StopsRead, <2>GoesOnRead, <2>MovesRead, <2>ReadsRead

<1>ReadTx.
  \A c \in Clients : (InTx(sess[c].op) /\ Makes(c)) \/ Stores(c) => ReadInv'

  <2>TxRead.
    ASSUME NEW c \in Clients, NEW s, Becomes(c, s), NEW q, Exec(c, q),
           InTx(sess[c].op), SameCommand(s, sess[c]), sess[c].pc \notin {"idle", "dropTable"},
           acked' = acked, ReadSession(db, Merge(pend[c], q), s, c)
    PROVE  ReadInv'
    <3> USE <2>TxRead
    <3>1. /\ db' = db /\ pend'[c] = Merge(pend[c], q)
          /\ \A d \in Clients \ {c} : pend'[d] = pend[d]
      BY Zenon, ExecTx
    <3>2. s.coll = sess[c].coll
      BY Zenon DEF SameCommand
    <3> QED
      BY ZenonT(60), <3>1, <3>2, <1>LocalRead

  <2>SessionSame.
    ASSUME NEW d, NEW p, NEW m, NEW s, NEW t, NEW c, ReadSession(d, p, t, c), SameWrites(m, p),
           SameCommand(s, t), t.pc # "commit",
           s.pc \notin {"collUpdate", "nameUpdate", "collTable", "collTableWait", "commit",
                        "dropSettings", "dropUpdate"}
    PROVE  ReadSession(d, m, s, c)
    <3> USE <2>SessionSame
    <3>1. SeenCurrent(d, m, s) /\ DropKnows(d, s) /\ CreatingRecorded(d, s)
      BY Zenon DEF SeenCurrent, DropKnows, CreatingRecorded, Creating
    <3>2. DocCurrent(d, m, s)
      BY ZenonT(60) DEF ReadSession, DocCurrent, SameWrites, SameDoc, SameCommand, HasDoc
    <3>3. OwnTable(m, s) /\ OwnDocs(d, m, s, c)
      BY ZenonT(60) DEF ReadSession, OwnTable, OwnDocs, SameWrites, SameDoc, SameCommand
    <3> QED
      BY ZenonT(60), <3>1, <3>2, <3>3 DEF ReadSession

  <2>SchemaReadTx.
    ASSUME NEW c \in Clients, MakesSchema(c), InTx(sess[c].op)
    PROVE  ReadInv'
    <3> USE <2>SchemaReadTx
    <3>1. PICK s : Becomes(c, s) /\ SameBut(s, sess[c]) /\ s.pc = "settingsTables"
      BY Zenon DEF MakesSchema
    <3>2. /\ sess[c].pc \in {"createSchema", "createSchemaWait"}
          /\ Exec(c, SchemaMade) /\ acked' = acked /\ SameCommand(s, sess[c])
      BY Zenon, <3>1 DEF MakesSchema, SameBut
    <3>3. pend[c] \in Change /\ SchemaMade \in Change
      BY Zenon, ClientFacts, ChangesTyped
    <3>4. SameWrites(Merge(pend[c], SchemaMade), pend[c])
      BY Zenon, <3>3, MergeKeeps, SchemaMadeFields DEF SameWrites
    <3>5. ReadSession(db, Merge(pend[c], SchemaMade), s, c)
      BY ZenonT(60), <3>1, <3>2, <3>4, <2>SessionSame DEF ReadInv
    <3> QED
      BY ZenonT(60), <3>1, <3>2, <3>5, <2>TxRead

  <2>SettingsReadTx.
    ASSUME NEW c \in Clients, MakesSettings(c), InTx(sess[c].op)
    PROVE  ReadInv'
    <3> USE <2>SettingsReadTx
    <3>1. PICK s : Becomes(c, s) /\ SameCommand(s, sess[c]) /\ s.pc = "insertSettings"
      BY Zenon DEF MakesSettings
    <3>2. /\ sess[c].pc \in {"createSettings", "createSettingsWait"}
          /\ Exec(c, SettingsMade) /\ acked' = acked
      BY ZenonT(60) DEF MakesSettings
    <3>3. pend[c] \in Change /\ SettingsMade \in Change
      BY Zenon, ClientFacts, ChangesTyped
    <3>4. SameWrites(Merge(pend[c], SettingsMade), pend[c])
      BY Zenon, <3>3, MergeKeeps, SettingsMadeFields DEF SameWrites
    <3>5. ReadSession(db, Merge(pend[c], SettingsMade), s, c)
      BY ZenonT(60), <3>1, <3>2, <3>4, <2>SessionSame DEF ReadInv
    <3> QED
      BY ZenonT(60), <3>1, <3>2, <3>5, <2>TxRead

  \* Before the row is there, nothing is written to it.
  <2>RowReadTx.
    ASSUME NEW c \in Clients, MakesRow(c), InTx(sess[c].op)
    PROVE  ReadInv'
    <3> USE <2>RowReadTx
    <3>1. PICK s : Becomes(c, s) /\ SameBut(s, sess[c]) /\ s.pc \in {"nameSettings", "collSchema"}
      BY ZenonT(60) DEF MakesRow
    <3> DEFINE m == Merge(pend[c], RowMade)
    <3>2. /\ sess[c].pc = "insertSettings"
          /\ Exec(c, RowMade) /\ acked' = acked /\ SameCommand(s, sess[c])
      BY Zenon, <3>1 DEF MakesRow, SameBut
    <3>3. pend[c] \in Change /\ RowMade \in Change /\ SessionInv(Held, pend[c], sess[c])
      BY Zenon, ClientFacts, ChangesTyped
    <3>4. SameDoc(m, pend[c]) /\ m.tables = pend[c].tables /\ m.docs = pend[c].docs
      BY Zenon, <3>3, MergeKeeps, RowMadeFields
    <3>5. ~HasDoc(db, pend[c])
      <4>1. ~pend[c].row /\ pend[c].settings
        BY Zenon, <3>2, <3>3 DEF SessionInv, CreatorInserts
      <4>2. db.rows = <<>>
        BY Zenon, <4>1 DEF RecordInv, CommittedInv, OneCreator, NoRowsWithoutTable
      <4> QED
        BY ZenonT(60), <4>1, <4>2 DEF HasDoc
    <3>6. ReadSession(db, pend[c], sess[c], c)
      BY ZenonT(60) DEF ReadInv
    <3>7. m.n = 0
      BY Zenon, <3>4, <3>5, <3>6 DEF ReadSession, DocCurrent, SameDoc
    <3> HIDE DEF m
    <3>8. SeenCurrent(db, m, s) /\ DocCurrent(db, m, s) /\ CreatingRecorded(db, s) /\ DropKnows(db, s)
      BY Zenon, <3>1, <3>7 DEF SeenCurrent, DocCurrent, CreatingRecorded, DropKnows, Creating
    <3>9. OwnTable(m, s) /\ OwnDocs(db, m, s, c)
      BY ZenonT(60), <3>1, <3>2, <3>4, <3>6 DEF ReadSession, OwnTable, OwnDocs, SameDoc, SameCommand
    <3>10. ReadSession(db, m, s, c)
      BY ZenonT(60), <3>8, <3>9 DEF ReadSession
    <3> QED
      BY Zenon, <3>1, <3>2, <3>10, <2>TxRead DEF m

  <2>RecordsReadTx.
    ASSUME NEW c \in Clients, Records(c), InTx(sess[c].op)
    PROVE  ReadInv'
    <3> USE <2>RecordsReadTx
    <3>1. PICK s : /\ Becomes(c, s) /\ SameBut(s, sess[c])
                   /\ s.pc = IF sess[c].pc = "collUpdate" THEN "collTable" ELSE "data"
      BY Zenon DEF Records
    <3> DEFINE doc == sess[c].seen \cup {sess[c].coll}
               n == Len(View(c).rows)
               q == DocSet(n, doc)
               m == Merge(pend[c], q)
    <3>2. /\ sess[c].pc \in {"collUpdate", "nameUpdate"} /\ Exec(c, q) /\ acked' = acked
      BY Zenon DEF Records
    <3>3. pend[c] \in Change /\ ReadSession(db, pend[c], sess[c], c)
      BY ZenonT(60), ClientFacts DEF ReadInv
    <3>4. HasDoc(db, pend[c]) /\ Doc(db, pend[c]) \cup {sess[c].coll} = doc
      BY Zenon, <3>2, <3>3 DEF ReadSession, SeenCurrent
    <3>5. n = 1
      BY Zenon, <3>4, ViewDoc
    <3> HIDE DEF n
    <3>6. q \in Change
      <4>1. sess[c].coll \in Colls /\ sess[c].seen \in SUBSET Colls
        BY Zenon, <3>2, ClientFacts DEF Session
      <4> QED
        BY Zenon, <3>5, <4>1, ChangesTyped
    <3>7. doc = sess[c].seen \cup {sess[c].coll}
      BY Zenon
    <3> HIDE DEF doc
    <3>8. ~q.row /\ q.n = 1 /\ q.doc = doc /\ q.tables = {} /\ q.docs = {}
      BY <3>5, DocSetFields
    <3> HIDE DEF q
    <3>9. /\ m.row <=> pend[c].row
          /\ SameDoc(m, q) /\ m.tables = pend[c].tables /\ m.docs = pend[c].docs
      <4>1. q.n # 0
        BY <3>8
      <4> QED
        BY Zenon, <3>3, <3>6, <3>8, <4>1, MergeKeeps
    <3>10. m.n = 1 /\ m.doc = doc
      BY Zenon, <3>8, <3>9 DEF SameDoc
    <3> HIDE DEF m
    <3>11. s.coll = sess[c].coll /\ s.op = sess[c].op /\ s.pc \in {"collTable", "data"}
      BY Zenon, <3>1 DEF SameBut, SameCommand
    <3>12. db.rows # <<>> => doc = db.rows[1] \cup {s.coll}
      <4> SUFFICES ASSUME db.rows # <<>> PROVE doc = db.rows[1] \cup {s.coll}
        BY Zenon
      <4>1. ~pend[c].row
        BY Zenon, ViewDoc
      <4>2. CASE pend[c].n = 0
        BY ZenonT(60), <3>4, <3>11, <4>1, <4>2 DEF Doc
      <4>3. CASE pend[c].n # 0
        BY Zenon, <3>3, <3>4, <3>11, <4>3 DEF Doc, ReadSession, DocCurrent
      <4> QED
        BY Zenon, <4>2, <4>3
    <3>13. DocCurrent(db, m, s)
      <4>1. HasDoc(db, m)
        BY Zenon, <3>4, <3>9 DEF HasDoc
      <4> QED
        BY Zenon, <3>7, <3>10, <3>11, <3>12, <4>1 DEF DocCurrent
    <3>14. SeenCurrent(db, m, s) /\ CreatingRecorded(db, s) /\ DropKnows(db, s)
      BY ZenonT(60), SMTT(60), <3>11 DEF SeenCurrent, CreatingRecorded, DropKnows, Creating, InTx
    <3>15. OwnTable(m, s) /\ OwnDocs(db, m, s, c)
      BY <3>2, <3>3, <3>9, <3>10, <3>11 DEF ReadSession, OwnTable, OwnDocs
    <3>16. ReadSession(db, m, s, c)
      BY ZenonT(60), <3>13, <3>14, <3>15 DEF ReadSession
    <3> QED
      BY Zenon, <3>1, <3>2, <3>16, <2>TxRead DEF m, SameBut

  <2>TableReadTx.
    ASSUME NEW c \in Clients, MakesTable(c), InTx(sess[c].op)
    PROVE  ReadInv'
    <3> USE <2>TableReadTx
    <3>1. PICK s : /\ Becomes(c, s) /\ SameCommand(s, sess[c])
                   /\ s.pc \in {"commit", "nameSchema", "ensured"}
                   /\ s.pc = "commit" => sess[c].op # "insert"
      BY Zenon DEF MakesTable
    <3> DEFINE q == TableMade(sess[c].coll)
               m == Merge(pend[c], q)
    <3>2. sess[c].pc \in {"collTable", "collTableWait"} /\ Exec(c, q) /\ acked' = acked
      BY Zenon DEF MakesTable
    <3>3. pend[c] \in Change /\ ReadSession(db, pend[c], sess[c], c)
      BY ZenonT(60), ClientFacts DEF ReadInv
    <3>4. q \in Change /\ ~q.row /\ q.n = 0 /\ q.tables = {sess[c].coll} /\ q.docs = {}
      BY Zenon, <3>2, ClientFacts, ChangesTyped, TableMadeFields
    <3> HIDE DEF q
    <3>5. /\ m.row <=> pend[c].row
          /\ SameDoc(m, pend[c]) /\ m.tables = pend[c].tables \cup {sess[c].coll} /\ m.docs = pend[c].docs
      <4>1. m.tables = pend[c].tables \cup {sess[c].coll}
        BY ZenonT(60), <3>4 DEF Merge
      <4> QED
        BY Zenon, <3>3, <3>4, <4>1, MergeKeeps
    <3> HIDE DEF m
    <3>6. sess[c].op \in {"create", "insert"} /\ pend[c].n # 0
      <4>1. sess[c].op \in {"create", "insert"}
        BY Zenon, <3>2, LabelOps DEF Typed, CollLabels, InTx
      <4> QED
        BY Zenon, <3>2, <3>3, <4>1 DEF ReadSession, OwnTable
    <3>7. s.op = sess[c].op /\ s.coll = sess[c].coll
      BY ZenonT(60), <3>1 DEF SameCommand
    <3>8. DocCurrent(db, m, s)
      BY ZenonT(60), <3>3, <3>5, <3>7 DEF ReadSession, DocCurrent, SameDoc, HasDoc
    <3>9. SeenCurrent(db, m, s) /\ CreatingRecorded(db, s) /\ DropKnows(db, s)
      BY ZenonT(60), <3>1 DEF SeenCurrent, CreatingRecorded, DropKnows, Creating
    <3>10. OwnTable(m, s)
      BY Zenon, <3>1, <3>3, <3>5, <3>6, <3>7 DEF ReadSession, OwnTable, SameDoc
    <3>11. OwnDocs(db, m, s, c)
      BY ZenonT(60), <3>1, <3>2, <3>3, <3>5, <3>7 DEF ReadSession, OwnDocs
    <3>12. ReadSession(db, m, s, c)
      BY ZenonT(60), <3>8, <3>9, <3>10, <3>11 DEF ReadSession
    <3> QED
      BY Zenon, <3>1, <3>2, <3>12, <2>TxRead DEF m

  <2>StoresRead.
    ASSUME NEW c \in Clients, Stores(c)
    PROVE  ReadInv'
    <3> USE <2>StoresRead
    <3>1. PICK s : /\ Becomes(c, s) /\ SameCommand(s, sess[c])
                   /\ s.pc = "commit" /\ s.tableLocks # {}
      BY ZenonT(60) DEF Stores
    <3> DEFINE docs == IF sess[c].op = "insert" THEN {<<sess[c].coll, c>>} ELSE {}
               q == DocsStored(docs)
               m == Merge(pend[c], q)
    <3>2. sess[c].pc = "data" /\ sess[c].coll \in View(c).tables /\ Exec(c, q) /\ acked' = acked
      BY ZenonT(60) DEF Stores
    <3>3. pend[c] \in Change /\ ReadSession(db, pend[c], sess[c], c)
      BY ZenonT(60), ClientFacts DEF ReadInv
    <3>4. sess[c].coll \in db.tables \cup pend[c].tables
      BY ZenonT(60), <3>2, ViewFields
    <3>5. InTx(sess[c].op)
      BY ZenonT(60), <3>2, LabelOps DEF InTx, Typed
    <3>6. docs \in SUBSET (Colls \X Clients)
      BY <3>2, ClientFacts
    <3>7. docs = IF sess[c].op = "insert" THEN {<<sess[c].coll, c>>} ELSE {}
      BY Zenon
    <3> HIDE DEF docs
    <3>8. q \in Change /\ ~q.row /\ q.n = 0 /\ q.tables = {} /\ q.docs = docs
      BY Zenon, <3>6, ChangesTyped, DocsStoredFields
    <3> HIDE DEF q
    <3>9. /\ m.row <=> pend[c].row
          /\ SameDoc(m, pend[c]) /\ m.tables = pend[c].tables
      BY Zenon, <3>3, <3>8, MergeKeeps
    <3>10. m.docs = docs
      <4>1. pend[c].docs = {}
        BY Zenon, <3>2, <3>3 DEF ReadSession, OwnDocs
      <4> QED
        BY ZenonT(60), <3>8, <4>1 DEF Merge
    <3> HIDE DEF m
    <3>11. s.op = sess[c].op /\ s.coll = sess[c].coll
      BY ZenonT(60), <3>1 DEF SameCommand
    <3>12. DocCurrent(db, m, s)
      BY Zenon, <3>3, <3>9, <3>11 DEF ReadSession, DocCurrent, SameDoc, HasDoc
    <3>13. SeenCurrent(db, m, s) /\ CreatingRecorded(db, s) /\ DropKnows(db, s)
      BY ZenonT(60), <3>1 DEF SeenCurrent, CreatingRecorded, DropKnows, Creating
    <3>14. OwnTable(m, s)
      BY Zenon, <3>1, <3>3, <3>9, <3>11 DEF ReadSession, OwnTable, SameDoc
    <3>15. OwnDocs(db, m, s, c)
      BY Zenon, <3>1, <3>4, <3>7, <3>9, <3>10, <3>11 DEF OwnDocs
    <3>16. ReadSession(db, m, s, c)
      BY Zenon, <3>12, <3>13, <3>14, <3>15 DEF ReadSession
    <3> QED
      BY ZenonT(60), <3>1, <3>2, <3>5, <3>16, <2>TxRead DEF m
  <2> QED
    BY Zenon, <2>SchemaReadTx, <2>SettingsReadTx, <2>RowReadTx, <2>RecordsReadTx, <2>TableReadTx,
       <2>StoresRead DEF Makes

<1>ReadPool.
  \A c \in Clients : sess[c].op = "update" /\ Makes(c) => ReadInv'

  <2>UpdateRead.
    ASSUME NEW d, NEW s, NEW c, s.op = "update",
           s.pc \notin {"collUpdate", "nameUpdate", "dropSettings", "dropUpdate"},
           CreatingRecorded(d, s)
    PROVE  ReadSession(d, NoChange, s, c)
    BY ZenonT(60), <2>UpdateRead, NoChangeFields DEF ReadSession, SeenCurrent, DocCurrent, OwnTable, OwnDocs,
       DropKnows, InTx

  <2>PoolRead.
    ASSUME NEW c \in Clients, NEW s, Becomes(c, s),
           SameCommand(s, sess[c]), sess[c].op = "update", sess[c].pc # "idle",
           s.pc \notin {"collUpdate", "nameUpdate", "dropSettings", "dropUpdate"},
           NEW q \in Change, Exec(c, q), q.docs = {}, acked' = acked,
           db.rows # <<>> => /\ db'.rows # <<>>
                             /\ db.rows[1] \subseteq db'.rows[1]
                             /\ db'.rows[1] \subseteq db.rows[1] \cup {sess[c].coll},
           db.rows = <<>> /\ db'.rows # <<>> => \A d \in Clients \ {c} : ~pend[d].row,
           \A l \in q.tables : db'.rows # <<>> /\ l \in db'.rows[1],
           CreatingRecorded(db', s)
    PROVE  ReadInv'
    <3> USE <2>PoolRead
    <3>1. /\ pend' = pend /\ pend[c] = NoChange
          /\ db'.tables = db.tables \cup q.tables
          /\ db'.docs = db.docs \cup q.docs
      BY ZenonT(60), ExecPool DEF InTx
    <3>2. s.op = "update" /\ s.coll = sess[c].coll
      BY ZenonT(60), SMTT(60) DEF SameCommand
    <3>3. ReadSession(db', pend'[c], s, c)
      BY Zenon, <3>1, <3>2, <2>UpdateRead
    <3>4. Grown(sess[c].coll)
      BY ZenonT(60), <3>1 DEF Grown
    <3>5. acked' \subseteq db'.docs
      BY ZenonT(60), <3>1 DEF ReadInv, Stored
    <3> QED
      BY Zenon, <3>1, <3>2, <3>3, <3>4, <3>5, <1>GrowStep

  <2>SchemaReadPool.
    ASSUME NEW c \in Clients, MakesSchema(c), sess[c].op = "update"
    PROVE  ReadInv'
    <3> USE <2>SchemaReadPool
    <3>1. PICK s : Becomes(c, s) /\ SameBut(s, sess[c]) /\ s.pc = "settingsTables"
      BY Zenon DEF MakesSchema
    <3>2. /\ sess[c].pc \in {"createSchema", "createSchemaWait"}
          /\ Exec(c, SchemaMade) /\ acked' = acked /\ SameCommand(s, sess[c])
      BY Zenon, <3>1 DEF MakesSchema, SameBut
    <3>3. SchemaMade \in Change /\ db.rows \in Seq(SUBSET Colls)
      BY Zenon, ClientFacts, ChangesTyped DEF DB
    <3>4. db'.rows = db.rows
      BY ZenonT(60), <3>2, <3>3, ExecPool, ApplyRowsSame, SchemaMadeFields DEF InTx
    <3>5. CreatingRecorded(db', s)
      BY ZenonT(60), <3>1 DEF CreatingRecorded, Creating
    <3> QED
      BY Zenon, <3>1, <3>2, <3>3, <3>4, <3>5, <2>PoolRead, SchemaMadeFields

  <2>SettingsReadPool.
    ASSUME NEW c \in Clients, MakesSettings(c), sess[c].op = "update"
    PROVE  ReadInv'
    <3> USE <2>SettingsReadPool
    <3>1. PICK s : Becomes(c, s) /\ SameCommand(s, sess[c]) /\ s.pc = "insertSettings"
      BY Zenon DEF MakesSettings
    <3>2. /\ sess[c].pc \in {"createSettings", "createSettingsWait"}
          /\ Exec(c, SettingsMade) /\ acked' = acked
      BY Zenon DEF MakesSettings
    <3>3. SettingsMade \in Change /\ db.rows \in Seq(SUBSET Colls)
      BY Zenon, ClientFacts, ChangesTyped DEF DB
    <3>4. db'.rows = db.rows
      BY ZenonT(60), <3>2, <3>3, ExecPool, ApplyRowsSame, SettingsMadeFields DEF InTx
    <3>5. CreatingRecorded(db', s)
      BY ZenonT(60), <3>1 DEF CreatingRecorded, Creating
    <3> QED
      BY Zenon, <3>1, <3>2, <3>3, <3>4, <3>5, <2>PoolRead, SettingsMadeFields

  \* The row is the first: no transaction has one under way, for none creates the table.
  <2>RowReadPool.
    ASSUME NEW c \in Clients, MakesRow(c), sess[c].op = "update"
    PROVE  ReadInv'
    <3> USE <2>RowReadPool
    <3>1. PICK s : Becomes(c, s) /\ SameBut(s, sess[c]) /\ s.pc \in {"nameSettings", "collSchema"}
      BY Zenon DEF MakesRow
    <3>2. /\ sess[c].pc = "insertSettings"
          /\ Exec(c, RowMade) /\ acked' = acked /\ SameCommand(s, sess[c])
      BY Zenon, <3>1 DEF MakesRow, SameBut
    <3>3. RowMade \in Change
      BY ZenonT(60), ChangesTyped
    <3>4. db.settings /\ db.rows = <<>>
      BY ZenonT(60), <3>2 DEF RecordInv, CommittedInv, OneInserter, Inserting
    <3>5. \A d \in Clients \ {c} : ~pend[d].row
      <4> TAKE d \in Clients \ {c}
      <4>1. ~pend[d].settings
        BY Zenon, <3>4 DEF RecordInv, CommittedInv, OneCreator
      <4> QED
        BY Zenon, <4>1, ClientFacts DEF SessionInv, CreatorInserts
    <3>6. CreatingRecorded(db', s)
      BY ZenonT(60), <3>1 DEF CreatingRecorded, Creating
    <3> QED
      BY Zenon, <3>1, <3>2, <3>3, <3>4, <3>5, <3>6, <2>PoolRead, RowMadeFields

  <2>RecordsReadPool.
    ASSUME NEW c \in Clients, Records(c), sess[c].op = "update"
    PROVE  ReadInv'
    <3> USE <2>RecordsReadPool
    <3> DEFINE doc == sess[c].seen \cup {sess[c].coll}
               q == DocSet(Len(db.rows), doc)
    <3>1. sess[c].pc = "collUpdate" /\ ~InTx(sess[c].op) /\ acked' = acked
      <4>1. sess[c].pc \in {"collUpdate", "nameUpdate"} /\ sess[c].pc # "nameUpdate"
        BY Zenon, LabelOps DEF Records, Typed, NameLabels
      <4> QED
        BY ZenonT(60), <4>1 DEF InTx, Records
    <3>2. PICK s : Becomes(c, s) /\ SameBut(s, sess[c]) /\ s.pc = "collTable"
      BY ZenonT(60), <3>1 DEF Records
    <3>3. Exec(c, q)
      BY Zenon, <3>1, PoolView DEF Records
    <3>4. db.rows \in Seq(SUBSET Colls)
      BY Zenon, ClientFacts DEF DB
    <3>5. pend[c] = NoChange /\ sess[c].coll \in Colls /\ sess[c].seen \in SUBSET Colls
      BY Zenon, <3>1, ClientFacts, PoolView DEF Session
    <3>6. q \in Change
      BY <3>4, <3>5, ChangesTyped
    <3>7. db.rows # <<>> /\ doc = db.rows[1] \cup {sess[c].coll}
      <4>1. HasDoc(db, pend[c]) /\ Doc(db, pend[c]) \cup {sess[c].coll} = doc
        BY ZenonT(60), <3>1 DEF ReadInv, ReadSession, SeenCurrent
      <4> QED
        BY ZenonT(60), <3>5, <4>1, NoChangeFields DEF HasDoc, Doc
    <3> HIDE DEF doc
    <3>8. ~q.row /\ q.n = Len(db.rows) /\ q.doc = doc /\ q.tables = {} /\ q.docs = {}
      BY DocSetFields
    <3> HIDE DEF q
    <3>9. db'.rows = [i \in 1..Len(db.rows) |-> doc]
      <4>1. db'.rows = ApplyRows(db.rows, q)
        BY Zenon, <3>1, <3>3, <3>6, ExecPool
      <4> QED
        BY <3>4, <3>8, <4>1, ApplyRowsSet
    <3>10. db'.rows # <<>> /\ db'.rows[1] = doc
      <4>1. Len(db.rows) \in Nat \ {0}
        BY Zenon, <3>4, <3>7, NonEmptyRows
      <4>2. 1 \in 1..Len(db.rows)
        BY <4>1
      <4> QED
        BY <3>9, <4>2
    <3>11. CreatingRecorded(db', s)
      BY Zenon, <3>2, <3>7, <3>10 DEF CreatingRecorded, SameBut, SameCommand
    <3>12. SameCommand(s, sess[c])
      BY ZenonT(60), <3>2 DEF SameBut
    <3> QED
      BY Zenon, <3>1, <3>2, <3>3, <3>6, <3>7, <3>8, <3>10, <3>11, <3>12, <2>PoolRead

  \* The table that an update creates is recorded.
  <2>TableReadPool.
    ASSUME NEW c \in Clients, MakesTable(c), sess[c].op = "update"
    PROVE  ReadInv'
    <3> USE <2>TableReadPool
    <3> DEFINE q == TableMade(sess[c].coll)
    <3>1. PICK s : /\ Becomes(c, s) /\ SameCommand(s, sess[c])
                   /\ s.pc \in {"commit", "nameSchema", "ensured"}
      BY ZenonT(60) DEF MakesTable
    <3>2. /\ sess[c].pc \in {"collTable", "collTableWait"} /\ Exec(c, q) /\ ~InTx(sess[c].op)
          /\ acked' = acked
      BY ZenonT(60) DEF MakesTable, InTx
    <3>3. db.rows \in Seq(SUBSET Colls)
      BY ZenonT(60), ClientFacts DEF DB
    <3>4. q \in Change /\ ~q.row /\ q.n = 0 /\ q.tables = {sess[c].coll} /\ q.docs = {}
      BY ZenonT(60), <3>2, ClientFacts, ChangesTyped, TableMadeFields
    <3> HIDE DEF q
    <3>5. db'.rows = db.rows
      <4>1. db'.rows = ApplyRows(db.rows, q)
        BY ZenonT(60), <3>2, <3>4, ExecPool
      <4> QED
        BY Zenon, <3>3, <3>4, <4>1, ApplyRowsSame
    <3>6. db.rows # <<>> /\ sess[c].coll \in db.rows[1]
      BY Zenon, <3>2 DEF ReadInv, ReadSession, CreatingRecorded, Creating
    <3>7. CreatingRecorded(db', s)
      BY Zenon, <3>1 DEF CreatingRecorded, Creating
    <3> QED
      BY ZenonT(60), <3>1, <3>2, <3>4, <3>5, <3>6, <3>7, <2>PoolRead
  <2> QED
    BY Zenon, <2>SchemaReadPool, <2>SettingsReadPool, <2>RowReadPool, <2>RecordsReadPool, <2>TableReadPool DEF Makes

<1>ReadDrop.
  \A c \in Clients : Unrecords(c) \/ DropTable(c) \/ DropsDatabase(c) => ReadInv'

  <2>UnrecordsRead.
    ASSUME NEW c \in Clients, Unrecords(c)
    PROVE  ReadInv'
    <3> USE <2>UnrecordsRead
    <3>1. PICK s : Becomes(c, s) /\ SameBut(s, sess[c]) /\ s.pc = "dropTable"
      BY Zenon DEF Unrecords
    <3>2. /\ sess[c].pc = "dropUpdate" /\ sess[c].op = "drop"
          /\ db.rows # <<>> /\ db'.rows # <<>> /\ db'.rows[1] = db.rows[1] \ {sess[c].coll}
          /\ db'.tables = db.tables /\ db'.docs = db.docs
          /\ pend' = pend /\ acked' = acked
      BY Zenon, UnrecordsFacts
    <3>3. sess'[c] = s /\ \A d \in Clients \ {c} : sess'[d] = sess[d]
      BY Zenon, <3>1, BecomesAt
    <3>4. s.coll = sess[c].coll
      BY Zenon, <3>1 DEF SameBut, SameCommand
    <3>5. pend[c] = NoChange /\ \A d \in Clients \ {c} : sess[d].pc = "idle"
      BY Zenon, <3>2, AloneFacts
    <3>6. OneColl'
      BY Zenon, <3>1, <3>2, <3>4, <1>OneCollKept
    <3>7. Found'
      <4>1. \A l \in db.tables : l \in db.rows[1]
        BY Zenon, <3>2, <3>5 DEF ReadInv, Found
      <4> QED
        BY ZenonT(60), <3>1, <3>2, <3>3, <3>4, <4>1 DEF Found
    <3>8. Stored'
      BY ZenonT(60), <3>2 DEF ReadInv, Stored
    <3>9. ReadSession(db', pend'[c], sess'[c], c)
      BY Zenon, <3>1, <3>2, <3>3, <3>5, RestRead
    <3>10. \A d \in Clients \ {c} : ReadSession(db', pend'[d], sess'[d], d)
      BY ZenonT(60), <3>2, <3>3, <3>5, <1>IdleRead
    <3> QED
      BY Zenon, <3>6, <3>7, <3>8, <3>9, <3>10 DEF ReadInv

  <2>DropTableRead.
    ASSUME NEW c \in Clients, DropTable(c)
    PROVE  ReadInv'
    <3> USE <2>DropTableRead
    <3>1. sess[c].pc = "dropTable" /\ sess[c].op = "drop"
      BY Zenon, LabelOps DEF DropTable, Typed, DropLabels
    <3>2. PICK s : /\ Becomes(c, s) /\ s.pc = "idle" /\ s.op = "none"
                   /\ pend'[c] = NoChange /\ \A d \in Clients \ {c} : pend'[d] = pend[d]
      BY Zenon, FinishAs DEF DropTable
    <3>3. db \in DB
      BY Zenon, ClientFacts
    <3>4. /\ db'.rows = db.rows /\ db'.tables = db.tables \ {sess[c].coll}
          /\ db'.docs = {x \in db.docs : x[1] # sess[c].coll}
          /\ acked' = {x \in acked : x[1] # sess[c].coll}
      BY Zenon, <3>3 DEF DropTable, DB
    <3>5. sess'[c] = s /\ \A d \in Clients \ {c} : sess'[d] = sess[d]
      BY Zenon, <3>2, BecomesAt
    <3>6. \A d \in Clients \ {c} : sess[d].pc = "idle"
      BY Zenon, <3>1, AloneFacts
    <3>7. OneColl'
      BY Zenon, <3>2, <1>OneCollKept
    <3>8. Found'
      <4>1. \A l \in db'.tables : db.rows # <<>> /\ l \in db.rows[1]
        BY Zenon, <3>4, <3>6 DEF ReadInv, Found
      <4> QED
        BY Zenon, <3>4, <4>1 DEF Found
    <3>9. Stored'
      BY Zenon, <3>4 DEF ReadInv, Stored
    <3>10. ReadSession(db', pend'[c], sess'[c], c)
      BY Zenon, <3>2, <3>5, RestRead
    <3>11. \A d \in Clients \ {c} : ReadSession(db', pend'[d], sess'[d], d)
      BY ZenonT(60), <3>2, <3>5, <3>6, <1>IdleRead
    <3> QED
      BY Zenon, <3>7, <3>8, <3>9, <3>10, <3>11 DEF ReadInv

  \* A command that goes on while the schema is dropped has neither read nor written.
  <2>DropsDatabaseRead.
    ASSUME NEW c \in Clients, DropsDatabase(c)
    PROVE  ReadInv'
    <3> USE <2>DropsDatabaseRead
    <3>1. /\ sess[c].pc = "dropDatabase" /\ sess[c].op = "dropDatabase"
          /\ db' = EmptyDB /\ acked' = {}
      BY ZenonT(60), LabelOps DEF DropsDatabase, Typed
    <3>2. PICK s : /\ Becomes(c, s) /\ s.pc = "idle" /\ s.op = "none"
                   /\ pend'[c] = NoChange /\ \A d \in Clients \ {c} : pend'[d] = pend[d]
      BY ZenonT(60), FinishAs DEF DropsDatabase
    <3>3. sess'[c] = s /\ \A d \in Clients \ {c} : sess'[d] = sess[d]
      BY Zenon, <3>2, BecomesAt
    <3>4. OneColl'
      BY Zenon, <3>2, <1>OneCollKept
    <3>5. Found' /\ Stored'
      BY ZenonT(60), <3>1 DEF Found, Stored, EmptyDB
    <3>6. ReadSession(db', pend'[c], sess'[c], c)
      BY Zenon, <3>2, <3>3, RestRead
    <3>7. ASSUME NEW d \in Clients \ {c}
          PROVE  ReadSession(db', pend[d], sess[d], d)
      <4> DEFINE p == pend[d]
                 t == sess[d]
      <4>1. ~t.settingsLock /\ t.tableLocks = {}
        BY Zenon DEF DropsDatabase, SchemaLocked
      <4>2. t.op # "update" /\ t.op # "drop"
        BY Zenon, <3>1 DEF RecordInv, ApartInv, DropAlone, UpdateApart
      <4>3. SessionInv(Held, p, t) /\ ReadSession(db, p, t, d)
        BY ZenonT(60), ClientFacts DEF ReadInv
      <4>4. p.doc = {} /\ ~(InTx(t.op) /\ t.pc \in {"collUpdate", "nameUpdate"})
        BY Zenon, <4>1, <4>3 DEF SessionInv, SettingsLocked
      <4>5. t.pc \notin {"collUpdate", "nameUpdate", "dropSettings", "dropUpdate"}
        BY ZenonT(60), <4>2, <4>4, LabelOps DEF Typed, InTx, CollLabels, NameLabels, DropLabels
      <4> HIDE DEF p, t
      <4>6. p.n = 0
        BY Zenon, <4>3, <4>4 DEF ReadSession, DocCurrent
      <4>7. SeenCurrent(db', p, t) /\ DocCurrent(db', p, t) /\ DropKnows(db', t)
        BY ZenonT(60), <4>5, <4>6 DEF SeenCurrent, DocCurrent, DropKnows
      <4>8. OwnTable(p, t) /\ OwnDocs(db', p, t, d)
        BY Zenon, <4>1, <4>3 DEF ReadSession, OwnTable, OwnDocs
      <4>9. CreatingRecorded(db', t)
        BY Zenon, <4>2 DEF CreatingRecorded, Creating
      <4>10. ReadSession(db', p, t, d)
        BY ZenonT(60), <4>7, <4>8, <4>9 DEF ReadSession
      <4> QED
        BY Zenon, <4>10 DEF p, t
    <3>8. \A d \in Clients \ {c} : ReadSession(db', pend'[d], sess'[d], d)
      BY Zenon, <3>2, <3>3, <3>7
    <3> QED
      BY Zenon, <3>4, <3>5, <3>6, <3>8 DEF ReadInv
  <2> QED
    BY Zenon, <2>UnrecordsRead, <2>DropTableRead, <2>DropsDatabaseRead

<1>MakesRead.
  ASSUME NEW c \in Clients, Makes(c)
  PROVE  ReadInv'
  <2> USE <1>MakesRead
  <2>1. CASE InTx(sess[c].op)
    BY Zenon, <2>1, <1>ReadTx
  <2>2. CASE ~InTx(sess[c].op)
    <3>1. sess[c].op = "update"
      BY Zenon, <2>2, CreatesOnPool
    <3> QED
      BY Zenon, <3>1, <1>ReadPool
  <2> QED
    BY Zenon, <2>1, <2>2

<1>StepRead.
  ASSUME NEW c \in Clients, Step(c)
  PROVE  ReadInv'
  <2> USE <1>StepRead
  <2>1. StepShape(c)
    BY Zenon, StepHasShape
  <2> QED
    BY Zenon, <2>1, <1>ReadLocal, <1>MakesRead, <1>ReadTx, <1>CommitRead, <1>ReadDrop DEF StepShape, Makes
<1>1. CASE Next
  BY Zenon, <1>1, <1>RequestRead, <1>StepRead, <1>FaultRead DEF Next
<1>2. CASE UNCHANGED vars
  BY <1>2 DEF vars, ReadInv, OneColl, Found, Stored
<1> QED
  BY Zenon, <1>1, <1>2

Invariants == Typed /\ RecordInv /\ ReadInv

\* What commands have read stays current.
LEMMA ReadInvariant ==
  ASSUME Together
  PROVE  Spec => []Invariants
<1>1. Init => Invariants
  BY Zenon, TypedInit, RecordInit, ReadInit DEF Invariants
<1>2. Invariants /\ [Next]_vars => Invariants'
  BY Zenon, TypedNext, RecordNext, ReadNext DEF Invariants, Together
<1> QED
  BY <1>1, <1>2, PTL DEF Spec

-----------------------------------------------------------------------------
(* The theorems.                                                           *)

\* A document whose insert was answered with ok is stored and CollectionExists and
\* getTableName find its table, through every interleaving of the statements of the
\* other commands, until its collection or database is dropped.
THEOREM AckedDocsReadable ==
  ASSUME Together
  PROVE  Spec => []AckedReadable
<1>1. Invariants => AckedReadable
  <2> SUFFICES ASSUME Invariants, NEW x \in acked, ~BeingDropped(x[1])
               PROVE  /\ x \in db.docs /\ x[1] \in db.tables /\ db.rows # <<>>
                      /\ \A i \in DOMAIN db.rows : x[1] \in db.rows[i]
    BY Zenon DEF AckedReadable
  <2>1. x \in db.docs /\ x[1] \in db.tables
    BY Zenon DEF Invariants, ReadInv, Stored
  <2>2. \A c \in Clients : sess[c].pc = "dropTable" => sess[c].coll # x[1]
    BY ZenonT(60), LabelOps DEF Invariants, Typed, DropLabels, BeingDropped
  <2>3. db.rows # <<>> /\ x[1] \in db.rows[1]
    BY Zenon, <2>1, <2>2 DEF Invariants, ReadInv, Found
  <2>4. db.rows \in Seq(SUBSET Colls) /\ Len(db.rows) <= 1
    BY Zenon DEF Invariants, Typed, TypeOK, DB, RecordInv, CommittedInv, OneRow
  <2>5. \A i \in DOMAIN db.rows : i = 1
    BY <2>4
  <2> QED
    BY Zenon, <2>1, <2>3, <2>5
<1> QED
  BY <1>1, ReadInvariant, PTL

-----------------------------------------------------------------------------
(* The commands implement the steps of Namespace.                          *)

\* The refinement mapping of Catalog, by name.
NsDocs == {x \in db.docs : x[1] \in Existing}
NsAcked == {x \in acked : x[1] \in Existing}
NsCmd == [c \in Clients |-> [kind |-> Kind(sess[c].op), coll |-> sess[c].coll]]

NsStep == Abstract!Next \/ UNCHANGED Abstract!nsVars

Same == Existing' = Existing /\ NsDocs' = NsDocs /\ NsAcked' = NsAcked

\* A step that changes nothing of Namespace is a stuttering step of it.
LEMMA StutterStep ==
  ASSUME Same, NsCmd' = NsCmd
  PROVE  NsStep
BY Zenon DEF NsStep, Abstract!nsVars, Same, NsDocs, NsAcked, NsCmd

\* A request is the step Begin of Namespace, ...
LEMMA BeginStep ==
  ASSUME NEW c \in Clients, NEW k \in Abstract!Kinds, NEW l \in Colls, NsCmd[c].kind = "none",
         NsCmd' = [NsCmd EXCEPT ![c] = [kind |-> k, coll |-> l]], Same
  PROVE  NsStep
<1>1. Abstract!Begin(c)
  BY Zenon DEF Abstract!Begin, Abstract!Running, Same, NsDocs, NsAcked, NsCmd
<1> QED
  BY Zenon, <1>1 DEF NsStep, Abstract!Next

\* ... a reply is the step End, ...
LEMMA EndStep ==
  ASSUME NEW c \in Clients, NsCmd[c].kind # "none",
         NsCmd' = [NsCmd EXCEPT ![c] = Abstract!NoCmd], Same
  PROVE  NsStep
<1>1. Abstract!End(c)
  BY Zenon DEF Abstract!End, Abstract!Running, Abstract!Ended, Same, NsDocs, NsAcked, NsCmd
<1> QED
  BY Zenon, <1>1 DEF NsStep, Abstract!Next

\* ... and a commit that makes a collection is the step Create.
LEMMA CreateStep ==
  ASSUME NEW c \in Clients, NsCmd[c].kind \in {"create", "write"}, NsCmd[c].coll \notin Existing,
         Existing' = Existing \cup {NsCmd[c].coll},
         NsCmd' = NsCmd \/ NsCmd' = [NsCmd EXCEPT ![c] = Abstract!NoCmd],
         NsDocs' = NsDocs, NsAcked' = NsAcked
  PROVE  NsStep
<1>1. Abstract!Create(c)
  BY Zenon DEF Abstract!Create, Abstract!Running, Abstract!Ended, NsDocs, NsAcked, NsCmd
<1> QED
  BY Zenon, <1>1 DEF NsStep, Abstract!Next

\* The command of a client in Namespace, before and after a step.
LEMMA CmdOf ==
  ASSUME NEW c \in Clients
  PROVE  NsCmd[c].kind = Kind(sess[c].op) /\ NsCmd[c].coll = sess[c].coll
BY Zenon DEF NsCmd

\* The commands that Namespace sees running after a step of c, ...
LEMMA CmdBecomes ==
  ASSUME Typed, NEW c \in Clients, NEW s, Becomes(c, s)
  PROVE  NsCmd' = [NsCmd EXCEPT ![c] = [kind |-> Kind(s.op), coll |-> s.coll]]
<1>1. sess'[c] = s /\ \A d \in Clients \ {c} : sess'[d] = sess[d]
  BY Zenon, BecomesAt
<1>2. NsCmd' = [d \in Clients |-> [kind |-> Kind(sess'[d].op), coll |-> sess'[d].coll]]
  BY Zenon DEF NsCmd
<1> QED
  BY Zenon, <1>1, <1>2 DEF NsCmd

\* ... when the command of c goes on, ...
LEMMA CmdStays ==
  ASSUME Typed, NEW c \in Clients, NEW s, Becomes(c, s),
         Kind(s.op) = Kind(sess[c].op), s.coll = sess[c].coll
  PROVE  NsCmd' = NsCmd
<1>1. sess'[c] = s /\ \A d \in Clients \ {c} : sess'[d] = sess[d]
  BY Zenon, BecomesAt
<1>2. NsCmd' = [d \in Clients |-> [kind |-> Kind(sess'[d].op), coll |-> sess'[d].coll]]
  BY Zenon DEF NsCmd
<1>3. \A d \in Clients : Kind(sess'[d].op) = Kind(sess[d].op) /\ sess'[d].coll = sess[d].coll
  BY Zenon, <1>1
<1> QED
  BY Zenon, <1>2, <1>3 DEF NsCmd

\* ... and when it is over.
LEMMA CmdEnds ==
  ASSUME Typed, NEW c \in Clients, NEW r, Finish(c, r)
  PROVE  NsCmd' = [NsCmd EXCEPT ![c] = Abstract!NoCmd]
<1>1. PICK s : Becomes(c, s) /\ s.op = "none" /\ s.coll = "none"
  BY Zenon, FinishAs
<1>2. Kind("none") = "none"
  BY Zenon DEF Kind
<1>3. NsCmd' = [NsCmd EXCEPT ![c] = [kind |-> "none", coll |-> "none"]]
  BY Zenon, <1>1, <1>2, CmdBecomes
<1> QED
  BY Zenon, <1>3 DEF Abstract!NoCmd

-----------------------------------------------------------------------------
(* The collections that exist are the tables, but for one being dropped.   *)

NoDrop == \A c \in Clients : sess[c].pc # "dropTable"

Plain == Existing = db.tables /\ NsDocs = db.docs /\ NsAcked = acked

\* Without a drop at work, Namespace sees the tables and documents as they are, ...
LEMMA PlainNow == Invariants /\ NoDrop => Plain
<1> SUFFICES ASSUME Invariants, NoDrop PROVE Plain
  BY Zenon
<1>1. \A l \in db.tables : db.rows # <<>> /\ l \in db.rows[1]
  BY Zenon DEF Invariants, ReadInv, Found, NoDrop
<1>2. db.rows \in Seq(SUBSET Colls)
  BY Zenon DEF Invariants, Typed, TypeOK, DB
<1>3. db.rows # <<>> => 1 \in DOMAIN db.rows
  BY Zenon, <1>2, NonEmptyRows
<1>4. Existing = db.tables
  BY Zenon, <1>1, <1>3 DEF Existing
<1>5. acked \subseteq db.docs /\ \A x \in db.docs : x[1] \in db.tables
  BY Zenon DEF Invariants, ReadInv, Stored
<1> QED
  BY Zenon, <1>4, <1>5 DEF Plain, NsDocs, NsAcked

\* ... also after the step.
LEMMA PlainNext == Invariants' /\ NoDrop' => Plain'
BY PlainNow, PTL

\* While a command other than drop runs, nobody is between the two steps of a drop.
LEMMA NoDropNow ==
  ASSUME Invariants, NEW c \in Clients, sess[c].pc \notin {"idle", "dropTable"}
  PROVE  NoDrop
<1> SUFFICES ASSUME NEW d \in Clients, sess[d].pc = "dropTable"
             PROVE  FALSE
  BY Zenon DEF NoDrop
<1>1. sess[d].op = "drop"
  BY Zenon, LabelOps DEF Invariants, Typed, DropLabels
<1> QED
  BY Zenon, <1>1, AloneFacts DEF Invariants

\* A step of a command other than a drop brings no drop about.
LEMMA NoDropNext ==
  ASSUME Invariants, NEW c \in Clients, sess[c].pc # "idle",
         NEW s, Becomes(c, s), s.pc # "dropTable"
  PROVE  NoDrop'
<1>1. sess'[c] = s /\ \A d \in Clients \ {c} : sess'[d] = sess[d]
  BY Zenon, BecomesAt DEF Invariants
<1>2. ASSUME NEW d \in Clients \ {c}
      PROVE  sess[d].pc # "dropTable"
  <2>1. sess[d].pc = "dropTable" => sess[d].op = "drop"
    BY Zenon, LabelOps DEF Invariants, Typed, DropLabels
  <2> QED
    BY ZenonT(60), <2>1, AloneFacts DEF Invariants
<1> QED
  BY Zenon, <1>1, <1>2 DEF NoDrop

\* The mapping looks at the committed database and the acknowledged documents only.
LEMMA SameDatabase ==
  ASSUME db' = db, acked' = acked
  PROVE  Same
<1>1. Existing' = Existing
  BY Zenon DEF Existing
<1> QED
  BY Zenon, <1>1 DEF Same, NsDocs, NsAcked

-----------------------------------------------------------------------------
(* Steps that leave the committed database alone.                          *)

\* The kind of command that Namespace sees in an operation.
LEMMA KindOf ==
  /\ Kind("none") = "none" /\ Kind("create") = "create" /\ Kind("drop") = "drop"
  /\ Kind("dropDatabase") = "dropDatabase"
  /\ \A o \in {"insert", "update", "updateFind", "set"} : Kind(o) = "write"
  /\ \A o \in {"find", "list"} : Kind(o) = "read"
BY Zenon DEF Kind

\* A session that is not idle has a command of some kind.
LEMMA Busy ==
  ASSUME Typed, NEW c \in Clients, sess[c].pc # "idle"
  PROVE  NsCmd[c].kind # "none"
<1>1. sess[c].op # "none" /\ sess[c].op \in AllOps \cup {"none", "updateFind", "set"}
  BY Zenon, LabelOps DEF Typed, TypeOK, Session
<1>2. sess[c].op \in {"create", "insert", "update", "find", "list", "drop", "dropDatabase",
                      "updateFind", "set"}
  BY Zenon, <1>1 DEF AllOps
<1> QED
  BY Zenon, <1>2, KindOf, CmdOf

\* A reply without an effect on the database ends the command for Namespace.
LEMMA FinishEnds ==
  ASSUME Typed, NEW c \in Clients, NEW r, Finish(c, r), sess[c].pc # "idle", Same
  PROVE  NsStep
BY Zenon, CmdEnds, Busy, EndStep

\* A statement that fails is a step End of Namespace, ...
LEMMA StopsStep ==
  ASSUME Invariants, NEW c \in Clients, Stops(c) \/ Fault(c)
  PROVE  NsStep
<1>1. PICK r : Finish(c, r)
  BY Zenon DEF Stops, Fault, Fail
<1>2. db' = db /\ acked' = acked
  BY Zenon DEF Stops, Fault, Fail
<1>3. sess[c].pc # "idle"
  <2>1. CASE Stops(c)
    BY Zenon, <2>1 DEF Stops, StopOK
  <2>2. CASE Fault(c)
    <3>1. sess[c].op \in AllOps
      BY Zenon, <2>2, CatalogAssumption DEF Fault
    <3>2. sess[c].op # "none"
      BY Zenon, <3>1 DEF AllOps
    <3> QED
      BY Zenon, <3>2, ClientFacts DEF Invariants
  <2> QED
    BY ZenonT(60), <2>1, <2>2
<1> QED
  BY Zenon, <1>1, <1>2, <1>3, SameDatabase, FinishEnds DEF Invariants

\* ... a request is a step Begin, ...
LEMMA RequestStep ==
  ASSUME Invariants, NEW c \in Clients, NEW o \in Ops, NEW l \in Colls, Request(c, o, l)
  PROVE  NsStep
<1> DEFINE s == [Idle EXCEPT !.op = o, !.coll = l, !.pc = Start(o)]
<1>1. s.op = o /\ s.coll = l /\ Becomes(c, s)
  BY Zenon DEF Idle, Request, Becomes
<1>2. Same
  BY Zenon, SameDatabase DEF Request
<1>3. Kind(o) \in Abstract!Kinds
  <2>1. o \in {"create", "insert", "update", "find", "list", "drop", "dropDatabase"}
    BY Zenon, CatalogAssumption DEF AllOps
  <2> QED
    BY Zenon, <2>1, KindOf DEF Abstract!Kinds
<1>4. sess[c].op = "none"
  BY Zenon, ClientFacts DEF Request, Invariants
<1> HIDE DEF s
<1>5. NsCmd' = [NsCmd EXCEPT ![c] = [kind |-> Kind(o), coll |-> l]]
  BY Zenon, <1>1, CmdBecomes DEF Invariants
<1>6. NsCmd[c].kind = "none"
  BY Zenon, <1>4, CmdOf, KindOf
<1> QED
  BY Zenon, <1>2, <1>3, <1>5, <1>6, BeginStep

\* ... a statement that only reads is a stuttering step, ...
LEMMA QuietStep ==
  ASSUME Typed, NEW c \in Clients, NEW s, Becomes(c, s), SameCommand(s, sess[c]),
         db' = db, acked' = acked
  PROVE  NsStep
<1>1. s.op = sess[c].op /\ s.coll = sess[c].coll
  BY Zenon DEF SameCommand
<1> QED
  BY Zenon, <1>1, SameDatabase, CmdStays, StutterStep

\* ... and so every step that leaves the database alone is simulated, ...
LEMMA LocalSteps ==
  ASSUME Invariants, NEW c \in Clients,
         Moves(c) \/ Reads(c)
  PROVE  NsStep
<1>1. PICK s : Becomes(c, s) /\ SameCommand(s, sess[c])
  BY Zenon DEF Moves, Reads, SameBut, ReadOK
<1>2. db' = db /\ acked' = acked
  BY Zenon DEF Moves, Reads
<1> QED
  BY ZenonT(60), <1>1, <1>2, QuietStep DEF Invariants

\* ... the update that goes on from its create phase included.
LEMMA GoesOnStep ==
  ASSUME Invariants, NEW c \in Clients, GoesOn(c)
  PROVE  NsStep
<1>1. PICK s : Becomes(c, s) /\ s.op = "updateFind" /\ s.coll = sess[c].coll
  BY ZenonT(60), PhaseAs DEF GoesOn, Invariants
<1>2. sess[c].op = "update"
  BY Zenon, LabelOps DEF GoesOn, Invariants, Typed
<1>3. db' = db /\ acked' = acked
  BY Zenon DEF GoesOn
<1> QED
  BY Zenon, <1>1, <1>2, <1>3, KindOf, SameDatabase, CmdStays, StutterStep DEF Invariants

-----------------------------------------------------------------------------
(* The refinement.                                                         *)

\* The statements of creates and updates are steps of Namespace.
LEMMA CreateSimulated ==
  ASSUME Invariants, Invariants'
  PROVE  \A c \in Clients : Makes(c) \/ Stores(c) => NsStep

<1>TxStutters.
  ASSUME Invariants, NEW c \in Clients, NEW s, Becomes(c, s), SameCommand(s, sess[c]),
         NEW q, Exec(c, q), InTx(sess[c].op), acked' = acked
  PROVE  NsStep
  <2> USE <1>TxStutters
  <2>1. db' = db
    BY ZenonT(60) DEF Exec
  <2> QED
    BY Zenon, <2>1, QuietStep DEF Invariants

<1>StoresStep.
  ASSUME Invariants, NEW c \in Clients, Stores(c)
  PROVE  NsStep
  <2> USE <1>StoresStep
  <2>1. PICK s : Becomes(c, s) /\ SameCommand(s, sess[c])
    BY ZenonT(60) DEF Stores
  <2>2. InTx(sess[c].op)
    BY Zenon, LabelOps DEF Stores, Invariants, Typed, InTx
  <2> QED
    BY ZenonT(60), <2>1, <2>2, <1>TxStutters DEF Stores

\* A statement on the pool, between two states without a half-done drop.
<1>PoolChanges.
  ASSUME Invariants, Invariants', NEW c \in Clients, NEW s, Becomes(c, s),
         SameCommand(s, sess[c]), sess[c].pc \notin {"idle", "dropTable"}, s.pc # "dropTable",
         NEW q \in Change, Exec(c, q), ~InTx(sess[c].op), q.docs = {}, acked' = acked
  PROVE  /\ NsCmd' = NsCmd /\ Existing = db.tables /\ Existing' = db.tables \cup q.tables
         /\ NsDocs' = NsDocs /\ NsAcked' = NsAcked
  <2> USE <1>PoolChanges
  <2>1. Plain /\ Plain'
    BY ZenonT(60), PlainNow, PlainNext, NoDropNow, NoDropNext
  <2>2. db'.tables = db.tables \cup q.tables /\ db'.docs = db.docs \cup q.docs
    BY Zenon, ExecPool DEF Invariants
  <2>3. NsCmd' = NsCmd
    BY Zenon, CmdStays DEF SameCommand, Invariants
  <2> QED
    BY ZenonT(60), <2>1, <2>2, <2>3 DEF Plain

<1>PoolStutters.
  ASSUME Invariants, Invariants', NEW c \in Clients, NEW s, Becomes(c, s),
         SameCommand(s, sess[c]), sess[c].pc \notin {"idle", "dropTable"}, s.pc # "dropTable",
         NEW q \in Change, Exec(c, q), ~InTx(sess[c].op), q.tables = {}, q.docs = {},
         acked' = acked
  PROVE  NsStep
  <2> USE <1>PoolStutters
  <2>1. /\ NsCmd' = NsCmd /\ Existing = db.tables /\ Existing' = db.tables \cup q.tables
        /\ NsDocs' = NsDocs /\ NsAcked' = NsAcked
    BY Zenon, <1>PoolChanges
  <2>2. Existing' = Existing
    BY Zenon, <2>1
  <2> QED
    BY Zenon, <2>1, <2>2, StutterStep DEF Same

<1>PreparesStep.
  ASSUME Invariants, Invariants', NEW c \in Clients,
         MakesSchema(c) \/ MakesSettings(c) \/ MakesRow(c)
  PROVE  NsStep
  <2> USE <1>PreparesStep
  <2>1. PICK s : Becomes(c, s) /\ SameCommand(s, sess[c]) /\ s.pc # "dropTable"
    BY Zenon DEF MakesSchema, MakesSettings, MakesRow, SameBut
  <2>2. sess[c].pc \notin {"idle", "dropTable"} /\ acked' = acked
    BY ZenonT(60) DEF MakesSchema, MakesSettings, MakesRow
  <2>3. PICK q \in {SchemaMade, SettingsMade, RowMade} : Exec(c, q)
    BY ZenonT(60) DEF MakesSchema, MakesSettings, MakesRow
  <2>4. q \in Change /\ q.tables = {} /\ q.docs = {}
    BY ZenonT(60), ChangesTyped, SchemaMadeFields, SettingsMadeFields, RowMadeFields
  <2>5. CASE InTx(sess[c].op)
    BY Zenon, <2>1, <2>2, <2>3, <2>5, <1>TxStutters
  <2>6. CASE ~InTx(sess[c].op)
    BY Zenon, <2>1, <2>2, <2>3, <2>4, <2>6, <1>PoolStutters
  <2> QED
    BY ZenonT(60), <2>5, <2>6

<1>RecordsStep.
  ASSUME Invariants, Invariants', NEW c \in Clients, Records(c)
  PROVE  NsStep
  <2> USE <1>RecordsStep
  <2> DEFINE q == DocSet(Len(View(c).rows), sess[c].seen \cup {sess[c].coll})
  <2>1. PICK s : Becomes(c, s) /\ SameCommand(s, sess[c]) /\ s.pc # "dropTable"
    BY ZenonT(60) DEF Records, SameBut
  <2>2. /\ sess[c].pc \notin {"idle", "dropTable"} /\ acked' = acked /\ Exec(c, q)
    BY ZenonT(60) DEF Records
  <2>3. CASE InTx(sess[c].op)
    BY Zenon, <2>1, <2>2, <2>3, <1>TxStutters
  <2>4. CASE ~InTx(sess[c].op)
    <3>1. View(c).rows \in Seq(SUBSET Colls) /\ sess[c].coll \in Colls /\ sess[c].seen \in SUBSET Colls
      BY ZenonT(60), <2>2, ClientFacts, ViewType DEF Invariants, Typed, DB, Session
    <3>2. q \in Change
      BY <3>1, ChangesTyped
    <3>3. q.tables = {} /\ q.docs = {}
      BY DocSetFields
    <3> HIDE DEF q
    <3> QED
      BY Zenon, <2>1, <2>2, <2>4, <3>2, <3>3, <1>PoolStutters
  <2> QED
    BY ZenonT(60), <2>3, <2>4

<1>TableStep.
  ASSUME Invariants, Invariants', NEW c \in Clients, MakesTable(c)
  PROVE  NsStep
  <2> USE <1>TableStep
  <2> DEFINE q == TableMade(sess[c].coll)
  <2>1. PICK s : Becomes(c, s) /\ SameCommand(s, sess[c]) /\ s.pc # "dropTable"
    BY ZenonT(60) DEF MakesTable
  <2>2. /\ sess[c].pc \in {"collTable", "collTableWait"} /\ acked' = acked /\ Exec(c, q)
        /\ sess[c].coll \notin View(c).tables
    BY ZenonT(60) DEF MakesTable
  <2>3. CASE InTx(sess[c].op)
    BY ZenonT(60), <2>1, <2>2, <2>3, <1>TxStutters
  <2>4. CASE ~InTx(sess[c].op)
    <3>1. q \in Change /\ q.tables = {sess[c].coll} /\ q.docs = {}
      BY Zenon, <2>2, ClientFacts, ChangesTyped, TableMadeFields DEF Invariants
    <3>2. sess[c].pc \notin {"idle", "dropTable"}
      BY Zenon, <2>2
    <3> HIDE DEF q
    <3>3. /\ NsCmd' = NsCmd /\ Existing = db.tables /\ Existing' = db.tables \cup q.tables
          /\ NsDocs' = NsDocs /\ NsAcked' = NsAcked
      BY Zenon, <2>1, <2>2, <2>4, <3>1, <3>2, <1>PoolChanges
    <3>4. sess[c].coll \notin db.tables
      BY ZenonT(60), SMTT(60), <2>2, <2>4, PoolView DEF Invariants
    <3>5. NsCmd[c].kind = "write" /\ NsCmd[c].coll = sess[c].coll
      BY Zenon, <2>4, CreatesOnPool, CmdOf, KindOf DEF Invariants, Makes
    <3> QED
      BY ZenonT(60), SMTT(60), <3>1, <3>3, <3>4, <3>5, CreateStep
  <2> QED
    BY ZenonT(60), <2>3, <2>4
<1> QED
  BY Zenon, <1>PreparesStep, <1>RecordsStep, <1>TableStep, <1>StoresStep DEF Makes

\* COMMIT is a step of Namespace.
LEMMA CommitSimulated ==
  ASSUME Invariants, Invariants'
  PROVE  \A c \in Clients : Commit(c) => NsStep

<1>InsertStep.
  ASSUME NEW c \in Clients, NsCmd[c].kind = "write",
         Existing' = Existing \cup {NsCmd[c].coll},
         NsCmd' = [NsCmd EXCEPT ![c] = Abstract!NoCmd],
         NsDocs' = NsDocs \cup {<<NsCmd[c].coll, c>>},
         NsAcked' = NsAcked \/ NsAcked' = NsAcked \cup {<<NsCmd[c].coll, c>>}
  PROVE  NsStep
  <2> USE <1>InsertStep
  <2>1. Abstract!Insert(c)
    BY Zenon DEF Abstract!Insert, Abstract!Running, Abstract!Ended, NsDocs, NsAcked, NsCmd
  <2> QED
    BY Zenon, <2>1 DEF NsStep, Abstract!Next

<1>CommitChanges.
  ASSUME Invariants, Invariants', NEW c \in Clients, Commit(c)
  PROVE  /\ sess[c].pc = "commit" /\ InTx(sess[c].op)
         /\ Existing' = Existing \cup pend[c].tables
         /\ NsDocs' = NsDocs \cup pend[c].docs
         /\ NsAcked = acked /\ NsAcked' = acked'
  <2> USE <1>CommitChanges
  <2>1. sess[c].pc = "commit" /\ InTx(sess[c].op) /\ db' = Apply(db, pend[c])
    BY ZenonT(60), SMTT(60), CommitAs DEF Invariants
  <2>2. PICK s : Becomes(c, s) /\ s.pc \in {"idle", "existsSchema", "nameSchema"}
    BY Zenon, CommitAs DEF Invariants
  <2>3. NoDrop /\ NoDrop'
    BY Zenon, <2>1, <2>2, NoDropNow, NoDropNext
  <2>4. Plain /\ Plain'
    BY ZenonT(60), <2>3, PlainNow, PlainNext
  <2>5. db'.tables = db.tables \cup pend[c].tables /\ db'.docs = db.docs \cup pend[c].docs
    BY Zenon, <2>1, CommitGrows DEF Invariants
  <2> QED
    BY ZenonT(60), <2>1, <2>4, <2>5 DEF Plain

\* An insert stores its document, in a collection that it creates if need be.
<1>CommitInsertStep.
  ASSUME Invariants, Invariants', NEW c \in Clients, Commit(c), sess[c].op = "insert"
  PROVE  NsStep
  <2> USE <1>CommitInsertStep
  <2>1. /\ sess[c].pc = "commit" /\ InTx(sess[c].op)
        /\ Existing' = Existing \cup pend[c].tables /\ NsDocs' = NsDocs \cup pend[c].docs
        /\ NsAcked = acked /\ NsAcked' = acked'
    BY ZenonT(60), <1>CommitChanges
  <2>2. ReadSession(db, pend[c], sess[c], c)
    BY ZenonT(60) DEF Invariants, ReadInv
  <2>3. pend[c].docs = {<<sess[c].coll, c>>} /\ sess[c].coll \in db.tables \cup pend[c].tables
    BY ZenonT(60), <2>1, <2>2 DEF ReadSession, OwnDocs
  <2>4. pend[c].tables \subseteq {sess[c].coll}
    BY Zenon, <2>2 DEF ReadSession, OwnTable
  <2>5. Existing = db.tables
    BY Zenon, <2>1, NoDropNow, PlainNow DEF Plain
  <2>6. Existing' = Existing \cup {sess[c].coll}
    BY ZenonT(60), <2>1, <2>3, <2>4, <2>5
  <2>7. PICK r : Finish(c, r)
    BY Zenon DEF Commit, Committed
  <2>8. acked' = acked \/ acked' = acked \cup {<<sess[c].coll, c>>}
    BY Zenon, CommitAcks DEF Invariants
  <2>9. NsCmd' = [NsCmd EXCEPT ![c] = Abstract!NoCmd]
    BY Zenon, <2>7, CmdEnds DEF Invariants
  <2>10. NsCmd[c].kind = "write" /\ NsCmd[c].coll = sess[c].coll
    BY Zenon, CmdOf, KindOf
  <2> QED
    BY ZenonT(60), <2>1, <2>3, <2>6, <2>8, <2>9, <2>10, <1>InsertStep

\* The other commands store no document; only create may have made a table.
<1>CommitOtherStep.
  ASSUME Invariants, Invariants', NEW c \in Clients, Commit(c), sess[c].op # "insert"
  PROVE  NsStep
  <2> USE <1>CommitOtherStep
  <2>1. /\ sess[c].pc = "commit" /\ InTx(sess[c].op)
        /\ Existing' = Existing \cup pend[c].tables /\ NsDocs' = NsDocs \cup pend[c].docs
        /\ NsAcked = acked /\ NsAcked' = acked'
    BY Zenon, <1>CommitChanges
  <2>2. ReadSession(db, pend[c], sess[c], c)
    BY Zenon DEF Invariants, ReadInv
  <2>3. NsDocs' = NsDocs /\ NsAcked' = NsAcked
    <3>1. pend[c].docs = {}
      BY Zenon, <2>2 DEF ReadSession, OwnDocs
    <3>2. acked' = acked
      BY ZenonT(60), CommitAcks DEF Invariants
    <3> QED
      BY ZenonT(60), <2>1, <3>1, <3>2
  <2>4. /\ pend[c].tables = {} \/ pend[c].tables = {sess[c].coll}
        /\ pend[c].tables # {} => sess[c].op = "create"
    BY Zenon, <2>2 DEF ReadSession, OwnTable
  <2>5. ASSUME NEW r, Finish(c, r)
        PROVE  NsStep
    <3>1. NsCmd' = [NsCmd EXCEPT ![c] = Abstract!NoCmd]
      BY Zenon, <2>5, CmdEnds DEF Invariants
    <3>2. NsCmd[c].kind # "none" /\ NsCmd[c].coll = sess[c].coll
      BY Zenon, <2>1, Busy, CmdOf DEF Invariants
    <3>3. CASE pend[c].tables \subseteq Existing
      <4>1. Existing' = Existing
        BY Zenon, <2>1, <3>3
      <4> QED
        BY Zenon, <2>3, <3>1, <3>2, <4>1, EndStep DEF Same
    <3>4. CASE ~(pend[c].tables \subseteq Existing)
      <4>1. sess[c].op = "create" /\ sess[c].coll \notin Existing
        BY Zenon, <2>4, <3>4
      <4>2. Existing' = Existing \cup {NsCmd[c].coll} /\ NsCmd[c].coll \notin Existing
        BY Zenon, <2>1, <2>4, <3>2, <3>4
      <4>3. NsCmd[c].kind = "create"
        BY Zenon, <4>1, CmdOf, KindOf
      <4> QED
        BY ZenonT(60), <2>3, <3>1, <4>2, <4>3, CreateStep
    <3> QED
      BY Zenon, <3>3, <3>4
  <2>6. ASSUME NEW o \in {"set", "insert"}, sess[c].op = "updateFind", Phase(c, o)
        PROVE  NsStep
    <3>1. PICK s : Becomes(c, s) /\ s.op = o /\ s.coll = sess[c].coll
      BY <2>6, PhaseAs DEF Invariants
    <3>2. NsCmd' = NsCmd
      BY Zenon, <2>6, <3>1, KindOf, CmdStays DEF Invariants
    <3>3. Existing' = Existing
      BY Zenon, <2>1, <2>4, <2>6
    <3> QED
      BY ZenonT(60), <2>3, <3>2, <3>3, StutterStep DEF Same
  <2> QED
    BY Zenon, <2>5, <2>6 DEF Commit, Committed
<1> QED
  BY Zenon, <1>CommitInsertStep, <1>CommitOtherStep

\* The two statements of a drop are a step of Namespace and a stuttering step.
LEMMA DropSimulated ==
  ASSUME Invariants, Invariants'
  PROVE  \A c \in Clients : Unrecords(c) \/ DropTable(c) \/ DropsDatabase(c) => NsStep

<1>DropNsStep.
  ASSUME NEW c \in Clients, NsCmd[c].kind = "drop", NsCmd[c].coll \in Existing,
         Existing' = Existing \ {NsCmd[c].coll}, NsCmd' = NsCmd,
         NsDocs' = NsDocs \ Abstract!Of(NsCmd[c].coll, NsDocs),
         NsAcked' = NsAcked \ Abstract!Of(NsCmd[c].coll, NsAcked)
  PROVE  NsStep
  <2> USE <1>DropNsStep
  <2>1. Abstract!Drop(c)
    BY Zenon DEF Abstract!Drop, Abstract!Running, Abstract!Of, NsDocs, NsAcked, NsCmd
  <2> QED
    BY Zenon, <2>1 DEF NsStep, Abstract!Next

<1>DropDatabaseStep.
  ASSUME NEW c \in Clients, NsCmd[c].kind = "dropDatabase",
         Existing' = {}, NsDocs' = {}, NsAcked' = {},
         NsCmd' = [NsCmd EXCEPT ![c] = Abstract!NoCmd]
  PROVE  NsStep
  <2> USE <1>DropDatabaseStep
  <2>1. Abstract!DropDatabase(c)
    BY Zenon DEF Abstract!DropDatabase, Abstract!Running, Abstract!Ended, NsDocs, NsAcked, NsCmd
  <2> QED
    BY Zenon, <2>1 DEF NsStep, Abstract!Next

\* The collection is gone once it is no longer recorded, ...
<1>UnrecordsStep.
  ASSUME Invariants, Invariants', NEW c \in Clients, Unrecords(c)
  PROVE  NsStep
  <2> USE <1>UnrecordsStep
  <2> DEFINE l == sess[c].coll
  <2>1. /\ sess[c].pc = "dropUpdate" /\ sess[c].op = "drop" /\ l \in db.tables
        /\ db'.rows # <<>> /\ db'.rows[1] = db.rows[1] \ {l} /\ Len(db'.rows) = Len(db.rows)
        /\ db'.tables = db.tables /\ db'.docs = db.docs /\ acked' = acked
    BY ZenonT(60), UnrecordsFacts DEF Invariants
  <2>2. PICK s : Becomes(c, s) /\ SameCommand(s, sess[c])
    BY ZenonT(60) DEF Unrecords, SameBut
  <2>3. NoDrop
    BY Zenon, <2>1, NoDropNow
  <2>4. Existing = db.tables /\ NsDocs = db.docs /\ NsAcked = acked
    BY Zenon, <2>3, PlainNow DEF Plain
  <2>5. \A k \in db.tables : k \in db.rows[1]
    BY ZenonT(60), <2>3 DEF Invariants, ReadInv, Found, NoDrop
  <2>6. DOMAIN db'.rows = {1}
    <3>1. db'.rows \in Seq(SUBSET Colls) /\ Len(db'.rows) <= 1
      BY ZenonT(60) DEF Invariants, Typed, TypeOK, DB, RecordInv, CommittedInv, OneRow
    <3> QED
      BY ZenonT(60), <2>1, <3>1, SingleRow
  <2>7. Existing' = Existing \ {l}
    BY Zenon, <2>1, <2>4, <2>5, <2>6 DEF Existing
  <2>8. /\ NsDocs' = NsDocs \ Abstract!Of(l, NsDocs)
        /\ NsAcked' = NsAcked \ Abstract!Of(l, NsAcked)
    <3>1. \A x \in db.docs : x[1] \in db.tables
      BY ZenonT(60) DEF Invariants, ReadInv, Stored
    <3>2. \A x \in acked : x[1] \in db.tables
      BY ZenonT(60), <3>1 DEF Invariants, ReadInv, Stored
    <3> QED
      BY ZenonT(60), <2>1, <2>4, <2>7, <3>1, <3>2 DEF NsDocs, NsAcked, Abstract!Of
  <2>9. NsCmd' = NsCmd
    BY ZenonT(60), <2>2, CmdStays DEF SameCommand, Invariants
  <2>10. NsCmd[c].kind = "drop" /\ NsCmd[c].coll = l
    BY Zenon, <2>1, CmdOf, KindOf
  <2> QED
    BY Zenon, <2>1, <2>4, <2>7, <2>8, <2>9, <2>10, <1>DropNsStep

\* ... and DROP TABLE takes away nothing that clients still see.
<1>DropTableStep.
  ASSUME Invariants, Invariants', NEW c \in Clients, DropTable(c)
  PROVE  NsStep
  <2> USE <1>DropTableStep
  <2> DEFINE l == sess[c].coll
  <2>1. sess[c].pc = "dropTable" /\ sess[c].op = "drop"
    BY Zenon, LabelOps DEF DropTable, Invariants, Typed, DropLabels
  <2>2. PICK r : Finish(c, r)
    BY Zenon DEF DropTable
  <2>3. PICK s : Becomes(c, s) /\ s.pc = "idle"
    BY Zenon, <2>2, FinishAs DEF Invariants
  <2>4. db \in DB
    BY Zenon, ClientFacts DEF Invariants
  <2>5. /\ db'.tables = db.tables \ {l}
        /\ db'.docs = {x \in db.docs : x[1] # l} /\ acked' = {x \in acked : x[1] # l}
    BY Zenon, <2>4 DEF DropTable, DB
  <2>6. NoDrop'
    BY Zenon, <2>1, <2>3, NoDropNext
  <2>7. Existing' = db'.tables /\ NsDocs' = db'.docs /\ NsAcked' = acked'
    BY Zenon, <2>6, PlainNext DEF Plain
  <2>8. Existing = db.tables \ {l}
    <3>1. \A i \in DOMAIN db.rows : l \notin db.rows[i]
      BY ZenonT(60), <2>1 DEF Invariants, RecordInv, CommittedInv, DropForgets
    <3>2. \A d \in Clients \ {c} : sess[d].pc = "idle"
      BY Zenon, <2>1, AloneFacts DEF Invariants
    <3>3. \A k \in db.tables \ {l} : db.rows # <<>> /\ k \in db.rows[1]
      BY ZenonT(60), <3>2 DEF Invariants, ReadInv, Found
    <3>4. db.rows # <<>> => 1 \in DOMAIN db.rows
      <4>1. db.rows \in Seq(SUBSET Colls)
        BY Zenon, <2>4 DEF DB
      <4> QED
        BY ZenonT(60), <4>1, NonEmptyRows
    <3> QED
      BY Zenon, <3>1, <3>3, <3>4 DEF Existing
  <2>9. acked \subseteq db.docs /\ \A x \in db.docs : x[1] \in db.tables
    BY ZenonT(60) DEF Invariants, ReadInv, Stored
  <2>10. NsDocs' = NsDocs
    BY Zenon, <2>5, <2>7, <2>8, <2>9 DEF NsDocs
  <2>11. NsAcked' = NsAcked
    BY ZenonT(60), <2>5, <2>7, <2>8, <2>9 DEF NsAcked
  <2>12. Same
    BY Zenon, <2>5, <2>7, <2>8, <2>10, <2>11 DEF Same
  <2>13. sess[c].pc # "idle"
    BY Zenon, <2>1
  <2> QED
    BY Zenon, <2>2, <2>12, <2>13, FinishEnds DEF Invariants

<1>DropsDatabaseStep.
  ASSUME Invariants, NEW c \in Clients, DropsDatabase(c)
  PROVE  NsStep
  <2> USE <1>DropsDatabaseStep
  <2>1. sess[c].op = "dropDatabase" /\ db' = EmptyDB /\ acked' = {} /\ Finish(c, "ok")
    BY ZenonT(60), LabelOps DEF DropsDatabase, Invariants, Typed
  <2>2. Existing' = {} /\ NsDocs' = {} /\ NsAcked' = {}
    BY Zenon, <2>1 DEF Existing, NsDocs, NsAcked, EmptyDB
  <2>3. NsCmd' = [NsCmd EXCEPT ![c] = Abstract!NoCmd]
    BY Zenon, <2>1, CmdEnds DEF Invariants
  <2>4. NsCmd[c].kind = "dropDatabase"
    BY Zenon, <2>1, CmdOf, KindOf
  <2> QED
    BY ZenonT(60), <2>2, <2>3, <2>4, <1>DropDatabaseStep
<1> QED
  BY Zenon, <1>UnrecordsStep, <1>DropTableStep, <1>DropsDatabaseStep

\* Every step of a client is a step of Namespace, ...
LEMMA StepSimulated ==
  ASSUME Invariants, Invariants', NEW c \in Clients, Step(c)
  PROVE  NsStep
<1>1. StepShape(c)
  BY Zenon, StepHasShape DEF Invariants
<1> QED
  BY Zenon, <1>1, StopsStep, LocalSteps, GoesOnStep, CreateSimulated, CommitSimulated, DropSimulated
     DEF StepShape, Makes

\* ... and so is every step of the system.
LEMMA NextSimulated ==
  ASSUME Invariants, Invariants', [Next]_vars
  PROVE  NsStep
<1>1. CASE Next
  BY Zenon, <1>1, RequestStep, StepSimulated, StopsStep DEF Next
<1>2. CASE UNCHANGED vars
  <2>1. Same
    BY Zenon, <1>2, SameDatabase DEF vars
  <2>2. NsCmd' = NsCmd
    BY Zenon, <1>2 DEF vars, NsCmd
  <2> QED
    BY Zenon, <2>1, <2>2, StutterStep
<1> QED
  BY Zenon, <1>1, <1>2

\* The initial states are initial states of Namespace.
LEMMA InitSimulated ==
  ASSUME Init
  PROVE  Abstract!Init
<1>1. db = EmptyDB /\ acked = {} /\ \A c \in Clients : sess[c] = Idle
  BY ZenonT(60) DEF Init
<1>2. Existing = {} /\ NsDocs = {} /\ NsAcked = {}
  BY ZenonT(60), <1>1 DEF Existing, NsDocs, NsAcked, EmptyDB
<1>3. \A c \in Clients : Kind(sess[c].op) = "none" /\ sess[c].coll = "none"
  BY <1>1, KindOf DEF Idle
<1>4. NsCmd = [c \in Clients |-> Abstract!NoCmd]
  BY Zenon, <1>3 DEF NsCmd, Abstract!NoCmd
<1> QED
  BY Zenon, <1>2, <1>4 DEF Abstract!Init, NsDocs, NsAcked, NsCmd

\* Every command, whatever its statements interleave with, behaves as the steps of
\* Namespace: a collection and its documents appear at COMMIT, or with the table that
\* an update creates, and disappear when the drop has written the settings document.
THEOREM CatalogImplementsNamespace ==
  ASSUME Together
  PROVE  Spec => RefinesNamespace
<1>1. Init => Abstract!Init
  BY Zenon, InitSimulated
<1>2. Invariants /\ Invariants' /\ [Next]_vars => [Abstract!Next]_(Abstract!nsVars)
  BY Zenon, NextSimulated DEF NsStep
<1>3. Spec => []Invariants
  BY Zenon, ReadInvariant
<1> QED
  BY <1>1, <1>2, <1>3, PTL DEF Spec, RefinesNamespace, Abstract!Spec
=============================================================================
