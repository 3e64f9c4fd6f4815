--------------------------- MODULE CatalogProofs ---------------------------
(***************************************************************************)
(* Types and control of Catalog, for every set of clients and collections  *)
(* and with faults: TypeOK needs ControlOK, which labels a command can be  *)
(* at.  The second half sorts the steps of a command by their shape - it   *)
(* moves on, it reads the settings document, it makes one kind of change,  *)
(* it ends - which is what the invariance proofs of CatalogRecordProofs    *)
(* and CatalogReadProofs go through.                                       *)
(***************************************************************************)
EXTENDS Catalog, TLAPS

SettingsLabels == {"settingsTables", "createSettings", "createSettingsWait", "insertSettings"}

CollLabels ==
  {"collSchema", "collTables", "collSettings", "collUpdate", "collTable", "collTableWait"}

NameLabels == {"nameSchema", "nameTables", "nameSettings", "nameUpdate"}

CreateLabels == {"createSchema", "createSchemaWait"}

ExistsLabels == {"existsSchema", "existsSettings"}

DropLabels == {"dropSchemaCheck", "dropTables", "dropSettings", "dropUpdate", "dropTable"}

\* The labels a command can be at.
At(o) ==
  CASE o = "none"         -> {"idle"}
    [] o = "create"       -> CreateLabels \cup SettingsLabels \cup CollLabels \cup {"commit"}
    [] o = "insert"       -> ExistsLabels \cup CreateLabels \cup SettingsLabels \cup CollLabels
                             \cup NameLabels \cup {"data", "commit"}
    [] o = "find"         -> ExistsLabels \cup SettingsLabels \cup NameLabels \cup {"data", "commit"}
    [] o = "updateFind"   -> ExistsLabels \cup SettingsLabels \cup NameLabels \cup {"data", "commit"}
    [] o = "set"          -> SettingsLabels \cup NameLabels \cup {"data", "commit"}
    [] o = "update"       -> ExistsLabels \cup CreateLabels \cup SettingsLabels \cup CollLabels
                             \cup {"ensured"}
    [] o = "list"         -> ExistsLabels
    [] o = "drop"         -> DropLabels
    [] o = "dropDatabase" -> {"dropDatabase"}

\* Control: label and command agree, a running command has a collection, and
\* createSettingsTable returns to the function that called it.
ControlOf(s) ==
  /\ s.pc \in At(s.op)
  /\ s.op # "none" => s.coll \in Colls
  /\ s.op \in {"create", "update"} => s.ret = "coll"
  /\ s.op \in {"find", "updateFind", "set"} /\ s.pc \in SettingsLabels => s.ret = "name"

ControlOK == \A c \in Clients : ControlOf(sess[c])

-----------------------------------------------------------------------------
(* Types of changes.                                                       *)

\* The settings table without rows is a sequence.
LEMMA EmptyRows == \A S : <<>> \in Seq(S)
OBVIOUS

\* A settings table with rows has a first row.
LEMMA NonEmptyRows ==
  ASSUME NEW S, NEW rows \in Seq(S), rows # <<>>
  PROVE  Len(rows) \in Nat \ {0} /\ 1 \in DOMAIN rows
OBVIOUS

\* A settings table with rows, but not two, has the one row 1.
LEMMA SingleRow ==
  ASSUME NEW S, NEW rows \in Seq(S), rows # <<>>, Len(rows) <= 1
  PROVE  DOMAIN rows = {1}
<1>1. Len(rows) = 1
  BY NonEmptyRows
<1>2. DOMAIN rows = 1..1
  BY <1>1
<1> QED
  BY <1>2

\* The positions of the rows.
LEMMA RowsDomain ==
  ASSUME NEW S, NEW rows \in Seq(S)
  PROVE  DOMAIN rows = 1..Len(rows)
OBVIOUS

\* A function on 1..n is a sequence of rows.
LEMMA FunctionRows ==
  ASSUME NEW S, NEW n \in Nat, NEW f \in [1..n -> S]
  PROVE  f \in Seq(S) /\ Len(f) = n
OBVIOUS

\* The rows after a change are a sequence of sets of collections.
LEMMA ApplyRowsType ==
  ASSUME NEW rows \in Seq(SUBSET Colls), NEW p \in Change
  PROVE  /\ ApplyRows(rows, p) \in Seq(SUBSET Colls)
         /\ Len(ApplyRows(rows, p)) = IF p.row THEN Len(rows) + 1 ELSE Len(rows)
         /\ \A i \in 1..Len(ApplyRows(rows, p)) :
              ApplyRows(rows, p)[i] \in {p.doc, {}} \cup {rows[j] : j \in 1..Len(rows)}
<1> DEFINE all == IF p.row THEN Append(rows, {}) ELSE rows
           R == [i \in 1..Len(all) |-> IF i <= p.n THEN p.doc ELSE all[i]]
<1>1. /\ all \in Seq(SUBSET Colls)
      /\ Len(all) = IF p.row THEN Len(rows) + 1 ELSE Len(rows)
      /\ \A i \in 1..Len(all) : all[i] \in {{}} \cup {rows[j] : j \in 1..Len(rows)}
  OBVIOUS
<1>2. p.doc \in SUBSET Colls /\ p.n \in Nat
  BY Zenon DEF Change
<1>3. Len(all) \in Nat /\ \A i \in 1..Len(all) : all[i] \in SUBSET Colls
  BY <1>1
<1>4. R \in [1..Len(all) -> SUBSET Colls]
  BY Zenon, <1>2, <1>3
<1>5. R \in Seq(SUBSET Colls) /\ Len(R) = Len(all)
  BY <1>3, <1>4, FunctionRows
<1>6. \A i \in 1..Len(all) : R[i] \in {p.doc, all[i]}
  BY Zenon
<1>7. ApplyRows(rows, p) = R
  BY Zenon DEF ApplyRows
<1> QED
  BY Zenon, <1>1, <1>5, <1>6, <1>7

\* A committed change leaves a database, ...
LEMMA ApplyType ==
  ASSUME NEW d \in DB, NEW p \in Change
  PROVE  Apply(d, p) \in DB
<1>1. d.rows \in Seq(SUBSET Colls)
  BY Zenon DEF DB
<1>2. ApplyRows(d.rows, p) \in Seq(SUBSET Colls)
  BY Zenon, <1>1, ApplyRowsType
<1> QED
  BY Zenon, <1>2 DEF Apply, DB, Change

\* ... changes of one transaction add up to a change, ...
LEMMA MergeType ==
  ASSUME NEW p \in Change, NEW q \in Change
  PROVE  Merge(p, q) \in Change
BY Zenon DEF Merge, Change

\* ... the change of no statement is one, ...
LEMMA NoChangeType == NoChange \in Change
BY Zenon DEF NoChange, Change

\* ... and a transaction sees a database.
LEMMA ViewType ==
  ASSUME TypeOK, NEW c \in Clients
  PROVE  View(c) \in DB
BY Zenon, ApplyType DEF TypeOK, View

-----------------------------------------------------------------------------
\* Which commands can be at a label.
LEMMA LabelOps ==
  ASSUME TypeOK, ControlOK, NEW c \in Clients
  PROVE  /\ sess[c].pc # "idle" => sess[c].op # "none" /\ sess[c].coll \in Colls
         /\ sess[c].pc \in ExistsLabels => sess[c].op \in {"insert", "find", "updateFind", "update", "list"}
         /\ sess[c].pc \in CreateLabels \cup CollLabels => sess[c].op \in {"create", "insert", "update"}
         /\ sess[c].pc \in SettingsLabels
              => sess[c].op \in {"create", "insert", "find", "updateFind", "set", "update"}
         /\ sess[c].pc \in NameLabels \cup {"data"} => sess[c].op \in {"insert", "find", "updateFind", "set"}
         /\ sess[c].pc = "commit" => sess[c].op \in {"create", "insert", "find", "updateFind", "set"}
         /\ sess[c].pc = "ensured" => sess[c].op = "update"
         /\ sess[c].pc \in DropLabels => sess[c].op = "drop"
         /\ sess[c].pc = "dropDatabase" => sess[c].op = "dropDatabase"
<1>1. sess[c].op \in AllOps \cup {"none", "updateFind", "set"} /\ ControlOf(sess[c])
  BY Zenon DEF TypeOK, ControlOK, Session
<1> QED
  BY <1>1 DEF ControlOf, AllOps, At, SettingsLabels, CollLabels, NameLabels, CreateLabels,
              ExistsLabels, DropLabels

-----------------------------------------------------------------------------
(* Types and control are preserved.                                        *)

Typed == TypeOK /\ ControlOK

\* Typed holds initially.
LEMMA TypedInit ==
  ASSUME Init
  PROVE  Typed
<1>1. Idle \in Session /\ ControlOf(Idle)
  BY Zenon DEF Idle, Session, Labels, ControlOf, At
<1>2. EmptyDB \in DB
  BY Zenon, EmptyRows DEF EmptyDB, DB
<1> QED
  BY Zenon, <1>1, <1>2, NoChangeType DEF Init, Typed, TypeOK, ControlOK

\* Typed is kept by every step of every client.
LEMMA TypedNext ==
  ASSUME Typed, [Next]_vars
  PROVE  Typed'

\* A statement changes the database or its own transaction, in the types.
<1>ExecType.
  ASSUME TypeOK, NEW c \in Clients, NEW p \in Change, Exec(c, p)
  PROVE  db' \in DB /\ pend' \in [Clients -> Change]
  <2> USE <1>ExecType
  <2>1. pend[c] \in Change
    BY Zenon DEF TypeOK
  <2>2. Merge(pend[c], p) \in Change
    BY Zenon, <2>1, MergeType
  <2>3. Apply(db, p) \in DB
    BY Zenon, ApplyType DEF TypeOK
  <2> QED
    BY Zenon, <2>2, <2>3 DEF Exec, TypeOK

<1>AtLabels. \A o \in AllOps \cup {"none", "updateFind", "set"} : At(o) \subseteq Labels
  BY DEF AllOps, At, Labels, SettingsLabels, CollLabels, NameLabels, CreateLabels, ExistsLabels, DropLabels

\* Replacing one session by a well-formed one.
<1>SessionStep.
  ASSUME TypeOK, ControlOK, NEW c \in Clients, NEW s \in Session, ControlOf(s),
         sess' = [sess EXCEPT ![c] = s]
  PROVE  sess' \in [Clients -> Session] /\ ControlOK'
  BY Zenon, <1>SessionStep DEF TypeOK, ControlOK, ControlOf

<1>GotoStep.
  ASSUME TypeOK, ControlOK, NEW c \in Clients, NEW label, Goto(c, label),
         label \in At(sess[c].op),
         sess[c].op \in {"find", "updateFind", "set"} /\ label \in SettingsLabels
           => sess[c].ret = "name"
  PROVE  sess' \in [Clients -> Session] /\ ControlOK'
  <2> USE <1>GotoStep
  <2> DEFINE s == [sess[c] EXCEPT !.pc = label]
  <2>1. sess[c] \in Session /\ ControlOf(sess[c])
    BY Zenon DEF TypeOK, ControlOK
  <2>2. label \in Labels
    BY Zenon, <2>1, <1>AtLabels DEF Session
  <2>3. s \in Session
    BY Zenon, <2>1, <2>2 DEF Session
  <2>4. ControlOf(s)
    BY Zenon, <2>1 DEF ControlOf, Session
  <2>5. sess' = [sess EXCEPT ![c] = s]
    BY Zenon DEF Goto
  <2> QED
    BY Zenon, <2>3, <2>4, <2>5, <1>SessionStep

<1>FinishStep.
  ASSUME TypeOK, ControlOK, NEW c \in Clients, NEW r \in {"ok", "error"}, Finish(c, r)
  PROVE  sess' \in [Clients -> Session] /\ ControlOK' /\ pend' \in [Clients -> Change]
  <2> USE <1>FinishStep
  <2> DEFINE s == [Idle EXCEPT !.reply = r]
  <2>1. s \in Session /\ ControlOf(s)
    BY ZenonT(60) DEF Idle, Session, ControlOf, At, Labels
  <2>2. sess' = [sess EXCEPT ![c] = s] /\ pend' = [pend EXCEPT ![c] = NoChange]
    BY Zenon DEF Finish
  <2>3. sess' \in [Clients -> Session] /\ ControlOK'
    BY Zenon, <2>1, <2>2, <1>SessionStep
  <2>4. pend' \in [Clients -> Change]
    BY Zenon, <2>2, NoChangeType DEF TypeOK
  <2> QED
    BY Zenon, <2>3, <2>4

<1>PhaseStep.
  ASSUME TypeOK, ControlOK, NEW c \in Clients, NEW o \in {"updateFind", "set", "insert"},
         sess[c].op # "none", Phase(c, o)
  PROVE  sess' \in [Clients -> Session] /\ ControlOK' /\ pend' \in [Clients -> Change]
  <2> USE <1>PhaseStep
  <2> DEFINE s == [Idle EXCEPT !.op = o, !.coll = sess[c].coll, !.pc = Start(o)]
  <2>1. sess[c].coll \in Colls
    BY Zenon DEF ControlOK, ControlOf
  <2>2. s \in Session
    BY ZenonT(60), <2>1 DEF Idle, Session, Start, Labels, AllOps
  <2>3. ControlOf(s)
    BY Zenon, <2>1 DEF Idle, Start, ControlOf, At, SettingsLabels, NameLabels, ExistsLabels
  <2>4. sess' = [sess EXCEPT ![c] = s] /\ pend' = [pend EXCEPT ![c] = NoChange]
    BY Zenon DEF Phase
  <2>5. pend' \in [Clients -> Change]
    BY Zenon, <2>4, NoChangeType DEF TypeOK
  <2> QED
    BY Zenon, <2>2, <2>3, <2>4, <2>5, <1>SessionStep

\* Reading the settings document, and going on at a label outside
\* createSettingsTable.
<1>ReadStep.
  ASSUME TypeOK, ControlOK, NEW c \in Clients, NEW i \in DOMAIN View(c).rows, NEW label,
         ReadSettings(c, i, label), label \in At(sess[c].op) \ SettingsLabels
  PROVE  sess' \in [Clients -> Session] /\ ControlOK'
  <2> USE <1>ReadStep
  <2> DEFINE seen == View(c).rows[i]
             s == [sess[c] EXCEPT !.seen = seen, !.pc = label, !.settingsLock = InTx(sess[c].op)]
  <2>1. sess[c] \in Session /\ ControlOf(sess[c])
    BY Zenon DEF TypeOK, ControlOK
  <2>2. label \in Labels
    BY Zenon, <2>1, <1>AtLabels DEF Session
  <2>3. View(c).rows \in Seq(SUBSET Colls)
    BY Zenon, ViewType DEF DB
  <2>4. seen \in SUBSET Colls
    BY <2>3
  <2>5. InTx(sess[c].op) \in BOOLEAN
    BY DEF InTx
  <2> HIDE DEF seen
  <2>6. s \in Session
    BY Zenon, <2>1, <2>2, <2>4, <2>5 DEF Session
  <2>7. ControlOf(s)
    BY Zenon, <2>1 DEF ControlOf, Session
  <2>8. sess' = [sess EXCEPT ![c] = s]
    BY Zenon DEF ReadSettings, seen
  <2> QED
    BY Zenon, <2>6, <2>7, <2>8, <1>SessionStep

\* The changes the statements make are changes.
<1>ChangeTypes.
  ASSUME TypeOK, ControlOK, NEW c \in Clients, sess[c].pc # "idle"
  PROVE  /\ [NoChange EXCEPT !.schema = TRUE] \in Change
         /\ [NoChange EXCEPT !.settings = TRUE] \in Change
         /\ [NoChange EXCEPT !.row = TRUE] \in Change
         /\ [NoChange EXCEPT !.tables = {sess[c].coll}] \in Change
         /\ [NoChange EXCEPT !.docs = IF sess[c].op = "insert" THEN {<<sess[c].coll, c>>} ELSE {}] \in Change
         /\ [NoChange EXCEPT !.n = Len(View(c).rows), !.doc = sess[c].seen \cup {sess[c].coll}] \in Change
         /\ [NoChange EXCEPT !.n = Len(View(c).rows), !.doc = sess[c].seen \ {sess[c].coll}] \in Change
  <2> USE <1>ChangeTypes
  <2>1. sess[c].coll \in Colls
    BY Zenon, LabelOps
  <2>2. sess[c].seen \in SUBSET Colls
    BY Zenon DEF TypeOK, Session
  <2>3. Len(View(c).rows) \in Nat
    BY ViewType DEF DB
  <2>4. (IF sess[c].op = "insert" THEN {<<sess[c].coll, c>>} ELSE {}) \in SUBSET (Colls \X Clients)
    BY <2>1
  <2> DEFINE n == Len(View(c).rows)
             d == IF sess[c].op = "insert" THEN {<<sess[c].coll, c>>} ELSE {}
  <2> HIDE DEF n, d
  <2>5. [NoChange EXCEPT !.docs = d] \in Change
    BY Zenon, <2>4 DEF NoChange, Change, d
  <2>6. /\ [NoChange EXCEPT !.n = n, !.doc = sess[c].seen \cup {sess[c].coll}] \in Change
        /\ [NoChange EXCEPT !.n = n, !.doc = sess[c].seen \ {sess[c].coll}] \in Change
    BY Zenon, <2>1, <2>2, <2>3 DEF NoChange, Change, n
  <2> QED
    BY ZenonT(60), <2>1, <2>5, <2>6 DEF NoChange, Change, n, d

<1>FailStep.
  ASSUME NEW c \in Clients, Fail(c)
  PROVE  Typed'
  BY Zenon, <1>FailStep, <1>FinishStep DEF Fail, Typed, TypeOK

<1>ExistsTyped.
  ASSUME NEW c \in Clients, ExistsSchema(c) \/ ExistsSettings(c)
  PROVE  Typed'
  <2> USE <1>ExistsTyped
  <2> USE DEF Typed
  <2>1. sess[c].pc \in ExistsLabels
    BY ZenonT(60) DEF ExistsSchema, ExistsSettings, ExistsLabels
  <2>2. sess[c].op \in {"insert", "find", "updateFind", "update", "list"}
    BY ZenonT(60), <2>1, LabelOps
  <2>3. \A x \in BOOLEAN : sess[c].op # "list" => AfterExists(sess[c].op, x) \in At(sess[c].op) \ SettingsLabels
    BY Zenon, <2>2 DEF AfterExists, At, SettingsLabels, NameLabels, CreateLabels
  <2>4. "existsSettings" \in At(sess[c].op) \ SettingsLabels
    BY Zenon, <2>2 DEF At, SettingsLabels, ExistsLabels
  <2>5. CASE ExistsSchema(c)
    <3>1. db' = db /\ acked' = acked
      BY Zenon, <2>5 DEF ExistsSchema
    <3>2. CASE Goto(c, "existsSettings") /\ UNCHANGED pend
      BY Zenon, <3>1, <3>2, <2>4, <1>GotoStep DEF TypeOK
    <3>3. CASE sess[c].op # "list" /\ Goto(c, AfterExists(sess[c].op, FALSE)) /\ UNCHANGED pend
      BY ZenonT(60), <3>1, <3>3, <2>3, <1>GotoStep DEF TypeOK
    <3>4. CASE Finish(c, "ok")
      BY Zenon, <3>1, <3>4, <1>FinishStep DEF TypeOK
    <3> QED
      BY Zenon, <2>5, <3>2, <3>3, <3>4 DEF ExistsSchema
  <2>6. CASE ExistsSettings(c)
    <3>1. CASE Fail(c)
      BY Zenon, <3>1, <1>FailStep
    <3>2. CASE Finish(c, "ok") /\ UNCHANGED <<db, acked>>
      BY Zenon, <3>2, <1>FinishStep DEF TypeOK
    <3>3. CASE /\ sess[c].op # "list"
               /\ \E i \in DOMAIN View(c).rows :
                    ReadSettings(c, i, AfterExists(sess[c].op, Recorded(c, i)))
      <4>1. PICK i \in DOMAIN View(c).rows :
              ReadSettings(c, i, AfterExists(sess[c].op, Recorded(c, i)))
        BY Zenon, <3>3
      <4>2. Recorded(c, i) \in BOOLEAN
        BY DEF Recorded
      <4>3. AfterExists(sess[c].op, Recorded(c, i)) \in At(sess[c].op) \ SettingsLabels
        BY Zenon, <3>3, <4>2, <2>3
      <4>4. sess' \in [Clients -> Session] /\ ControlOK'
        BY Zenon, <4>1, <4>3, <1>ReadStep
      <4> QED
        BY Zenon, <4>1, <4>4 DEF ReadSettings, TypeOK
    <3> QED
      BY Zenon, <2>6, <3>1, <3>2, <3>3 DEF ExistsSettings
  <2> QED
    BY Zenon, <2>5, <2>6

<1>CreateSchemaTyped.
  ASSUME NEW c \in Clients, CreateSchema(c) \/ CreateSchemaWait(c)
  PROVE  Typed'
  <2> USE <1>CreateSchemaTyped
  <2> USE DEF Typed
  <2>1. sess[c].pc \in CreateLabels /\ sess[c].pc # "idle"
    BY Zenon DEF CreateSchema, CreateSchemaWait, CreateLabels
  <2>2. sess[c].op \in {"create", "insert", "update"}
    BY Zenon, <2>1, LabelOps
  <2>3. \A l \in {"collSchema", "settingsTables", "createSchemaWait"} :
          l \in At(sess[c].op) /\ sess[c].op \notin {"find", "updateFind", "set"}
    BY Zenon, <2>2 DEF At, SettingsLabels, CollLabels, CreateLabels
  <2>4. /\ acked' = acked
        /\ \/ /\ \E l \in {"collSchema", "settingsTables", "createSchemaWait"} : Goto(c, l)
              /\ \/ UNCHANGED <<db, pend>>
                 \/ Exec(c, [NoChange EXCEPT !.schema = TRUE])
           \/ Fail(c)
    BY Zenon DEF CreateSchema, CreateSchemaWait, Fail
  <2>5. CASE Fail(c)
    BY Zenon, <2>5, <1>FailStep
  <2>6. CASE \E l \in {"collSchema", "settingsTables", "createSchemaWait"} : Goto(c, l)
    <3>1. sess' \in [Clients -> Session] /\ ControlOK'
      BY Zenon, <2>3, <2>6, <1>GotoStep
    <3>2. ASSUME Exec(c, [NoChange EXCEPT !.schema = TRUE])
          PROVE  db' \in DB /\ pend' \in [Clients -> Change]
      BY ZenonT(60), <3>2, <2>1, <1>ChangeTypes, <1>ExecType
    <3>3. CASE Fail(c)
      BY Zenon, <3>3, <1>FailStep
    <3> QED
      BY Zenon, <2>4, <3>1, <3>2, <3>3 DEF TypeOK
  <2> QED
    BY Zenon, <2>4, <2>5, <2>6

<1>SettingsTyped.
  ASSUME NEW c \in Clients,
         SettingsTables(c) \/ CreateSettings(c) \/ CreateSettingsWait(c) \/ InsertSettings(c)
  PROVE  Typed'
  <2> USE <1>SettingsTyped
  <2> USE DEF Typed
  <2>1. sess[c].pc \in SettingsLabels /\ sess[c].pc # "idle"
    BY Zenon DEF SettingsTables, CreateSettings, CreateSettingsWait, InsertSettings, SettingsLabels
  <2>2. /\ sess[c].op \in {"create", "insert", "find", "updateFind", "set", "update"}
        /\ sess[c].op \in {"find", "updateFind", "set"} => sess[c].ret = "name"
        /\ sess[c].op \in {"create", "update"} => sess[c].ret = "coll"
        /\ sess[c].ret \in {"coll", "name"}
    BY Zenon, <2>1, LabelOps DEF ControlOK, ControlOf, TypeOK, Session
  <2>3. \A l \in SettingsLabels : l \in At(sess[c].op)
    BY Zenon, <2>2 DEF At
  <2>4. sess[c].ret # "name" => "collSchema" \in At(sess[c].op)
    BY Zenon, <2>2 DEF At, CollLabels
  <2>5. AfterSettings(c) \in At(sess[c].op) \ SettingsLabels
    BY Zenon, <2>2 DEF At, AfterSettings, SettingsLabels, CollLabels, NameLabels
  <2>6. ASSUME NEW a, SettingsExist(c, a)
        PROVE  Typed'
    <3>1. CASE Fail(c)
      BY Zenon, <3>1, <1>FailStep
    <3>2. CASE sess[c].ret # "name" /\ Goto(c, "collSchema") /\ UNCHANGED <<db, pend, acked>>
      <4>1. "collSchema" \notin SettingsLabels
        BY Zenon DEF SettingsLabels
      <4>2. sess' \in [Clients -> Session] /\ ControlOK'
        BY Zenon, <3>2, <2>4, <4>1, <1>GotoStep
      <4> QED
        BY Zenon, <3>2, <4>2 DEF TypeOK
    <3> QED
      BY Zenon, <2>6, <3>1, <3>2 DEF SettingsExist
  <2>7. CASE \E l \in SettingsLabels : Goto(c, l) /\ UNCHANGED <<db, pend, acked>>
    <3>1. sess' \in [Clients -> Session] /\ ControlOK'
      BY Zenon, <2>7, <2>2, <2>3, <1>GotoStep
    <3> QED
      BY Zenon, <2>7, <3>1 DEF TypeOK
  <2>8. CASE /\ sess' = [sess EXCEPT ![c].pc = "insertSettings", ![c].settingsLock = InTx(sess[c].op)]
             /\ Exec(c, [NoChange EXCEPT !.settings = TRUE])
             /\ UNCHANGED acked
    <3> DEFINE s == [sess[c] EXCEPT !.pc = "insertSettings", !.settingsLock = InTx(sess[c].op)]
    <3>1. sess[c] \in Session /\ ControlOf(sess[c]) /\ InTx(sess[c].op) \in BOOLEAN
      BY DEF TypeOK, ControlOK, InTx
    <3>2. s \in Session
      BY ZenonT(60), <3>1 DEF Session, Labels
    <3>3. "insertSettings" \in SettingsLabels
      BY Zenon DEF SettingsLabels
    <3>4. ControlOf(s)
      BY Zenon, <3>1, <3>3, <2>2, <2>3 DEF ControlOf, Session
    <3>5. sess' = [sess EXCEPT ![c] = s]
      BY Zenon, <2>8
    <3>6. sess' \in [Clients -> Session] /\ ControlOK'
      BY ZenonT(60), <3>2, <3>4, <3>5, <1>SessionStep
    <3>7. db' \in DB /\ pend' \in [Clients -> Change]
      BY Zenon, <2>8, <2>1, <1>ChangeTypes, <1>ExecType
    <3> QED
      BY Zenon, <2>8, <3>6, <3>7 DEF TypeOK
  <2>9. CASE /\ Goto(c, AfterSettings(c))
             /\ Exec(c, [NoChange EXCEPT !.row = TRUE])
             /\ UNCHANGED acked
    <3>1. sess' \in [Clients -> Session] /\ ControlOK'
      BY Zenon, <2>9, <2>5, <1>GotoStep
    <3>2. db' \in DB /\ pend' \in [Clients -> Change]
      BY ZenonT(60), <2>9, <2>1, <1>ChangeTypes, <1>ExecType
    <3> QED
      BY Zenon, <2>9, <3>1, <3>2 DEF TypeOK
  <2>10. CASE Fail(c)
    BY Zenon, <2>10, <1>FailStep
  <2>11. "createSettings" \in SettingsLabels /\ "createSettingsWait" \in SettingsLabels
    BY Zenon DEF SettingsLabels
  <2>12. CASE SettingsTables(c)
    BY ZenonT(60), <2>12, <2>6, <2>7, <2>11 DEF SettingsTables
  <2>13. CASE CreateSettings(c)
    BY Zenon, <2>13, <2>6, <2>7, <2>8, <2>10, <2>11 DEF CreateSettings
  <2>14. CASE CreateSettingsWait(c)
    BY Zenon, <2>14, <2>6, <2>8 DEF CreateSettingsWait
  <2>15. CASE InsertSettings(c)
    BY Zenon, <2>15, <2>9, <2>10 DEF InsertSettings
  <2> QED
    BY Zenon, <2>12, <2>13, <2>14, <2>15

<1>CollTyped.
  ASSUME NEW c \in Clients,
         \/ CollSchema(c) \/ CollTables(c) \/ CollSettings(c)
         \/ CollUpdate(c) \/ CollTable(c) \/ CollTableWait(c)
  PROVE  Typed'
  <2> USE <1>CollTyped
  <2> USE DEF Typed
  <2>1. sess[c].pc \in CollLabels /\ sess[c].pc # "idle"
    BY Zenon DEF CollSchema, CollTables, CollSettings, CollUpdate, CollTable, CollTableWait, CollLabels
  <2>2. sess[c].op \in {"create", "insert", "update"} /\ sess[c].coll \in Colls
    BY Zenon, <2>1, LabelOps
  <2> DEFINE L == CollLabels \cup {AfterCreate(sess[c].op)}
  <2>3. \A l \in L : l \in At(sess[c].op) \ SettingsLabels
    BY Zenon, <2>2 DEF At, AfterCreate, CollLabels, NameLabels, SettingsLabels
  <2>4. {"collTables", "collSettings", "collUpdate", "collTable", "collTableWait"} \subseteq L
    BY Zenon DEF CollLabels
  <2>5. AfterCreate(sess[c].op) \in L
    BY Zenon
  <2> HIDE DEF L
  <2>6. CASE Fail(c)
    BY Zenon, <2>6, <1>FailStep
  <2>7. ASSUME NEW l \in L, Goto(c, l)
        PROVE  sess' \in [Clients -> Session] /\ ControlOK'
    BY Zenon, <2>7, <2>3, <1>GotoStep
  <2>8. ASSUME NEW l \in L, Goto(c, l), UNCHANGED <<db, pend, acked>>
        PROVE  Typed'
    BY Zenon, <2>7, <2>8 DEF TypeOK
  <2>9. CASE CollSchema(c)
    BY Zenon, <2>9, <2>6, <2>8, <2>4 DEF CollSchema
  <2>10. CASE CollTables(c)
    BY Zenon, <2>10, <2>6, <2>8, <2>4, <2>5 DEF CollTables
  <2>11. CASE CollSettings(c)
    <3>1. ASSUME NEW i \in DOMAIN View(c).rows,
                 ReadSettings(c, i, IF Recorded(c, i) THEN AfterCreate(sess[c].op) ELSE "collUpdate")
          PROVE  Typed'
      <4>1. (IF Recorded(c, i) THEN AfterCreate(sess[c].op) ELSE "collUpdate")
              \in At(sess[c].op) \ SettingsLabels
        BY Zenon, <2>3, <2>4, <2>5
      <4>2. sess' \in [Clients -> Session] /\ ControlOK'
        BY Zenon, <3>1, <4>1, <1>ReadStep
      <4> QED
        BY Zenon, <3>1, <4>2 DEF ReadSettings, TypeOK
    <3> QED
      BY Zenon, <2>11, <2>6, <3>1 DEF CollSettings
  <2>12. CASE CollUpdate(c)
    <3>1. CASE /\ Goto(c, "collTable")
               /\ UpdateSettings(c, sess[c].seen \cup {sess[c].coll})
               /\ UNCHANGED acked
      <4>1. sess' \in [Clients -> Session] /\ ControlOK'
        BY Zenon, <3>1, <2>4, <2>7
      <4>2. db' \in DB /\ pend' \in [Clients -> Change]
        BY ZenonT(60), <3>1, <2>1, <1>ChangeTypes, <1>ExecType DEF UpdateSettings
      <4> QED
        BY Zenon, <3>1, <4>1, <4>2 DEF TypeOK
    <3> QED
      BY Zenon, <2>12, <2>6, <3>1 DEF CollUpdate
  <2>13. ASSUME CreateTable(c)
         PROVE  Typed'
    <3> DEFINE locks == IF InTx(sess[c].op) THEN sess[c].tableLocks \cup {sess[c].coll}
                        ELSE sess[c].tableLocks
               after == AfterCreate(sess[c].op)
               s == [sess[c] EXCEPT !.pc = after, !.tableLocks = locks]
    <3>1. sess[c] \in Session /\ ControlOf(sess[c])
      BY Zenon DEF TypeOK, ControlOK
    <3>2. locks \in SUBSET Colls
      BY Zenon, <3>1, <2>2 DEF Session
    <3>3. after \in At(sess[c].op) \ SettingsLabels /\ after \in Labels
      BY Zenon, <2>3, <2>5, <3>1, <1>AtLabels DEF Session
    <3>4. sess' = [sess EXCEPT ![c] = s]
      BY Zenon, <2>13 DEF CreateTable
    <3> HIDE DEF locks, after
    <3>5. s \in Session
      BY Zenon, <3>1, <3>2, <3>3 DEF Session
    <3>6. ControlOf(s)
      BY Zenon, <3>1, <3>3 DEF ControlOf, Session
    <3>7. sess' \in [Clients -> Session] /\ ControlOK'
      BY ZenonT(60), <3>4, <3>5, <3>6, <1>SessionStep
    <3>8. db' \in DB /\ pend' \in [Clients -> Change]
      BY Zenon, <2>13, <2>1, <1>ChangeTypes, <1>ExecType DEF CreateTable
    <3> QED
      BY Zenon, <2>13, <3>7, <3>8 DEF TypeOK, CreateTable
  <2>14. CASE CollTable(c)
    BY Zenon, <2>14, <2>4, <2>5, <2>6, <2>8, <2>13 DEF CollTable
  <2>15. CASE CollTableWait(c)
    BY Zenon, <2>15, <2>5, <2>6, <2>8, <2>13 DEF CollTableWait
  <2> QED
    BY Zenon, <2>9, <2>10, <2>11, <2>12, <2>14, <2>15

<1>NameTyped.
  ASSUME NEW c \in Clients,
         NameSchema(c) \/ NameTables(c) \/ NameSettings(c) \/ NameUpdate(c)
  PROVE  Typed'
  <2> USE <1>NameTyped
  <2> USE DEF Typed
  <2>1. sess[c].pc \in NameLabels /\ sess[c].pc # "idle"
    BY Zenon DEF NameSchema, NameTables, NameSettings, NameUpdate, NameLabels
  <2>2. sess[c].op \in {"insert", "find", "updateFind", "set"}
    BY Zenon, <2>1, LabelOps
  <2>3. \A l \in {"nameTables", "nameSettings", "nameUpdate", "data"} : l \in At(sess[c].op) \ SettingsLabels
    BY Zenon, <2>2 DEF At, NameLabels, SettingsLabels
  <2>4. CASE Fail(c)
    BY Zenon, <2>4, <1>FailStep
  <2>5. CASE NameSchema(c)
    <3>1. (IF View(c).schema THEN "nameTables" ELSE "data") \in At(sess[c].op) \ SettingsLabels
      BY Zenon, <2>3
    <3>2. sess' \in [Clients -> Session] /\ ControlOK'
      BY Zenon, <2>5, <3>1, <1>GotoStep DEF NameSchema
    <3> QED
      BY Zenon, <2>5, <3>2 DEF NameSchema, TypeOK
  <2>6. CASE NameTables(c)
    <3> DEFINE l == IF View(c).settings THEN "nameSettings" ELSE "settingsTables"
               s == [sess[c] EXCEPT !.pc = l, !.ret = "name"]
    <3>1. sess[c] \in Session /\ ControlOf(sess[c])
      BY Zenon DEF TypeOK, ControlOK
    <3>2. l \in At(sess[c].op)
      BY Zenon, <2>2 DEF At, NameLabels, SettingsLabels
    <3>3. l \in Labels
      BY Zenon, <3>1, <3>2, <1>AtLabels DEF Session
    <3>4. sess' = [sess EXCEPT ![c] = s]
      BY Zenon, <2>6 DEF NameTables
    <3> HIDE DEF l
    <3>5. s \in Session
      BY Zenon, <3>1, <3>3 DEF Session
    <3>6. ControlOf(s)
      BY Zenon, <3>1, <3>2, <2>2 DEF ControlOf, Session
    <3>7. sess' \in [Clients -> Session] /\ ControlOK'
      BY ZenonT(60), <3>4, <3>5, <3>6, <1>SessionStep
    <3> QED
      BY Zenon, <2>6, <3>7 DEF NameTables, TypeOK
  <2>7. CASE NameSettings(c)
    <3>1. ASSUME NEW i \in DOMAIN View(c).rows,
                 ReadSettings(c, i, IF Recorded(c, i) THEN "data" ELSE "nameUpdate")
          PROVE  Typed'
      <4>1. (IF Recorded(c, i) THEN "data" ELSE "nameUpdate") \in At(sess[c].op) \ SettingsLabels
        BY Zenon, <2>3
      <4>2. sess' \in [Clients -> Session] /\ ControlOK'
        BY Zenon, <3>1, <4>1, <1>ReadStep
      <4> QED
        BY Zenon, <3>1, <4>2 DEF ReadSettings, TypeOK
    <3> QED
      BY Zenon, <2>7, <2>4, <3>1 DEF NameSettings
  <2>8. CASE NameUpdate(c)
    <3>1. sess' \in [Clients -> Session] /\ ControlOK'
      BY Zenon, <2>8, <2>3, <1>GotoStep DEF NameUpdate
    <3>2. db' \in DB /\ pend' \in [Clients -> Change]
      BY Zenon, <2>8, <2>1, <1>ChangeTypes, <1>ExecType DEF NameUpdate, UpdateSettings
    <3> QED
      BY Zenon, <2>8, <3>1, <3>2 DEF NameUpdate, TypeOK
  <2> QED
    BY Zenon, <2>5, <2>6, <2>7, <2>8

<1>TxEndTyped.
  ASSUME NEW c \in Clients, Data(c) \/ Commit(c) \/ Ensured(c)
  PROVE  Typed'
  <2> USE <1>TxEndTyped
  <2> USE DEF Typed
  <2>1. sess[c].pc \in {"data", "commit", "ensured"} /\ sess[c].pc # "idle"
    BY ZenonT(60) DEF Data, Commit, Ensured
  <2>2. sess[c].op # "none" /\ sess[c].coll \in Colls
    BY Zenon, <2>1, LabelOps
  <2>3. CASE Data(c)
    <3>1. sess[c].op \in {"insert", "find", "updateFind", "set"}
      BY Zenon, <2>3, LabelOps DEF Data
    <3>2. CASE Fail(c)
      BY Zenon, <3>2, <1>FailStep
    <3>3. ASSUME NEW f \in BOOLEAN,
                 sess' = [sess EXCEPT ![c].pc = "commit", ![c].found = f,
                                      ![c].tableLocks = @ \cup {sess[c].coll}]
          PROVE  sess' \in [Clients -> Session] /\ ControlOK'
      <4> DEFINE s == [sess[c] EXCEPT !.pc = "commit", !.found = f,
                                      !.tableLocks = @ \cup {sess[c].coll}]
      <4>1. sess[c] \in Session /\ ControlOf(sess[c])
        BY Zenon DEF TypeOK, ControlOK
      <4>2. s \in Session
        BY ZenonT(60), <4>1, <2>2 DEF Session, Labels
      <4>3. ControlOf(s)
        BY Zenon, <4>1, <3>1 DEF ControlOf, Session, At, SettingsLabels
      <4>4. sess' = [sess EXCEPT ![c] = s]
        BY Zenon, <3>3
      <4> QED
        BY Zenon, <4>2, <4>3, <4>4, <1>SessionStep
    <3> DEFINE p == [NoChange EXCEPT !.docs = IF sess[c].op = "insert" THEN {<<sess[c].coll, c>>} ELSE {}]
    <3>4. p \in Change
      BY Zenon, <2>1, <1>ChangeTypes
    <3>5. CASE /\ \E f \in BOOLEAN :
                    sess' = [sess EXCEPT ![c].pc = "commit", ![c].found = f,
                                         ![c].tableLocks = @ \cup {sess[c].coll}]
               /\ Exec(c, p) /\ UNCHANGED acked
      <4> HIDE DEF p
      <4>1. sess' \in [Clients -> Session] /\ ControlOK'
        BY Zenon, <3>3, <3>5
      <4>2. db' \in DB /\ pend' \in [Clients -> Change]
        BY Zenon, <3>4, <3>5, <1>ExecType
      <4> QED
        BY Zenon, <3>5, <4>1, <4>2 DEF TypeOK
    <3> QED
      BY ZenonT(60), <2>3, <3>2, <3>5 DEF Data
  <2>4. CASE Commit(c)
    <3>1. db' \in DB
      BY Zenon, <2>4, ApplyType DEF Commit, TypeOK
    <3>2. (IF sess[c].op = "insert" THEN {<<sess[c].coll, c>>} ELSE {}) \subseteq Colls \X Clients
      BY <2>2
    <3>3. acked' \subseteq Colls \X Clients
      BY Zenon, <2>4, <3>2 DEF Commit, Committed, TypeOK
    <3>4. \/ Phase(c, "set") \/ Phase(c, "insert") \/ Finish(c, "ok") \/ Finish(c, "error")
      BY Zenon, <2>4 DEF Commit, Committed
    <3>5. sess' \in [Clients -> Session] /\ ControlOK' /\ pend' \in [Clients -> Change]
      BY Zenon, <3>4, <2>2, <1>PhaseStep, <1>FinishStep
    <3> QED
      BY Zenon, <3>1, <3>3, <3>5 DEF TypeOK
  <2>5. CASE Ensured(c)
    <3>1. sess' \in [Clients -> Session] /\ ControlOK' /\ pend' \in [Clients -> Change]
      BY Zenon, <2>5, <2>2, <1>PhaseStep, <1>FinishStep DEF Ensured
    <3> QED
      BY Zenon, <2>5, <3>1 DEF Ensured, TypeOK
  <2> QED
    BY Zenon, <2>3, <2>4, <2>5

<1>DropTyped.
  ASSUME NEW c \in Clients,
         \/ DropSchemaCheck(c) \/ DropTables(c) \/ DropSettings(c)
         \/ DropUpdate(c) \/ DropTable(c) \/ DropDatabase(c)
  PROVE  Typed'
  <2> USE <1>DropTyped
  <2> USE DEF Typed
  <2>1. CASE Fail(c)
    BY Zenon, <2>1, <1>FailStep
  <2>2. ASSUME sess[c].pc \in DropLabels
        PROVE  \A l \in DropLabels : l \in At(sess[c].op) \ SettingsLabels
    BY Zenon, <2>2, LabelOps DEF At, DropLabels, SettingsLabels
  <2>3. CASE DropSchemaCheck(c) \/ DropTables(c)
    <3>1. sess[c].pc \in DropLabels /\ {"dropTables", "dropSettings"} \subseteq DropLabels
      BY Zenon, <2>3 DEF DropSchemaCheck, DropTables, DropLabels
    <3>2. CASE \E l \in {"dropTables", "dropSettings"} : Goto(c, l) /\ UNCHANGED <<db, pend, acked>>
      <4>1. sess' \in [Clients -> Session] /\ ControlOK'
        BY Zenon, <3>1, <3>2, <2>2, <1>GotoStep
      <4> QED
        BY Zenon, <3>2, <4>1 DEF TypeOK
    <3> QED
      BY Zenon, <2>1, <2>3, <3>2 DEF DropSchemaCheck, DropTables
  <2>4. CASE DropSettings(c)
    <3>1. sess[c].pc \in DropLabels /\ "dropUpdate" \in DropLabels
      BY Zenon, <2>4 DEF DropSettings, DropLabels
    <3>2. ASSUME NEW i \in DOMAIN db.rows, ReadSettings(c, i, "dropUpdate")
          PROVE  Typed'
      <4>1. /\ db.rows \in Seq(SUBSET Colls) /\ pend[c] \in Change
            /\ View(c).rows = ApplyRows(db.rows, pend[c])
        BY Zenon DEF TypeOK, DB, View, Apply
      <4>2. View(c).rows \in Seq(SUBSET Colls) /\ Len(View(c).rows) \in {Len(db.rows), Len(db.rows) + 1}
        BY Zenon, <4>1, ApplyRowsType DEF Change
      <4>3. i \in DOMAIN View(c).rows
        BY <4>1, <4>2
      <4>4. sess' \in [Clients -> Session] /\ ControlOK'
        BY Zenon, <3>1, <3>2, <4>3, <2>2, <1>ReadStep
      <4> QED
        BY Zenon, <3>2, <4>4 DEF ReadSettings, TypeOK
    <3> QED
      BY Zenon, <2>1, <2>4, <3>2 DEF DropSettings
  <2>5. CASE DropUpdate(c)
    <3>1. sess[c].pc \in DropLabels /\ "dropTable" \in DropLabels /\ sess[c].pc # "idle"
      BY Zenon, <2>5 DEF DropUpdate, DropLabels
    <3>2. CASE /\ Goto(c, "dropTable")
               /\ UpdateSettings(c, sess[c].seen \ {sess[c].coll})
               /\ UNCHANGED acked
      <4>1. sess' \in [Clients -> Session] /\ ControlOK'
        BY Zenon, <3>1, <3>2, <2>2, <1>GotoStep
      <4>2. db' \in DB /\ pend' \in [Clients -> Change]
        BY ZenonT(60), <3>1, <3>2, <1>ChangeTypes, <1>ExecType DEF UpdateSettings
      <4> QED
        BY Zenon, <3>2, <4>1, <4>2 DEF TypeOK
    <3> QED
      BY Zenon, <2>1, <2>5, <3>2 DEF DropUpdate
  <2>6. CASE DropTable(c)
    <3>1. sess' \in [Clients -> Session] /\ ControlOK' /\ pend' \in [Clients -> Change]
      BY Zenon, <2>6, <1>FinishStep DEF DropTable
    <3>2. db' \in DB
      BY Zenon, <2>6 DEF DropTable, TypeOK, DB
    <3>3. acked' \subseteq Colls \X Clients
      BY Zenon, <2>6 DEF DropTable, TypeOK
    <3> QED
      BY Zenon, <3>1, <3>2, <3>3 DEF TypeOK
  <2>7. CASE DropDatabase(c)
    <3>1. sess' \in [Clients -> Session] /\ ControlOK' /\ pend' \in [Clients -> Change]
      BY Zenon, <2>7, <1>FinishStep DEF DropDatabase
    <3>2. EmptyDB \in DB
      BY Zenon, EmptyRows DEF EmptyDB, DB
    <3> QED
      BY Zenon, <2>7, <3>1, <3>2 DEF DropDatabase, TypeOK
  <2> QED
    BY Zenon, <2>3, <2>4, <2>5, <2>6, <2>7

<1>RequestTyped.
  ASSUME NEW c \in Clients, NEW o \in Ops, NEW l \in Colls, Request(c, o, l)
  PROVE  Typed'
  <2> USE <1>RequestTyped
  <2> USE DEF Typed
  <2> DEFINE s == [Idle EXCEPT !.op = o, !.coll = l, !.pc = Start(o)]
  <2>1. o \in AllOps
    BY Zenon, CatalogAssumption
  <2>2. s \in Session
    BY ZenonT(60), <2>1 DEF Idle, Session, Start, Labels, AllOps
  <2>3. ControlOf(s)
    BY Zenon, <2>1 DEF Idle, Start, ControlOf, AllOps, At, SettingsLabels, NameLabels, CreateLabels,
                ExistsLabels, DropLabels
  <2>4. sess' \in [Clients -> Session] /\ ControlOK'
    BY Zenon, <2>2, <2>3, <1>SessionStep DEF Request
  <2> QED
    BY Zenon, <2>4 DEF Request, TypeOK
<1>1. CASE UNCHANGED vars
  BY Zenon, <1>1 DEF vars, Typed, TypeOK, ControlOK
<1>2. ASSUME NEW c \in Clients, Step(c) PROVE Typed'
  BY Zenon, <1>2, <1>ExistsTyped, <1>CreateSchemaTyped, <1>SettingsTyped, <1>CollTyped, <1>NameTyped, <1>TxEndTyped,
     <1>DropTyped DEF Step
<1>3. ASSUME NEW c \in Clients, Fault(c) PROVE Typed'
  BY Zenon, <1>3, <1>FailStep DEF Fault
<1>4. ASSUME NEW c \in Clients, NEW o \in Ops, NEW l \in Colls, Request(c, o, l) PROVE Typed'
  BY Zenon, <1>4, <1>RequestTyped
<1> QED
  BY Zenon, <1>1, <1>2, <1>3, <1>4 DEF Next

\* Type correctness of the catalog: labels, replies, the settings document and the
\* pending changes stay in their types whatever commands interleave and whichever
\* statements fail.
THEOREM TypeCorrect == Spec => []TypeOK
<1>1. Init => Typed
  BY Zenon, TypedInit
<1>2. Typed /\ [Next]_vars => Typed'
  BY Zenon, TypedNext
<1> QED
  BY <1>1, <1>2, PTL DEF Spec, Typed

-----------------------------------------------------------------------------
(* The shapes of the steps of a running command.                           *)

\* The changes that the statements make.
SchemaMade == [NoChange EXCEPT !.schema = TRUE]
SettingsMade == [NoChange EXCEPT !.settings = TRUE]
RowMade == [NoChange EXCEPT !.row = TRUE]
DocSet(n, doc) == [NoChange EXCEPT !.n = n, !.doc = doc]
TableMade(l) == [NoChange EXCEPT !.tables = {l}]
DocsStored(x) == [NoChange EXCEPT !.docs = x]

\* The session of c is now s.
Becomes(c, s) == sess' = [sess EXCEPT ![c] = s]

SameCommand(s, t) == s.op = t.op /\ s.coll = t.coll

\* s is t at another label.
SameBut(s, t) ==
  /\ SameCommand(s, t)
  /\ s.seen = t.seen /\ s.settingsLock = t.settingsLock /\ s.tableLocks = t.tableLocks

\* The command ends and has no effect in this step.  On the pool it does not end
\* between CREATE TABLE _ferretdb_settings and its row, nor between the record of a
\* collection and its table, nor before DROP TABLE.
StopOK(c) ==
  /\ sess[c].pc # "idle"
  /\ sess[c].pc = "insertSettings" => ~View(c).settings
  /\ sess[c].pc = "collTable" => ~View(c).schema
  /\ sess[c].pc = "collTableWait" => InTx(sess[c].op)
  /\ sess[c].pc # "dropTable"

Stops(c) == (\E r : Finish(c, r)) /\ UNCHANGED <<db, acked>> /\ StopOK(c)

\* The command moves on to a label.
MoveOK(c, label) ==
  /\ label \notin {"idle", "insertSettings", "collUpdate", "collTable", "nameUpdate",
                   "dropUpdate", "dropTable"}
  /\ sess[c].pc \notin {"idle", "insertSettings", "data", "commit", "dropTable"}
  /\ sess[c].pc \in {"collTable", "collTableWait"} =>
       \/ sess[c].coll \in View(c).tables
       \/ sess[c].pc = "collTable" /\ label = "collTableWait"
  /\ label = "collTableWait" => sess[c].pc = "collTable"
  /\ label \in {"collTables", "collSettings"} => View(c).schema \/ sess[c].pc = "collTables"
  /\ label = "commit" => sess[c].op # "insert"
  /\ label = "dropSettings" => sess[c].coll \in db.tables

Moves(c) ==
  \E s : Becomes(c, s) /\ SameBut(s, sess[c]) /\ MoveOK(c, s.pc) /\ UNCHANGED <<db, pend, acked>>

\* The command has read row i of the settings table.
ReadOK(c, i, s) ==
  /\ SameCommand(s, sess[c]) /\ s.tableLocks = sess[c].tableLocks
  /\ s.seen = View(c).rows[i] /\ s.settingsLock = InTx(sess[c].op)
  /\ sess[c].pc \in {"existsSettings", "collSettings", "nameSettings", "dropSettings"}
  /\ s.pc \notin {"idle", "insertSettings", "collTables", "collSettings", "collTable",
                  "collTableWait", "dropSettings", "dropTable"}
  /\ s.pc = "collUpdate" => sess[c].pc = "collSettings"
  /\ s.pc = "dropUpdate" => sess[c].pc = "dropSettings" /\ sess[c].coll \in View(c).rows[i]
  /\ s.pc = "commit" => sess[c].op # "insert"

Reads(c) ==
  /\ \E i \in DOMAIN View(c).rows : \E s : Becomes(c, s) /\ ReadOK(c, i, s)
  /\ UNCHANGED <<db, pend, acked>>

\* The command makes one change.
MakesSchema(c) ==
  /\ sess[c].pc \in {"createSchema", "createSchemaWait"}
  /\ \E s : Becomes(c, s) /\ SameBut(s, sess[c]) /\ s.pc = "settingsTables"
  /\ Exec(c, SchemaMade) /\ UNCHANGED acked

MakesSettings(c) ==
  /\ sess[c].pc \in {"createSettings", "createSettingsWait"}
  /\ ~View(c).settings /\ ~SettingsBeingCreated(c)
  /\ \E s : /\ Becomes(c, s) /\ SameCommand(s, sess[c]) /\ s.tableLocks = sess[c].tableLocks
            /\ s.pc = "insertSettings" /\ s.settingsLock = InTx(sess[c].op)
  /\ Exec(c, SettingsMade) /\ UNCHANGED acked

MakesRow(c) ==
  /\ sess[c].pc = "insertSettings" /\ View(c).settings
  /\ \E s : Becomes(c, s) /\ SameBut(s, sess[c]) /\ s.pc \in {"nameSettings", "collSchema"}
  /\ Exec(c, RowMade) /\ UNCHANGED acked

Records(c) ==
  /\ sess[c].pc \in {"collUpdate", "nameUpdate"}
  /\ \E s : /\ Becomes(c, s) /\ SameBut(s, sess[c])
            /\ s.pc = IF sess[c].pc = "collUpdate" THEN "collTable" ELSE "data"
  /\ Exec(c, DocSet(Len(View(c).rows), sess[c].seen \cup {sess[c].coll})) /\ UNCHANGED acked

MakesTable(c) ==
  /\ sess[c].pc \in {"collTable", "collTableWait"} /\ sess[c].coll \notin View(c).tables
  /\ \E s : /\ Becomes(c, s) /\ SameCommand(s, sess[c]) /\ s.settingsLock = sess[c].settingsLock
            /\ s.pc \in {"commit", "nameSchema", "ensured"}
            /\ s.pc = "commit" => sess[c].op # "insert"
  /\ Exec(c, TableMade(sess[c].coll)) /\ UNCHANGED acked

Makes(c) ==
  MakesSchema(c) \/ MakesSettings(c) \/ MakesRow(c) \/ Records(c) \/ MakesTable(c)

Stores(c) ==
  /\ sess[c].pc = "data" /\ sess[c].coll \in View(c).tables
  /\ \E s : /\ Becomes(c, s) /\ SameCommand(s, sess[c]) /\ s.settingsLock = sess[c].settingsLock
            /\ s.pc = "commit" /\ s.tableLocks # {}
  /\ Exec(c, DocsStored(IF sess[c].op = "insert" THEN {<<sess[c].coll, c>>} ELSE {}))
  /\ UNCHANGED acked

Unrecords(c) ==
  /\ sess[c].pc = "dropUpdate"
  /\ \E s : Becomes(c, s) /\ SameBut(s, sess[c]) /\ s.pc = "dropTable"
  /\ Exec(c, DocSet(Len(View(c).rows), sess[c].seen \ {sess[c].coll})) /\ UNCHANGED acked

DropsDatabase(c) ==
  /\ sess[c].pc = "dropDatabase" /\ ~SchemaLocked(c)
  /\ db' = EmptyDB /\ acked' = {} /\ Finish(c, "ok")

\* An update has its collection and goes on to read it.
GoesOn(c) ==
  sess[c].pc = "ensured" /\ Phase(c, "updateFind") /\ UNCHANGED <<db, acked>>

StepShape(c) ==
  \/ Stops(c) \/ Moves(c) \/ Reads(c)
  \/ MakesSchema(c) \/ MakesSettings(c) \/ MakesRow(c) \/ Records(c) \/ MakesTable(c)
  \/ Stores(c) \/ Commit(c) \/ GoesOn(c)
  \/ Unrecords(c) \/ DropTable(c) \/ DropsDatabase(c)

\* Every step of a running command has one of the shapes.
LEMMA StepHasShape ==
  ASSUME Typed
  PROVE  \A c \in Clients : Step(c) => StepShape(c)

<1>GotoShape.
  ASSUME NEW c \in Clients, NEW label, Goto(c, label)
  PROVE  \E s : Becomes(c, s) /\ SameBut(s, sess[c]) /\ s.pc = label
  <2> USE <1>GotoShape
  <2> DEFINE s == [sess[c] EXCEPT !.pc = label]
  <2>1. sess[c] \in Session
    BY Zenon DEF Typed, TypeOK
  <2>2. SameBut(s, sess[c]) /\ s.pc = label
    BY Zenon, <2>1 DEF Session, SameBut, SameCommand
  <2>3. Becomes(c, s)
    BY Zenon DEF Goto, Becomes
  <2> QED
    BY Zenon, <2>2, <2>3

<1>MoveShape.
  ASSUME NEW c \in Clients, NEW label, Goto(c, label), MoveOK(c, label),
         UNCHANGED <<db, pend, acked>>
  PROVE  Moves(c)
  BY Zenon, <1>MoveShape, <1>GotoShape DEF Moves

<1>FailShape.
  ASSUME NEW c \in Clients, Fail(c), StopOK(c)
  PROVE  Stops(c)
  BY Zenon, <1>FailShape DEF Fail, Stops

<1>ReadShape.
  ASSUME NEW c \in Clients, NEW i \in DOMAIN View(c).rows, NEW label,
         ReadSettings(c, i, label),
         sess[c].pc \in {"existsSettings", "collSettings", "nameSettings", "dropSettings"},
         label \notin {"idle", "insertSettings", "collTables", "collSettings", "collTable",
                       "collTableWait", "dropSettings", "dropTable"},
         label = "collUpdate" => sess[c].pc = "collSettings",
         label = "dropUpdate" => sess[c].pc = "dropSettings" /\ sess[c].coll \in View(c).rows[i],
         label = "commit" => sess[c].op # "insert"
  PROVE  Reads(c)
  <2> USE <1>ReadShape
  <2> DEFINE seen == View(c).rows[i]
             s == [sess[c] EXCEPT !.seen = seen, !.pc = label, !.settingsLock = InTx(sess[c].op)]
  <2>1. sess[c] \in Session
    BY Zenon DEF Typed, TypeOK
  <2>2. Becomes(c, s) /\ UNCHANGED <<db, pend, acked>>
    BY Zenon DEF ReadSettings, Becomes
  <2> HIDE DEF seen
  <2>3. /\ SameCommand(s, sess[c]) /\ s.tableLocks = sess[c].tableLocks
        /\ s.seen = seen /\ s.settingsLock = InTx(sess[c].op) /\ s.pc = label
    BY Zenon, <2>1 DEF Session, SameCommand
  <2> HIDE DEF s
  <2>4. ReadOK(c, i, s)
    BY Zenon, <2>3 DEF ReadOK, seen
  <2> QED
    BY Zenon, <2>2, <2>4 DEF Reads

<1>ExistsShape.
  ASSUME NEW c \in Clients, ExistsSchema(c) \/ ExistsSettings(c)
  PROVE  StepShape(c)
  <2> USE <1>ExistsShape
  <2>1. sess[c].pc \in {"existsSchema", "existsSettings"}
    BY Zenon DEF ExistsSchema, ExistsSettings
  <2>2. sess[c].op \in {"insert", "find", "updateFind", "update", "list"}
    BY Zenon, <2>1, LabelOps DEF Typed, ExistsLabels
  <2>3. StopOK(c)
    BY Zenon, <2>1 DEF StopOK
  <2>4. \A x : sess[c].op # "list" =>
          /\ AfterExists(sess[c].op, x) \in {"nameSchema", "createSchema", "ensured", "commit"}
          /\ AfterExists(sess[c].op, x) = "commit" => sess[c].op # "insert"
    BY Zenon, <2>2 DEF AfterExists
  <2>5. \A l \in {"existsSettings", "nameSchema", "createSchema", "ensured", "commit"} :
          (l = "commit" => sess[c].op # "insert") => MoveOK(c, l)
    BY Zenon, <2>1 DEF MoveOK
  <2>6. CASE ExistsSchema(c)
    <3>1. UNCHANGED <<db, acked>>
      BY ZenonT(60), <2>6 DEF ExistsSchema
    <3>2. CASE Goto(c, "existsSettings") /\ UNCHANGED pend
      BY Zenon, <3>1, <3>2, <2>5, <1>MoveShape DEF StepShape
    <3>3. CASE sess[c].op # "list" /\ Goto(c, AfterExists(sess[c].op, FALSE)) /\ UNCHANGED pend
      BY ZenonT(60), <3>1, <3>3, <2>4, <2>5, <1>MoveShape DEF StepShape
    <3>4. CASE Finish(c, "ok")
      BY Zenon, <3>1, <3>4, <2>3 DEF StepShape, Stops
    <3> QED
      BY Zenon, <2>6, <3>2, <3>3, <3>4 DEF ExistsSchema
  <2>7. CASE ExistsSettings(c)
    <3>1. CASE Fail(c)
      BY Zenon, <3>1, <2>3, <1>FailShape DEF StepShape
    <3>2. CASE Finish(c, "ok") /\ UNCHANGED <<db, acked>>
      BY Zenon, <3>2, <2>3 DEF StepShape, Stops
    <3>3. ASSUME sess[c].op # "list", NEW i \in DOMAIN View(c).rows,
                 ReadSettings(c, i, AfterExists(sess[c].op, Recorded(c, i)))
          PROVE  StepShape(c)
      <4> DEFINE label == AfterExists(sess[c].op, Recorded(c, i))
      <4>1. /\ label \in {"nameSchema", "createSchema", "ensured", "commit"}
            /\ label = "commit" => sess[c].op # "insert"
        BY Zenon, <3>3, <2>4
      <4>2. sess[c].pc = "existsSettings" /\ ReadSettings(c, i, label)
        BY Zenon, <2>7, <3>3 DEF ExistsSettings
      <4> HIDE DEF label
      <4>3. Reads(c)
        BY Zenon, <4>1, <4>2, <1>ReadShape
      <4> QED
        BY Zenon, <4>3 DEF StepShape
    <3> QED
      BY Zenon, <2>7, <3>1, <3>2, <3>3 DEF ExistsSettings
  <2> QED
    BY Zenon, <2>6, <2>7

<1>CreateSchemaShape.
  ASSUME NEW c \in Clients, CreateSchema(c) \/ CreateSchemaWait(c)
  PROVE  StepShape(c)
  <2> USE <1>CreateSchemaShape
  <2>1. sess[c].pc \in {"createSchema", "createSchemaWait"}
    BY Zenon DEF CreateSchema, CreateSchemaWait
  <2>2. StopOK(c)
    BY Zenon, <2>1 DEF StopOK
  <2>3. \A l \in {"collSchema", "settingsTables", "createSchemaWait"} : MoveOK(c, l)
    BY Zenon, <2>1 DEF MoveOK
  <2>4. CASE Fail(c)
    BY Zenon, <2>2, <2>4, <1>FailShape DEF StepShape
  <2>5. CASE \E l \in {"collSchema", "settingsTables", "createSchemaWait"} :
               Goto(c, l) /\ UNCHANGED <<db, pend, acked>>
    BY Zenon, <2>3, <2>5, <1>MoveShape DEF StepShape
  <2>6. CASE Goto(c, "settingsTables") /\ Exec(c, SchemaMade) /\ UNCHANGED acked
    BY Zenon, <2>1, <2>6, <1>GotoShape DEF StepShape, MakesSchema
  <2> QED
    BY Zenon, <2>4, <2>5, <2>6 DEF CreateSchema, CreateSchemaWait, SchemaMade

<1>SettingsShape.
  ASSUME NEW c \in Clients,
         SettingsTables(c) \/ CreateSettings(c) \/ CreateSettingsWait(c) \/ InsertSettings(c)
  PROVE  StepShape(c)
  <2> USE <1>SettingsShape
  <2>1. ASSUME sess[c].pc \in {"settingsTables", "createSettings", "createSettingsWait"}
        PROVE  /\ StopOK(c)
               /\ \A l \in {"collSchema", "createSettings", "createSettingsWait"} : MoveOK(c, l)
    BY ZenonT(60), <2>1 DEF StopOK, MoveOK
  <2>2. ASSUME NEW a, SettingsExist(c, a), sess[c].pc \in {"settingsTables", "createSettings", "createSettingsWait"}
        PROVE  StepShape(c)
    BY Zenon, <2>1, <2>2, <1>FailShape, <1>MoveShape DEF SettingsExist, StepShape
  <2>3. ASSUME sess[c].pc \in {"createSettings", "createSettingsWait"},
               ~View(c).settings, ~SettingsBeingCreated(c),
               sess' = [sess EXCEPT ![c].pc = "insertSettings", ![c].settingsLock = InTx(sess[c].op)],
               Exec(c, [NoChange EXCEPT !.settings = TRUE]), UNCHANGED acked
        PROVE  StepShape(c)
    <3> DEFINE s == [sess[c] EXCEPT !.pc = "insertSettings", !.settingsLock = InTx(sess[c].op)]
    <3>1. sess[c] \in Session
      BY Zenon DEF Typed, TypeOK
    <3>2. /\ SameCommand(s, sess[c]) /\ s.tableLocks = sess[c].tableLocks
          /\ s.pc = "insertSettings" /\ s.settingsLock = InTx(sess[c].op)
      BY Zenon, <3>1 DEF SameCommand, Session
    <3>3. Becomes(c, s)
      BY Zenon, <2>3 DEF Becomes
    <3> HIDE DEF s
    <3>4. MakesSettings(c)
      BY Zenon, <2>3, <3>2, <3>3 DEF MakesSettings, SettingsMade
    <3> QED
      BY Zenon, <3>4 DEF StepShape
  <2>4. CASE SettingsTables(c)
    BY Zenon, <2>4, <2>1, <2>2, <1>MoveShape DEF SettingsTables, StepShape
  <2>5. CASE CreateSettings(c)
    <3>1. sess[c].pc = "createSettings"
      BY ZenonT(60), <2>5 DEF CreateSettings
    <3>2. CASE Fail(c)
      BY Zenon, <2>1, <3>1, <3>2, <1>FailShape DEF StepShape
    <3>3. CASE Goto(c, "createSettingsWait") /\ UNCHANGED <<db, pend, acked>>
      BY Zenon, <2>1, <3>1, <3>3, <1>MoveShape DEF StepShape
    <3> QED
      BY Zenon, <2>5, <2>2, <2>3, <3>1, <3>2, <3>3 DEF CreateSettings
  <2>6. CASE CreateSettingsWait(c)
    BY Zenon, <2>6, <2>2, <2>3 DEF CreateSettingsWait
  <2>7. CASE InsertSettings(c)
    <3>1. CASE ~View(c).settings /\ Fail(c)
      <4>1. StopOK(c)
        BY Zenon, <2>7, <3>1 DEF StopOK, InsertSettings
      <4> QED
        BY Zenon, <3>1, <4>1, <1>FailShape DEF StepShape
    <3>2. CASE /\ View(c).settings /\ Goto(c, AfterSettings(c))
               /\ Exec(c, RowMade) /\ UNCHANGED acked
      <4>1. AfterSettings(c) \in {"nameSettings", "collSchema"} /\ sess[c].pc = "insertSettings"
        BY Zenon, <2>7 DEF AfterSettings, InsertSettings
      <4>2. MakesRow(c)
        BY Zenon, <3>2, <4>1, <1>GotoShape DEF MakesRow
      <4> QED
        BY Zenon, <4>2 DEF StepShape
    <3> QED
      BY Zenon, <2>7, <3>1, <3>2 DEF InsertSettings, RowMade
  <2> QED
    BY Zenon, <2>4, <2>5, <2>6, <2>7

<1>CreateTableShape.
  ASSUME NEW c \in Clients, sess[c].pc \in {"collTable", "collTableWait"},
         sess[c].coll \notin View(c).tables, CreateTable(c)
  PROVE  StepShape(c)
  <2> USE <1>CreateTableShape
  <2> DEFINE after == AfterCreate(sess[c].op)
             locks == IF InTx(sess[c].op) THEN sess[c].tableLocks \cup {sess[c].coll}
                      ELSE sess[c].tableLocks
             s == [sess[c] EXCEPT !.pc = after, !.tableLocks = locks]
  <2>1. sess[c] \in Session
    BY Zenon DEF Typed, TypeOK
  <2>2. sess[c].op \in {"create", "insert", "update"}
    BY Zenon, LabelOps DEF CollLabels, Typed
  <2>3. after \in {"commit", "nameSchema", "ensured"} /\ (after = "commit" => sess[c].op # "insert")
    BY Zenon, <2>2 DEF AfterCreate
  <2>4. Becomes(c, s) /\ Exec(c, TableMade(sess[c].coll)) /\ UNCHANGED acked
    BY Zenon DEF CreateTable, Becomes, TableMade
  <2> HIDE DEF after, locks
  <2>5. SameCommand(s, sess[c]) /\ s.settingsLock = sess[c].settingsLock /\ s.pc = after
    BY Zenon, <2>1 DEF SameCommand, Session
  <2> HIDE DEF s
  <2>6. MakesTable(c)
    BY Zenon, <2>3, <2>4, <2>5 DEF MakesTable
  <2> QED
    BY Zenon, <2>6 DEF StepShape

<1>CollShape.
  ASSUME NEW c \in Clients,
         \/ CollSchema(c) \/ CollTables(c) \/ CollSettings(c)
         \/ CollUpdate(c) \/ CollTable(c) \/ CollTableWait(c)
  PROVE  StepShape(c)
  <2> USE <1>CollShape
  <2>1. sess[c].pc \in CollLabels
    BY Zenon DEF CollSchema, CollTables, CollSettings, CollUpdate, CollTable, CollTableWait, CollLabels
  <2>2. sess[c].op \in {"create", "insert", "update"}
    BY Zenon, <2>1, LabelOps DEF Typed
  <2> DEFINE after == AfterCreate(sess[c].op)
  <2>3. after \in {"commit", "nameSchema", "ensured"} /\ (after = "commit" => sess[c].op # "insert")
    BY Zenon, <2>2 DEF AfterCreate
  <2> HIDE DEF after
  <2>4. CASE CollSchema(c)
    <3>1. StopOK(c) /\ (View(c).schema => MoveOK(c, "collTables"))
      BY Zenon, <2>4 DEF StopOK, MoveOK, CollSchema
    <3> QED
      BY Zenon, <2>4, <3>1, <1>FailShape, <1>MoveShape DEF StepShape, CollSchema
  <2>5. CASE CollTables(c)
    <3>1. StopOK(c) /\ MoveOK(c, "collSettings") /\ MoveOK(c, after)
      BY Zenon, <2>3, <2>5 DEF StopOK, MoveOK, CollTables
    <3> QED
      BY Zenon, <2>5, <3>1, <1>FailShape, <1>MoveShape DEF StepShape, CollTables, after
  <2>6. CASE CollSettings(c)
    <3>1. StopOK(c) /\ sess[c].pc = "collSettings"
      BY Zenon, <2>6 DEF StopOK, CollSettings
    <3>2. ASSUME NEW i \in DOMAIN View(c).rows,
                 ReadSettings(c, i, IF Recorded(c, i) THEN after ELSE "collUpdate")
          PROVE  StepShape(c)
      <4> DEFINE label == IF Recorded(c, i) THEN after ELSE "collUpdate"
      <4>1. /\ label \in {"commit", "nameSchema", "ensured", "collUpdate"}
            /\ label = "commit" => sess[c].op # "insert"
        BY Zenon, <2>3
      <4>2. ReadSettings(c, i, label)
        BY Zenon, <3>2
      <4> HIDE DEF label
      <4>3. Reads(c)
        BY Zenon, <3>1, <4>1, <4>2, <1>ReadShape
      <4> QED
        BY Zenon, <4>3 DEF StepShape
    <3> QED
      BY Zenon, <2>6, <3>1, <3>2, <1>FailShape DEF StepShape, CollSettings, after
  <2>7. CASE CollUpdate(c)
    <3>1. StopOK(c) /\ sess[c].pc = "collUpdate"
      BY ZenonT(60), <2>7 DEF StopOK, CollUpdate
    <3>2. CASE Fail(c)
      BY Zenon, <3>1, <3>2, <1>FailShape DEF StepShape
    <3>3. CASE /\ Goto(c, "collTable") /\ UNCHANGED acked
               /\ UpdateSettings(c, sess[c].seen \cup {sess[c].coll})
      <4>1. PICK s : Becomes(c, s) /\ SameBut(s, sess[c]) /\ s.pc = "collTable"
        BY Zenon, <3>3, <1>GotoShape
      <4>2. Exec(c, DocSet(Len(View(c).rows), sess[c].seen \cup {sess[c].coll}))
        BY Zenon, <3>3 DEF UpdateSettings, DocSet
      <4>3. Records(c)
        BY Zenon, <3>1, <3>3, <4>1, <4>2 DEF Records
      <4> QED
        BY Zenon, <4>3 DEF StepShape
    <3> QED
      BY ZenonT(60), <2>7, <3>2, <3>3 DEF CollUpdate
  <2>8. CASE CollTable(c)
    <3>1. /\ sess[c].pc = "collTable" /\ (~View(c).schema => StopOK(c)) /\ MoveOK(c, "collTableWait")
          /\ sess[c].coll \in View(c).tables => MoveOK(c, after)
      BY Zenon, <2>3, <2>8 DEF StopOK, MoveOK, CollTable
    <3> QED
      BY Zenon, <2>8, <3>1, <1>FailShape, <1>MoveShape, <1>CreateTableShape DEF StepShape, CollTable, after
  <2>9. CASE CollTableWait(c)
    <3>1. /\ sess[c].pc = "collTableWait" /\ (InTx(sess[c].op) => StopOK(c))
          /\ sess[c].coll \in View(c).tables => MoveOK(c, after)
      BY Zenon, <2>3, <2>9 DEF StopOK, MoveOK, CollTableWait
    <3> QED
      BY Zenon, <2>9, <3>1, <1>FailShape, <1>MoveShape, <1>CreateTableShape DEF StepShape, CollTableWait, after
  <2> QED
    BY Zenon, <2>4, <2>5, <2>6, <2>7, <2>8, <2>9

<1>NameShape.
  ASSUME NEW c \in Clients,
         NameSchema(c) \/ NameTables(c) \/ NameSettings(c) \/ NameUpdate(c)
  PROVE  StepShape(c)
  <2> USE <1>NameShape
  <2>1. CASE NameSchema(c)
    <3> DEFINE label == IF View(c).schema THEN "nameTables" ELSE "data"
    <3>1. MoveOK(c, label)
      BY Zenon, <2>1 DEF MoveOK, NameSchema
    <3>2. Goto(c, label) /\ UNCHANGED <<db, pend, acked>>
      BY Zenon, <2>1 DEF NameSchema
    <3> HIDE DEF label
    <3> QED
      BY ZenonT(60), <3>1, <3>2, <1>MoveShape DEF StepShape
  <2>2. CASE NameTables(c)
    <3> DEFINE label == IF View(c).settings THEN "nameSettings" ELSE "settingsTables"
               s == [sess[c] EXCEPT !.pc = label, !.ret = "name"]
    <3>1. sess[c] \in Session
      BY Zenon DEF Typed, TypeOK
    <3>2. MoveOK(c, label)
      BY Zenon, <2>2 DEF MoveOK, NameTables
    <3>3. Becomes(c, s) /\ UNCHANGED <<db, pend, acked>>
      BY Zenon, <2>2 DEF NameTables, Becomes
    <3> HIDE DEF label
    <3>4. SameBut(s, sess[c]) /\ s.pc = label
      BY Zenon, <3>1 DEF SameBut, SameCommand, Session
    <3> HIDE DEF s
    <3>5. Moves(c)
      BY Zenon, <3>2, <3>3, <3>4 DEF Moves
    <3> QED
      BY Zenon, <3>5 DEF StepShape
  <2>3. CASE NameSettings(c)
    <3>1. StopOK(c) /\ sess[c].pc = "nameSettings"
      BY Zenon, <2>3 DEF StopOK, NameSettings
    <3>2. ASSUME NEW i \in DOMAIN View(c).rows,
                 ReadSettings(c, i, IF Recorded(c, i) THEN "data" ELSE "nameUpdate")
          PROVE  StepShape(c)
      <4> DEFINE label == IF Recorded(c, i) THEN "data" ELSE "nameUpdate"
      <4>1. label \in {"data", "nameUpdate"}
        BY Zenon
      <4>2. ReadSettings(c, i, label)
        BY Zenon, <3>2
      <4> HIDE DEF label
      <4>3. Reads(c)
        BY Zenon, <3>1, <4>1, <4>2, <1>ReadShape
      <4> QED
        BY Zenon, <4>3 DEF StepShape
    <3> QED
      BY Zenon, <2>3, <3>1, <3>2, <1>FailShape DEF StepShape, NameSettings
  <2>4. CASE NameUpdate(c)
    <3>1. sess[c].pc = "nameUpdate"
      BY Zenon, <2>4 DEF NameUpdate
    <3>2. PICK s : Becomes(c, s) /\ SameBut(s, sess[c]) /\ s.pc = "data"
      BY Zenon, <2>4, <1>GotoShape DEF NameUpdate
    <3>3. /\ Exec(c, DocSet(Len(View(c).rows), sess[c].seen \cup {sess[c].coll}))
          /\ UNCHANGED acked
      BY Zenon, <2>4 DEF NameUpdate, UpdateSettings, DocSet
    <3>4. Records(c)
      BY SMT, <3>1, <3>2, <3>3 DEF Records
    <3> QED
      BY Zenon, <3>4 DEF StepShape
  <2> QED
    BY Zenon, <2>1, <2>2, <2>3, <2>4

<1>DataShape.
  ASSUME NEW c \in Clients, Data(c)
  PROVE  StepShape(c)
  <2> USE <1>DataShape
  <2>1. StopOK(c) /\ sess[c].pc = "data"
    BY ZenonT(60) DEF StopOK, Data
  <2>2. CASE Fail(c)
    BY Zenon, <2>1, <2>2, <1>FailShape DEF StepShape
  <2> DEFINE q == DocsStored(IF sess[c].op = "insert" THEN {<<sess[c].coll, c>>} ELSE {})
  <2> HIDE DEF q
  <2>3. ASSUME sess[c].coll \in View(c).tables, Exec(c, q), UNCHANGED acked, NEW f,
               sess' = [sess EXCEPT ![c].pc = "commit", ![c].found = f,
                                    ![c].tableLocks = @ \cup {sess[c].coll}]
        PROVE  StepShape(c)
    <3> DEFINE locks == sess[c].tableLocks \cup {sess[c].coll}
               s == [sess[c] EXCEPT !.pc = "commit", !.found = f, !.tableLocks = locks]
    <3>1. sess[c] \in Session
      BY Zenon DEF Typed, TypeOK
    <3>2. Becomes(c, s)
      BY Zenon, <2>3 DEF Becomes
    <3>3. locks # {}
      BY Zenon
    <3> HIDE DEF locks
    <3>4. /\ SameCommand(s, sess[c]) /\ s.settingsLock = sess[c].settingsLock
          /\ s.pc = "commit" /\ s.tableLocks = locks
      BY Zenon, <3>1 DEF SameCommand, Session
    <3> HIDE DEF s
    <3>5. Stores(c)
      BY Zenon, <2>1, <2>3, <3>2, <3>3, <3>4 DEF Stores, q
    <3> QED
      BY Zenon, <3>5 DEF StepShape
  <2> QED
    BY Zenon, <2>2, <2>3 DEF Data, q, DocsStored

<1>DropShape.
  ASSUME NEW c \in Clients,
         \/ DropSchemaCheck(c) \/ DropTables(c) \/ DropSettings(c)
         \/ DropUpdate(c) \/ DropDatabase(c)
  PROVE  StepShape(c)
  <2> USE <1>DropShape
  <2>1. sess[c].pc \in {"dropSchemaCheck", "dropTables", "dropSettings", "dropUpdate", "dropDatabase"}
    BY Zenon DEF DropSchemaCheck, DropTables, DropSettings, DropUpdate, DropDatabase
  <2>2. StopOK(c)
    BY Zenon, <2>1 DEF StopOK
  <2>3. CASE Fail(c)
    BY Zenon, <2>2, <2>3, <1>FailShape DEF StepShape
  <2>4. CASE DropSchemaCheck(c)
    <3>1. MoveOK(c, "dropTables")
      BY Zenon, <2>4 DEF MoveOK, DropSchemaCheck
    <3> QED
      BY Zenon, <2>3, <2>4, <3>1, <1>MoveShape DEF StepShape, DropSchemaCheck
  <2>5. CASE DropTables(c)
    <3>1. sess[c].coll \in db.tables => MoveOK(c, "dropSettings")
      BY Zenon, <2>5 DEF MoveOK, DropTables
    <3> QED
      BY Zenon, <2>3, <2>5, <3>1, <1>MoveShape DEF StepShape, DropTables
  <2>6. CASE DropSettings(c)
    <3>1. sess[c].pc = "dropSettings"
      BY Zenon, <2>6 DEF DropSettings
    <3>2. ASSUME NEW i \in DOMAIN db.rows, Recorded(c, i), ReadSettings(c, i, "dropUpdate")
          PROVE  StepShape(c)
      <4>1. /\ db.rows \in Seq(SUBSET Colls) /\ pend[c] \in Change
            /\ View(c).rows = ApplyRows(db.rows, pend[c])
        BY Zenon DEF Typed, TypeOK, DB, View, Apply
      <4>2. View(c).rows \in Seq(SUBSET Colls) /\ Len(View(c).rows) \in {Len(db.rows), Len(db.rows) + 1}
        BY ZenonT(60), <4>1, ApplyRowsType DEF Change
      <4>3. i \in DOMAIN View(c).rows
        BY <4>1, <4>2
      <4>4. sess[c].coll \in View(c).rows[i]
        BY ZenonT(60), <3>2 DEF Recorded
      <4>5. Reads(c)
        BY ZenonT(60), <3>1, <3>2, <4>3, <4>4, <1>ReadShape
      <4> QED
        BY ZenonT(60), <4>5 DEF StepShape
    <3> QED
      BY Zenon, <2>3, <2>6, <3>2 DEF DropSettings
  <2>7. CASE DropUpdate(c)
    <3>1. CASE /\ Goto(c, "dropTable") /\ UNCHANGED acked
               /\ UpdateSettings(c, sess[c].seen \ {sess[c].coll})
      <4>1. PICK s : Becomes(c, s) /\ SameBut(s, sess[c]) /\ s.pc = "dropTable"
        BY Zenon, <3>1, <1>GotoShape
      <4>2. Exec(c, DocSet(Len(View(c).rows), sess[c].seen \ {sess[c].coll}))
        BY ZenonT(60), <3>1 DEF UpdateSettings, DocSet
      <4>3. Unrecords(c)
        BY Zenon, <2>7, <3>1, <4>1, <4>2 DEF Unrecords, DropUpdate
      <4> QED
        BY Zenon, <4>3 DEF StepShape
    <3> QED
      BY Zenon, <2>3, <2>7, <3>1 DEF DropUpdate
  <2>8. CASE DropDatabase(c)
    <3>1. CASE UNCHANGED <<db, acked>>
      BY ZenonT(60), <2>2, <2>8, <3>1 DEF DropDatabase, StepShape, Stops
    <3>2. CASE ~SchemaLocked(c) /\ db' = EmptyDB /\ acked' = {}
      BY Zenon, <2>8, <3>2 DEF DropDatabase, DropsDatabase, StepShape
    <3> QED
      BY ZenonT(60), <2>8, <3>1, <3>2 DEF DropDatabase
  <2> QED
    BY ZenonT(60), <2>4, <2>5, <2>6, <2>7, <2>8

<1>EnsuredShape.
  ASSUME NEW c \in Clients, Ensured(c)
  PROVE  StepShape(c)
  <2> USE <1>EnsuredShape
  <2>1. StopOK(c) /\ sess[c].pc = "ensured" /\ UNCHANGED <<db, acked>>
    BY ZenonT(60) DEF Ensured, StopOK
  <2>2. CASE Phase(c, "updateFind")
    BY ZenonT(60), <2>1, <2>2 DEF StepShape, GoesOn
  <2>3. CASE Finish(c, "ok")
    BY Zenon, <2>1, <2>3 DEF StepShape, Stops
  <2> QED
    BY Zenon, <2>2, <2>3 DEF Ensured
<1> SUFFICES ASSUME NEW c \in Clients, Step(c)
             PROVE  StepShape(c)
  BY Zenon
<1>1. CASE Commit(c) \/ DropTable(c)
  BY Zenon, <1>1 DEF StepShape
<1> QED
  BY Zenon, <1>1, <1>ExistsShape, <1>CreateSchemaShape, <1>SettingsShape, <1>CollShape, <1>NameShape, <1>DataShape,
     <1>DropShape, <1>EnsuredShape DEF Step

-----------------------------------------------------------------------------
(* What the changes do to a transaction and to the database.               *)

\* The change of every kind of statement is a change.
LEMMA ChangesTyped ==
  /\ SchemaMade \in Change /\ SettingsMade \in Change /\ RowMade \in Change
  /\ \A l \in Colls : TableMade(l) \in Change
  /\ \A n \in Nat, doc \in SUBSET Colls : DocSet(n, doc) \in Change
  /\ \A x \in SUBSET (Colls \X Clients) : DocsStored(x) \in Change
<1>1. SchemaMade \in Change /\ SettingsMade \in Change /\ RowMade \in Change
  BY ZenonT(60) DEF SchemaMade, SettingsMade, RowMade, NoChange, Change
<1>2. \A l \in Colls : TableMade(l) \in Change
  BY ZenonT(60) DEF TableMade, NoChange, Change
<1>3. \A n \in Nat, doc \in SUBSET Colls : DocSet(n, doc) \in Change
  BY ZenonT(60) DEF DocSet, NoChange, Change
<1>4. \A x \in SUBSET (Colls \X Clients) : DocsStored(x) \in Change
  BY ZenonT(60) DEF DocsStored, NoChange, Change
<1> QED
  BY Zenon, <1>1, <1>2, <1>3, <1>4

SameSettings(m, p) == (m.settings <=> p.settings) /\ (m.row <=> p.row)
SameDoc(m, p) == m.n = p.n /\ m.doc = p.doc

\* The fields of the change that each kind of statement makes: none, ...
LEMMA NoChangeFields ==
  /\ ~NoChange.schema /\ ~NoChange.settings /\ ~NoChange.row
  /\ NoChange.n = 0 /\ NoChange.doc = {} /\ NoChange.tables = {} /\ NoChange.docs = {}
<1>1. ~NoChange.schema
  BY Zenon DEF NoChange
<1>2. ~NoChange.settings
  BY Zenon DEF NoChange
<1>3. ~NoChange.row
  BY Zenon DEF NoChange
<1>4. NoChange.n = 0 /\ NoChange.doc = {} /\ NoChange.tables = {} /\ NoChange.docs = {}
  BY Zenon DEF NoChange
<1> QED
  BY Zenon, <1>1, <1>2, <1>3, <1>4

\* ... CREATE SCHEMA, ...
LEMMA SchemaMadeFields ==
  /\ SchemaMade.schema /\ ~SchemaMade.settings /\ ~SchemaMade.row
  /\ SchemaMade.n = 0 /\ SchemaMade.tables = {} /\ SchemaMade.docs = {}
<1>1. SchemaMade.schema
  BY Zenon DEF SchemaMade, NoChange
<1>2. ~SchemaMade.settings
  BY Zenon DEF SchemaMade, NoChange
<1>3. ~SchemaMade.row
  BY Zenon DEF SchemaMade, NoChange
<1>4. SchemaMade.n = 0 /\ SchemaMade.tables = {} /\ SchemaMade.docs = {}
  BY Zenon DEF SchemaMade, NoChange
<1> QED
  BY Zenon, <1>1, <1>2, <1>3, <1>4

\* ... CREATE TABLE of the settings, ...
LEMMA SettingsMadeFields ==
  /\ ~SettingsMade.schema /\ SettingsMade.settings /\ ~SettingsMade.row
  /\ SettingsMade.n = 0 /\ SettingsMade.tables = {} /\ SettingsMade.docs = {}
<1>1. ~SettingsMade.schema
  BY Zenon DEF SettingsMade, NoChange
<1>2. SettingsMade.settings
  BY Zenon DEF SettingsMade, NoChange
<1>3. ~SettingsMade.row
  BY Zenon DEF SettingsMade, NoChange
<1>4. SettingsMade.n = 0 /\ SettingsMade.tables = {} /\ SettingsMade.docs = {}
  BY Zenon DEF SettingsMade, NoChange
<1> QED
  BY Zenon, <1>1, <1>2, <1>3, <1>4

\* ... INSERT of the first settings row, ...
LEMMA RowMadeFields ==
  /\ ~RowMade.schema /\ ~RowMade.settings /\ RowMade.row
  /\ RowMade.n = 0 /\ RowMade.tables = {} /\ RowMade.docs = {}
<1>1. ~RowMade.schema
  BY Zenon DEF RowMade, NoChange
<1>2. ~RowMade.settings
  BY Zenon DEF RowMade, NoChange
<1>3. RowMade.row
  BY Zenon DEF RowMade, NoChange
<1>4. RowMade.n = 0 /\ RowMade.tables = {} /\ RowMade.docs = {}
  BY Zenon DEF RowMade, NoChange
<1> QED
  BY Zenon, <1>1, <1>2, <1>3, <1>4

\* ... UPDATE of the settings document, ...
LEMMA DocSetFields ==
  ASSUME NEW n, NEW doc
  PROVE  /\ ~DocSet(n, doc).schema /\ ~DocSet(n, doc).settings /\ ~DocSet(n, doc).row
         /\ DocSet(n, doc).n = n /\ DocSet(n, doc).doc = doc
         /\ DocSet(n, doc).tables = {} /\ DocSet(n, doc).docs = {}
<1>1. ~DocSet(n, doc).schema
  BY Zenon DEF DocSet, NoChange
<1>2. ~DocSet(n, doc).settings
  BY Zenon DEF DocSet, NoChange
<1>3. ~DocSet(n, doc).row
  BY Zenon DEF DocSet, NoChange
<1>4. /\ DocSet(n, doc).n = n /\ DocSet(n, doc).doc = doc
      /\ DocSet(n, doc).tables = {} /\ DocSet(n, doc).docs = {}
  BY Zenon DEF DocSet, NoChange
<1> QED
  BY Zenon, <1>1, <1>2, <1>3, <1>4

\* ... CREATE TABLE of a collection, ...
LEMMA TableMadeFields ==
  ASSUME NEW l
  PROVE  /\ ~TableMade(l).schema /\ ~TableMade(l).settings /\ ~TableMade(l).row
         /\ TableMade(l).n = 0 /\ TableMade(l).tables = {l} /\ TableMade(l).docs = {}
<1>1. ~TableMade(l).schema
  BY Zenon DEF TableMade, NoChange
<1>2. ~TableMade(l).settings
  BY Zenon DEF TableMade, NoChange
<1>3. ~TableMade(l).row
  BY Zenon DEF TableMade, NoChange
<1>4. TableMade(l).n = 0 /\ TableMade(l).tables = {l} /\ TableMade(l).docs = {}
  BY Zenon DEF TableMade, NoChange
<1> QED
  BY Zenon, <1>1, <1>2, <1>3, <1>4

\* ... and INSERT of a document.
LEMMA DocsStoredFields ==
  ASSUME NEW x
  PROVE  /\ ~DocsStored(x).schema /\ ~DocsStored(x).settings /\ ~DocsStored(x).row
         /\ DocsStored(x).n = 0 /\ DocsStored(x).tables = {} /\ DocsStored(x).docs = x
<1>1. ~DocsStored(x).schema
  BY Zenon DEF DocsStored, NoChange
<1>2. ~DocsStored(x).settings
  BY Zenon DEF DocsStored, NoChange
<1>3. ~DocsStored(x).row
  BY Zenon DEF DocsStored, NoChange
<1>4. DocsStored(x).n = 0 /\ DocsStored(x).tables = {} /\ DocsStored(x).docs = x
  BY Zenon DEF DocsStored, NoChange
<1> QED
  BY Zenon, <1>1, <1>2, <1>3, <1>4

\* The fields of two changes of one transaction taken together.
LEMMA MergeFields ==
  ASSUME NEW p \in Change, NEW q \in Change
  PROVE  /\ Merge(p, q) \in Change
         /\ Merge(p, q).settings <=> p.settings \/ q.settings
         /\ Merge(p, q).row <=> p.row \/ q.row
         /\ q.n = 0 => Merge(p, q).n = p.n /\ Merge(p, q).doc = p.doc
         /\ q.n > 0 => Merge(p, q).n = q.n /\ Merge(p, q).doc = q.doc
         /\ Merge(p, q).tables = p.tables \cup q.tables
         /\ Merge(p, q).docs = p.docs \cup q.docs
<1>1. Merge(p, q) \in Change
  BY Zenon, MergeType
<1>2. Merge(p, q).settings <=> p.settings \/ q.settings
  BY Zenon DEF Merge, Change
<1>3. Merge(p, q).row <=> p.row \/ q.row
  BY Zenon DEF Merge, Change
<1>4. /\ q.n = 0 => Merge(p, q).n = p.n /\ Merge(p, q).doc = p.doc
      /\ q.n > 0 => Merge(p, q).n = q.n /\ Merge(p, q).doc = q.doc
  BY DEF Merge, Change
<1>5. /\ Merge(p, q).tables = p.tables \cup q.tables
      /\ Merge(p, q).docs = p.docs \cup q.docs
  BY Zenon DEF Merge
<1> QED
  BY Zenon, <1>1, <1>2, <1>3, <1>4, <1>5

\* What a change says nothing of stays as the changes before it left it.
LEMMA MergeKeeps ==
  ASSUME NEW p \in Change, NEW q \in Change
  PROVE  /\ ~q.settings => (Merge(p, q).settings <=> p.settings)
         /\ ~q.row => (Merge(p, q).row <=> p.row)
         /\ q.n = 0 => SameDoc(Merge(p, q), p)
         /\ q.n # 0 => SameDoc(Merge(p, q), q)
         /\ q.tables = {} => Merge(p, q).tables = p.tables
         /\ q.docs = {} => Merge(p, q).docs = p.docs
<1>1. ~q.settings => (Merge(p, q).settings <=> p.settings)
  BY Zenon, MergeFields
<1>2. ~q.row => (Merge(p, q).row <=> p.row)
  BY Zenon, MergeFields
<1>3. (q.n = 0 => SameDoc(Merge(p, q), p)) /\ (q.n # 0 => SameDoc(Merge(p, q), q))
  BY DEF SameDoc, Merge, Change
<1>4. /\ q.tables = {} => Merge(p, q).tables = p.tables
      /\ q.docs = {} => Merge(p, q).docs = p.docs
  BY Zenon DEF Merge
<1> QED
  BY Zenon, <1>1, <1>2, <1>3, <1>4

\* The fields of the database after a committed change.
LEMMA ApplyFields ==
  ASSUME NEW d \in DB, NEW q \in Change
  PROVE  /\ Apply(d, q) \in DB
         /\ Apply(d, q).schema <=> d.schema \/ q.schema
         /\ Apply(d, q).settings <=> d.settings \/ q.settings
         /\ Apply(d, q).rows = ApplyRows(d.rows, q)
         /\ Apply(d, q).tables = d.tables \cup q.tables
         /\ Apply(d, q).docs = d.docs \cup q.docs
<1>1. Apply(d, q) \in DB
  BY Zenon, ApplyType
<1>2. Apply(d, q).schema <=> d.schema \/ q.schema
  BY Zenon DEF Apply
<1>3. Apply(d, q).settings <=> d.settings \/ q.settings
  BY ZenonT(60) DEF Apply
<1>4. /\ Apply(d, q).rows = ApplyRows(d.rows, q)
      /\ Apply(d, q).tables = d.tables \cup q.tables
      /\ Apply(d, q).docs = d.docs \cup q.docs
  BY Zenon DEF Apply
<1> QED
  BY Zenon, <1>1, <1>2, <1>3, <1>4

\* A change that neither inserts nor updates a row leaves the rows alone.
LEMMA ApplyRowsSame ==
  ASSUME NEW rows \in Seq(SUBSET Colls), NEW q, ~q.row, q.n = 0
  PROVE  ApplyRows(rows, q) = rows
<1>1. ApplyRows(rows, q) = [i \in 1..Len(rows) |-> rows[i]]
  BY DEF ApplyRows
<1> QED
  BY <1>1

\* UPDATE sets every row that the statement sees.
LEMMA ApplyRowsSet ==
  ASSUME NEW rows \in Seq(SUBSET Colls), NEW q, ~q.row, q.n = Len(rows)
  PROVE  /\ ApplyRows(rows, q) = [i \in 1..Len(rows) |-> q.doc]
         /\ Len(ApplyRows(rows, q)) = Len(rows)
<1>1. ApplyRows(rows, q) = [i \in 1..Len(rows) |-> q.doc]
  BY DEF ApplyRows
<1> QED
  BY <1>1
=============================================================================
