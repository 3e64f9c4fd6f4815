------------------------ MODULE DocumentsTraceProofs ------------------------
(***************************************************************************)
(* What the steps of Documents do to a command and to the rows, and the    *)
(* invariant Traces: a row keeps the _id it is named by, so no two rows    *)
(* have the same one; a statement that has not written yet has left no     *)
(* trace in the table or in what others read; and what a command will      *)
(* write back differs from the row only by what others wrote since it      *)
(* read.  It holds for clients that do not choose the _ids of new          *)
(* documents (~ChosenIds) and any number of clients, documents,            *)
(* statements and connections.  The theorems that follow are in            *)
(* DocumentsProofs.                                                        *)
(***************************************************************************)
EXTENDS Documents, TLAPS

-----------------------------------------------------------------------------
(* Types, and which command may be at which point.                         *)

Labels == {"idle", "next", "begin", "read", "writeBegin", "write", "batch", "deleteBegin", "delete"}

Docs == UNION {[R -> Document] : R \in SUBSET AllIds}

Session == [op : AllOps \cup {"none"}, stmt : 0..MaxStatements, pc : Labels, q : SUBSET AllIds,
            one : BOOLEAN, upsert : BOOLEAN, remove : BOOLEAN, replace : BOOLEAN, docs : Docs, res : SUBSET AllIds,
            n : Nat, modified : Nat, touched : Nat, lost : BOOLEAN]

\* The variables have their types.
TypeOK ==
  /\ table \in Docs
  /\ inUse \in Nat
  /\ number \in 0..MaxStatements
  /\ sess \in [Clients -> Session]
  /\ since \in [Clients -> SUBSET Statement]

\* Which command is at which point.
ShapeOf(s) ==
  /\ s.pc = "idle" => s = Idle
  /\ s.pc # "idle" => s.op # "none" /\ s.stmt > 0
  /\ s.remove => s.op = "findAndModify"
  /\ s.pc = "batch" => s.op = "delete"
  /\ s.pc \in {"writeBegin", "write"} => s.op # "delete"
  /\ s.pc \in {"deleteBegin", "delete"} => s.op \in {"delete", "findAndModify"}
  /\ s.pc \in {"begin", "read"} => Rows(s.docs) = {} /\ s.res = {}

Shape == \A c \in Clients : ShapeOf(sess[c])

-----------------------------------------------------------------------------
(* Facts about types.                                                      *)

\* What is read from a table are rows of it with their documents.
LEMMA DocsType ==
  ASSUME NEW f \in Docs
  PROVE  Rows(f) \subseteq AllIds /\ \A r \in Rows(f) : f[r] \in Document
BY Zenon DEF Docs, Rows

\* A function from rows to documents is such a reading.
LEMMA DocsMade ==
  ASSUME NEW R \in SUBSET AllIds, NEW f \in [R -> Document]
  PROVE  f \in Docs
BY Zenon DEF Docs

\* What is left of the documents.
LEMMA WithoutType ==
  ASSUME NEW f \in Docs, NEW S
  PROVE  /\ Without(f, S) \in Docs
         /\ Rows(Without(f, S)) = Rows(f) \ S
         /\ \A r \in Rows(f) \ S : Without(f, S)[r] = f[r]
<1>1. Without(f, S) \in [Rows(f) \ S -> Document]
  BY Zenon, DocsType DEF Without
<1> QED
  BY Zenon, <1>1, DocsType, DocsMade DEF Without, Rows

\* A session without a command is a session.
LEMMA IdleType ==
  /\ None \in Docs /\ Rows(None) = {}
  /\ Idle \in Session
<1>1. None \in [{} -> Document]
  BY Zenon DEF None
<1>2. None \in Docs /\ Rows(None) = {}
  BY Zenon, <1>1, DocsMade DEF None, Rows
<1> QED
  BY <1>2, DocumentsAssumption DEF Idle, Started, Session, Labels, AllOps

\* The sessions of a command whose record becomes s.
LEMMA SessChange ==
  ASSUME sess \in [Clients -> Session], NEW c \in Clients, NEW s \in Session,
         sess' = [sess EXCEPT ![c] = s]
  PROVE  sess' \in [Clients -> Session]
BY Zenon

-----------------------------------------------------------------------------
(* What the steps do to the session of their client, field by field.       *)

\* Only the session of c changes.
Others(c) == \A d \in Clients \ {c} : sess'[d] = sess[d]

\* The statement of c goes on: only what it has done so far changes.
Becomes(c, pc, docs, res, n, modified, touched, lost) ==
  /\ Others(c)
  /\ sess'[c].op = sess[c].op /\ sess'[c].stmt = sess[c].stmt /\ sess'[c].q = sess[c].q
  /\ sess'[c].one = sess[c].one /\ sess'[c].upsert = sess[c].upsert
  /\ sess'[c].remove = sess[c].remove /\ sess'[c].replace = sess[c].replace
  /\ sess'[c].pc = pc /\ sess'[c].docs = docs /\ sess'[c].res = res
  /\ sess'[c].n = n /\ sess'[c].modified = modified /\ sess'[c].touched = touched /\ sess'[c].lost = lost

\* The statement of c goes on elsewhere.
Goes(c, pc) ==
  Becomes(c, pc, sess[c].docs, sess[c].res, sess[c].n, sess[c].modified, sess[c].touched, sess[c].lost)

\* A new statement begins.
LEMMA StatementEffect ==
  ASSUME TypeOK, NEW c \in Clients, NEW o, NextStatement(c, o)
  PROVE  /\ Others(c) /\ number' = number + 1
         /\ sess'[c].op = o /\ sess'[c].stmt = number + 1
         /\ sess'[c].pc = IF o = "insert" THEN "writeBegin" ELSE "begin"
         /\ sess'[c].docs = None /\ sess'[c].res = {}
         /\ sess'[c].n = 0 /\ sess'[c].modified = 0 /\ sess'[c].touched = 0 /\ ~sess'[c].lost
         /\ o = "insert" => sess'[c].q = AllIds /\ ~sess'[c].one
         /\ sess'[c].upsert => ChosenIds \/ sess'[c].q = AllIds
         /\ o = "findAndModify" => sess'[c].one
         /\ sess'[c].remove \/ sess'[c].replace => o = "findAndModify"
<1>1. PICK q \in {AllIds} \cup {{i} : i \in Ids}, one, u, r, p \in BOOLEAN :
        /\ o = "insert" => q = AllIds /\ ~one
        /\ o = "findAndModify" => one
        /\ u => o \in {"update", "findAndModify"} /\ ~r /\ (ChosenIds \/ q = AllIds)
        /\ r => o = "findAndModify"
        /\ p => o = "findAndModify" /\ ~u /\ ~r
        /\ sess' = [sess EXCEPT
             ![c] = Started(o, number + 1, IF o = "insert" THEN "writeBegin" ELSE "begin", q, one, u, r, p)]
  BY Zenon DEF NextStatement
<1>2. Others(c) /\ sess'[c] = Started(o, number + 1, IF o = "insert" THEN "writeBegin" ELSE "begin", q, one, u, r, p)
  BY Zenon, <1>1 DEF TypeOK, Others
<1> QED
  BY <1>1, <1>2 DEF NextStatement, Started

\* A statement ends with an error.
LEMMA ErrorEffect ==
  ASSUME TypeOK, NEW c \in Clients, NEW s, AfterError(c, s)
  PROVE  Others(c) /\ sess'[c] = IF s.op = "delete" THEN [s EXCEPT !.pc = "next"] ELSE Idle
BY Zenon DEF AfterError, TypeOK, Others

\* The transaction of a statement fails.
LEMMA FailedEffect ==
  ASSUME TypeOK, NEW c \in Clients, AfterError(c, sess[c])
  PROVE  IF sess[c].op = "delete" THEN Goes(c, "next") ELSE Others(c) /\ sess'[c] = Idle
<1>1. sess[c] \in Session
  BY Zenon DEF TypeOK
<1>2. Others(c) /\ sess'[c] = IF sess[c].op = "delete" THEN [sess[c] EXCEPT !.pc = "next"] ELSE Idle
  BY Zenon, ErrorEffect
<1> QED
  BY Zenon, <1>1, <1>2 DEF Goes, Becomes, Session

\* A transaction begins.
LEMMA AcquireEffect ==
  ASSUME TypeOK, NEW c \in Clients, NEW from, NEW to, Acquire(c, from, to)
  PROVE  Goes(c, to)
BY DEF Acquire, TypeOK, Session, Goes, Becomes, Others

\* How each step changes the session of its client: the rows that are read, ...
LEMMA ReadEffect ==
  ASSUME TypeOK, NEW c \in Clients, Read(c)
  PROVE  \E rows \in Limit(RowsOf(sess[c].q), sess[c].one) :
           Becomes(c, AfterRead(c, rows), [r \in rows |-> table[r]],
                   IF sess[c].remove THEN {table[r].id : r \in rows} ELSE {},
                   IF sess[c].op = "update" THEN Cardinality(rows) ELSE 0,
                   sess[c].modified, sess[c].touched, sess[c].lost)
<1>1. PICK rows \in Limit(RowsOf(sess[c].q), sess[c].one) :
        sess' = [sess EXCEPT
          ![c].docs = [r \in rows |-> table[r]],
          ![c].res = IF sess[c].remove THEN {table[r].id : r \in rows} ELSE {},
          ![c].n = IF sess[c].op = "update" THEN Cardinality(rows) ELSE 0,
          ![c].pc = AfterRead(c, rows)]
  BY Zenon DEF Read
<1>2. ASSUME NEW docs, NEW res, NEW n, NEW pc,
             sess' = [sess EXCEPT ![c].docs = docs, ![c].res = res, ![c].n = n, ![c].pc = pc]
      PROVE  Becomes(c, pc, docs, res, n, sess[c].modified, sess[c].touched, sess[c].lost)
  BY <1>2 DEF TypeOK, Session, Becomes, Others
<1> QED
  BY Zenon, <1>1, <1>2

\* ... a document that is inserted, or fails to be, ...
LEMMA InsertEffect ==
  ASSUME TypeOK, NEW c \in Clients, Insert(c)
  PROVE  \/ Becomes(c, "next", sess[c].docs, sess[c].res, sess[c].n + 1, sess[c].modified, sess[c].touched, sess[c].lost)
         \/ AfterError(c, sess[c])
<1>1. ASSUME NEW n, sess' = [sess EXCEPT ![c].pc = "next", ![c].n = n]
      PROVE  Becomes(c, "next", sess[c].docs, sess[c].res, n, sess[c].modified, sess[c].touched, sess[c].lost)
  BY <1>1 DEF TypeOK, Session, Becomes, Others
<1> QED
  BY Zenon, <1>1 DEF Insert

\* ... one that the update leaves as it is, ...
LEMMA UnchangedEffect ==
  ASSUME TypeOK, NEW c \in Clients, Unchanged(c)
  PROVE  \E r \in Rows(sess[c].docs) :
           Becomes(c, AfterWrite(c, r), Without(sess[c].docs, {r}), sess[c].res, sess[c].n,
                   sess[c].modified, sess[c].touched, sess[c].lost)
<1>1. PICK r \in Rows(sess[c].docs) :
        sess' = [sess EXCEPT ![c].docs = Without(@, {r}), ![c].pc = AfterWrite(c, r)]
  BY Zenon DEF Unchanged
<1>2. ASSUME NEW docs, NEW pc, sess' = [sess EXCEPT ![c].docs = docs, ![c].pc = pc]
      PROVE  Becomes(c, pc, docs, sess[c].res, sess[c].n, sess[c].modified, sess[c].touched, sess[c].lost)
  BY <1>2 DEF TypeOK, Session, Becomes, Others
<1> QED
  BY Zenon, <1>1, <1>2

\* The document of row r is written back.
WritesBack(c, r) ==
  LET doc == Updated(c, sess[c].docs[r])
      hit == RowsOf({doc.id})
  IN  /\ table' = [x \in Rows(table) |-> IF x \in hit THEN doc ELSE table[x]]
      /\ Wrote(c, IF hit = {} THEN {} ELSE doc.val)
      /\ \/ Becomes(c, AfterWrite(c, r), Without(sess[c].docs, {r}), sess[c].res, sess[c].n,
                    sess[c].modified + Cardinality(hit), sess[c].touched + Cardinality(hit), sess[c].lost)
         \/ AfterError(c, sess[c])

\* ... one that is written back, ...
LEMMA SetDocumentEffect ==
  ASSUME TypeOK, NEW c \in Clients, SetDocument(c)
  PROVE  \E r \in Rows(sess[c].docs) : WritesBack(c, r)
<1>1. PICK r \in Rows(sess[c].docs) :
        LET doc == Updated(c, sess[c].docs[r])
            hit == RowsOf({doc.id})
        IN  /\ table' = [x \in Rows(table) |-> IF x \in hit THEN doc ELSE table[x]]
            /\ \/ sess' = [sess EXCEPT
                    ![c].docs = Without(@, {r}),
                    ![c].modified = @ + Cardinality(hit),
                    ![c].touched = @ + Cardinality(hit),
                    ![c].pc = AfterWrite(c, r)]
               \/ Faults /\ AfterError(c, sess[c])
            /\ Wrote(c, IF hit = {} THEN {} ELSE doc.val)
  BY Zenon DEF SetDocument
<1>2. ASSUME NEW docs, NEW modified, NEW touched, NEW pc,
             sess' = [sess EXCEPT ![c].docs = docs, ![c].modified = modified, ![c].touched = touched, ![c].pc = pc]
      PROVE  Becomes(c, pc, docs, sess[c].res, sess[c].n, modified, touched, sess[c].lost)
  BY <1>2 DEF TypeOK, Session, Becomes, Others
<1> QED
  BY Zenon, <1>1, <1>2 DEF WritesBack

\* ... the query of a delete, ...
LEMMA DeleteQueryEffect ==
  ASSUME TypeOK, NEW c \in Clients, DeleteQuery(c)
  PROVE  Becomes(c, "batch", table, sess[c].res, sess[c].n, sess[c].modified, sess[c].touched, sess[c].lost)
BY Zenon DEF DeleteQuery, TypeOK, Session, Becomes, Others

\* ... a batch of its rows, ...
LEMMA DeleteBatchEffect ==
  ASSUME TypeOK, NEW c \in Clients, DeleteBatch(c)
  PROVE  \E B \in Batches(Rows(sess[c].docs)) :
         \E res \in Collect(c, {sess[c].docs[r].id : r \in B} \cap sess[c].q) :
           Becomes(c, IF res = {} THEN "batch" ELSE "deleteBegin", Without(sess[c].docs, B), res,
                   sess[c].n, sess[c].modified, sess[c].touched, sess[c].lost)
<1>1. PICK B \in Batches(Rows(sess[c].docs)) :
        \E res \in Collect(c, {sess[c].docs[r].id : r \in B} \cap sess[c].q) :
          sess' = [sess EXCEPT
            ![c].res = res,
            ![c].docs = Without(@, B),
            ![c].pc = IF res = {} THEN "batch" ELSE "deleteBegin"]
  BY Zenon DEF DeleteBatch
<1>2. PICK res \in Collect(c, {sess[c].docs[r].id : r \in B} \cap sess[c].q) :
        sess' = [sess EXCEPT
          ![c].res = res,
          ![c].docs = Without(@, B),
          ![c].pc = IF res = {} THEN "batch" ELSE "deleteBegin"]
  BY Zenon, <1>1
<1>3. ASSUME NEW docs, NEW pc, NEW x,
             sess' = [sess EXCEPT ![c].res = x, ![c].docs = docs, ![c].pc = pc]
      PROVE  Becomes(c, pc, docs, x, sess[c].n, sess[c].modified, sess[c].touched, sess[c].lost)
  BY <1>3 DEF TypeOK, Session, Becomes, Others
<1>4. Becomes(c, IF res = {} THEN "batch" ELSE "deleteBegin", Without(sess[c].docs, B), res,
              sess[c].n, sess[c].modified, sess[c].touched, sess[c].lost)
  BY Zenon, <1>2, <1>3
<1> QED
  BY Zenon, <1>4

\* ... its end, ...
LEMMA DeleteEndEffect ==
  ASSUME TypeOK, NEW c \in Clients, DeleteEnd(c)
  PROVE  Goes(c, "next")
BY DEF DeleteEnd, TypeOK, Session, Goes, Becomes, Others

\* ... and the statement that deletes by _id, whether or not it is confirmed.
LEMMA DeleteByIDEffect ==
  ASSUME TypeOK, NEW c \in Clients, DeleteByID(c)
  PROVE  LET hit == RowsOf(sess[c].res)
         IN  \/ /\ inUse' = inUse - 1
                /\ Becomes(c, IF sess[c].op = "delete" THEN "batch" ELSE "next", sess[c].docs, sess[c].res,
                           sess[c].n + Cardinality(hit), sess[c].modified, sess[c].touched + Cardinality(hit),
                           sess[c].lost)
             \/ /\ inUse' = inUse - Held(c)
                /\ IF sess[c].op = "delete"
                   THEN Becomes(c, "next", sess[c].docs, sess[c].res, sess[c].n, sess[c].modified,
                                sess[c].touched + Cardinality(hit), TRUE)
                   ELSE Others(c) /\ sess'[c] = Idle
<1> DEFINE hit == RowsOf(sess[c].res)
<1>t. sess \in [Clients -> Session] /\ sess[c] \in Session
  BY Zenon DEF TypeOK
<1>1. ASSUME NEW n, NEW touched, NEW pc, sess' = [sess EXCEPT ![c].n = n, ![c].touched = touched, ![c].pc = pc]
      PROVE  Becomes(c, pc, sess[c].docs, sess[c].res, n, sess[c].modified, touched, sess[c].lost)
  BY Zenon, <1>1, <1>t DEF Session, Becomes, Others
<1>2. ASSUME NEW touched, AfterError(c, [sess[c] EXCEPT !.touched = touched, !.lost = TRUE])
      PROVE  IF sess[c].op = "delete"
             THEN Becomes(c, "next", sess[c].docs, sess[c].res, sess[c].n, sess[c].modified, touched, TRUE)
             ELSE Others(c) /\ sess'[c] = Idle
  <2> DEFINE s == [sess[c] EXCEPT !.touched = touched, !.lost = TRUE]
  <2>1. Others(c) /\ sess'[c] = IF s.op = "delete" THEN [s EXCEPT !.pc = "next"] ELSE Idle
    BY Zenon, <1>2, ErrorEffect
  <2> QED
    BY Zenon, <2>1, <1>t DEF Session, Becomes
<1> QED
  BY Zenon, <1>1, <1>2 DEF DeleteByID, RowsDeleted

-----------------------------------------------------------------------------
(* The commands keep their shape.                                          *)

\* Every step keeps what a session holds at each point of its command.
LEMMA ShapeStep ==
  ASSUME TypeOK, Shape, NEW c \in Clients,
         (\E o \in Ops : Request(c, o)) \/ Step(c) \/ Fail(c)
  PROVE  Shape'
<1> USE DocumentsAssumption
<1>t. sess[c] \in Session /\ ShapeOf(sess[c]) /\ number \in Nat
  BY DEF TypeOK, Shape
<1>i. ShapeOf(Idle) /\ Rows(None) = {}
  BY Zenon, IdleType DEF ShapeOf, Idle, Started
<1>o. Others(c) /\ ShapeOf(sess'[c]) => Shape'
  BY DEF Others, Shape, ShapeOf
<1> SUFFICES Others(c) /\ ShapeOf(sess'[c])
  BY Zenon, <1>o
<1>1. ASSUME NEW o \in AllOps, NextStatement(c, o)
      PROVE  Others(c) /\ ShapeOf(sess'[c])
  BY <1>1, <1>t, <1>i, StatementEffect DEF ShapeOf, AllOps
<1>2. CASE \E o \in Ops : Request(c, o)
  BY Zenon, <1>2, <1>1 DEF Request
<1>3. CASE Loop(c)
  BY Zenon, <1>3, <1>1, <1>t DEF Loop, ShapeOf, Session
<1>4. CASE Reply(c)
  BY Zenon, <1>4, <1>i DEF Reply, Others, TypeOK
<1>5. CASE Begin(c) \/ WriteBegin(c) \/ DeleteBegin(c)
  <2>1. ASSUME NEW from, NEW to, Acquire(c, from, to)
        PROVE  Goes(c, to) /\ sess[c].pc = from
    BY Zenon, <2>1, AcquireEffect DEF Acquire
  <2>2. \/ Goes(c, "read") /\ sess[c].pc = "begin"
        \/ Goes(c, "write") /\ sess[c].pc = "writeBegin"
        \/ Goes(c, "delete") /\ sess[c].pc = "deleteBegin"
    BY Zenon, <2>1, <1>5 DEF Begin, WriteBegin, DeleteBegin
  <2> QED
    BY <2>2, <1>t DEF Goes, Becomes, ShapeOf
<1>6. ASSUME sess[c].pc # "idle", AfterError(c, sess[c])
      PROVE  Others(c) /\ ShapeOf(sess'[c])
  <2>1. IF sess[c].op = "delete" THEN Goes(c, "next") ELSE Others(c) /\ sess'[c] = Idle
    BY Zenon, <1>6, FailedEffect
  <2> QED
    BY Zenon, <2>1, <1>6, <1>t, <1>i DEF Goes, Becomes, ShapeOf
<1>7. CASE Fail(c)
  BY Zenon, <1>7, <1>6 DEF Fail
<1>8. CASE Read(c)
  <2>1. PICK rows \in Limit(RowsOf(sess[c].q), sess[c].one) :
           Becomes(c, AfterRead(c, rows), [r \in rows |-> table[r]],
                   IF sess[c].remove THEN {table[r].id : r \in rows} ELSE {},
                   IF sess[c].op = "update" THEN Cardinality(rows) ELSE 0,
                   sess[c].modified, sess[c].touched, sess[c].lost)
    BY Zenon, <1>8, ReadEffect
  <2>2. AfterRead(c, rows) \in {"deleteBegin", "writeBegin", "next"}
        /\ (AfterRead(c, rows) = "deleteBegin" => sess[c].remove)
    BY Zenon DEF AfterRead
  <2>3. /\ Others(c) /\ sess'[c].op = sess[c].op /\ sess'[c].stmt = sess[c].stmt
        /\ sess'[c].remove = sess[c].remove /\ sess'[c].pc = AfterRead(c, rows)
    BY Zenon, <2>1 DEF Becomes
  <2> QED
    BY ZenonT(60), <2>2, <2>3, <1>8, <1>t DEF Read, ShapeOf
<1>9. CASE Insert(c)
  BY ZenonT(60), <1>9, <1>6, <1>t, InsertEffect DEF Insert, Becomes, ShapeOf
<1>10. CASE Unchanged(c)
  BY ZenonT(60), <1>10, <1>t, UnchangedEffect DEF Unchanged, AfterWrite, Becomes, ShapeOf
<1>11. CASE SetDocument(c)
  BY ZenonT(60), <1>11, <1>6, <1>t, SetDocumentEffect DEF SetDocument, WritesBack, AfterWrite, Becomes, ShapeOf
<1>12. CASE DeleteQuery(c)
  BY ZenonT(60), <1>12, <1>t, DeleteQueryEffect DEF DeleteQuery, Becomes, ShapeOf
<1>13. CASE DeleteBatch(c)
  BY ZenonT(60), <1>13, <1>t, DeleteBatchEffect DEF DeleteBatch, Becomes, ShapeOf
<1>14. CASE DeleteEnd(c)
  BY ZenonT(60), <1>14, <1>t, DeleteEndEffect DEF DeleteEnd, Goes, Becomes, ShapeOf
<1>15. CASE DeleteByID(c)
  <2>1. PICK n, touched, lost :
          \/ Becomes(c, IF sess[c].op = "delete" THEN "batch" ELSE "next", sess[c].docs, sess[c].res,
                     n, sess[c].modified, touched, sess[c].lost)
          \/ Becomes(c, "next", sess[c].docs, sess[c].res, n, sess[c].modified, touched, lost)
          \/ Others(c) /\ sess'[c] = Idle
    BY Zenon, <1>15, DeleteByIDEffect
  <2> QED
    BY <2>1, <1>15, <1>t, <1>i DEF DeleteByID, Becomes, ShapeOf
<1> QED
  BY Zenon, <1>2, <1>3, <1>4, <1>5, <1>7, <1>8, <1>9, <1>10, <1>11, <1>12, <1>13, <1>14, <1>15 DEF Step

-----------------------------------------------------------------------------
(* The inductive invariant of the rows and of what the commands read.      *)

\* A statement that has not read yet; one that has documents to write; one that has read
\* nothing, or found nothing to update.
Early(s) == s.pc \in {"begin", "read"}
Writing(s) == s.pc \in {"writeBegin", "write"}
Fresh(s) == Early(s) \/ (Writing(s) /\ Rows(s.docs) = {})

\* Every row, and every row that was read, is named by its _id.
NamedById ==
  /\ \A r \in Rows(table) : table[r].id = r
  /\ \A c \in Clients : \A r \in Rows(sess[c].docs) : sess[c].docs[r].id = r

\* The statements that were begun: no two clients run the same one, and all rows and
\* values come from them.
Begun ==
  /\ \A c \in Clients : sess[c].stmt <= number
  /\ \A c, d \in Clients : c # d /\ sess[c].pc # "idle" => sess[c].stmt # sess[d].stmt
  /\ \A r \in Rows(table) : r \in Ids \cup 1..number /\ table[r].val \subseteq 1..number
  /\ \A c \in Clients :
       /\ sess[c].res \subseteq Ids \cup 1..number
       /\ \A r \in Rows(sess[c].docs) : r \in Ids \cup 1..number /\ sess[c].docs[r].val \subseteq 1..number

\* Only inserts, and upserts of documents with a new _id, insert.
Inserting ==
  \A c \in Clients :
    /\ sess[c].upsert => sess[c].q = AllIds
    /\ Writing(sess[c]) /\ Rows(sess[c].docs) = {} => sess[c].op = "insert" \/ sess[c].upsert

\* No row and nothing that was read has the name of a statement that may still insert it.
NotInserted ==
  \A c \in Clients : Fresh(sess[c]) =>
    /\ This(c) \notin Rows(table)
    /\ \A d \in Clients : This(c) \notin Rows(sess[d].docs) /\ This(c) \notin sess[d].res

\* A statement that has not read yet is in no value.
NotBegun ==
  \A c \in Clients : Early(sess[c]) =>
    /\ \A r \in Rows(table) : This(c) \notin table[r].val
    /\ \A d \in Clients : \A r \in Rows(sess[d].docs) : This(c) \notin sess[d].docs[r].val

\* A statement that will write a row back is not in the value of that row, neither in the
\* table nor as others read it.
NotWritten ==
  \A c \in Clients : Writing(sess[c]) =>
    \A r \in Rows(sess[c].docs) :
      /\ r \in Rows(table) => This(c) \notin table[r].val
      /\ \A d \in Clients : r \in Rows(sess[d].docs) => This(c) \notin sess[d].docs[r].val

\* What a command will write back lacks nothing but what others wrote since it read.
Covered ==
  \A c \in Clients : Writing(sess[c]) =>
    \A r \in Rows(sess[c].docs) \cap Rows(table) : table[r].val \subseteq sess[c].docs[r].val \cup since[c]

Traces == NamedById /\ Begun /\ Inserting /\ NotInserted /\ NotBegun /\ NotWritten /\ Covered

-----------------------------------------------------------------------------
(* What the steps do to the table and to the documents that were read: a   *)
(* step begins a statement, reads, inserts a row, writes a row back, or is *)
(* quiet, which includes deleting.                                         *)

\* f is what is left of g.
Sub(f, g) == Rows(f) \subseteq Rows(g) /\ \A r \in Rows(f) : f[r] = g[r]

\* c goes on with the same statement.
SameStatement(c) ==
  /\ sess[c].pc # "idle"
  /\ sess'[c].stmt = sess[c].stmt /\ sess'[c].op = sess[c].op
  /\ sess'[c].upsert = sess[c].upsert /\ sess'[c].q = sess[c].q

Begins(c) ==
  /\ Others(c) /\ table' = table /\ since' = since /\ number' = number + 1
  /\ sess'[c].stmt = number + 1 /\ Rows(sess'[c].docs) = {} /\ sess'[c].res = {}
  /\ sess'[c].upsert => sess'[c].q = AllIds
  /\ Writing(sess'[c]) => sess'[c].op = "insert"

Quiet(c) ==
  /\ Others(c) /\ number' = number /\ Sub(table', table)
  /\ \A d \in Clients : Writing(sess'[d]) => since[d] \subseteq since'[d]
  /\ \/ sess'[c] = Idle
     \/ /\ SameStatement(c)
        /\ Sub(sess'[c].docs, sess[c].docs) /\ sess'[c].res \subseteq sess[c].res \cup Rows(sess[c].docs)
        /\ Early(sess'[c]) => Early(sess[c])
        /\ Writing(sess'[c]) => Writing(sess[c])
        /\ Fresh(sess'[c]) => Fresh(sess[c])
        /\ Writing(sess'[c]) /\ Rows(sess'[c].docs) = {} => Rows(sess[c].docs) = {}

Reads(c) ==
  /\ Others(c) /\ number' = number /\ table' = table
  /\ \A d \in Clients \ {c} : since'[d] = since[d]
  /\ sess[c].pc = "read" /\ SameStatement(c)
  /\ Sub(sess'[c].docs, table) /\ sess'[c].res \subseteq Rows(table)
  /\ ~Early(sess'[c])
  /\ Writing(sess'[c]) /\ Rows(sess'[c].docs) = {} => sess[c].upsert

Inserts(c) ==
  /\ Others(c) /\ number' = number
  /\ Writing(sess[c]) /\ Rows(sess[c].docs) = {}
  /\ Rows(table') = Rows(table) \cup {This(c)}
  /\ table'[This(c)].id = This(c) /\ table'[This(c)].val = {This(c)}
  /\ \A r \in Rows(table) \ {This(c)} : table'[r] = table[r]
  /\ \A d \in Clients \ {c} : Writing(sess[d]) => since'[d] = since[d] \cup {This(c)}
  /\ \/ sess'[c] = Idle
     \/ /\ SameStatement(c) /\ sess'[c].pc = "next"
        /\ sess'[c].docs = sess[c].docs /\ sess'[c].res = sess[c].res

Rewrites(c, r) ==
  /\ Others(c) /\ number' = number
  /\ Writing(sess[c]) /\ r \in Rows(sess[c].docs)
  /\ Rows(table') = Rows(table)
  /\ r \in Rows(table) =>
       /\ table'[r].id = r
       /\ table'[r].val = IF sess[c].replace THEN {This(c)} ELSE sess[c].docs[r].val \cup {This(c)}
  /\ \A x \in Rows(table) \ {r} : table'[x] = table[x]
  /\ since'[c] = since[c]
  /\ \A d \in Clients \ {c} : Writing(sess[d]) =>
       since'[d] = since[d] \cup (IF r \in Rows(table) THEN table'[r].val ELSE {})
  /\ \/ sess'[c] = Idle
     \/ /\ SameStatement(c)
        /\ Rows(sess'[c].docs) = Rows(sess[c].docs) \ {r} /\ Sub(sess'[c].docs, sess[c].docs)
        /\ sess'[c].res = sess[c].res
        /\ ~Fresh(sess'[c])

\* What holds of a session without a command.
LEMMA IdleFacts ==
  /\ Idle.stmt = 0 /\ Idle.pc = "idle" /\ Idle.op = "none" /\ ~Idle.upsert /\ ~Idle.one
  /\ Rows(Idle.docs) = {} /\ Idle.res = {}
  /\ ~Early(Idle) /\ ~Writing(Idle) /\ ~Fresh(Idle)
BY Zenon, IdleType DEF Idle, Started, Early, Writing, Fresh

\* A new statement has a new number.
LEMMA BeginsTraces ==
  ASSUME TypeOK, Shape, Traces, NEW c \in Clients, Begins(c)
  PROVE  Traces'
<1> USE DocumentsAssumption
<1>t. number \in Nat /\ number + 1 \notin Ids \cup 1..number
  BY DEF TypeOK
<1>1. NamedById'
  BY Zenon DEF Begins, Others, Traces, NamedById
<1>2. Begun'
  <2>1. \A d \in Clients : sess[d].stmt \in Nat /\ sess[d].stmt <= number
    BY DEF TypeOK, Session, Traces, Begun
  <2>2. \A d \in Clients : sess'[d].stmt <= number'
    BY <2>1, <1>t DEF Begins, Others
  <2>3. \A d, e \in Clients : d # e /\ sess'[d].pc # "idle" => sess'[d].stmt # sess'[e].stmt
    BY <2>1, <1>t DEF Begins, Others, Traces, Begun
  <2>4. 1..number \subseteq 1..number'
    BY <1>t DEF Begins
  <2>5. \A r \in Rows(table') : r \in Ids \cup 1..number' /\ table'[r].val \subseteq 1..number'
    BY Zenon, <2>4 DEF Begins, Traces, Begun
  <2>6. \A d \in Clients : sess'[d].res \subseteq Ids \cup 1..number'
    BY Zenon, <2>4 DEF Begins, Others, Traces, Begun
  <2>7. \A d \in Clients : \A r \in Rows(sess'[d].docs) :
          r \in Ids \cup 1..number' /\ sess'[d].docs[r].val \subseteq 1..number'
    BY Zenon, <2>4 DEF Begins, Others, Traces, Begun
  <2> QED
    BY Zenon, <2>2, <2>3, <2>5, <2>6, <2>7 DEF Begun
<1>3. Inserting'
  BY Zenon DEF Begins, Others, Traces, Inserting
<1>4. NotInserted'
  BY <1>t DEF Begins, Others, Traces, Begun, NotInserted, This
<1>5. NotBegun'
  BY <1>t DEF Begins, Others, Traces, Begun, NotBegun, This
<1>6. NotWritten'
  BY Zenon DEF Begins, Others, Traces, NotWritten, This
<1>7. Covered'
  BY Zenon DEF Begins, Others, Traces, Covered
<1> QED
  BY Zenon, <1>1, <1>2, <1>3, <1>4, <1>5, <1>6, <1>7 DEF Traces

\* Steps that neither read nor write keep the traces, ...
LEMMA QuietTraces ==
  ASSUME TypeOK, Shape, Traces, NEW c \in Clients, Quiet(c)
  PROVE  Traces'
<1>i. /\ Idle.stmt = 0 /\ Idle.pc = "idle" /\ ~Idle.upsert /\ Rows(Idle.docs) = {} /\ Idle.res = {}
      /\ ~Early(Idle) /\ ~Writing(Idle) /\ ~Fresh(Idle)
  BY Zenon, IdleFacts
<1>n. number \in Nat /\ \A d \in Clients : sess[d].stmt \in Nat /\ (sess[d].pc # "idle" => sess[d].stmt > 0)
  BY DocumentsAssumption DEF TypeOK, Session, Shape, ShapeOf
<1>o. \A d \in Clients \ {c} : sess'[d] = sess[d]
  BY Zenon DEF Quiet, Others
<1>d. \A d \in Clients : Sub(sess'[d].docs, sess[d].docs)
  BY Zenon, <1>i, <1>o DEF Quiet, Sub
<1>r. \A d \in Clients : sess'[d].res \subseteq sess[d].res \cup Rows(sess[d].docs)
  BY Zenon, <1>i, <1>o DEF Quiet
<1>s. \A d \in Clients :
        /\ sess'[d].pc # "idle" => sess[d].pc # "idle" /\ sess'[d].stmt = sess[d].stmt
        /\ Early(sess'[d]) => Early(sess[d])
        /\ Writing(sess'[d]) => Writing(sess[d])
        /\ Fresh(sess'[d]) => Fresh(sess[d])
  BY Zenon, <1>i, <1>o DEF Quiet, SameStatement
<1>p. \A d \in Clients : Early(sess'[d]) \/ Writing(sess'[d]) \/ Fresh(sess'[d]) => sess'[d].stmt = sess[d].stmt
  BY Zenon, <1>s DEF Early, Writing, Fresh
<1>m. number' = number /\ Sub(table', table)
  BY Zenon DEF Quiet
<1>1. NamedById'
  BY Zenon, <1>d, <1>m DEF Sub, Traces, NamedById
<1>2. Begun'
  <2>1. \A d \in Clients : sess'[d].stmt <= number'
    BY <1>n, <1>i, <1>o, <1>m DEF Quiet, SameStatement, Traces, Begun
  <2>2. \A d, e \in Clients : d # e /\ sess'[d].pc # "idle" => sess'[d].stmt # sess'[e].stmt
    BY <1>n, <1>i, <1>o DEF Quiet, SameStatement, Traces, Begun
  <2>3. \A r \in Rows(table') : r \in Ids \cup 1..number' /\ table'[r].val \subseteq 1..number'
    BY Zenon, <1>m DEF Sub, Traces, Begun
  <2>4. \A d \in Clients : sess'[d].res \subseteq Ids \cup 1..number'
    BY Zenon, <1>m, <1>r DEF Traces, Begun
  <2>5. \A d \in Clients : \A r \in Rows(sess'[d].docs) :
          r \in Ids \cup 1..number' /\ sess'[d].docs[r].val \subseteq 1..number'
    BY Zenon, <1>m, <1>d DEF Sub, Traces, Begun
  <2> QED
    BY Zenon, <2>1, <2>2, <2>3, <2>4, <2>5 DEF Begun
<1>3. Inserting'
  BY Zenon, <1>i, <1>o DEF Quiet, SameStatement, Traces, Inserting
<1>4. NotInserted'
  BY <1>d, <1>r, <1>s, <1>p, <1>m DEF Sub, Traces, NotInserted, This
<1>5. NotBegun'
  BY Zenon, <1>d, <1>s, <1>p, <1>m DEF Sub, Traces, NotBegun, This
<1>6. NotWritten'
  BY Zenon, <1>d, <1>s, <1>p, <1>m DEF Sub, Traces, NotWritten, This
<1>7. Covered'
  BY Zenon, <1>d, <1>s, <1>m DEF Quiet, Sub, Traces, Covered
<1> QED
  BY Zenon, <1>1, <1>2, <1>3, <1>4, <1>5, <1>6, <1>7 DEF Traces

\* ... and so do steps that read.
LEMMA ReadsTraces ==
  ASSUME TypeOK, Shape, Traces, NEW c \in Clients, Reads(c)
  PROVE  Traces'
<1>o. \A d \in Clients \ {c} : sess'[d] = sess[d]
  BY Zenon DEF Reads, Others
<1>m. number' = number /\ table' = table /\ Sub(sess'[c].docs, table) /\ sess'[c].res \subseteq Rows(table)
  BY Zenon DEF Reads
<1>s. /\ sess[c].pc # "idle" /\ sess'[c].stmt = sess[c].stmt
      /\ Early(sess[c]) /\ Fresh(sess[c]) /\ ~Early(sess'[c])
  BY Zenon DEF Reads, SameStatement, Early, Fresh
<1>1. NamedById'
  BY <1>o, <1>m DEF Sub, Traces, NamedById
<1>2. Begun'
  <2>1. \A d \in Clients : sess'[d].stmt <= number'
    BY Zenon, <1>o, <1>m, <1>s DEF Traces, Begun
  <2>2. \A d, e \in Clients : d # e /\ sess'[d].pc # "idle" => sess'[d].stmt # sess'[e].stmt
    BY <1>o, <1>s DEF Traces, Begun
  <2>3. \A r \in Rows(table') : r \in Ids \cup 1..number' /\ table'[r].val \subseteq 1..number'
    BY Zenon, <1>m DEF Traces, Begun
  <2>4. \A d \in Clients : sess'[d].res \subseteq Ids \cup 1..number'
    BY Zenon, <1>o, <1>m DEF Traces, Begun
  <2>5. \A d \in Clients : \A r \in Rows(sess'[d].docs) :
          r \in Ids \cup 1..number' /\ sess'[d].docs[r].val \subseteq 1..number'
    BY Zenon, <1>o, <1>m DEF Sub, Traces, Begun
  <2> QED
    BY Zenon, <2>1, <2>2, <2>3, <2>4, <2>5 DEF Begun
<1>3. Inserting'
  BY Zenon, <1>o DEF Reads, SameStatement, Traces, Inserting
<1>4. NotInserted'
  BY Zenon, <1>o, <1>m, <1>s DEF Sub, Traces, NotInserted, This
<1>5. NotBegun'
  BY <1>o, <1>m, <1>s DEF Sub, Traces, NotBegun, This
<1>6. NotWritten'
  <2>1. ASSUME NEW d \in Clients \ {c}, Writing(sess'[d]), NEW r \in Rows(sess'[d].docs)
        PROVE  /\ r \in Rows(table') => This(d)' \notin table'[r].val
               /\ \A e \in Clients : r \in Rows(sess'[e].docs) => This(d)' \notin sess'[e].docs[r].val
    BY Zenon, <2>1, <1>o, <1>m DEF Sub, Traces, NotWritten, This
  <2>2. ASSUME NEW r \in Rows(sess'[c].docs)
        PROVE  /\ r \in Rows(table') => This(c)' \notin table'[r].val
               /\ \A e \in Clients : r \in Rows(sess'[e].docs) => This(c)' \notin sess'[e].docs[r].val
    BY Zenon, <2>2, <1>o, <1>m, <1>s DEF Sub, Traces, NotBegun, This
  <2> QED
    BY Zenon, <2>1, <2>2 DEF NotWritten
<1>7. Covered'
  BY Zenon, <1>o, <1>m DEF Reads, Sub, Traces, Covered
<1> QED
  BY Zenon, <1>1, <1>2, <1>3, <1>4, <1>5, <1>6, <1>7 DEF Traces

\* The name of the new row is in nothing that others read.
LEMMA InsertsTraces ==
  ASSUME TypeOK, Shape, Traces, NEW c \in Clients, Inserts(c)
  PROVE  Traces'
<1>i. /\ Idle.stmt = 0 /\ Idle.pc = "idle" /\ ~Idle.upsert /\ Rows(Idle.docs) = {} /\ Idle.res = {}
      /\ ~Early(Idle) /\ ~Writing(Idle) /\ ~Fresh(Idle)
  BY Zenon, IdleFacts
<1>n. number \in Nat /\ \A d \in Clients : sess[d].stmt \in Nat /\ (sess[d].pc # "idle" => sess[d].stmt > 0)
  BY DocumentsAssumption DEF TypeOK, Session, Shape, ShapeOf
<1>o. \A d \in Clients \ {c} : sess'[d] = sess[d]
  BY Zenon DEF Inserts, Others
<1>s. /\ sess[c].pc # "idle" /\ Fresh(sess[c])
      /\ ~Early(sess'[c]) /\ ~Writing(sess'[c]) /\ ~Fresh(sess'[c])
      /\ Rows(sess'[c].docs) = {} /\ sess'[c].res \subseteq sess[c].res
  BY Zenon, <1>i DEF Inserts, Early, Writing, Fresh
<1>m. /\ number' = number /\ Rows(table') = Rows(table) \cup {This(c)}
      /\ table'[This(c)].id = This(c) /\ table'[This(c)].val = {This(c)}
      /\ \A r \in Rows(table) \ {This(c)} : table'[r] = table[r]
  BY Zenon DEF Inserts
<1>f. /\ This(c) \in 1..number
      /\ \A d \in Clients \ {c} : sess'[d].stmt # This(c) /\ This(c) \notin Rows(sess[d].docs) /\ This(c) \notin sess[d].res
  BY <1>n, <1>o, <1>s DEF Traces, Begun, NotInserted, This
<1>1. NamedById'
  BY Zenon, <1>o, <1>m, <1>s DEF Traces, NamedById
<1>2. Begun'
  <2>1. \A d \in Clients : sess'[d].stmt <= number'
    BY <1>n, <1>i, <1>o, <1>m DEF Inserts, SameStatement, Traces, Begun
  <2>2. \A d, e \in Clients : d # e /\ sess'[d].pc # "idle" => sess'[d].stmt # sess'[e].stmt
    BY <1>n, <1>i, <1>o DEF Inserts, SameStatement, Traces, Begun
  <2>3. \A r \in Rows(table') : r \in Ids \cup 1..number' /\ table'[r].val \subseteq 1..number'
    BY Zenon, <1>m, <1>f DEF Traces, Begun
  <2>4. \A d \in Clients : sess'[d].res \subseteq Ids \cup 1..number'
    BY Zenon, <1>m, <1>o, <1>s DEF Traces, Begun
  <2>5. \A d \in Clients : \A r \in Rows(sess'[d].docs) :
          r \in Ids \cup 1..number' /\ sess'[d].docs[r].val \subseteq 1..number'
    BY ZenonT(60), <1>m, <1>o, <1>s DEF Traces, Begun
  <2> QED
    BY Zenon, <2>1, <2>2, <2>3, <2>4, <2>5 DEF Begun
<1>3. Inserting'
  BY <1>i, <1>o, <1>s DEF Inserts, SameStatement, Traces, Inserting
<1>4. NotInserted'
  BY Zenon, <1>o, <1>m, <1>s, <1>f DEF Traces, NotInserted, This
<1>5. NotBegun'
  BY <1>o, <1>m, <1>s, <1>f DEF Traces, NotBegun, This
<1>6. NotWritten'
  BY <1>o, <1>m, <1>s, <1>f DEF Traces, NotWritten, This
<1>7. Covered'
  BY <1>o, <1>m, <1>s, <1>f DEF Inserts, Traces, Covered
<1> QED
  BY Zenon, <1>1, <1>2, <1>3, <1>4, <1>5, <1>6, <1>7 DEF Traces

\* What is written back reaches since of all who read the row.
LEMMA RewritesTraces ==
  ASSUME TypeOK, Shape, Traces, NEW c \in Clients, NEW r, Rewrites(c, r)
  PROVE  Traces'
<1>i. /\ Idle.stmt = 0 /\ Idle.pc = "idle" /\ ~Idle.upsert /\ Rows(Idle.docs) = {} /\ Idle.res = {}
      /\ ~Early(Idle) /\ ~Writing(Idle) /\ ~Fresh(Idle)
  BY Zenon, IdleFacts
<1>n. number \in Nat /\ \A d \in Clients : sess[d].stmt \in Nat /\ (sess[d].pc # "idle" => sess[d].stmt > 0)
  BY DocumentsAssumption DEF TypeOK, Session, Shape, ShapeOf
<1>o. \A d \in Clients \ {c} : sess'[d] = sess[d]
  BY Zenon DEF Rewrites, Others
<1>m. /\ number' = number /\ Rows(table') = Rows(table)
      /\ r \in Rows(table) => table'[r].id = r /\ table'[r].val \subseteq sess[c].docs[r].val \cup {This(c)}
      /\ \A x \in Rows(table) \ {r} : table'[x] = table[x]
  BY Zenon DEF Rewrites
<1>c. Writing(sess[c]) /\ r \in Rows(sess[c].docs) /\ sess[c].pc # "idle"
  BY Zenon DEF Rewrites, Writing
<1>s. /\ ~Fresh(sess'[c]) /\ ~Early(sess'[c]) /\ Sub(sess'[c].docs, sess[c].docs) /\ r \notin Rows(sess'[c].docs)
      /\ sess'[c].res \subseteq sess[c].res
      /\ Writing(sess'[c]) => sess'[c].stmt = sess[c].stmt
  BY Zenon, <1>i DEF Rewrites, SameStatement, Sub, Fresh
<1>f. /\ This(c) \in 1..number
      /\ \A d \in Clients \ {c} : sess'[d].stmt # This(c)
  BY <1>n, <1>o, <1>c DEF Traces, Begun, This
<1>1. NamedById'
  BY <1>o, <1>m, <1>s DEF Sub, Traces, NamedById
<1>2. Begun'
  <2>1. \A d \in Clients : sess'[d].stmt <= number'
    BY <1>n, <1>i, <1>o, <1>m DEF Rewrites, SameStatement, Traces, Begun
  <2>2. \A d, e \in Clients : d # e /\ sess'[d].pc # "idle" => sess'[d].stmt # sess'[e].stmt
    BY <1>n, <1>i, <1>o DEF Rewrites, SameStatement, Traces, Begun
  <2>3. \A x \in Rows(table') : x \in Ids \cup 1..number' /\ table'[x].val \subseteq 1..number'
    BY <1>m, <1>f, <1>c DEF Traces, Begun
  <2>4. \A d \in Clients : sess'[d].res \subseteq Ids \cup 1..number'
    BY Zenon, <1>m, <1>o, <1>s DEF Traces, Begun
  <2>5. \A d \in Clients : \A x \in Rows(sess'[d].docs) :
          x \in Ids \cup 1..number' /\ sess'[d].docs[x].val \subseteq 1..number'
    BY ZenonT(60), <1>m, <1>o, <1>s DEF Sub, Traces, Begun
  <2> QED
    BY ZenonT(60), <2>1, <2>2, <2>3, <2>4, <2>5 DEF Begun
<1>3. Inserting'
  BY ZenonT(60), <1>i, <1>o DEF Rewrites, SameStatement, Traces, Inserting, Fresh
<1>4. NotInserted'
  BY Zenon, <1>o, <1>m, <1>s DEF Sub, Traces, NotInserted, This
<1>5. NotBegun'
  BY <1>o, <1>m, <1>c, <1>s, <1>f DEF Sub, Traces, NotBegun, This
<1>6. NotWritten'
  <2>1. ASSUME NEW d \in Clients \ {c}, Writing(sess'[d]), NEW x \in Rows(sess'[d].docs)
        PROVE  /\ x \in Rows(table') => This(d)' \notin table'[x].val
               /\ \A e \in Clients : x \in Rows(sess'[e].docs) => This(d)' \notin sess'[e].docs[x].val
    BY <2>1, <1>o, <1>m, <1>c, <1>s, <1>f DEF Sub, Traces, NotWritten, This
  <2>2. ASSUME Writing(sess'[c]), NEW x \in Rows(sess'[c].docs)
        PROVE  /\ x \in Rows(table') => This(c)' \notin table'[x].val
               /\ \A e \in Clients : x \in Rows(sess'[e].docs) => This(c)' \notin sess'[e].docs[x].val
    BY ZenonT(60), <2>2, <1>o, <1>m, <1>c, <1>s DEF Sub, Traces, NotWritten, This
  <2> QED
    BY Zenon, <2>1, <2>2 DEF NotWritten
<1>7. Covered'
  <2>1. ASSUME NEW d \in Clients \ {c}, Writing(sess'[d]), NEW x \in Rows(sess'[d].docs) \cap Rows(table')
        PROVE  table'[x].val \subseteq sess'[d].docs[x].val \cup since'[d]
    <3>1. sess'[d] = sess[d] /\ since'[d] = since[d] \cup (IF r \in Rows(table) THEN table'[r].val ELSE {})
      BY ZenonT(60), <2>1, <1>o DEF Rewrites
    <3>2. table[x].val \subseteq sess[d].docs[x].val \cup since[d]
      BY Zenon, <2>1, <1>o, <1>m DEF Traces, Covered
    <3>3. CASE x = r
      BY Zenon, <3>1, <3>3, <2>1, <1>m
    <3>4. CASE x # r
      BY Zenon, <3>1, <3>2, <3>4, <2>1, <1>m
    <3> QED
      BY ZenonT(60), <3>3, <3>4
  <2>2. ASSUME Writing(sess'[c]), NEW x \in Rows(sess'[c].docs) \cap Rows(table')
        PROVE  table'[x].val \subseteq sess'[c].docs[x].val \cup since'[c]
    <3>1. x \in Rows(sess[c].docs) /\ sess'[c].docs[x] = sess[c].docs[x] /\ x # r /\ since'[c] = since[c]
      BY ZenonT(60), <2>2, <1>s DEF Sub, Rewrites
    <3>2. table[x].val \subseteq sess[c].docs[x].val \cup since[c]
      BY Zenon, <2>2, <3>1, <1>m, <1>c DEF Traces, Covered
    <3> QED
      BY ZenonT(60), <3>1, <3>2, <2>2, <1>m
  <2> QED
    BY Zenon, <2>1, <2>2 DEF Covered
<1> QED
  BY ZenonT(60), <1>1, <1>2, <1>3, <1>4, <1>5, <1>6, <1>7 DEF Traces

\* A step that leaves the table and the histories alone.
LEMMA QuietGoes ==
  ASSUME TypeOK, NEW c \in Clients, NEW pc, UNCHANGED <<table, number, since>>, sess[c].pc # "idle", Goes(c, pc),
         pc \in {"begin", "read"} => Early(sess[c]),
         pc \in {"writeBegin", "write"} => Writing(sess[c])
  PROVE  Quiet(c)
BY Zenon DEF Quiet, Goes, Becomes, SameStatement, Sub, Early, Writing, Fresh

\* The end of a command neither reads nor writes.
LEMMA QuietIdle ==
  ASSUME TypeOK, NEW c \in Clients, UNCHANGED <<table, number, since>>, Others(c), sess'[c] = Idle
  PROVE  Quiet(c)
BY ZenonT(60) DEF Quiet, Sub

\* Deleting: the table shrinks.
LEMMA QuietDelete ==
  ASSUME TypeOK, Shape, NEW c \in Clients, DeleteByID(c)
  PROVE  Quiet(c)
<1>1. \/ Others(c) /\ sess'[c] = Idle
      \/ /\ Others(c) /\ sess'[c].docs = sess[c].docs /\ sess'[c].res = sess[c].res
         /\ sess'[c].pc \in {"batch", "next"}
         /\ sess'[c].stmt = sess[c].stmt /\ sess'[c].op = sess[c].op
         /\ sess'[c].upsert = sess[c].upsert /\ sess'[c].q = sess[c].q
  BY ZenonT(60), DeleteByIDEffect DEF Becomes
<1>2. Others(c) /\ ~Writing(sess'[c]) /\ sess[c].pc # "idle"
  BY Zenon, <1>1, IdleFacts DEF Writing, DeleteByID
<1>3. Sub(table', table) /\ number' = number
  <2>1. table' = Without(table, RowsOf(sess[c].res)) /\ number' = number
    BY Zenon DEF DeleteByID
  <2> QED
    BY <2>1, WithoutType DEF Sub, TypeOK
<1>4. \A d \in Clients : Writing(sess'[d]) => since[d] \subseteq since'[d]
  <2>1. Wrote(c, {})
    BY Zenon DEF DeleteByID
  <2> QED
    BY Zenon, <2>1, <1>2 DEF Wrote, Others, Writing
<1>5. \/ sess'[c] = Idle
      \/ /\ SameStatement(c)
         /\ Sub(sess'[c].docs, sess[c].docs) /\ sess'[c].res \subseteq sess[c].res
         /\ ~Early(sess'[c]) /\ ~Writing(sess'[c]) /\ ~Fresh(sess'[c])
  BY ZenonT(60), <1>1, <1>2 DEF SameStatement, Sub, Early, Writing, Fresh
<1> QED
  BY Zenon, <1>2, <1>3, <1>4, <1>5 DEF Quiet

\* What delete receives.
LEMMA QuietBatch ==
  ASSUME TypeOK, Traces, NEW c \in Clients, DeleteBatch(c)
  PROVE  Quiet(c)
<1>1. PICK B \in Batches(Rows(sess[c].docs)) :
        \E res \in Collect(c, {sess[c].docs[r].id : r \in B} \cap sess[c].q) :
          Becomes(c, IF res = {} THEN "batch" ELSE "deleteBegin", Without(sess[c].docs, B), res,
                  sess[c].n, sess[c].modified, sess[c].touched, sess[c].lost)
  BY Zenon, DeleteBatchEffect
<1>2. PICK res \in Collect(c, {sess[c].docs[r].id : r \in B} \cap sess[c].q) :
        Becomes(c, IF res = {} THEN "batch" ELSE "deleteBegin", Without(sess[c].docs, B), res,
                sess[c].n, sess[c].modified, sess[c].touched, sess[c].lost)
  BY ZenonT(60), <1>1
<1>3. B \subseteq Rows(sess[c].docs) /\ {sess[c].docs[r].id : r \in B} \subseteq Rows(sess[c].docs)
  BY DEF Batches, Traces, NamedById
<1>4. res \subseteq sess[c].res \cup Rows(sess[c].docs)
  BY ZenonT(60), <1>3 DEF Collect, Limit
<1>5. Sub(Without(sess[c].docs, B), sess[c].docs)
  BY WithoutType DEF Sub, TypeOK, Session
<1>6. /\ Others(c) /\ sess'[c].res = res /\ Sub(sess'[c].docs, sess[c].docs)
      /\ sess'[c].pc \in {"batch", "deleteBegin"}
      /\ sess'[c].stmt = sess[c].stmt /\ sess'[c].op = sess[c].op
      /\ sess'[c].upsert = sess[c].upsert /\ sess'[c].q = sess[c].q
  BY Zenon, <1>2, <1>5 DEF Becomes
<1>7. UNCHANGED <<table, number, since>> /\ sess[c].pc # "idle"
  BY Zenon DEF DeleteBatch
<1>8. ~Early(sess'[c]) /\ ~Writing(sess'[c]) /\ ~Fresh(sess'[c])
  BY ZenonT(60), <1>6 DEF Early, Writing, Fresh
<1>9. SameStatement(c) /\ sess'[c].res \subseteq sess[c].res \cup Rows(sess[c].docs) /\ Sub(table', table)
  BY ZenonT(60), <1>4, <1>6, <1>7 DEF SameStatement, Sub
<1> QED
  BY ZenonT(60), <1>6, <1>7, <1>8, <1>9 DEF Quiet

\* A document that is not written back.
LEMMA QuietUnchanged ==
  ASSUME TypeOK, NEW c \in Clients, Unchanged(c)
  PROVE  Quiet(c)
<1>1. PICK r \in Rows(sess[c].docs) :
        Becomes(c, AfterWrite(c, r), Without(sess[c].docs, {r}), sess[c].res, sess[c].n,
                sess[c].modified, sess[c].touched, sess[c].lost)
  BY Zenon, UnchangedEffect
<1>2. Rows(Without(sess[c].docs, {r})) = Rows(sess[c].docs) \ {r} /\ Sub(Without(sess[c].docs, {r}), sess[c].docs)
  BY WithoutType DEF Sub, TypeOK, Session
<1>3. UNCHANGED <<table, number, since>> /\ sess[c].pc # "idle" /\ Writing(sess[c])
  BY ZenonT(60) DEF Unchanged, Writing
<1>4. /\ Others(c) /\ sess'[c].res = sess[c].res /\ sess'[c].docs = Without(sess[c].docs, {r})
      /\ sess'[c].pc = AfterWrite(c, r)
      /\ sess'[c].stmt = sess[c].stmt /\ sess'[c].op = sess[c].op
      /\ sess'[c].upsert = sess[c].upsert /\ sess'[c].q = sess[c].q
  BY ZenonT(60), <1>1 DEF Becomes
<1>5. ~Early(sess'[c]) /\ (Writing(sess'[c]) => Rows(sess'[c].docs) # {})
  BY ZenonT(60), <1>2, <1>4 DEF AfterWrite, Early, Writing
<1>6. SameStatement(c) /\ Sub(sess'[c].docs, sess[c].docs) /\ Sub(table', table)
  BY ZenonT(60), <1>2, <1>3, <1>4 DEF SameStatement, Sub
<1> QED
  BY Zenon, <1>3, <1>4, <1>5, <1>6 DEF Quiet, Fresh

\* Read and DeleteQuery are steps that read, ...
LEMMA ReadsRead ==
  ASSUME TypeOK, Traces, NEW c \in Clients, Read(c)
  PROVE  Reads(c)
<1>1. PICK rows \in Limit(RowsOf(sess[c].q), sess[c].one) :
        Becomes(c, AfterRead(c, rows), [r \in rows |-> table[r]],
                IF sess[c].remove THEN {table[r].id : r \in rows} ELSE {},
                IF sess[c].op = "update" THEN Cardinality(rows) ELSE 0,
                sess[c].modified, sess[c].touched, sess[c].lost)
  BY ZenonT(60), ReadEffect
<1>2. rows \subseteq Rows(table)
  BY Zenon DEF Limit, RowsOf
<1>3. Sub([r \in rows |-> table[r]], table) /\ Rows([r \in rows |-> table[r]]) = rows
  BY Zenon, <1>2 DEF Sub, Rows
<1>4. (IF sess[c].remove THEN {table[r].id : r \in rows} ELSE {}) \subseteq Rows(table)
  BY ZenonT(60), <1>2 DEF Traces, NamedById
<1>5. /\ Others(c) /\ sess'[c].docs = [r \in rows |-> table[r]]
      /\ sess'[c].res = IF sess[c].remove THEN {table[r].id : r \in rows} ELSE {}
      /\ sess'[c].pc = AfterRead(c, rows)
      /\ sess'[c].stmt = sess[c].stmt /\ sess'[c].op = sess[c].op
      /\ sess'[c].upsert = sess[c].upsert /\ sess'[c].q = sess[c].q
  BY Zenon, <1>1 DEF Becomes
<1>6. ~Early(sess'[c]) /\ (Writing(sess'[c]) /\ Rows(sess'[c].docs) = {} => sess[c].upsert)
  BY Zenon, <1>3, <1>5 DEF AfterRead, Early, Writing
<1>7. table' = table /\ number' = number /\ since' = [since EXCEPT ![c] = {}] /\ sess[c].pc = "read"
  BY Zenon DEF Read
<1>8. \A d \in Clients \ {c} : since'[d] = since[d]
  BY Zenon, <1>7 DEF TypeOK
<1>9. SameStatement(c) /\ Sub(sess'[c].docs, table) /\ sess'[c].res \subseteq Rows(table)
  BY Zenon, <1>3, <1>4, <1>5, <1>7 DEF SameStatement
<1> QED
  BY Zenon, <1>5, <1>6, <1>7, <1>8, <1>9 DEF Reads

\* ... each of rows that are in the table.
LEMMA ReadsQuery ==
  ASSUME TypeOK, Shape, NEW c \in Clients, DeleteQuery(c)
  PROVE  Reads(c)
<1>1. /\ Others(c) /\ sess'[c].docs = table /\ sess'[c].res = sess[c].res /\ sess'[c].pc = "batch"
      /\ sess'[c].stmt = sess[c].stmt /\ sess'[c].op = sess[c].op
      /\ sess'[c].upsert = sess[c].upsert /\ sess'[c].q = sess[c].q
  BY Zenon, DeleteQueryEffect DEF Becomes
<1>2. UNCHANGED <<table, number, since>> /\ sess[c].pc = "read" /\ sess[c].res = {}
  BY Zenon DEF DeleteQuery, Shape, ShapeOf
<1> QED
  BY Zenon, <1>1, <1>2 DEF Reads, SameStatement, Sub, Early, Writing

\* The new row has the name of the statement: clients do not choose _ids.
LEMMA InsertsInsert ==
  ASSUME ~ChosenIds, TypeOK, Shape, Traces, NEW c \in Clients, Insert(c)
  PROVE  Inserts(c)
<1>1. Writing(sess[c]) /\ Rows(sess[c].docs) = {} /\ sess[c].pc # "idle" /\ number' = number
  BY Zenon DEF Insert, Writing
<1>2. NewIds(c) = {This(c)}
  BY Zenon, <1>1 DEF NewIds, Traces, Inserting
<1>3. table' = [r \in Rows(table) \cup {This(c)} |->
                  IF r = This(c) THEN [id |-> This(c), val |-> {This(c)}] ELSE table[r]]
  BY Zenon, <1>2 DEF Insert
<1>4. /\ Rows(table') = Rows(table) \cup {This(c)}
      /\ table'[This(c)].id = This(c) /\ table'[This(c)].val = {This(c)}
      /\ \A r \in Rows(table) \ {This(c)} : table'[r] = table[r]
  BY Zenon, <1>3 DEF Rows
<1>5. \/ Others(c) /\ sess'[c] = Idle
      \/ /\ Others(c) /\ SameStatement(c) /\ sess'[c].pc = "next"
         /\ sess'[c].docs = sess[c].docs /\ sess'[c].res = sess[c].res
  <2>1. CASE AfterError(c, sess[c])
    <3>1. sess[c].op # "delete"
      BY ZenonT(60), <1>1 DEF Writing, Shape, ShapeOf
    <3> QED
      BY Zenon, <3>1, <2>1, FailedEffect
  <2>2. CASE Becomes(c, "next", sess[c].docs, sess[c].res, sess[c].n + 1, sess[c].modified, sess[c].touched, sess[c].lost)
    BY Zenon, <2>2, <1>1 DEF Becomes, SameStatement
  <2> QED
    BY Zenon, <2>1, <2>2, InsertEffect
<1>6. \A d \in Clients \ {c} : Writing(sess[d]) => since'[d] = since[d] \cup {This(c)}
  <2>1. Wrote(c, {This(c)})
    BY Zenon DEF Insert
  <2> QED
    BY Zenon, <2>1 DEF Wrote, Writing
<1> QED
  BY Zenon, <1>1, <1>4, <1>5, <1>6 DEF Inserts

\* SetDocument rewrites the row that the session has read, if it is still there.
LEMMA RewritesSet ==
  ASSUME TypeOK, Shape, Traces, NEW c \in Clients, NEW r \in Rows(sess[c].docs), sess[c].pc = "write",
         number' = number, WritesBack(c, r)
  PROVE  /\ Rewrites(c, r)
         /\ RowsOf({Updated(c, sess[c].docs[r]).id}) = {r} \cap Rows(table)
<1> DEFINE doc == Updated(c, sess[c].docs[r])
           hit == RowsOf({doc.id})
<1>1. /\ table' = [x \in Rows(table) |-> IF x \in hit THEN doc ELSE table[x]]
      /\ Wrote(c, IF hit = {} THEN {} ELSE doc.val)
      /\ \/ \E k : Becomes(c, AfterWrite(c, r), Without(sess[c].docs, {r}), sess[c].res, sess[c].n,
                           sess[c].modified + k, sess[c].touched + k, sess[c].lost)
         \/ AfterError(c, sess[c])
  BY ZenonT(60) DEF WritesBack
<1>2. sess[c].docs[r] \in Document /\ sess[c].docs[r].id = r
  BY Zenon, DocsType DEF TypeOK, Session, Traces, NamedById
<1>3. doc.id = r /\ doc.val = IF sess[c].replace THEN {This(c)} ELSE sess[c].docs[r].val \cup {This(c)}
  BY ZenonT(60), <1>2 DEF Updated, Document
<1>4. hit = {r} \cap Rows(table)
  BY Zenon, <1>3 DEF RowsOf, Traces, NamedById
<1>5. /\ Rows(table') = Rows(table)
      /\ r \in Rows(table) => table'[r] = doc
      /\ \A x \in Rows(table) \ {r} : table'[x] = table[x]
  <2>1. /\ Rows(table') = Rows(table)
        /\ \A x \in Rows(table) : table'[x] = IF x \in hit THEN doc ELSE table[x]
    BY Zenon, <1>1 DEF Rows
  <2> HIDE DEF doc, hit
  <2>2. \A x \in Rows(table) : x \in hit <=> x = r
    BY Zenon, <1>4
  <2> QED
    BY ZenonT(60), <2>1, <2>2
<1>6. /\ since'[c] = since[c]
      /\ \A d \in Clients \ {c} : Writing(sess[d]) =>
           since'[d] = since[d] \cup (IF r \in Rows(table) THEN table'[r].val ELSE {})
  <2>1. (IF hit = {} THEN {} ELSE doc.val) = IF r \in Rows(table) THEN table'[r].val ELSE {}
    BY ZenonT(60), <1>4, <1>5
  <2>2. Wrote(c, IF r \in Rows(table) THEN table'[r].val ELSE {})
    BY ZenonT(60), <2>1, <1>1
  <2> QED
    BY Zenon, <2>2 DEF Wrote, Writing
<1>7. \/ Others(c) /\ sess'[c] = Idle
      \/ /\ Others(c) /\ SameStatement(c)
         /\ Rows(sess'[c].docs) = Rows(sess[c].docs) \ {r} /\ Sub(sess'[c].docs, sess[c].docs)
         /\ sess'[c].res = sess[c].res
         /\ ~Fresh(sess'[c])
  <2>1. CASE AfterError(c, sess[c])
    <3>1. sess[c].op # "delete"
      BY Zenon DEF Shape, ShapeOf
    <3> QED
      BY Zenon, <3>1, <2>1, FailedEffect
  <2>2. ASSUME NEW k, Becomes(c, AfterWrite(c, r), Without(sess[c].docs, {r}), sess[c].res, sess[c].n,
                              sess[c].modified + k, sess[c].touched + k, sess[c].lost)
        PROVE  /\ Others(c) /\ SameStatement(c)
               /\ Rows(sess'[c].docs) = Rows(sess[c].docs) \ {r} /\ Sub(sess'[c].docs, sess[c].docs)
               /\ sess'[c].res = sess[c].res
               /\ ~Fresh(sess'[c])
    <3>1. /\ Rows(Without(sess[c].docs, {r})) = Rows(sess[c].docs) \ {r}
          /\ Sub(Without(sess[c].docs, {r}), sess[c].docs)
      BY WithoutType DEF Sub, TypeOK, Session
    <3>2. /\ Others(c) /\ SameStatement(c) /\ sess'[c].res = sess[c].res
          /\ sess'[c].docs = Without(sess[c].docs, {r}) /\ sess'[c].pc = AfterWrite(c, r)
      BY ZenonT(60), <2>2 DEF Becomes, SameStatement
    <3>3. ~Fresh(sess'[c])
      BY Zenon, <3>1, <3>2 DEF AfterWrite, Fresh, Early, Writing
    <3> QED
      BY Zenon, <3>1, <3>2, <3>3
  <2> QED
    BY ZenonT(60), <2>1, <2>2, <1>1
<1>8. Writing(sess[c])
  BY Zenon DEF Writing
<1> QED
  BY Zenon, <1>3, <1>4, <1>5, <1>6, <1>7, <1>8 DEF Rewrites

\* Every step is of one of the kinds.
LEMMA TracesStep ==
  ASSUME ~ChosenIds, TypeOK, Shape, Traces, NEW c \in Clients,
         (\E o \in Ops : Request(c, o)) \/ Step(c) \/ Fail(c)
  PROVE  Traces'
<1>1. ASSUME NEW o, NextStatement(c, o), UNCHANGED <<table, since>>
      PROVE  Traces'
  <2>1. /\ Others(c) /\ number' = number + 1 /\ sess'[c].stmt = number + 1
        /\ sess'[c].docs = None /\ sess'[c].res = {} /\ sess'[c].op = o
        /\ sess'[c].pc = IF o = "insert" THEN "writeBegin" ELSE "begin"
        /\ sess'[c].upsert => ChosenIds \/ sess'[c].q = AllIds
    BY Zenon, <1>1, StatementEffect
  <2>2. Begins(c)
    BY Zenon, <2>1, <1>1, IdleType DEF Begins, Writing
  <2> QED
    BY ZenonT(60), <2>2, BeginsTraces
<1>2. CASE \E o \in Ops : Request(c, o)
  BY Zenon, <1>2, <1>1 DEF Request
<1>3. CASE Loop(c)
  BY Zenon, <1>3, <1>1 DEF Loop
<1>4. CASE Reply(c)
  <2>1. Others(c) /\ sess'[c] = Idle /\ UNCHANGED <<table, number, since>>
    BY Zenon, <1>4 DEF Reply, Others, TypeOK
  <2> QED
    BY Zenon, <2>1, QuietIdle, QuietTraces
<1>5. CASE Begin(c) \/ WriteBegin(c) \/ DeleteBegin(c)
  <2>1. ASSUME NEW from, NEW to, Acquire(c, from, to)
        PROVE  Goes(c, to) /\ sess[c].pc = from /\ UNCHANGED <<table, number, since>>
    BY ZenonT(60), <2>1, AcquireEffect DEF Acquire
  <2>2. /\ \/ Goes(c, "read") /\ sess[c].pc = "begin"
           \/ Goes(c, "write") /\ sess[c].pc = "writeBegin"
           \/ Goes(c, "delete") /\ sess[c].pc = "deleteBegin"
        /\ UNCHANGED <<table, number, since>>
    BY Zenon, <2>1, <1>5 DEF Begin, WriteBegin, DeleteBegin
  <2>3. sess[c].pc # "idle" /\ (sess[c].pc = "begin" => Early(sess[c])) /\ (sess[c].pc = "writeBegin" => Writing(sess[c]))
    BY Zenon, <2>2 DEF Early, Writing
  <2>4. Quiet(c)
    BY Zenon, <2>2, <2>3, QuietGoes
  <2> QED
    BY Zenon, <2>4, QuietTraces
<1>6. CASE Fail(c)
  <2>1. IF sess[c].op = "delete" THEN Goes(c, "next") ELSE Others(c) /\ sess'[c] = Idle
    BY Zenon, <1>6, FailedEffect DEF Fail
  <2>2. UNCHANGED <<table, number, since>> /\ sess[c].pc # "idle"
    BY Zenon, <1>6 DEF Fail
  <2>3. Quiet(c)
    BY Zenon, <2>1, <2>2, QuietGoes, QuietIdle
  <2> QED
    BY Zenon, <2>3, QuietTraces
<1>7. CASE Read(c)
  BY Zenon, <1>7, ReadsRead, ReadsTraces
<1>8. CASE Insert(c)
  BY Zenon, <1>8, InsertsInsert, InsertsTraces
<1>9. CASE Unchanged(c)
  BY Zenon, <1>9, QuietUnchanged, QuietTraces
<1>10. CASE SetDocument(c)
  <2>1. PICK r \in Rows(sess[c].docs) : WritesBack(c, r)
    BY ZenonT(60), <1>10, SetDocumentEffect
  <2>2. sess[c].pc = "write" /\ number' = number
    BY Zenon, <1>10 DEF SetDocument
  <2> QED
    BY ZenonT(60), <2>1, <2>2, RewritesSet, RewritesTraces
<1>11. CASE DeleteQuery(c)
  BY Zenon, <1>11, ReadsQuery, ReadsTraces
<1>12. CASE DeleteBatch(c)
  BY Zenon, <1>12, QuietBatch, QuietTraces
<1>13. CASE DeleteEnd(c)
  <2>1. Goes(c, "next") /\ UNCHANGED <<table, number, since>> /\ sess[c].pc # "idle"
    BY Zenon, <1>13, DeleteEndEffect DEF DeleteEnd
  <2> QED
    BY Zenon, <2>1, QuietGoes, QuietTraces
<1>14. CASE DeleteByID(c)
  BY Zenon, <1>14, QuietDelete, QuietTraces
<1> QED
  BY Zenon, <1>2, <1>3, <1>4, <1>5, <1>6, <1>7, <1>8, <1>9, <1>10, <1>11, <1>12, <1>13, <1>14 DEF Step

-----------------------------------------------------------------------------
(* The invariant and the lost updates, for every step.                     *)

\* The traces are right initially, ...
LEMMA TracesInit ==
  ASSUME Init
  PROVE  Traces
<1>1. PICK I \in SUBSET Ids : table = [i \in I |-> [id |-> i, val |-> {}]]
  BY Zenon DEF Init
<1>2. Rows(table) = I /\ \A r \in I : table[r].id = r /\ table[r].val = {}
  BY Zenon, <1>1 DEF Rows
<1>3. number = 0 /\ \A c \in Clients : sess[c] = Idle
  BY Zenon DEF Init
<1>i. /\ Idle.stmt = 0 /\ Idle.pc = "idle" /\ ~Idle.upsert /\ Rows(Idle.docs) = {} /\ Idle.res = {}
      /\ ~Early(Idle) /\ ~Writing(Idle) /\ ~Fresh(Idle)
  BY Zenon, IdleFacts
<1>4. NamedById
  BY Zenon, <1>2, <1>3, <1>i DEF NamedById
<1>5. Begun
  BY <1>2, <1>3, <1>i DEF Begun
<1>6. Inserting /\ NotInserted
  BY Zenon, <1>3, <1>i DEF Inserting, NotInserted
<1>7. NotBegun /\ NotWritten /\ Covered
  BY Zenon, <1>3, <1>i DEF NotBegun, NotWritten, Covered
<1> QED
  BY Zenon, <1>4, <1>5, <1>6, <1>7 DEF Traces

\* ... every step keeps them, if clients do not choose _ids, ...
LEMMA TracesNext ==
  ASSUME ~ChosenIds, TypeOK, Shape, Traces, [Next]_vars
  PROVE  Traces'
<1>1. CASE UNCHANGED vars
  <2>1. table' = table /\ number' = number /\ sess' = sess /\ since' = since
    BY Zenon, <1>1 DEF vars
  <2>2. (NamedById /\ Begun /\ Inserting)'
    BY ZenonT(60), <2>1 DEF Traces, NamedById, Begun, Inserting
  <2>3. (NotInserted /\ NotBegun /\ NotWritten)'
    BY Zenon, <2>1 DEF Traces, NotInserted, NotBegun, NotWritten, This
  <2>4. Covered'
    BY Zenon, <2>1 DEF Traces, Covered, This
  <2> QED
    BY Zenon, <2>2, <2>3, <2>4 DEF Traces
<1>2. CASE Terminated
  BY Zenon, <1>1, <1>2 DEF Terminated
<1>3. ASSUME NEW c \in Clients, (\E o \in Ops : Request(c, o)) \/ Step(c) \/ Fail(c)
      PROVE  Traces'
  BY Zenon, <1>3, TracesStep
<1> QED
  BY Zenon, <1>1, <1>2, <1>3 DEF Next

\* What a step may undo of a row that stays.
LostOnly ==
  \A r \in Rows(table) \cap Rows(table') : \A t \in table[r].val \ table'[r].val :
    \E c \in Clients : /\ This(c) \in table'[r].val \ table[r].val
                       /\ sess[c].replace \/ t \in since[c]

\* ... and a step loses an update only to an overlapping command.
LEMMA LostStep ==
  ASSUME ~ChosenIds, TypeOK, Shape, Traces, [Next]_vars
  PROVE  LostOnly
<1>t. TypeOK /\ Shape /\ Traces
  BY Zenon
<1>1. ASSUME \A r \in Rows(table) \cap Rows(table') : table'[r] = table[r]
      PROVE  LostOnly
  BY Zenon, <1>1 DEF LostOnly
<1>2. CASE table' = table
  BY Zenon, <1>1, <1>2
<1>3. ASSUME NEW c \in Clients, Insert(c)
      PROVE  LostOnly
  <2>1. Inserts(c)
    BY ZenonT(60), <1>3, <1>t, InsertsInsert
  <2>2. This(c) \notin Rows(table)
    BY Zenon, <2>1, <1>t DEF Inserts, Fresh, Traces, NotInserted
  <2> QED
    BY Zenon, <2>1, <2>2, <1>1 DEF Inserts
<1>4. ASSUME NEW c \in Clients, DeleteByID(c)
      PROVE  LostOnly
  <2>1. Sub(table', table)
    BY ZenonT(60), <1>4, <1>t, QuietDelete DEF Quiet
  <2> QED
    BY ZenonT(60), <2>1, <1>1 DEF Sub
<1>5. ASSUME NEW c \in Clients, SetDocument(c)
      PROVE  LostOnly
  <2>1. PICK x \in Rows(sess[c].docs) : WritesBack(c, x)
    BY ZenonT(60), <1>5, <1>t, SetDocumentEffect
  <2>2. sess[c].pc = "write" /\ number' = number
    BY Zenon, <1>5 DEF SetDocument
  <2>3. Rewrites(c, x)
    BY ZenonT(60), <2>1, <2>2, <1>t, RewritesSet
  <2>4. ASSUME NEW r \in Rows(table) \cap Rows(table'), NEW t \in table[r].val \ table'[r].val
        PROVE  This(c) \in table'[r].val \ table[r].val /\ (sess[c].replace \/ t \in since[c])
    <3>1. r = x
      BY ZenonT(60), <2>3, <2>4 DEF Rewrites
    <3>2. /\ Writing(sess[c]) /\ x \in Rows(sess[c].docs)
          /\ table'[x].val = IF sess[c].replace THEN {This(c)} ELSE sess[c].docs[x].val \cup {This(c)}
      BY ZenonT(60), <3>1, <2>3, <2>4 DEF Rewrites
    <3>3. This(c) \notin table[x].val
      BY Zenon, <3>1, <3>2, <2>4, <1>t DEF Traces, NotWritten
    <3>4. table[x].val \subseteq sess[c].docs[x].val \cup since[c]
      BY Zenon, <3>1, <3>2, <2>4, <1>t DEF Traces, Covered
    <3> QED
      BY ZenonT(60), <3>1, <3>2, <3>3, <3>4, <2>4
  <2> QED
    BY Zenon, <2>4 DEF LostOnly
<1>6. \/ table' = table
      \/ \E c \in Clients : Insert(c) \/ DeleteByID(c) \/ SetDocument(c)
  BY ZenonT(60) DEF Next, vars, Terminated, Request, Step, Fail, Loop, Reply, Begin, WriteBegin, DeleteBegin, Acquire,
         Read, Unchanged, DeleteQuery, DeleteBatch, DeleteEnd
<1> QED
  BY Zenon, <1>2, <1>3, <1>4, <1>5, <1>6

=============================================================================
