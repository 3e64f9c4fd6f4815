--------------------------- MODULE DocumentsProofs --------------------------
(***************************************************************************)
(* The theorems about Documents, for any number of clients, documents,     *)
(* statements and connections.  PoolBalanced is inductive together with    *)
(* TypeOK and Shape, and PoolNeverStuck follows from it.  For clients that *)
(* do not choose the _ids of new documents (~ChosenIds), an update is lost *)
(* only to a command that read before it was written (LostOnlyToOverlap),  *)
(* the counts of every reply are true (CountsTrue) and a statement for one *)
(* document changes one row at most (OneDocument): the counters of a       *)
(* statement are tied to the documents that it has still to write, and the *)
(* limit of a delete to the one _id it collected, which is in no row once  *)
(* it was removed.                                                         *)
(***************************************************************************)
EXTENDS DocumentsTraceProofs, FiniteSetTheorems

-----------------------------------------------------------------------------
(* The inductive invariants.                                               *)

\* The types, the shape of the commands, and the connections that are in use.
PInv == TypeOK /\ Shape /\ PoolBalanced

\* The counters of a statement.
CountingOf(s) ==
  /\ Early(s) => s.touched = 0 /\ s.modified = 0
  /\ s.op = "delete" => s.n <= s.touched /\ (~s.lost => s.n = s.touched)
  /\ s.op = "update" => s.modified = s.touched /\ s.touched + Cardinality(Rows(s.docs)) <= s.n

Counting == \A c \in Clients : CountingOf(sess[c])

\* A statement for one document: what a delete is to remove is one _id, which is in no
\* row once it is removed.
SingleOf(s, rows) ==
  /\ s.touched <= 1
  /\ s.op = "delete" =>
       /\ \A x, y \in s.res : x = y
       /\ s.touched = 1 => s.res # {} /\ s.res \cap rows = {}
  /\ s.op # "delete" =>
       /\ Writing(s) => s.touched + Cardinality(Rows(s.docs)) <= 1
       /\ s.pc \in {"deleteBegin", "delete"} => s.touched = 0 /\ \A x, y \in s.res : x = y

Single == \A c \in Clients : sess[c].one => SingleOf(sess[c], Rows(table))

Told == TypeOK /\ Shape /\ Traces /\ Counting /\ Single

-----------------------------------------------------------------------------
(* Cardinalities.                                                          *)

\* The _ids are finitely many.
LEMMA IdsFinite == IsFiniteSet(AllIds)
<1>1. IsFiniteSet(1..MaxStatements)
  BY FS_Interval, DocumentsAssumption
<1> QED
  BY Zenon, <1>1, FS_Union, DocumentsAssumption DEF AllIds, Statement

\* A set of _ids has a cardinality.
LEMMA RowsFinite ==
  ASSUME NEW R \in SUBSET AllIds
  PROVE  IsFiniteSet(R) /\ Cardinality(R) \in Nat
BY Zenon, IdsFinite, FS_Subset, FS_CardinalityType

-----------------------------------------------------------------------------
(* Types.                                                                  *)

\* The steps keep the types, but for inUse, which PoolStep is about.
LEMMA TypeStep ==
  ASSUME TypeOK, Shape, NEW c \in Clients,
         (\E o \in Ops : Request(c, o)) \/ Step(c) \/ Fail(c)
  PROVE  /\ table' \in Docs
         /\ number' \in 0..MaxStatements
         /\ sess' \in [Clients -> Session]
         /\ since' \in [Clients -> SUBSET Statement]
<1> USE DocumentsAssumption
<1>t. sess[c] \in Session /\ table \in Docs /\ sess \in [Clients -> Session]
  BY Zenon DEF TypeOK
<1>1. ASSUME NEW o \in AllOps, NextStatement(c, o)
      PROVE  number' \in 0..MaxStatements /\ sess' \in [Clients -> Session]
  <2>1. number' \in 0..MaxStatements
    BY <1>1 DEF NextStatement, TypeOK
  <2>2. PICK q \in {AllIds} \cup {{i} : i \in Ids}, one, u, r, p \in BOOLEAN :
          /\ o = "insert" => q = AllIds /\ ~one
          /\ o = "findAndModify" => one
          /\ u => o \in {"update", "findAndModify"} /\ ~r /\ (ChosenIds \/ q = AllIds)
          /\ r => o = "findAndModify"
          /\ p => o = "findAndModify" /\ ~u /\ ~r
          /\ sess' = [sess EXCEPT
               ![c] = Started(o, number + 1, IF o = "insert" THEN "writeBegin" ELSE "begin", q, one, u, r, p)]
    BY <1>1, Zenon DEF NextStatement
  <2>3. q \in SUBSET AllIds /\ number + 1 \in 0..MaxStatements
    BY Zenon, <2>1, <2>2, <1>1 DEF AllIds, NextStatement
  <2>4. Started(o, number + 1, IF o = "insert" THEN "writeBegin" ELSE "begin", q, one, u, r, p) \in Session
    BY Zenon, <2>3, IdleType DEF Session, Labels, Started
  <2> QED
    BY Zenon, <2>1, <2>2, <2>4, <1>t
<1>2. CASE \E o \in Ops : Request(c, o)
  BY Zenon, <1>2, <1>1 DEF Request, TypeOK
<1>3. CASE Loop(c)
  <2>1. sess[c].op \in AllOps
    BY Zenon, <1>3, <1>t DEF Loop, NextStatement, Session, Shape, ShapeOf
  <2> QED
    BY Zenon, <2>1, <1>3, <1>1 DEF Loop, TypeOK
<1>4. CASE Reply(c)
  BY Zenon, <1>4, <1>t, IdleType DEF Reply, TypeOK
<1>5. ASSUME NEW from, NEW to \in Labels, Acquire(c, from, to)
      PROVE  sess' \in [Clients -> Session] /\ UNCHANGED <<table, number, since>>
  BY Zenon, <1>5, <1>t DEF Acquire, Session
<1>6. CASE Begin(c) \/ WriteBegin(c) \/ DeleteBegin(c)
  BY Zenon, <1>6, <1>5 DEF Begin, WriteBegin, DeleteBegin, TypeOK, Labels
<1>7. ASSUME NEW s \in Session, AfterError(c, s)
      PROVE  sess' \in [Clients -> Session]
  BY Zenon, <1>7, <1>t, IdleType DEF AfterError, Session, Labels
<1>8. CASE Fail(c)
  BY Zenon, <1>8, <1>7, <1>t DEF Fail, TypeOK
<1>9. ASSUME NEW val \in SUBSET Statement, Wrote(c, val)
      PROVE  since' \in [Clients -> SUBSET Statement]
  BY Zenon, <1>9 DEF Wrote, TypeOK
<1>10. sess[c].pc # "idle" => This(c) \in Statement
  BY <1>t DEF This, Session, Statement, Shape, ShapeOf
<1>11. CASE Read(c)
  <2>1. PICK rows \in Limit(RowsOf(sess[c].q), sess[c].one) :
          sess' = [sess EXCEPT
            ![c].docs = [r \in rows |-> table[r]],
            ![c].res = IF sess[c].remove THEN {table[r].id : r \in rows} ELSE {},
            ![c].n = IF sess[c].op = "update" THEN Cardinality(rows) ELSE 0,
            ![c].pc = AfterRead(c, rows)]
    BY Zenon, <1>11 DEF Read
  <2>2. rows \subseteq Rows(table) /\ rows \in SUBSET AllIds
    BY Zenon, <1>t, DocsType DEF Limit, RowsOf
  <2>3. [r \in rows |-> table[r]] \in Docs
    BY Zenon, <2>2, <1>t, DocsType, DocsMade
  <2>4. (IF sess[c].remove THEN {table[r].id : r \in rows} ELSE {}) \in SUBSET AllIds
    BY Zenon, <2>2, <1>t, DocsType DEF Document
  <2>5. (IF sess[c].op = "update" THEN Cardinality(rows) ELSE 0) \in Nat
    BY Zenon, <2>2, RowsFinite
  <2>6. AfterRead(c, rows) \in Labels
    BY Zenon DEF AfterRead, Labels
  <2>7. sess' \in [Clients -> Session]
    BY Zenon, <2>1, <2>3, <2>4, <2>5, <2>6, <1>t DEF Session
  <2> QED
    BY Zenon, <2>7, <1>11 DEF Read, TypeOK
<1>12. CASE Insert(c)
  <2>1. This(c) \in Statement
    BY Zenon, <1>12, <1>10 DEF Insert
  <2>2. table' \in Docs
    <3>1. NewIds(c) \subseteq AllIds
      BY Zenon, <2>1, <1>t DEF NewIds, AllIds, Session
    <3>2. PICK i \in NewIds(c) :
            table' = [r \in Rows(table) \cup {This(c)} |->
                        IF r = This(c) THEN [id |-> i, val |-> {This(c)}] ELSE table[r]]
      BY Zenon, <1>12 DEF Insert
    <3>3. Rows(table) \cup {This(c)} \in SUBSET AllIds
      BY Zenon, <2>1, <1>t, DocsType DEF AllIds
    <3>4. table' \in [Rows(table) \cup {This(c)} -> Document]
      BY Zenon, <3>1, <3>2, <2>1, <1>t, DocsType DEF Document
    <3> QED
      BY Zenon, <3>3, <3>4, DocsMade
  <2>3. sess' \in [Clients -> Session]
    BY <1>12, <1>7, <1>t DEF Insert, Session, Labels
  <2>4. since' \in [Clients -> SUBSET Statement]
    BY Zenon, <2>1, <1>12, <1>9 DEF Insert
  <2> QED
    BY Zenon, <2>2, <2>3, <2>4, <1>12 DEF Insert, TypeOK
<1>13. ASSUME NEW r
       PROVE  Without(sess[c].docs, {r}) \in Docs /\ AfterWrite(c, r) \in Labels
  BY Zenon, <1>t, WithoutType DEF AfterWrite, Labels, Session
<1>14. CASE Unchanged(c)
  <2>1. PICK r \in Rows(sess[c].docs) :
          sess' = [sess EXCEPT ![c].docs = Without(@, {r}), ![c].pc = AfterWrite(c, r)]
    BY Zenon, <1>14 DEF Unchanged
  <2>2. sess' \in [Clients -> Session]
    BY Zenon, <2>1, <1>13, <1>t DEF Session
  <2> QED
    BY Zenon, <2>2, <1>14 DEF Unchanged, TypeOK
<1>15. CASE SetDocument(c)
  <2>1. PICK r \in Rows(sess[c].docs) :
          LET doc == Updated(c, sess[c].docs[r])
              hit == RowsOf({doc.id})
          IN  /\ table' = [x \in Rows(table) |-> IF x \in hit THEN doc ELSE table[x]]
              /\ \/ sess' = [sess EXCEPT
                      ![c].docs = Without(@, {r}),
                      ![c].modified = @ + Cardinality(hit),
                      ![c].touched = @ + Cardinality(hit),
                      ![c].pc = AfterWrite(c, r)]
                 \/ Faults /\ AfterError(c, sess[c])
              /\ Wrote(c, IF hit = {} THEN {} ELSE doc.val)
    BY Zenon, <1>15 DEF SetDocument
  <2> DEFINE doc == Updated(c, sess[c].docs[r])
             hit == RowsOf({doc.id})
  <2>2. sess[c].docs[r] \in Document
    BY ZenonT(60), <1>t, DocsType DEF Session
  <2>3. doc \in Document
    BY Zenon, <2>2, <1>10, <1>15 DEF Updated, Document, SetDocument
  <2>4. Cardinality(hit) \in Nat
    <3>1. hit \in SUBSET AllIds
      BY Zenon, <1>t, DocsType DEF RowsOf
    <3> QED
      BY Zenon, <3>1, RowsFinite
  <2>5. table' \in Docs
    <3>1. table' \in [Rows(table) -> Document]
      BY Zenon, <2>1, <2>3, <1>t, DocsType
    <3> QED
      BY ZenonT(60), <3>1, <1>t, DocsType, DocsMade
  <2>6. sess' \in [Clients -> Session]
    <3>1. CASE AfterError(c, sess[c])
      BY Zenon, <3>1, <1>7, <1>t
    <3>2. CASE sess' = [sess EXCEPT
                      ![c].docs = Without(@, {r}),
                      ![c].modified = @ + Cardinality(hit),
                      ![c].touched = @ + Cardinality(hit),
                      ![c].pc = AfterWrite(c, r)]
      <4>1. ASSUME NEW k \in Nat, NEW m \in Nat,
                   sess' = [sess EXCEPT
                      ![c].docs = Without(@, {r}),
                      ![c].modified = k,
                      ![c].touched = m,
                      ![c].pc = AfterWrite(c, r)]
            PROVE  sess' \in [Clients -> Session]
        BY ZenonT(60), <4>1, <1>13, <1>t DEF Session
      <4>2. /\ sess[c].modified + Cardinality(hit) \in Nat
            /\ sess[c].touched + Cardinality(hit) \in Nat
        BY <2>4, <1>t DEF Session
      <4> QED
        BY ZenonT(60), <4>1, <4>2, <3>2
    <3> QED
      BY Zenon, <3>1, <3>2, <2>1
  <2>7. since' \in [Clients -> SUBSET Statement]
    <3>1. (IF hit = {} THEN {} ELSE doc.val) \in SUBSET Statement
      BY Zenon, <2>3 DEF Document
    <3> QED
      BY Zenon, <3>1, <2>1, <1>9
  <2> QED
    BY Zenon, <2>5, <2>6, <2>7, <1>15 DEF SetDocument, TypeOK
<1>16. CASE DeleteQuery(c)
  BY Zenon, <1>16, <1>t DEF DeleteQuery, TypeOK, Session, Labels
<1>17. CASE DeleteBatch(c)
  <2>0. PICK B \in Batches(Rows(sess[c].docs)) :
          \E res \in Collect(c, {sess[c].docs[r].id : r \in B} \cap sess[c].q) :
            sess' = [sess EXCEPT
              ![c].res = res,
              ![c].docs = Without(@, B),
              ![c].pc = IF res = {} THEN "batch" ELSE "deleteBegin"]
    BY Zenon, <1>17 DEF DeleteBatch
  <2>1. PICK res \in Collect(c, {sess[c].docs[r].id : r \in B} \cap sess[c].q) :
          sess' = [sess EXCEPT
            ![c].res = res,
            ![c].docs = Without(@, B),
            ![c].pc = IF res = {} THEN "batch" ELSE "deleteBegin"]
    BY ZenonT(60), <2>0
  <2>2. res \in SUBSET AllIds
    BY <1>t DEF Collect, Limit, Session
  <2>3. Without(sess[c].docs, B) \in Docs
    BY Zenon, <1>t, WithoutType DEF Session
  <2>4. sess' \in [Clients -> Session]
    BY Zenon, <2>1, <2>2, <2>3, <1>t DEF Session, Labels
  <2> QED
    BY Zenon, <2>4, <1>17 DEF DeleteBatch, TypeOK
<1>18. CASE DeleteEnd(c)
  BY Zenon, <1>18, <1>t DEF DeleteEnd, TypeOK, Session, Labels
<1>19. CASE DeleteByID(c)
  <2> DEFINE hit == RowsOf(sess[c].res)
  <2>1. Cardinality(hit) \in Nat
    <3>1. hit \in SUBSET AllIds
      BY Zenon, <1>t, DocsType DEF RowsOf
    <3> QED
      BY Zenon, <3>1, RowsFinite
  <2>5. sess[c].n + Cardinality(hit) \in Nat /\ sess[c].touched + Cardinality(hit) \in Nat
    BY <2>1, <1>t DEF Session
  <2>2. table' \in Docs
    BY Zenon, <1>19, <1>t, WithoutType DEF DeleteByID
  <2>3. sess' \in [Clients -> Session]
    <3>1. CASE AfterError(c, [sess[c] EXCEPT !.touched = @ + Cardinality(hit), !.lost = TRUE])
      <4>1. \A k \in Nat : [sess[c] EXCEPT !.touched = k, !.lost = TRUE] \in Session
        BY Zenon, <1>t DEF Session
      <4>2. [sess[c] EXCEPT !.touched = @ + Cardinality(hit), !.lost = TRUE] \in Session
        BY Zenon, <4>1, <2>5
      <4> QED
        BY Zenon, <4>2, <3>1, <1>7
    <3>2. CASE sess' = [sess EXCEPT
                    ![c].n = @ + RowsDeleted(c, hit),
                    ![c].touched = @ + Cardinality(hit),
                    ![c].pc = IF sess[c].op = "delete" THEN "batch" ELSE "next"]
      <4>1. ASSUME NEW k \in Nat, NEW m \in Nat,
                   sess' = [sess EXCEPT
                      ![c].n = k,
                      ![c].touched = m,
                      ![c].pc = IF sess[c].op = "delete" THEN "batch" ELSE "next"]
            PROVE  sess' \in [Clients -> Session]
        BY Zenon, <4>1, <1>t DEF Session, Labels
      <4> QED
        BY ZenonT(60), <4>1, <3>2, <2>5 DEF RowsDeleted
    <3> QED
      BY Zenon, <3>1, <3>2, <1>19 DEF DeleteByID
  <2>4. since' \in [Clients -> SUBSET Statement]
    BY Zenon, <1>19, <1>9 DEF DeleteByID
  <2> QED
    BY Zenon, <2>2, <2>3, <2>4, <1>19 DEF DeleteByID, TypeOK
<1> QED
  BY Zenon, <1>2, <1>3, <1>4, <1>6, <1>8, <1>11, <1>12, <1>14, <1>15, <1>16, <1>17, <1>18, <1>19 DEF Step

-----------------------------------------------------------------------------
(* The pool.                                                               *)

\* The connections that are taken if each client d has h[d] of them.
Taken(h) == {t \in Clients \X {1, 2} : t[2] <= h[t[1]]}

\* One client takes or gives back connections.
LEMMA TakenChange ==
  ASSUME NEW h \in [Clients -> 0..2], NEW g \in [Clients -> 0..2], NEW c \in Clients,
         \A d \in Clients \ {c} : g[d] = h[d]
  PROVE  /\ Cardinality(Taken(h)) \in Nat
         /\ Cardinality(Taken(g)) = Cardinality(Taken(h)) - h[c] + g[c]
<1>1. IsFiniteSet(Clients \X {1, 2})
  <2>1. IsFiniteSet({1}) /\ {1} \cup {2} = {1, 2}
    BY Zenon, FS_Singleton
  <2>2. IsFiniteSet({1} \cup {2})
    BY Zenon, <2>1, FS_AddElement
  <2>4. IsFiniteSet({1, 2})
    BY <2>1, <2>2, Zenon
  <2> QED
    BY Zenon, <2>4, FS_Product, DocumentsAssumption
<1> DEFINE Rest == {t \in Taken(h) : t[1] # c}
           Of(k) == {<<c, i>> : i \in 1..k}
<1>2. IsFiniteSet(Rest) /\ Cardinality(Rest) \in Nat
  BY Zenon, <1>1, FS_Subset, FS_CardinalityType DEF Taken
<1>3. ASSUME NEW k \in 0..2
      PROVE  IsFiniteSet(Of(k)) /\ Cardinality(Of(k)) = k
  <2>1. CASE k = 0
    <3>1. Of(k) = {}
      BY <2>1
    <3> QED
      BY Zenon, <3>1, <2>1, FS_EmptySet
  <2>2. CASE k = 1
    <3>1. Of(k) = {<<c, 1>>}
      BY <2>2
    <3> QED
      BY Zenon, <3>1, <2>2, FS_Singleton
  <2>3. CASE k = 2
    <3>1. Of(k) = {<<c, 1>>} \cup {<<c, 2>>}
      BY <2>3
    <3>2. <<c, 2>> \notin {<<c, 1>>}
      OBVIOUS
    <3>3. IsFiniteSet({<<c, 1>>}) /\ Cardinality({<<c, 1>>}) = 1
      BY Zenon, FS_Singleton
    <3>4. Cardinality({<<c, 1>>} \cup {<<c, 2>>}) = 1 + 1 /\ IsFiniteSet({<<c, 1>>} \cup {<<c, 2>>})
      BY Zenon, <3>2, <3>3, FS_AddElement
    <3> QED
      BY <3>1, <3>4, <2>3
  <2> QED
    BY <2>1, <2>2, <2>3
<1>4. ASSUME NEW f \in [Clients -> 0..2], \A d \in Clients \ {c} : f[d] = h[d]
      PROVE  Cardinality(Taken(f)) = Cardinality(Rest) + f[c]
  <2>1. Taken(f) = Rest \cup Of(f[c])
    BY <1>4 DEF Taken
  <2>2. Rest \cap Of(f[c]) = {}
    OBVIOUS
  <2>3. IsFiniteSet(Of(f[c])) /\ Cardinality(Of(f[c])) = f[c]
    BY Zenon, <1>3
  <2>4. Cardinality({}) = 0
    BY Zenon, FS_EmptySet
  <2> HIDE DEF Rest, Of
  <2>5. Cardinality(Rest \cup Of(f[c])) = Cardinality(Rest) + Cardinality(Of(f[c])) - Cardinality(Rest \cap Of(f[c]))
    BY Zenon, <1>2, <2>3, FS_Union
  <2> QED
    BY <2>1, <2>2, <2>3, <2>4, <2>5, <1>2
<1>5. Cardinality(Taken(h)) = Cardinality(Rest) + h[c]
  BY Zenon, <1>4
<1>6. Cardinality(Taken(g)) = Cardinality(Rest) + g[c]
  BY Zenon, <1>4
<1> HIDE DEF Rest
<1> QED
  BY <1>2, <1>5, <1>6

\* What a command holds depends on where it is.
HeldAt(pc, op) ==
  CASE pc \in {"idle", "next", "begin", "writeBegin"} -> 0
    [] pc \in {"read", "write", "batch"} -> 1
    [] pc = "deleteBegin" -> IF op = "delete" THEN 1 ELSE 0
    [] pc = "delete" -> IF op = "delete" THEN 2 ELSE 1

\* A command holds at most two connections, ...
LEMMA HeldType ==
  ASSUME NEW pc \in Labels, NEW op
  PROVE  HeldAt(pc, op) \in 0..2
BY DEF HeldAt, Labels

\* ... and this many at each point.
LEMMA HeldValues ==
  ASSUME NEW pc, NEW op
  PROVE  /\ pc \in {"idle", "next", "begin", "writeBegin"} => HeldAt(pc, op) = 0
         /\ pc \in {"read", "write", "batch"} => HeldAt(pc, op) = 1
         /\ pc = "deleteBegin" => HeldAt(pc, op) = IF op = "delete" THEN 1 ELSE 0
         /\ pc = "delete" => HeldAt(pc, op) = IF op = "delete" THEN 2 ELSE 1
BY ZenonT(60) DEF HeldAt

\* How a step changes what its client holds, and the count of the pool.
LEMMA HeldStep ==
  ASSUME TypeOK, Shape, NEW c \in Clients, inUse <= MaxConns,
         (\E o \in Ops : Request(c, o)) \/ Step(c) \/ Fail(c)
  PROVE  /\ Others(c)
         /\ inUse' = inUse - HeldAt(sess[c].pc, sess[c].op) + HeldAt(sess'[c].pc, sess'[c].op)
         /\ inUse' <= inUse \/ inUse' <= MaxConns
<1> USE DocumentsAssumption
<1>t. sess[c] \in Session /\ ShapeOf(sess[c]) /\ inUse \in Nat
  BY Zenon DEF TypeOK, Shape
<1>h. HeldAt(sess[c].pc, sess[c].op) \in 0..2
  BY Zenon, <1>t, HeldType DEF Session
<1>i. HeldAt(Idle.pc, Idle.op) = 0
  BY Zenon, HeldValues DEF Idle, Started
<1>1. ASSUME NEW o \in AllOps, NextStatement(c, o)
      PROVE  Others(c) /\ HeldAt(sess'[c].pc, sess'[c].op) = 0
  BY Zenon, HeldValues, <1>1, StatementEffect
<1>2. CASE \E o \in Ops : Request(c, o)
  BY HeldValues, <1>2, <1>1, <1>t DEF Request
<1>3. CASE Loop(c)
  BY HeldValues, <1>3, <1>1, <1>t DEF Loop, ShapeOf, Session
<1>4. CASE Reply(c)
  BY HeldValues, <1>4, <1>i, <1>t DEF Reply, Others, TypeOK
<1>5. CASE Begin(c) \/ WriteBegin(c) \/ DeleteBegin(c)
  <2>1. ASSUME NEW from, NEW to, Acquire(c, from, to)
        PROVE  Goes(c, to) /\ sess[c].pc = from /\ inUse' = inUse + 1 /\ inUse < MaxConns
    BY ZenonT(60), <2>1, AcquireEffect DEF Acquire
  <2>2. /\ \/ Goes(c, "read") /\ sess[c].pc = "begin"
           \/ Goes(c, "write") /\ sess[c].pc = "writeBegin"
           \/ Goes(c, "delete") /\ sess[c].pc = "deleteBegin"
        /\ inUse' = inUse + 1 /\ inUse < MaxConns
    BY Zenon, <2>1, <1>5 DEF Begin, WriteBegin, DeleteBegin
  <2>3. Others(c) /\ HeldAt(sess'[c].pc, sess'[c].op) = HeldAt(sess[c].pc, sess[c].op) + 1
    BY HeldValues, <2>2 DEF Goes, Becomes
  <2> QED
    BY <2>2, <2>3, <1>t, <1>h
<1>6. ASSUME AfterError(c, sess[c])
      PROVE  Others(c) /\ HeldAt(sess'[c].pc, sess'[c].op) = 0
  <2>1. IF sess[c].op = "delete" THEN Goes(c, "next") ELSE Others(c) /\ sess'[c] = Idle
    BY Zenon, <1>6, FailedEffect
  <2> QED
    BY HeldValues, <2>1, <1>i DEF Goes, Becomes
<1>7. CASE Fail(c)
  <2>1. inUse' = inUse - HeldAt(sess[c].pc, sess[c].op)
    BY Zenon, <1>7 DEF Fail, Held, HeldAt
  <2> QED
    BY <2>1, <1>6, <1>7, <1>t, <1>h DEF Fail
<1>8. CASE Read(c)
  <2>1. PICK rows \in Limit(RowsOf(sess[c].q), sess[c].one) :
           Becomes(c, AfterRead(c, rows), [r \in rows |-> table[r]],
                   IF sess[c].remove THEN {table[r].id : r \in rows} ELSE {},
                   IF sess[c].op = "update" THEN Cardinality(rows) ELSE 0,
                   sess[c].modified, sess[c].touched, sess[c].lost)
    BY Zenon, <1>8, ReadEffect
  <2>2. AfterRead(c, rows) \in {"deleteBegin", "writeBegin", "next"}
    BY Zenon DEF AfterRead
  <2>3. Others(c) /\ sess'[c].op = sess[c].op /\ sess'[c].pc = AfterRead(c, rows)
    BY Zenon, <2>1 DEF Becomes
  <2>4. HeldAt(sess[c].pc, sess[c].op) = 1 /\ HeldAt(sess'[c].pc, sess'[c].op) = 0
    BY Zenon, HeldValues, <2>2, <2>3, <1>8 DEF Read
  <2>5. inUse' = inUse - 1
    BY Zenon, <1>8 DEF Read
  <2> QED
    BY <2>3, <2>4, <2>5, <1>t
<1>9. CASE Insert(c)
  <2>1. Others(c) /\ HeldAt(sess'[c].pc, sess'[c].op) = 0
    BY Zenon, HeldValues, <1>9, <1>6, InsertEffect DEF Becomes
  <2> QED
    BY HeldValues, <2>1, <1>9, <1>t DEF Insert
<1>10. CASE Unchanged(c)
  <2>1. Others(c) /\ HeldAt(sess'[c].pc, sess'[c].op) = 0
    <3>1. PICK r \in Rows(sess[c].docs) :
            Becomes(c, AfterWrite(c, r), Without(sess[c].docs, {r}), sess[c].res, sess[c].n,
                    sess[c].modified, sess[c].touched, sess[c].lost)
      BY Zenon, <1>10, UnchangedEffect
    <3>2. Others(c) /\ sess'[c].pc \in {"next", "writeBegin"}
      BY ZenonT(60), <3>1 DEF AfterWrite, Becomes
    <3> QED
      BY Zenon, HeldValues, <3>2
  <2> QED
    BY HeldValues, <2>1, <1>10, <1>t DEF Unchanged
<1>11. CASE SetDocument(c)
  <2>1. Others(c) /\ HeldAt(sess'[c].pc, sess'[c].op) = 0
    <3>1. PICK r \in Rows(sess[c].docs) : WritesBack(c, r)
      BY Zenon, <1>11, SetDocumentEffect
    <3>2. CASE AfterError(c, sess[c])
      BY Zenon, <3>2, <1>6
    <3>3. ASSUME NEW k, Becomes(c, AfterWrite(c, r), Without(sess[c].docs, {r}), sess[c].res, sess[c].n,
                                sess[c].modified + k, sess[c].touched + k, sess[c].lost)
          PROVE  Others(c) /\ HeldAt(sess'[c].pc, sess'[c].op) = 0
      <4>1. Others(c) /\ sess'[c].pc \in {"next", "writeBegin"}
        BY Zenon, <3>3 DEF AfterWrite, Becomes
      <4> QED
        BY Zenon, HeldValues, <4>1
    <3> QED
      BY Zenon, <3>1, <3>2, <3>3 DEF WritesBack
  <2> QED
    BY HeldValues, <2>1, <1>11, <1>t DEF SetDocument
<1>12. CASE DeleteQuery(c)
  <2>1. Others(c) /\ HeldAt(sess'[c].pc, sess'[c].op) = 1
    BY HeldValues, <1>12, DeleteQueryEffect DEF Becomes
  <2>2. inUse' = inUse /\ HeldAt(sess[c].pc, sess[c].op) = 1
    BY Zenon, HeldValues, <1>12 DEF DeleteQuery
  <2> QED
    BY <2>1, <2>2, <1>t
<1>13. CASE DeleteBatch(c)
  <2>1. Others(c) /\ sess'[c].op = sess[c].op /\ sess'[c].pc \in {"batch", "deleteBegin"}
    BY ZenonT(60), <1>13, DeleteBatchEffect DEF Becomes
  <2> QED
    BY HeldValues, <2>1, <1>13, <1>t DEF DeleteBatch, ShapeOf
<1>14. CASE DeleteEnd(c)
  <2>1. Others(c) /\ HeldAt(sess'[c].pc, sess'[c].op) = 0
    BY HeldValues, <1>14, DeleteEndEffect DEF Goes, Becomes
  <2>2. inUse' = inUse - 1 /\ HeldAt(sess[c].pc, sess[c].op) = 1
    BY Zenon, HeldValues, <1>14 DEF DeleteEnd
  <2> QED
    BY <2>1, <2>2, <1>t
<1>15. CASE DeleteByID(c)
  <2>1. \/ /\ inUse' = inUse - 1 /\ Others(c)
           /\ sess'[c].op = sess[c].op
           /\ sess'[c].pc = IF sess[c].op = "delete" THEN "batch" ELSE "next"
        \/ /\ inUse' = inUse - HeldAt(sess[c].pc, sess[c].op) /\ Others(c)
           /\ HeldAt(sess'[c].pc, sess'[c].op) = 0
    BY ZenonT(60), <1>15, <1>i, DeleteByIDEffect DEF Held, HeldAt, Becomes
  <2> QED
    BY HeldValues, <2>1, <1>15, <1>t, <1>h DEF DeleteByID
<1> QED
  BY Zenon, <1>2, <1>3, <1>4, <1>5, <1>7, <1>8, <1>9, <1>10, <1>11, <1>12, <1>13, <1>14, <1>15 DEF Step

\* Every step keeps the count of the pool what the commands hold.
LEMMA PoolStep ==
  ASSUME TypeOK, Shape, PoolBalanced, sess' \in [Clients -> Session], NEW c \in Clients,
         (\E o \in Ops : Request(c, o)) \/ Step(c) \/ Fail(c)
  PROVE  PoolBalanced' /\ inUse' \in Nat
<1> DEFINE h == [d \in Clients |-> HeldAt(sess[d].pc, sess[d].op)]
           g == [d \in Clients |-> HeldAt(sess'[d].pc, sess'[d].op)]
<1>1. /\ Others(c)
      /\ inUse' = inUse - HeldAt(sess[c].pc, sess[c].op) + HeldAt(sess'[c].pc, sess'[c].op)
      /\ inUse' <= inUse \/ inUse' <= MaxConns
  BY ZenonT(60), HeldStep DEF PoolBalanced
<1>2. h \in [Clients -> 0..2] /\ g \in [Clients -> 0..2] /\ \A d \in Clients \ {c} : g[d] = h[d]
  BY Zenon, <1>1, HeldType DEF TypeOK, Session, Others
<1>3. inUse = Cardinality(Taken(h))
  <2>1. {t \in Clients \X {1, 2} : t[2] <= Held(t[1])} = Taken(h)
    BY Zenon DEF Taken, Held, HeldAt
  <2> QED
    BY Zenon, <2>1 DEF PoolBalanced
<1>4. {t \in Clients \X {1, 2} : t[2] <= Held(t[1])'} = Taken(g)
  BY ZenonT(60) DEF Taken, Held, HeldAt
<1>5. inUse' = Cardinality(Taken(g)) /\ inUse' \in Int
  <2>1. Cardinality(Taken(g)) = Cardinality(Taken(h)) - h[c] + g[c]
    BY Zenon, <1>2, TakenChange
  <2> QED
    BY <2>1, <1>1, <1>2, <1>3 DEF TypeOK
<1>6. inUse' \in Nat
  BY Zenon, <1>2, <1>5, TakenChange
<1>7. inUse' <= MaxConns
  BY <1>1, <1>6, DocumentsAssumption DEF PoolBalanced, TypeOK
<1>8. inUse' = Cardinality({t \in Clients \X {1, 2} : t[2] <= Held(t[1])'})
  BY Zenon, <1>4, <1>5
<1> QED
  BY Zenon, <1>6, <1>7, <1>8 DEF PoolBalanced

-----------------------------------------------------------------------------
(* The pool: theorems.                                                     *)

\* The invariant of the pool holds initially, ...
LEMMA PInvInit ==
  ASSUME Init
  PROVE  PInv
<1> USE DocumentsAssumption
<1>1. PICK I \in SUBSET Ids : table = [i \in I |-> [id |-> i, val |-> {}]]
  BY Zenon DEF Init
<1>2. table \in Docs
  <2>1. table \in [I -> Document] /\ I \in SUBSET AllIds
    BY Zenon, <1>1 DEF Document, AllIds
  <2> QED
    BY Zenon, <2>1, DocsMade
<1>3. sess \in [Clients -> Session] /\ \A c \in Clients : sess[c] = Idle
  BY Zenon, IdleType DEF Init
<1>4. TypeOK
  BY <1>2, <1>3 DEF Init, TypeOK
<1>5. Shape
  BY <1>3, IdleType DEF Shape, ShapeOf, Idle, Started
<1>6. PoolBalanced
  <2>1. \A c \in Clients : Held(c) = 0
    BY <1>3 DEF Held, Idle, Started
  <2>2. {t \in Clients \X {1, 2} : t[2] <= Held(t[1])} = {}
    BY <2>1
  <2>3. Cardinality({t \in Clients \X {1, 2} : t[2] <= Held(t[1])}) = 0
    BY Zenon, <2>2, FS_EmptySet
  <2>4. inUse = 0 /\ 0 <= MaxConns
    BY DEF Init
  <2> QED
    BY Zenon, <2>3, <2>4 DEF PoolBalanced
<1> QED
  BY Zenon, <1>4, <1>5, <1>6 DEF PInv

\* ... and every step keeps it.
LEMMA PInvStep ==
  ASSUME PInv, [Next]_vars
  PROVE  PInv'
<1>1. CASE UNCHANGED vars
  BY Zenon, <1>1 DEF vars, PInv, TypeOK, Shape, ShapeOf, PoolBalanced, Held
<1>2. CASE Terminated
  BY Zenon, <1>1, <1>2 DEF Terminated
<1>3. ASSUME NEW c \in Clients, (\E o \in Ops : Request(c, o)) \/ Step(c) \/ Fail(c)
      PROVE  PInv'
  <2>1. /\ table' \in Docs
        /\ number' \in 0..MaxStatements
        /\ sess' \in [Clients -> Session]
        /\ since' \in [Clients -> SUBSET Statement]
    BY Zenon, <1>3, TypeStep DEF PInv
  <2>2. Shape'
    BY Zenon, <1>3, ShapeStep DEF PInv
  <2>3. PoolBalanced' /\ inUse' \in Nat
    BY Zenon, <1>3, <2>1, PoolStep DEF PInv
  <2> QED
    BY Zenon, <2>1, <2>2, <2>3 DEF PInv, TypeOK
<1> QED
  BY Zenon, <1>1, <1>2, <1>3 DEF Next

\* The inductive invariant of the pool.
THEOREM PoolInvariant == Spec => []PInv
<1>1. Init => PInv
  BY Zenon, PInvInit
<1>2. PInv /\ [Next]_vars => PInv'
  BY Zenon, PInvStep
<1> QED
  BY <1>1, <1>2, PTL DEF Spec

\* Whatever the commands, and however they fail, every connection comes back to the pool.
THEOREM PoolAlwaysBalanced == Spec => []PoolBalanced
<1>1. PInv => PoolBalanced
  BY Zenon DEF PInv
<1> QED
  BY <1>1, PoolInvariant, PTL

\* A pool with more connections than clients cannot get stuck with every delete waiting
\* for its second connection.
THEOREM PoolNeverExhausted ==
  ASSUME MaxConns > Cardinality(Clients)
  PROVE  Spec => []PoolNeverStuck
<1> USE DocumentsAssumption
<1>1. PInv => PoolNeverStuck
  <2> SUFFICES ASSUME PInv, \A c \in Clients : sess[c].pc \notin {"read", "write", "batch", "delete"}
               PROVE  inUse # MaxConns
    BY Zenon DEF PoolNeverStuck
  <2>1. \A c \in Clients : Held(c) \in {0, 1}
    BY Zenon DEF PInv, TypeOK, Session, Labels, Held
  <2> DEFINE T == {t \in Clients \X {1, 2} : t[2] <= Held(t[1])}
  <2>2. T \subseteq Clients \X {1}
    BY <2>1
  <2>3. IsFiniteSet({1}) /\ Cardinality({1}) = 1 /\ Cardinality(Clients) \in Nat
    BY Zenon, FS_Singleton, FS_CardinalityType
  <2>4. IsFiniteSet(Clients \X {1}) /\ Cardinality(Clients \X {1}) = Cardinality(Clients) * 1
    BY Zenon, <2>3, FS_Product
  <2>5. Cardinality(T) <= Cardinality(Clients \X {1})
    BY Zenon, <2>2, <2>4, FS_Subset
  <2>6. inUse = Cardinality(T)
    BY Zenon DEF PInv, PoolBalanced
  <2> HIDE DEF T
  <2> QED
    BY <2>3, <2>4, <2>5, <2>6 DEF PInv, TypeOK
<1> QED
  BY <1>1, PoolInvariant, PTL

-----------------------------------------------------------------------------
(* Lost updates: theorems.                                                 *)

\* The inductive invariant of the rows and of what the commands read.
THEOREM TracesInvariant ==
  ASSUME ~ChosenIds
  PROVE  Spec => [](PInv /\ Traces)
<1>1. Init => PInv /\ Traces
  BY Zenon, PInvInit, TracesInit
<1>2. PInv /\ Traces /\ [Next]_vars => PInv' /\ Traces'
  BY Zenon, PInvStep, TracesNext DEF PInv
<1> QED
  BY <1>1, <1>2, PTL DEF Spec

\* If clients do not choose _ids, an update is lost only to a command that read before it
\* was written.
THEOREM LostOnlyWhenOverlapping ==
  ASSUME ~ChosenIds
  PROVE  Spec => LostOnlyToOverlap
<1>1. PInv /\ Traces /\ [Next]_vars => [LostOnly]_vars
  BY Zenon, LostStep DEF PInv
<1>2. Spec => [][LostOnly]_vars
  BY <1>1, TracesInvariant, PTL DEF Spec
<1> QED
  BY Zenon, <1>2 DEF LostOnlyToOverlap, LostOnly

-----------------------------------------------------------------------------
(* The counters.                                                           *)

\* A document that was done with.
LEMMA OneLess ==
  ASSUME NEW docs \in Docs, NEW r \in Rows(docs)
  PROVE  /\ Cardinality(Rows(docs)) \in Nat
         /\ Cardinality(Rows(Without(docs, {r}))) = Cardinality(Rows(docs)) - 1
<1>1. Rows(docs) \in SUBSET AllIds
  BY Zenon, DocsType
<1>2. IsFiniteSet(Rows(docs)) /\ Cardinality(Rows(docs)) \in Nat
  BY Zenon, <1>1, RowsFinite
<1>3. Cardinality(Rows(docs) \ {r}) = Cardinality(Rows(docs)) - 1
  BY ZenonT(60), <1>2, FS_RemoveElement
<1> QED
  BY Zenon, <1>2, <1>3, WithoutType

\* A set of at most one element.
LEMMA AtMostOne ==
  ASSUME NEW S, \A x, y \in S : x = y
  PROVE  Cardinality(S) \in {0, 1} /\ (Cardinality(S) = 1 => S # {}) /\ (S = {} => Cardinality(S) = 0)
<1>1. CASE S = {}
  BY <1>1, FS_EmptySet
<1>2. CASE S # {}
  <2>1. PICK x \in S : TRUE
    BY Zenon, <1>2
  <2>2. S = {x}
    BY Zenon, <2>1
  <2> QED
    BY Zenon, <2>2, FS_Singleton
<1> QED
  BY Zenon, <1>1, <1>2

\* The counters and the limit of one statement.
Fine(s, rows) == CountingOf(s) /\ (s.one => SingleOf(s, rows))

\* The counters of a session are right when there is no command, ...
LEMMA FineIdle ==
  ASSUME NEW rows
  PROVE  Fine(Idle, rows)
<1>1. Idle.op = "none" /\ ~Idle.one /\ ~Early(Idle)
  BY ZenonT(60), IdleFacts
<1> QED
  BY Zenon, <1>1 DEF Fine, CountingOf

\* A step that leaves the counters alone and does not begin to write or to delete.
LEMMA FineGoes ==
  ASSUME NEW c \in Clients, NEW pc, Goes(c, pc), NEW rows, Fine(sess[c], rows),
         pc \in {"begin", "read"} => Early(sess[c]),
         pc \in {"writeBegin", "write"} => Writing(sess[c]),
         pc \in {"deleteBegin", "delete"} => sess[c].pc = "deleteBegin"
  PROVE  Fine(sess'[c], rows)
BY DEF Fine, Goes, Becomes, CountingOf, SingleOf, Early, Writing

\* ... when a statement begins, ...
LEMMA FineBegin ==
  ASSUME TypeOK, NEW c \in Clients, NEW o, NextStatement(c, o), NEW rows
  PROVE  Fine(sess'[c], rows)
<1>1. /\ sess'[c].op = o /\ sess'[c].docs = None /\ sess'[c].res = {}
      /\ sess'[c].n = 0 /\ sess'[c].modified = 0 /\ sess'[c].touched = 0
      /\ sess'[c].pc \in {"writeBegin", "begin"}
  BY Zenon, StatementEffect
<1>2. Cardinality(Rows(None)) = 0
  BY Zenon, IdleType, FS_EmptySet
<1> QED
  BY <1>1, <1>2 DEF Fine, CountingOf, SingleOf

\* ... after the rows are read, ...
LEMMA FineRead ==
  ASSUME TypeOK, Shape, Counting, NEW c \in Clients, Read(c), NEW rows
  PROVE  Fine(sess'[c], rows)
<1>t. sess[c] \in Session /\ sess[c].pc = "read" /\ sess[c].op # "delete" /\ table \in Docs
  BY ZenonT(60) DEF TypeOK, Read
<1>0. sess[c].touched = 0 /\ sess[c].modified = 0
  BY Zenon, <1>t DEF Counting, CountingOf, Early
<1>1. PICK R \in Limit(RowsOf(sess[c].q), sess[c].one) :
        Becomes(c, AfterRead(c, R), [r \in R |-> table[r]],
                IF sess[c].remove THEN {table[r].id : r \in R} ELSE {},
                IF sess[c].op = "update" THEN Cardinality(R) ELSE 0,
                sess[c].modified, sess[c].touched, sess[c].lost)
  BY ZenonT(60), ReadEffect
<1>2. R \in SUBSET AllIds /\ (sess[c].one => \A x, y \in R : x = y)
  BY Zenon, <1>t, DocsType DEF Limit, RowsOf
<1>3. Cardinality(R) \in Nat /\ (sess[c].one => Cardinality(R) \in {0, 1})
  BY ZenonT(60), <1>2, RowsFinite, AtMostOne
<1>4. /\ sess'[c].op = sess[c].op /\ sess'[c].one = sess[c].one /\ sess'[c].docs = [r \in R |-> table[r]]
      /\ sess'[c].res = (IF sess[c].remove THEN {table[r].id : r \in R} ELSE {})
      /\ sess'[c].n = (IF sess[c].op = "update" THEN Cardinality(R) ELSE 0)
      /\ sess'[c].touched = 0 /\ sess'[c].modified = 0
      /\ sess'[c].pc = AfterRead(c, R)
  BY Zenon, <1>0, <1>1 DEF Becomes
<1>5. Rows(sess'[c].docs) = R
  BY Zenon, <1>4 DEF Rows
<1>6. sess[c].one => \A x, y \in sess'[c].res : x = y
  BY <1>2, <1>4
<1>7. CountingOf(sess'[c])
  BY <1>3, <1>4, <1>5, <1>t DEF CountingOf
<1>8. sess[c].one => SingleOf(sess'[c], rows)
  BY <1>3, <1>4, <1>5, <1>6, <1>t DEF SingleOf
<1> QED
  BY Zenon, <1>4, <1>7, <1>8 DEF Fine

\* ... after an insertion, ...
LEMMA FineInsert ==
  ASSUME TypeOK, Shape, NEW c \in Clients, Insert(c), Fine(sess[c], Rows(table)), NEW rows
  PROVE  Fine(sess'[c], rows)
<1>t. sess[c] \in Session /\ sess[c].op # "delete" /\ sess[c].pc = "write" /\ Rows(sess[c].docs) = {}
  BY Zenon DEF TypeOK, Shape, ShapeOf, Insert
<1>1. CASE AfterError(c, sess[c])
  <2>1. sess'[c] = Idle
    BY Zenon, <1>1, <1>t, FailedEffect
  <2> QED
    BY Zenon, <2>1, FineIdle
<1>2. CASE Becomes(c, "next", sess[c].docs, sess[c].res, sess[c].n + 1, sess[c].modified, sess[c].touched, sess[c].lost)
  <2>1. /\ sess'[c].op = sess[c].op /\ sess'[c].one = sess[c].one /\ sess'[c].docs = sess[c].docs
        /\ sess'[c].n = sess[c].n + 1 /\ sess'[c].modified = sess[c].modified
        /\ sess'[c].touched = sess[c].touched /\ sess'[c].pc = "next"
    BY Zenon, <1>2 DEF Becomes
  <2>2. Cardinality(Rows(sess[c].docs)) = 0
    BY ZenonT(60), <1>t, FS_EmptySet
  <2>3. CountingOf(sess'[c])
    BY <2>1, <2>2, <1>t DEF Fine, CountingOf, Early, Session
  <2>4. sess'[c].one => SingleOf(sess'[c], rows)
    BY ZenonT(60), <2>1, <1>t DEF Fine, SingleOf, Writing
  <2> QED
    BY Zenon, <2>3, <2>4 DEF Fine
<1> QED
  BY Zenon, <1>1, <1>2, InsertEffect

\* The next document of an update: k rows were written.
LEMMA FineNext ==
  ASSUME TypeOK, Shape, NEW c \in Clients, Writing(sess[c]), Fine(sess[c], Rows(table)), NEW rows,
         NEW r \in Rows(sess[c].docs), NEW k \in {0, 1},
         Becomes(c, AfterWrite(c, r), Without(sess[c].docs, {r}), sess[c].res, sess[c].n,
                 sess[c].modified + k, sess[c].touched + k, sess[c].lost)
  PROVE  Fine(sess'[c], rows)
<1>t. sess[c] \in Session /\ sess[c].docs \in Docs /\ sess[c].op # "delete"
  BY ZenonT(60) DEF TypeOK, Session, Shape, ShapeOf, Writing
<1>1. /\ Cardinality(Rows(sess[c].docs)) \in Nat
      /\ Cardinality(Rows(Without(sess[c].docs, {r}))) = Cardinality(Rows(sess[c].docs)) - 1
      /\ Cardinality(Rows(Without(sess[c].docs, {r}))) \in Nat
  <2>1. Rows(Without(sess[c].docs, {r})) \in SUBSET AllIds
    BY ZenonT(60), <1>t, WithoutType, DocsType
  <2> QED
    BY Zenon, <2>1, <1>t, OneLess, RowsFinite
<1>2. /\ sess'[c].op = sess[c].op /\ sess'[c].one = sess[c].one /\ sess'[c].docs = Without(sess[c].docs, {r})
      /\ sess'[c].n = sess[c].n /\ sess'[c].modified = sess[c].modified + k
      /\ sess'[c].touched = sess[c].touched + k /\ sess'[c].pc \in {"next", "writeBegin"}
  BY ZenonT(60) DEF Becomes, AfterWrite
<1>n. sess[c].n \in Nat /\ sess[c].modified \in Nat /\ sess[c].touched \in Nat /\ ~Early(sess[c])
  BY Zenon, <1>t DEF Session, Early, Writing
<1>f. CountingOf(sess[c]) /\ (sess[c].one => SingleOf(sess[c], Rows(table)))
  BY Zenon DEF Fine
<1>3. CountingOf(sess'[c])
  <2>1. ~Early(sess'[c])
    BY ZenonT(60), <1>2 DEF Early
  <2>2. CASE sess[c].op = "update"
    BY <2>1, <2>2, <1>1, <1>2, <1>n, <1>f DEF CountingOf
  <2>3. CASE sess[c].op # "update"
    BY ZenonT(60), <2>1, <2>3, <1>2, <1>t DEF CountingOf
  <2> QED
    BY Zenon, <2>2, <2>3
<1>4. ASSUME sess'[c].one
      PROVE  SingleOf(sess'[c], rows)
  <2>1. sess[c].touched + Cardinality(Rows(sess[c].docs)) <= 1
    BY ZenonT(60), <1>4, <1>2, <1>f, <1>t DEF SingleOf
  <2>2. sess'[c].touched + Cardinality(Rows(sess'[c].docs)) <= 1 /\ sess'[c].touched <= 1
    BY <2>1, <1>1, <1>2, <1>n
  <2>3. sess'[c].op # "delete" /\ sess'[c].pc \notin {"deleteBegin", "delete"}
    BY Zenon, <1>2, <1>t
  <2> QED
    BY ZenonT(60), <2>2, <2>3 DEF SingleOf
<1> QED
  BY Zenon, <1>3, <1>4 DEF Fine

\* ... after a document is written back, ...
LEMMA FineSet ==
  ASSUME TypeOK, Shape, Traces, NEW c \in Clients, SetDocument(c), Fine(sess[c], Rows(table)), NEW rows
  PROVE  Fine(sess'[c], rows)
<1>1. PICK r \in Rows(sess[c].docs) : WritesBack(c, r)
  BY ZenonT(60), SetDocumentEffect
<1>2. sess[c].pc = "write" /\ number' = number /\ Writing(sess[c]) /\ sess[c].op # "delete"
  BY Zenon DEF SetDocument, Writing, Shape, ShapeOf
<1> DEFINE hit == RowsOf({Updated(c, sess[c].docs[r]).id})
<1>3. hit = {r} \cap Rows(table)
  BY Zenon, <1>1, <1>2, RewritesSet
<1>4. Cardinality(hit) \in {0, 1}
  BY Zenon, <1>3, AtMostOne
<1>5. CASE AfterError(c, sess[c])
  <2>1. sess'[c] = Idle
    BY ZenonT(60), <1>5, <1>2, FailedEffect
  <2> QED
    BY Zenon, <2>1, FineIdle
<1>6. CASE Becomes(c, AfterWrite(c, r), Without(sess[c].docs, {r}), sess[c].res, sess[c].n,
                   sess[c].modified + Cardinality(hit), sess[c].touched + Cardinality(hit), sess[c].lost)
  BY ZenonT(60), <1>6, <1>2, <1>4, FineNext
<1> QED
  BY ZenonT(60), <1>1, <1>5, <1>6 DEF WritesBack

\* ... and after one that the update leaves as it is.
LEMMA FineUnchanged ==
  ASSUME TypeOK, Shape, NEW c \in Clients, Unchanged(c), Fine(sess[c], Rows(table)), NEW rows
  PROVE  Fine(sess'[c], rows)
<1>1. PICK r \in Rows(sess[c].docs) :
        Becomes(c, AfterWrite(c, r), Without(sess[c].docs, {r}), sess[c].res, sess[c].n,
                sess[c].modified, sess[c].touched, sess[c].lost)
  BY Zenon, UnchangedEffect
<1>2. Writing(sess[c]) /\ sess[c].modified + 0 = sess[c].modified /\ sess[c].touched + 0 = sess[c].touched
  BY DEF Unchanged, Writing, TypeOK, Session
<1>3. Becomes(c, AfterWrite(c, r), Without(sess[c].docs, {r}), sess[c].res, sess[c].n,
              sess[c].modified + 0, sess[c].touched + 0, sess[c].lost)
  BY Zenon, <1>1, <1>2 DEF Becomes
<1> QED
  BY Zenon, <1>2, <1>3, FineNext

\* With a limit, what is to be deleted is the first document that was found.
LEMMA FineBatch ==
  ASSUME TypeOK, Shape, NEW c \in Clients, DeleteBatch(c), NEW rows, Fine(sess[c], rows)
  PROVE  Fine(sess'[c], rows)
<1>t. sess[c] \in Session /\ sess[c].op = "delete"
  BY Zenon DEF TypeOK, Shape, ShapeOf, DeleteBatch
<1>1. PICK B \in Batches(Rows(sess[c].docs)) :
        \E res \in Collect(c, {sess[c].docs[r].id : r \in B} \cap sess[c].q) :
          Becomes(c, IF res = {} THEN "batch" ELSE "deleteBegin", Without(sess[c].docs, B), res,
                  sess[c].n, sess[c].modified, sess[c].touched, sess[c].lost)
  BY Zenon, DeleteBatchEffect
<1>2. PICK res \in Collect(c, {sess[c].docs[r].id : r \in B} \cap sess[c].q) :
        Becomes(c, IF res = {} THEN "batch" ELSE "deleteBegin", Without(sess[c].docs, B), res,
                sess[c].n, sess[c].modified, sess[c].touched, sess[c].lost)
  BY ZenonT(60), <1>1
<1>3. /\ sess'[c].op = "delete" /\ sess'[c].one = sess[c].one /\ sess'[c].res = res
      /\ sess'[c].n = sess[c].n /\ sess'[c].modified = sess[c].modified
      /\ sess'[c].touched = sess[c].touched /\ sess'[c].lost = sess[c].lost
      /\ sess'[c].pc \in {"batch", "deleteBegin"}
  BY Zenon, <1>2, <1>t DEF Becomes
<1>4. sess[c].one => IF sess[c].res # {} THEN res = sess[c].res ELSE \A x, y \in res : x = y
  BY ZenonT(60) DEF Collect, Limit
<1>5. CountingOf(sess'[c])
  BY ZenonT(60), <1>3, <1>t DEF Fine, CountingOf, Early
<1>6. sess'[c].one => SingleOf(sess'[c], rows)
  BY Zenon, <1>3, <1>4, <1>t DEF Fine, SingleOf
<1> QED
  BY ZenonT(60), <1>5, <1>6 DEF Fine

\* What was removed is in no row.
LEMMA FineDelete ==
  ASSUME TypeOK, Shape, Traces, NEW c \in Clients, DeleteByID(c), Fine(sess[c], Rows(table))
  PROVE  Fine(sess'[c], Rows(table'))
<1>t. sess[c] \in Session /\ sess[c].op \in {"delete", "findAndModify"} /\ sess[c].pc = "delete"
  BY Zenon DEF TypeOK, Shape, ShapeOf, DeleteByID
<1> DEFINE hit == RowsOf(sess[c].res)
<1>1. hit = sess[c].res \cap Rows(table) /\ hit \in SUBSET AllIds
  BY Zenon, DocsType DEF RowsOf, Traces, NamedById, TypeOK
<1>2. Rows(table') = Rows(table) \ sess[c].res
  <2>1. table' = Without(table, hit)
    BY Zenon DEF DeleteByID
  <2> QED
    BY <2>1, <1>1, WithoutType DEF TypeOK
<1>3. Cardinality(hit) \in Nat
  BY ZenonT(60), <1>1, RowsFinite
<1>4. sess[c].one =>
        /\ sess[c].touched + Cardinality(hit) <= 1
        /\ sess[c].touched + Cardinality(hit) = 1 => sess[c].res # {}
  <2> SUFFICES ASSUME sess[c].one
               PROVE  /\ sess[c].touched + Cardinality(hit) <= 1
                      /\ sess[c].touched + Cardinality(hit) = 1 => sess[c].res # {}
    BY Zenon
  <2>1. SingleOf(sess[c], Rows(table))
    BY ZenonT(60) DEF Fine
  <2>2. \A x, y \in hit : x = y
    BY Zenon, <2>1, <1>1, <1>t DEF SingleOf
  <2>3. Cardinality(hit) \in {0, 1} /\ (Cardinality(hit) = 1 => hit # {}) /\ (hit = {} => Cardinality(hit) = 0)
    BY ZenonT(60), <2>2, AtMostOne
  <2>4. sess[c].touched \in Nat /\ sess[c].touched <= 1 /\ (sess[c].touched = 1 => hit = {} /\ sess[c].res # {})
    BY <2>1, <1>1, <1>t DEF SingleOf, Session
  <2> HIDE DEF hit
  <2> QED
    BY <2>3, <2>4, <1>1
<1>5. ASSUME NEW k \in Nat, k = Cardinality(hit), NEW pc \in {"batch", "next"}, NEW n \in Nat, NEW lost,
             Becomes(c, pc, sess[c].docs, sess[c].res, n, sess[c].modified, sess[c].touched + k, lost),
             lost \/ n = sess[c].n + k, n <= sess[c].n + k, lost = sess[c].lost \/ lost = TRUE
      PROVE  Fine(sess'[c], Rows(table'))
  <2>1. /\ sess'[c].op = sess[c].op /\ sess'[c].one = sess[c].one /\ sess'[c].res = sess[c].res
        /\ sess'[c].n = n /\ sess'[c].modified = sess[c].modified
        /\ sess'[c].touched = sess[c].touched + k /\ sess'[c].lost = lost /\ sess'[c].pc = pc
    BY ZenonT(60), <1>5 DEF Becomes
  <2>2. CountingOf(sess'[c])
    <3>1. ~Early(sess'[c]) /\ sess'[c].op # "update"
      BY Zenon, <2>1, <1>t DEF Early
    <3>2. CountingOf(sess[c])
      BY Zenon DEF Fine
    <3>3. sess[c].n \in Nat /\ sess[c].touched \in Nat /\ sess[c].lost \in BOOLEAN
      BY Zenon, <1>t DEF Session
    <3> QED
      BY <2>1, <3>1, <3>2, <3>3, <1>5 DEF CountingOf
  <2>3. sess'[c].one => SingleOf(sess'[c], Rows(table'))
    <3> HIDE DEF hit
    <3> QED
      BY ZenonT(60), <2>1, <1>2, <1>4, <1>5, <1>t DEF Fine, SingleOf, Writing
  <2> QED
    BY ZenonT(60), <2>2, <2>3 DEF Fine
<1>6. \/ Becomes(c, IF sess[c].op = "delete" THEN "batch" ELSE "next", sess[c].docs, sess[c].res,
                 sess[c].n + Cardinality(hit), sess[c].modified, sess[c].touched + Cardinality(hit), sess[c].lost)
      \/ Becomes(c, "next", sess[c].docs, sess[c].res, sess[c].n, sess[c].modified,
                 sess[c].touched + Cardinality(hit), TRUE)
      \/ sess'[c] = Idle
  BY Zenon, DeleteByIDEffect
<1>7. /\ sess[c].n \in Nat /\ sess[c].n + Cardinality(hit) \in Nat /\ sess[c].n <= sess[c].n + Cardinality(hit)
  BY <1>3, <1>t DEF Session
<1>8. CASE Becomes(c, IF sess[c].op = "delete" THEN "batch" ELSE "next", sess[c].docs, sess[c].res,
                   sess[c].n + Cardinality(hit), sess[c].modified, sess[c].touched + Cardinality(hit), sess[c].lost)
  <2> DEFINE k == Cardinality(hit)
             n == sess[c].n + k
  <2>1. PICK pc \in {"batch", "next"} :
          Becomes(c, pc, sess[c].docs, sess[c].res, n, sess[c].modified, sess[c].touched + k, sess[c].lost)
    BY ZenonT(60), <1>8
  <2>2. n \in Nat /\ n = sess[c].n + k /\ n <= sess[c].n + k
    BY <1>7
  <2>3. k \in Nat /\ k = Cardinality(hit)
    BY Zenon, <1>3
  <2> HIDE DEF hit, k, n
  <2> QED
    BY ZenonT(60), <2>1, <2>2, <2>3, <1>5
<1>9. CASE Becomes(c, "next", sess[c].docs, sess[c].res, sess[c].n, sess[c].modified,
                   sess[c].touched + Cardinality(hit), TRUE)
  <2> HIDE DEF hit
  <2> QED
    BY ZenonT(60), <1>3, <1>5, <1>7, <1>9
<1> QED
  BY ZenonT(60), <1>6, <1>8, <1>9, FineIdle

\* The counters of all clients: other clients' rows only go away, but for new ones that
\* no delete can have removed.
LEMMA CountStep ==
  ASSUME ~ChosenIds, Told, NEW c \in Clients,
         (\E o \in Ops : Request(c, o)) \/ Step(c) \/ Fail(c)
  PROVE  Counting' /\ Single'
<1>t. TypeOK /\ Shape /\ Traces /\ Counting
  BY Zenon DEF Told
<1>f. \A d \in Clients : Fine(sess[d], Rows(table))
  BY Zenon DEF Told, Counting, Single, Fine
<1>g. ASSUME Others(c), Fine(sess'[c], Rows(table')), Rows(table') \subseteq Rows(table) \cup {This(c)},
             \A d \in Clients \ {c} : Rows(table') \cap sess[d].res \subseteq Rows(table)
      PROVE  Counting' /\ Single'
  <2>1. ASSUME NEW d \in Clients \ {c}
        PROVE  Fine(sess'[d], Rows(table'))
    <3>1. sess'[d] = sess[d] /\ Fine(sess[d], Rows(table)) /\ Rows(table') \cap sess[d].res \subseteq Rows(table)
      BY ZenonT(60), <1>f, <1>g DEF Others
    <3> QED
      BY ZenonT(60), <3>1 DEF Fine, SingleOf
  <2>2. \A d \in Clients : Fine(sess'[d], Rows(table'))
    BY Zenon, <2>1, <1>g
  <2> QED
    BY Zenon, <2>2 DEF Fine, Counting, Single
<1>q. ASSUME Others(c), Fine(sess'[c], Rows(table')), Rows(table') \subseteq Rows(table)
      PROVE  Counting' /\ Single'
  BY Zenon, <1>g, <1>q
<1>1. ASSUME NEW o, NextStatement(c, o), table' = table
      PROVE  Counting' /\ Single'
  <2>1. Others(c) /\ Fine(sess'[c], Rows(table'))
    BY ZenonT(60), <1>1, <1>t, StatementEffect, FineBegin
  <2> QED
    BY Zenon, <2>1, <1>1, <1>q
<1>2. CASE \E o \in Ops : Request(c, o)
  BY Zenon, <1>2, <1>1 DEF Request
<1>3. CASE Loop(c)
  BY Zenon, <1>3, <1>1 DEF Loop
<1>4. CASE Reply(c)
  <2>1. Others(c) /\ sess'[c] = Idle /\ table' = table
    BY ZenonT(60), <1>4, <1>t DEF Reply, Others, TypeOK
  <2> QED
    BY Zenon, <2>1, <1>q, FineIdle
<1>5. CASE Begin(c) \/ WriteBegin(c) \/ DeleteBegin(c)
  <2>1. ASSUME NEW from, NEW to, Acquire(c, from, to)
        PROVE  Goes(c, to) /\ sess[c].pc = from /\ table' = table
    BY Zenon, <2>1, <1>t, AcquireEffect DEF Acquire
  <2>2. /\ \/ Goes(c, "read") /\ sess[c].pc = "begin"
           \/ Goes(c, "write") /\ sess[c].pc = "writeBegin"
           \/ Goes(c, "delete") /\ sess[c].pc = "deleteBegin"
        /\ table' = table
    BY Zenon, <2>1, <1>5 DEF Begin, WriteBegin, DeleteBegin
  <2>3. (sess[c].pc = "begin" => Early(sess[c])) /\ (sess[c].pc = "writeBegin" => Writing(sess[c]))
    BY ZenonT(60) DEF Early, Writing
  <2>4. Fine(sess'[c], Rows(table))
    BY <2>2, <2>3, <1>f, FineGoes
  <2>5. Others(c)
    BY ZenonT(60), <2>2 DEF Goes, Becomes
  <2> QED
    BY Zenon, <2>2, <2>4, <2>5, <1>q
<1>6. CASE Fail(c)
  <2>1. IF sess[c].op = "delete" THEN Goes(c, "next") ELSE Others(c) /\ sess'[c] = Idle
    BY ZenonT(60), <1>6, <1>t, FailedEffect DEF Fail
  <2>2. Others(c) /\ table' = table
    BY Zenon, <1>6, <2>1 DEF Fail, Goes, Becomes
  <2>3. Fine(sess'[c], Rows(table))
    BY <2>1, <1>f, FineGoes, FineIdle
  <2> QED
    BY Zenon, <2>2, <2>3, <1>q
<1>7. CASE Read(c)
  <2>1. Fine(sess'[c], Rows(table')) /\ Others(c) /\ table' = table
    BY ZenonT(60), <1>7, <1>t, FineRead, ReadsRead DEF Reads
  <2> QED
    BY ZenonT(60), <2>1, <1>q
<1>8. CASE Insert(c)
  <2>1. Inserts(c)
    BY ZenonT(60), <1>8, <1>t, InsertsInsert
  <2>2. Fine(sess'[c], Rows(table'))
    BY ZenonT(60), <1>8, <1>t, <1>f, FineInsert
  <2>3. Fresh(sess[c]) /\ Rows(table') = Rows(table) \cup {This(c)} /\ Others(c)
    BY ZenonT(60), <2>1 DEF Inserts, Fresh
  <2>4. \A d \in Clients : This(c) \notin sess[d].res
    BY Zenon, <2>3, <1>t DEF Traces, NotInserted
  <2> QED
    BY Zenon, <2>2, <2>3, <2>4, <1>g
<1>9. CASE Unchanged(c)
  <2>1. Fine(sess'[c], Rows(table')) /\ Others(c)
    BY Zenon, <1>9, <1>t, <1>f, FineUnchanged, QuietUnchanged DEF Quiet
  <2>2. table' = table
    BY Zenon, <1>9 DEF Unchanged
  <2> QED
    BY ZenonT(60), <2>1, <2>2, <1>q
<1>10. CASE SetDocument(c)
  <2>1. PICK r \in Rows(sess[c].docs) : WritesBack(c, r)
    BY ZenonT(60), <1>10, <1>t, SetDocumentEffect
  <2>2. sess[c].pc = "write" /\ number' = number
    BY Zenon, <1>10 DEF SetDocument
  <2>3. Rewrites(c, r)
    BY ZenonT(60), <2>1, <2>2, <1>t, RewritesSet
  <2>4. Fine(sess'[c], Rows(table'))
    BY ZenonT(60), <1>10, <1>t, <1>f, FineSet
  <2>5. Others(c) /\ Rows(table') = Rows(table)
    BY Zenon, <2>3 DEF Rewrites
  <2> QED
    BY ZenonT(60), <2>4, <2>5, <1>q
<1>11. CASE DeleteQuery(c)
  <2>1. Others(c) /\ table' = table
    BY ZenonT(60), <1>11, <1>t, ReadsQuery DEF Reads
  <2>2. /\ sess'[c].op = sess[c].op /\ sess'[c].one = sess[c].one /\ sess'[c].res = sess[c].res
        /\ sess'[c].n = sess[c].n /\ sess'[c].touched = sess[c].touched /\ sess'[c].lost = sess[c].lost
        /\ sess'[c].pc = "batch"
    BY Zenon, <1>11, <1>t, DeleteQueryEffect DEF Becomes
  <2>3. sess[c].op = "delete"
    BY Zenon, <1>11 DEF DeleteQuery
  <2>4. Fine(sess'[c], Rows(table))
    <3>1. CountingOf(sess[c]) /\ (sess[c].one => SingleOf(sess[c], Rows(table)))
      BY ZenonT(60), <1>f DEF Fine
    <3>2. CountingOf(sess'[c])
      BY ZenonT(60), <2>2, <2>3, <3>1 DEF CountingOf, Early
    <3>3. sess'[c].one => SingleOf(sess'[c], Rows(table))
      BY Zenon, <2>2, <2>3, <3>1 DEF SingleOf
    <3> QED
      BY Zenon, <3>2, <3>3 DEF Fine
  <2> QED
    BY Zenon, <2>1, <2>4, <1>q
<1>12. CASE DeleteBatch(c)
  <2>1. Fine(sess'[c], Rows(table)) /\ Others(c)
    BY Zenon, <1>12, <1>t, <1>f, FineBatch, QuietBatch DEF Quiet
  <2>2. table' = table
    BY Zenon, <1>12 DEF DeleteBatch
  <2> QED
    BY Zenon, <2>1, <2>2, <1>q
<1>13. CASE DeleteEnd(c)
  <2>1. Goes(c, "next")
    BY Zenon, <1>13, <1>t, DeleteEndEffect
  <2>2. Fine(sess'[c], Rows(table))
    BY <2>1, <1>f, FineGoes
  <2>3. Others(c) /\ table' = table
    BY Zenon, <2>1, <1>13 DEF DeleteEnd, Goes, Becomes
  <2> QED
    BY Zenon, <2>2, <2>3, <1>q
<1>14. CASE DeleteByID(c)
  <2>1. Fine(sess'[c], Rows(table'))
    BY ZenonT(60), <1>14, <1>t, <1>f, FineDelete
  <2>2. Others(c) /\ Rows(table') \subseteq Rows(table)
    BY Zenon, <1>14, <1>t, QuietDelete DEF Quiet, Sub
  <2> QED
    BY ZenonT(60), <2>1, <2>2, <1>q
<1> QED
  BY Zenon, <1>2, <1>3, <1>4, <1>5, <1>6, <1>7, <1>8, <1>9, <1>10, <1>11, <1>12, <1>13, <1>14 DEF Step

-----------------------------------------------------------------------------
(* The counters: theorems.                                                 *)

\* The counters are right initially, ...
LEMMA ToldInit ==
  ASSUME Init
  PROVE  Told
<1>1. TypeOK /\ Shape /\ Traces
  BY Zenon, PInvInit, TracesInit DEF PInv
<1>2. \A c \in Clients : sess[c] = Idle
  BY Zenon DEF Init
<1>3. Counting /\ Single
  BY Zenon, <1>2, FineIdle DEF Counting, Single, Fine
<1> QED
  BY Zenon, <1>1, <1>3 DEF Told

\* ... and every step keeps them so.
LEMMA ToldStep ==
  ASSUME ~ChosenIds, PInv, Told, [Next]_vars
  PROVE  Told'
<1>1. TypeOK' /\ Shape' /\ Traces'
  BY Zenon, PInvStep, TracesNext DEF PInv, Told
<1>2. ASSUME UNCHANGED vars
      PROVE  Counting' /\ Single'
  <2>1. sess' = sess /\ table' = table /\ Counting /\ Single
    BY Zenon, <1>2 DEF vars, Told
  <2>2. Counting'
    BY Zenon, <2>1 DEF Counting
  <2>3. Single'
    BY Zenon, <2>1 DEF Single
  <2> QED
    BY Zenon, <2>2, <2>3
<1>3. ASSUME Terminated
      PROVE  Counting' /\ Single'
  BY Zenon, <1>2, <1>3 DEF Terminated
<1>4. ASSUME NEW c \in Clients, (\E o \in Ops : Request(c, o)) \/ Step(c) \/ Fail(c)
      PROVE  Counting' /\ Single'
  BY Zenon, <1>4, CountStep
<1>5. Counting' /\ Single'
  BY Zenon, <1>2, <1>3, <1>4 DEF Next, Told
<1> QED
  BY Zenon, <1>1, <1>5 DEF Told

\* The inductive invariant of the counters.
THEOREM DocumentsInvariant ==
  ASSUME ~ChosenIds
  PROVE  Spec => [](PInv /\ Told)
<1>1. Init => PInv /\ Told
  BY Zenon, PInvInit, ToldInit
<1>2. PInv /\ Told /\ [Next]_vars => PInv' /\ Told'
  BY Zenon, PInvStep, ToldStep
<1> QED
  BY <1>1, <1>2, PTL DEF Spec

\* If clients do not choose _ids, the counts of every reply are true, whatever the other
\* clients do meanwhile.
THEOREM CountsAlwaysTrue ==
  ASSUME ~ChosenIds
  PROVE  Spec => []CountsTrue
<1>1. PInv /\ Told => CountsTrue
  <2> SUFFICES ASSUME TypeOK, Counting, NEW c \in Clients, sess[c].op = "update"
               PROVE  sess[c].touched <= sess[c].n
    BY Zenon DEF Told, Counting, CountingOf, CountsTrue
  <2>1. sess[c].touched \in Nat /\ sess[c].n \in Nat /\ Rows(sess[c].docs) \in SUBSET AllIds
    BY Zenon, DocsType DEF TypeOK, Session
  <2>2. Cardinality(Rows(sess[c].docs)) \in Nat
    BY ZenonT(60), <2>1, RowsFinite
  <2>3. sess[c].touched + Cardinality(Rows(sess[c].docs)) <= sess[c].n
    BY Zenon DEF Counting, CountingOf
  <2> QED
    BY <2>1, <2>2, <2>3
<1> QED
  BY <1>1, DocumentsInvariant, PTL

\* If clients do not choose _ids, a statement for one document changes one row at most.
THEOREM OneDocumentOnly ==
  ASSUME ~ChosenIds
  PROVE  Spec => []OneDocument
<1>1. PInv /\ Told => OneDocument
  BY Zenon DEF Told, Single, SingleOf, OneDocument
<1> QED
  BY <1>1, DocumentsInvariant, PTL

=============================================================================
