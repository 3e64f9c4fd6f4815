----------------------------- MODULE Documents -----------------------------
(***************************************************************************)
(* What the write commands (insert, update, delete and findAndModify) do   *)
(* to the documents of one existing collection, and to the pool of         *)
(* PostgreSQL connections.  Every command reads the collection in one      *)
(* transaction and writes in others, one document (update, findAndModify)  *)
(* or one batch (delete) each.  The table has no unique index on _id.      *)
(*                                                                         *)
(* A document is its _id and the set of the statements that made it what   *)
(* it is; the statements of all clients are numbered.  Updates do not name *)
(* the _id of the document, which stays as it is.                          *)
(* The read of update and findAndModify is atomic (Fetch implements        *)
(* AtomicRead); delete does its work between the batches it receives.  The *)
(* lookup of the table (getTableName) is in Catalog.                       *)
(***************************************************************************)
EXTENDS Naturals, FiniteSets

CONSTANTS Clients,        \* connections issuing commands
          Ids,            \* _ids of the documents that exist at the start
          Ops,            \* the commands the clients issue
          ChosenIds,      \* whether clients choose the _ids of new documents themselves
          MaxConns,       \* size of the pool
          BatchSize,      \* FetchedSliceCapacity
          MaxStatements,  \* bound on the statements of the clients together
          Faults          \* whether a statement may fail for reasons of its own

AllOps == {"insert", "update", "delete", "findAndModify"}

ASSUME DocumentsAssumption ==
  /\ IsFiniteSet(Clients)
  /\ IsFiniteSet(Ids)
  /\ Ids \cap Nat = {}
  /\ Ops \subseteq AllOps
  /\ ChosenIds \in BOOLEAN
  /\ MaxConns \in Nat \ {0}
  /\ BatchSize \in Nat \ {0}
  /\ MaxStatements \in Nat
  /\ Faults \in BOOLEAN

VARIABLES
  table,   \* the committed rows: a function from row, named by the statement that inserted
           \* it or by its first _id, to document
  inUse,   \* connections taken from the pool
  number,  \* how many statements were begun
  sess,    \* sess[c]: the command c runs and its local variables
  since    \* history: since[c] are the statements that others wrote after c read

vars == <<table, inUse, number, sess, since>>

Statement == 1..MaxStatements

AllIds == Ids \cup Statement

Document == [id : AllIds, val : SUBSET Statement]

\* The statement that c runs.
This(c) == sess[c].stmt

\* The table or, in docs, what is left to do of the rows a command read.  res are the
\* _ids that it is to delete.
Rows(docs) == DOMAIN docs

Without(docs, rows) == [r \in Rows(docs) \ rows |-> docs[r]]

None == [r \in {} |-> [id |-> 0, val |-> {}]]

Started(op, stmt, pc, q, one, upsert, remove, replace) ==
  [op |-> op, stmt |-> stmt, pc |-> pc, q |-> q, one |-> one, upsert |-> upsert, remove |-> remove,
   replace |-> replace, docs |-> None, res |-> {}, n |-> 0, modified |-> 0, touched |-> 0, lost |-> FALSE]

Idle == Started("none", 0, "idle", {}, FALSE, FALSE, FALSE, FALSE)

Init ==
  /\ \E I \in SUBSET Ids : table = [i \in I |-> [id |-> i, val |-> {}]]
  /\ inUse = 0
  /\ number = 0
  /\ sess = [c \in Clients |-> Idle]
  /\ since = [c \in Clients |-> {}]

-----------------------------------------------------------------------------
(* Statements of a command.                                                *)

\* The next statement of the command: its filter (one _id or every document), and
\* whether it is for one document only (limit: 1, no multi), an upsert, a removal, a
\* replacement (findAndModify without operators).  An upsert by _id chooses the _id of
\* the document it may insert.  Its counters start at 0; the reply has the sums over the statements.
NextStatement(c, o) ==
  /\ number < MaxStatements
  /\ number' = number + 1
  /\ \E q \in {AllIds} \cup {{i} : i \in Ids}, one, u, r, p \in BOOLEAN :
       /\ o = "insert" => q = AllIds /\ ~one
       /\ o = "findAndModify" => one
       /\ u => o \in {"update", "findAndModify"} /\ ~r /\ (ChosenIds \/ q = AllIds)
       /\ r => o = "findAndModify"
       /\ p => o = "findAndModify" /\ ~u /\ ~r
       /\ sess' = [sess EXCEPT
            ![c] = Started(o, number + 1, IF o = "insert" THEN "writeBegin" ELSE "begin", q, one, u, r, p)]

\* A handler begins with its first statement.
Request(c, o) ==
  /\ sess[c].pc = "idle"
  /\ NextStatement(c, o)
  /\ UNCHANGED <<table, inUse, since>>

\* The loops over documents, updates and deletes.
Loop(c) ==
  /\ sess[c].pc = "next"
  /\ sess[c].op # "findAndModify"
  /\ NextStatement(c, sess[c].op)
  /\ UNCHANGED <<table, inUse, since>>

\* The handler returns its reply.
Reply(c) ==
  /\ sess[c].pc = "next"
  /\ sess' = [sess EXCEPT ![c] = Idle]
  /\ UNCHANGED <<table, inUse, number, since>>

-----------------------------------------------------------------------------
(* The pool.                                                               *)

\* Connections that c has taken: delete keeps the one it reads with.
Held(c) ==
  CASE sess[c].pc \in {"idle", "next", "begin", "writeBegin"} -> 0
    [] sess[c].pc \in {"read", "write", "batch"} -> 1
    [] sess[c].pc = "deleteBegin" -> IF sess[c].op = "delete" THEN 1 ELSE 0
    [] sess[c].pc = "delete" -> IF sess[c].op = "delete" THEN 2 ELSE 1

\* InTransaction: Begin waits for a free connection.
Acquire(c, from, to) ==
  /\ sess[c].pc = from
  /\ inUse < MaxConns
  /\ inUse' = inUse + 1
  /\ sess' = [sess EXCEPT ![c].pc = to]
  /\ UNCHANGED <<table, number, since>>

Begin(c) == Acquire(c, "begin", "read")

WriteBegin(c) == Acquire(c, "writeBegin", "write")

DeleteBegin(c) == Acquire(c, "deleteBegin", "delete")

\* delete notes an error for its reply and goes on with the next statement or
\* returns (ordered); the other commands return the error.
AfterError(c, s) ==
  sess' = [sess EXCEPT ![c] = IF s.op = "delete" THEN [s EXCEPT !.pc = "next"] ELSE Idle]

\* Faulty variant: the error in the nested transaction of delete does not end the
\* transaction around it.
FaultyFail(c) ==
  /\ Faults
  /\ sess[c].pc \notin {"idle", "next"}
  /\ inUse' = IF Held(c) > 0 THEN inUse - 1 ELSE inUse
  /\ AfterError(c, sess[c])
  /\ UNCHANGED <<table, number, since>>

\* Something failed, also while waiting for a connection: InTransaction rolls back
\* every open transaction of the command and gives the connections back.
Fail(c) ==
  /\ Faults
  /\ sess[c].pc \notin {"idle", "next"}
  /\ inUse' = inUse - Held(c)
  /\ AfterError(c, sess[c])
  /\ UNCHANGED <<table, number, since>>

-----------------------------------------------------------------------------
(* Reading.                                                                *)

RowsOf(ids) == {r \in Rows(table) : table[r].id \in ids}

\* LimitDocuments with limit 1, or resDocs[:1]: the first, and a SELECT may return any
\* first.
Limit(found, one) == IF one /\ found # {} THEN {{x} : x \in found} ELSE {found}

\* What update and findAndModify do with the rows they read.
AfterRead(c, rows) ==
  CASE rows # {} /\ sess[c].remove -> "deleteBegin"
    [] (rows # {} \/ sess[c].upsert) /\ ~sess[c].remove -> "writeBegin"
    [] OTHER -> "next"

\* The read transaction of update and findAndModify: the documents that match, as many
\* as the command is for.
Read(c) ==
  /\ sess[c].pc = "read" /\ sess[c].op # "delete"
  /\ inUse' = inUse - 1
  /\ since' = [since EXCEPT ![c] = {}]
  /\ \E rows \in Limit(RowsOf(sess[c].q), sess[c].one) :
       sess' = [sess EXCEPT
         ![c].docs = [r \in rows |-> table[r]],
         ![c].res = IF sess[c].remove THEN {table[r].id : r \in rows} ELSE {},
         ![c].n = IF sess[c].op = "update" THEN Cardinality(rows) ELSE 0,
         ![c].pc = AfterRead(c, rows)]
  /\ UNCHANGED <<table, number>>

-----------------------------------------------------------------------------
(* Writing.                                                                *)

\* A transaction of c that wrote val is over; the clients that have documents to write
\* back read them before.
Wrote(c, val) ==
  since' = [d \in Clients |->
              CASE d = c -> since[d]
                [] d # c /\ sess[d].pc \in {"writeBegin", "write"} -> since[d] \cup val
                [] OTHER -> {}]

\* The _id of a document that an insert or an upsert stores: the client's, the one
\* the filter asks for, or a new ObjectID.
NewIds(c) ==
  IF sess[c].op = "insert"
  THEN IF ChosenIds THEN Ids ELSE {This(c)}
  ELSE IF sess[c].q = AllIds THEN {This(c)} ELSE sess[c].q

\* INSERT of insert and of an upsert that found nothing, and COMMIT.
Insert(c) ==
  /\ sess[c].pc = "write" /\ Rows(sess[c].docs) = {}
  /\ inUse' = inUse - 1
  /\ \E i \in NewIds(c) :
       table' = [r \in Rows(table) \cup {This(c)} |->
                   IF r = This(c) THEN [id |-> i, val |-> {This(c)}] ELSE table[r]]
  /\ Wrote(c, {This(c)})
  /\ \/ sess' = [sess EXCEPT ![c].pc = "next", ![c].n = @ + 1]
     \/ Faults /\ AfterError(c, sess[c])
  /\ UNCHANGED number

\* The loop of update over the documents; findAndModify has only one.
AfterWrite(c, r) == IF Rows(sess[c].docs) = {r} THEN "next" ELSE "writeBegin"

\* UpdateDocument changed nothing: the document is not written.
Unchanged(c) ==
  /\ sess[c].pc = "writeBegin" /\ sess[c].op = "update"
  /\ \E r \in Rows(sess[c].docs) :
       sess' = [sess EXCEPT ![c].docs = Without(@, {r}), ![c].pc = AfterWrite(c, r)]
  /\ UNCHANGED <<table, inUse, number, since>>

\* Faulty variant: operators too are applied to a new document.
FaultyUpdated(c, doc) == [doc EXCEPT !.val = {This(c)}]

\* The document to write back: the one read with the update applied to it, or the
\* replacement under the same _id.
Updated(c, doc) ==
  [doc EXCEPT !.val = IF sess[c].replace THEN {This(c)} ELSE @ \cup {This(c)}]

\* SetDocumentByID for the next one of the documents read: the whole document, as it
\* was read and then updated, replaces every row with its _id.
SetDocument(c) ==
  /\ sess[c].pc = "write"
  /\ inUse' = inUse - 1
  /\ \E r \in Rows(sess[c].docs) :
       LET doc == Updated(c, sess[c].docs[r])
           hit == RowsOf({doc.id})
       IN  /\ table' = [x \in Rows(table) |-> IF x \in hit THEN doc ELSE table[x]]
           /\ \/ sess' = [sess EXCEPT
                   ![c].docs = Without(@, {r}),
                   ![c].modified = @ + Cardinality(hit),
                   ![c].touched = @ + Cardinality(hit),
                   ![c].pc = AfterWrite(c, r)]
              \/ Faults /\ AfterError(c, sess[c])
           /\ Wrote(c, IF hit = {} THEN {} ELSE doc.val)
  /\ UNCHANGED number

-----------------------------------------------------------------------------
(* Deleting.                                                               *)

\* The SELECT of delete; its transaction stays open.
DeleteQuery(c) ==
  /\ sess[c].pc = "read" /\ sess[c].op = "delete"
  /\ sess' = [sess EXCEPT ![c].pc = "batch", ![c].docs = table]
  /\ UNCHANGED <<table, inUse, number, since>>

\* The next message: as many rows as fit, or the last ones.
Batches(rows) == {B \in SUBSET rows : B # {} /\ (Cardinality(B) = BatchSize \/ (B = rows /\ Cardinality(B) < BatchSize))}

\* Faulty variant: resDocs starts empty for every batch, and so does the limit.
FaultyCollect(c, ids) == Limit(ids, sess[c].one)

\* What is to be deleted after a batch: the matching documents of all batches so
\* far, those deleted already included, up to the limit.
Collect(c, ids) == IF sess[c].one /\ sess[c].res # {} THEN {sess[c].res} ELSE Limit(sess[c].res \cup ids, sess[c].one)

\* delete receives a batch.
DeleteBatch(c) ==
  /\ sess[c].pc = "batch"
  /\ \E B \in Batches(Rows(sess[c].docs)) :
       \E res \in Collect(c, {sess[c].docs[r].id : r \in B} \cap sess[c].q) :
         sess' = [sess EXCEPT
           ![c].res = res,
           ![c].docs = Without(@, B),
           ![c].pc = IF res = {} THEN "batch" ELSE "deleteBegin"]
  /\ UNCHANGED <<table, inUse, number, since>>

\* delete has received every batch and commits.
DeleteEnd(c) ==
  /\ sess[c].pc = "batch" /\ Rows(sess[c].docs) = {}
  /\ inUse' = inUse - 1
  /\ sess' = [sess EXCEPT ![c].pc = "next"]
  /\ UNCHANGED <<table, number, since>>

\* Faulty variant: the documents are counted, not the rows that were deleted.
FaultyRowsDeleted(c, hit) == Cardinality(sess[c].res)

\* tag.RowsAffected().
RowsDeleted(c, hit) == Cardinality(hit)

\* DeleteDocumentsByID in a transaction of its own, for delete inside the one it
\* reads with.  The answer to COMMIT may be lost.
DeleteByID(c) ==
  /\ sess[c].pc = "delete"
  /\ LET hit == RowsOf(sess[c].res)
     IN  /\ table' = Without(table, hit)
         /\ \/ /\ inUse' = inUse - 1
               /\ sess' = [sess EXCEPT
                    ![c].n = @ + RowsDeleted(c, hit),
                    ![c].touched = @ + Cardinality(hit),
                    ![c].pc = IF sess[c].op = "delete" THEN "batch" ELSE "next"]
            \/ /\ Faults
               /\ inUse' = inUse - Held(c)
               /\ AfterError(c, [sess[c] EXCEPT !.touched = @ + Cardinality(hit), !.lost = TRUE])
  /\ Wrote(c, {})
  /\ UNCHANGED number

-----------------------------------------------------------------------------
\* The running command of c takes its next step.
Step(c) ==
  \/ Loop(c) \/ Reply(c) \/ Begin(c) \/ WriteBegin(c) \/ DeleteBegin(c)
  \/ Read(c) \/ Insert(c) \/ Unchanged(c) \/ SetDocument(c)
  \/ DeleteQuery(c) \/ DeleteBatch(c) \/ DeleteEnd(c) \/ DeleteByID(c)

\* The clients have used up their statements.
Terminated ==
  /\ number = MaxStatements /\ \A c \in Clients : sess[c].pc = "idle"
  /\ UNCHANGED vars

Next ==
  \/ \E c \in Clients : (\E o \in Ops : Request(c, o)) \/ Step(c) \/ Fail(c)
  \/ Terminated

Spec == Init /\ [][Next]_vars

-----------------------------------------------------------------------------
(* Properties.                                                             *)

\* Every connection comes back: the pool's count is what the running commands hold,
\* also after errors inside the nested transaction of delete, and it is never exceeded.
PoolBalanced ==
  /\ inUse = Cardinality({t \in Clients \X {1, 2} : t[2] <= Held(t[1])})
  /\ inUse <= MaxConns

\* With a connection to spare the pool never gets stuck, although each delete waits
\* for a second connection while it keeps its first: when all connections are in
\* use, one of them is used by a command that can go on.
PoolNeverStuck ==
  inUse = MaxConns => \E c \in Clients : sess[c].pc \in {"read", "write", "batch", "delete"}

\* MsgUpdate and MsgFindAndModify write back whole documents that they read in an
\* earlier transaction.  Unless it is a replacement, what such a write undoes was
\* written by another client after that read: an update is never lost to a command
\* that began later.
LostOnlyToOverlap ==
  [][ \A r \in Rows(table) \cap Rows(table') : \A t \in table[r].val \ table'[r].val :
        \E c \in Clients : /\ This(c) \in table'[r].val \ table[r].val
                           /\ sess[c].replace \/ t \in since[c] ]_vars

\* The counts of the reply are true: n of a delete is what it removed, nModified of
\* an update what it wrote, and never more than the documents it matched.
CountsTrue ==
  \A c \in Clients :
    /\ sess[c].op = "delete" =>
         sess[c].n <= sess[c].touched /\ (~sess[c].lost => sess[c].n = sess[c].touched)
    /\ sess[c].op = "update" =>
         sess[c].modified = sess[c].touched /\ sess[c].touched <= sess[c].n

\* A statement for one document (delete with limit 1, update without multi,
\* findAndModify) changes at most one row, however many batches it received.
OneDocument == \A c \in Clients : sess[c].one => sess[c].touched <= 1

\* What msg_findandmodify.go says: "findAndModify always works with a single
\* document".
FindAndModifySingle ==
  \A c \in Clients : sess[c].op = "findAndModify" => sess[c].touched <= 1

=============================================================================
