----------------------------- MODULE TigrisCalls ----------------------------
(***************************************************************************)
(* The commands of the Tigris handler (package tigris) as sequences of     *)
(* calls of the Tigris driver: clients whose commands on one collection    *)
(* interleave call by call.  There are no transactions: a command          *)
(* describes the collection, reads it, and writes document by document,    *)
(* and other commands run in between.  The Tigris server is external; each *)
(* call is atomic and may fail, before it has an effect or after.          *)
(*                                                                         *)
(* A command is given by its parameters; they are well formed, and there   *)
(* is one statement in an update or a delete.  What the handlers make of   *)
(* other parameters is the same as in Commands.  What they compute from    *)
(* documents, schemas and JSON is a parameter of the module; Tigris has    *)
(* the operators that stand for it.                                        *)
(***************************************************************************)
EXTENDS Integers, Sequences, FiniteSets

CONSTANTS Clients,
          Commands,     \* the commands that clients run
          MaxCommands,  \* commands in all
          MaxFaults     \* calls that fail

CONSTANTS SchemaFrom(_), NullSchema,      \* tjson: the schema of a document, and none
          ToJSON(_), Panics, Unencoded,   \* tjson: a document as JSON, a panic, an error
          FromJSON(_, _), Garbled,        \* tjson: a document from JSON and a schema, an error
          Fits(_, _), GrowsInto(_, _),    \* what the server takes, as a row and as a new schema
          HasIDOf(_, _),                  \* whether a row has the _id of a document
          Updated(_, _),                  \* a document and an update
          UpsertOf(_),                    \* the document that a command upserts
          Chosen(_, _),                   \* the documents that match the filter of a command
          ResultOf(_, _)                  \* the same, sorted, limited and projected

AllOps == {"insert", "create", "update", "delete", "find", "count", "collStats", "dataSize", "dbStats", "drop",
           "dropDatabase", "listCollections", "listDatabases"}

IsSequence(q) == q \in Seq({q[i] : i \in DOMAIN q})

\* The commands are ones that the handler has, with the documents of an insert in a list.
CommandsOK ==
  \A i \in DOMAIN Commands :
    /\ Commands[i].op \in AllOps
    /\ Commands[i].op = "insert" => IsSequence(Commands[i].docs)

\* What the parameters are to do with the documents Docs, lists of them and the schemas Schemas.
\* The documents that handlers make of documents are documents, ...
ClosedUnder(cmd, Docs, Lists) ==
  /\ cmd.op = "insert" => cmd.docs \in Seq(Docs)
  /\ cmd.op = "update" =>
       /\ UpsertOf(cmd).err = "none" => UpsertOf(cmd).doc \in Docs
       /\ \A d \in Docs : LET new == Updated(d, cmd.u) IN new.err = "none" => new.doc \in Docs
       /\ \A docs \in Lists : LET found == Chosen(cmd, docs) IN found.err = "none" => found.v \in Seq(Docs)
  /\ cmd.op = "delete" =>
       \A docs \in Lists : LET found == ResultOf(cmd, docs) IN found.err = "none" => found.v \in Seq(Docs)

\* ... and JSON that a schema takes can be decoded with it, also after the schema has grown.
Decodes(Docs, Schemas) ==
  \A d \in Docs : LET json == ToJSON(d) IN
    /\ SchemaFrom(d) \in Schemas \cup {NullSchema}
    /\ json \notin {Panics, Unencoded} =>
         \A old \in Schemas :
           /\ FromJSON(json, old) \in Docs \cup {Garbled}
           /\ Fits(json, old) => FromJSON(json, old) # Garbled
           /\ \A new \in Schemas : GrowsInto(old, new) /\ Fits(json, old) => Fits(json, new)

DataOK(Docs, Schemas, Lists) ==
  /\ \A i \in DOMAIN Commands : /\ ClosedUnder(Commands[i], Docs, Lists)
                                /\ Commands[i].op = "create" => Commands[i].schema \in Schemas
  /\ Decodes(Docs, Schemas) /\ Garbled \notin Docs

\* What they are to do with _ids: rows have the same one or not, decoding and updating keeps
\* it, and the documents to update or delete are among those read, each at most once.
Rows(Docs) == {[json |-> ToJSON(d), doc |-> d] : d \in {e \in Docs : ToJSON(e) \notin {Panics, Unencoded}}}
Among(found, docs) ==
  \E from \in [DOMAIN found -> DOMAIN docs] :
    \A i, j \in DOMAIN found : found[i] = docs[from[i]] /\ (from[i] = from[j] => i = j)

IDsOK(Docs, Schemas, Lists) ==
  /\ \A row \in Rows(Docs) : HasIDOf(row, row.doc)
  /\ \A row, other \in Rows(Docs) :
       (\E d \in Docs : HasIDOf(row, d) /\ HasIDOf(other, d)) => \A d \in Docs : HasIDOf(row, d) <=> HasIDOf(other, d)
  /\ \A row \in Rows(Docs), schema \in Schemas : LET doc == FromJSON(row.json, schema) IN
       doc # Garbled => HasIDOf(row, doc)
  /\ \A i \in DOMAIN Commands : LET cmd == Commands[i] IN
       /\ cmd.op = "update" =>
            /\ \A d \in Docs, row \in Rows(Docs) : LET new == Updated(d, cmd.u) IN
                 new.err = "none" => (HasIDOf(row, d) <=> HasIDOf(row, new.doc))
            /\ \A docs \in Lists : Chosen(cmd, docs).err = "none" => Among(Chosen(cmd, docs).v, docs)
       /\ cmd.op = "delete" =>
            \A docs \in Lists : ResultOf(cmd, docs).err = "none" => Among(ResultOf(cmd, docs).v, docs)

VARIABLES
  db,       \* whether the database exists
  coll,     \* the collection: its schema, its rows, and how often either came anew
  sess,     \* the command of each client
  begun,    \* the number of commands begun
  faults    \* the number of calls that failed

vars == <<db, coll, sess, begun, faults>>

-----------------------------------------------------------------------------
(* Commands.  What a handler does between two calls is a function of its   *)
(* session s: pc is the next call, todo the documents it goes over, n and  *)
(* modified the counters of the reply.  seen, overlap, hit and misread say *)
(* what happened meanwhile, for the properties.                            *)

Idle == [pc |-> "idle", cmd |-> [op |-> "none"], schema |-> NullSchema, version |-> 0, todo |-> <<>>, n |-> 0,
         modified |-> 0, err |-> "none", seen |-> {}, overlap |-> FALSE, hit |-> 0, misread |-> FALSE]

Finish(s, err) == [s EXCEPT !.pc = "idle", !.err = err]

\* Faulty variant: a document that cannot be stored is passed over.
FaultyInsertNext(s) ==
  LET rest == SelectSeq(s.todo, LAMBDA d : SchemaFrom(d) # NullSchema)
  IN  IF rest = <<>> THEN Finish(s, "none")
      ELSE [s EXCEPT !.todo = rest, !.schema = SchemaFrom(rest[1]), !.pc = "describeDB"]

\* insert, up to the first call, for the next document.
InsertNext(s) ==
  IF s.todo = <<>> THEN Finish(s, "none")
  ELSE LET schema == SchemaFrom(s.todo[1])
       IN  IF schema = NullSchema THEN Finish(s, "InternalError")
           ELSE [s EXCEPT !.schema = schema, !.pc = "describeDB"]

\* Marshal before a write; its panics end the command.
Write(s, doc, pc) ==
  LET json == ToJSON(doc)
  IN  IF json = Panics THEN Finish(s, "panic")
      ELSE IF json = Unencoded THEN Finish(s, "InternalError") ELSE [s EXCEPT !.pc = pc]

\* What follows CreateCollectionIfNotExist in MsgCreate and in insert.
Created(s, created) ==
  IF s.cmd.op = "create" THEN Finish(s, IF created THEN "none" ELSE "NamespaceExists")
  ELSE Write(s, s.todo[1], "insert")

\* The loop of MsgUpdate over the matched documents, up to the first that the update
\* changes or fails for; todo[1] becomes the updated one.
ReplaceNext(s) ==
  LET rest(first) == SubSeq(s.todo, first, Len(s.todo))
      replace(new, first) ==
        IF new.err # "none" THEN Finish([s EXCEPT !.todo = rest(first)], new.err)
        ELSE Write([s EXCEPT !.todo = [rest(first) EXCEPT ![1] = new.doc]], new.doc, "replace")
      stop(updated, first) == replace(updated[first], first)
      loop(updated, stops) ==
        IF stops = {} THEN Finish([s EXCEPT !.todo = <<>>], "none")
        ELSE stop(updated, CHOOSE i \in stops : \A j \in stops : i <= j)
      all(updated) == loop(updated, {i \in DOMAIN s.todo : updated[i].err # "none" \/ updated[i].changed})
  IN  all([i \in DOMAIN s.todo |-> Updated(s.todo[i], s.cmd.u)])

\* What the handlers do with the documents that QueryDocuments returns.
MsgUpdate(s, docs) ==
  LET upsert(new) ==
        IF new.err # "none" THEN Finish(s, new.err) ELSE InsertNext([s EXCEPT !.todo = <<new.doc>>])
      replace(chosen) == ReplaceNext([s EXCEPT !.todo = chosen, !.n = Len(chosen)])
      update(matched) ==
        IF matched.err # "none" THEN Finish(s, matched.err)
        ELSE IF matched.v # <<>>
        THEN replace(IF s.cmd.multi \/ matched.v = <<>> THEN matched.v ELSE <<matched.v[1]>>)
        ELSE IF ~s.cmd.upsert THEN Finish(s, "none")
        ELSE upsert(UpsertOf(s.cmd))
  IN  update(Chosen(s.cmd, docs))

MsgDelete(s, docs) ==
  LET delete(found) ==
        IF found.err # "none" \/ found.v = <<>> THEN Finish(s, found.err)
        ELSE [s EXCEPT !.todo = found.v, !.pc = "delete"]
  IN  delete(ResultOf(s.cmd, docs))

\* The reply holds the documents found, or their number.
Reply(s, found) ==
  IF found.err # "none" THEN Finish(s, found.err) ELSE Finish([s EXCEPT !.n = Len(found.v)], "none")

MsgFind(s, docs) == Reply(s, ResultOf(s.cmd, docs))
MsgCount(s, docs) == Reply(s, ResultOf(s.cmd, docs))

Queried(s, docs) ==
  CASE s.cmd.op = "update" -> MsgUpdate(s, docs)
    [] s.cmd.op = "delete" -> MsgDelete(s, docs)
    [] s.cmd.op = "find" -> MsgFind(s, docs)
    [] s.cmd.op = "count" -> MsgCount(s, docs)

-----------------------------------------------------------------------------
(* The Tigris server.                                                      *)

Missing == [here |-> FALSE, schema |-> NullSchema, rows |-> <<>>, version |-> coll.version + 1]

\* A call without an effect, after which client c goes on as s.
Look(c, s) ==
  /\ sess' = [sess EXCEPT ![c] = s]
  /\ UNCHANGED <<db, coll, faults, begun>>

\* A call after which the database and the collection are others; its answer, with which
\* the client goes on as s, may be lost.
Effect(c, s, newDB, newColl) ==
  LET noticed(x) == [x EXCEPT !.seen = IF x.pc = "idle" THEN @ ELSE @ \cup {newColl.here}, !.overlap = TRUE]
      goOn(x) == sess' = [d \in Clients |-> IF d = c THEN [x EXCEPT !.seen = @ \cup {newColl.here}] ELSE noticed(sess[d])]
  IN  /\ db' = newDB /\ coll' = newColl /\ UNCHANGED begun
      /\ \/ goOn(s) /\ UNCHANGED faults
         \/ faults < MaxFaults /\ faults' = faults + 1 /\ goOn(Finish(sess[c], "InternalError"))

\* A call that fails; the command ends with an internal error.
Fault(c) ==
  /\ sess[c].pc # "idle" /\ faults < MaxFaults
  /\ faults' = faults + 1
  /\ sess' = [sess EXCEPT ![c] = Finish(@, "InternalError")]
  /\ UNCHANGED <<db, coll, begun>>

-----------------------------------------------------------------------------
(* Beginning a command, and the calls of CreateCollectionIfNotExist.       *)

\* The handlers up to their first call; the schema of create is that of its validator.
MsgInsert(s) == InsertNext([s EXCEPT !.todo = s.cmd.docs, !.hit = Len(coll.rows)])
MsgCreate(s) == [s EXCEPT !.schema = s.cmd.schema, !.pc = "describeDB"]
MsgCollStats(s) == [s EXCEPT !.pc = "stats"]
MsgDataSize(s) == [s EXCEPT !.pc = "stats"]

Begin(c) ==
  /\ sess[c].pc = "idle" /\ begun < MaxCommands
  /\ begun' = begun + 1
  /\ \E i \in DOMAIN Commands :
       LET cmd == Commands[i]
           s == [Idle EXCEPT !.cmd = cmd, !.seen = {coll.here}]
           first == CASE cmd.op = "insert" -> MsgInsert(s)
                      [] cmd.op = "create" -> MsgCreate(s)
                      [] cmd.op = "collStats" -> MsgCollStats(s)
                      [] cmd.op = "dataSize" -> MsgDataSize(s)
                      [] cmd.op \in {"update", "delete", "find", "count"} -> [s EXCEPT !.pc = "describe"]
                      [] OTHER -> [s EXCEPT !.pc = cmd.op]
       IN  sess' = [sess EXCEPT ![c] = first]
  /\ UNCHANGED <<db, coll, faults>>

\* databaseExists.
DescribeDatabase(c) ==
  /\ sess[c].pc = "describeDB"
  /\ Look(c, [sess[c] EXCEPT !.pc = IF db THEN "exists" ELSE "createDB"])

\* That the database already exists is no error.
CreateDatabase(c) ==
  /\ sess[c].pc = "createDB"
  /\ Effect(c, [sess[c] EXCEPT !.pc = "exists"], TRUE, coll)

\* Faulty variant: an error is taken for a description.
FaultycollectionExists(c) == sess[c].pc = "exists" /\ Look(c, Created(sess[c], FALSE))

collectionExists(c) ==
  /\ sess[c].pc = "exists"
  /\ Look(c, IF coll.here THEN Created(sess[c], FALSE) ELSE [sess[c] EXCEPT !.pc = "createColl"])

\* Faulty variant: the collection gets the schema whatever rows it has.
FaultyCreateOrUpdateCollection(c) ==
  LET s == sess[c]
      new == [here |-> TRUE, schema |-> s.schema, rows |-> coll.rows, version |-> coll.version + 1]
  IN  s.pc = "createColl" /\ Effect(c, Created(s, TRUE), TRUE, new)

\* A collection that is there already is an error, or gets the schema if it may.
CreateOrUpdateCollection(c) ==
  LET s == sess[c]
      new == [here |-> TRUE, schema |-> s.schema, rows |-> coll.rows, version |-> coll.version + 1]
  IN  /\ s.pc = "createColl"
      /\ \/ ~db /\ Look(c, Finish(s, "InternalError"))
         \/ db /\ ~coll.here /\ Effect(c, Created(s, TRUE), TRUE, new)
         \/ db /\ coll.here /\ Look(c, Created(s, FALSE))
         \/ db /\ coll.here /\ GrowsInto(coll.schema, s.schema) /\ Effect(c, Created(s, TRUE), TRUE, new)
         \/ /\ db /\ coll.here /\ ~GrowsInto(coll.schema, s.schema)
            /\ Look(c, Finish(s, IF s.cmd.op = "create" THEN "BadValue" ELSE "InternalError"))

-----------------------------------------------------------------------------
(* Writing and reading documents.                                          *)

\* Insert, for the document todo[1], and the rest of insert.
Insert(c) ==
  LET s == sess[c]
      doc == s.todo[1]
      json == ToJSON(doc)
      after == [s EXCEPT !.todo = Tail(@), !.n = @ + 1]
      refused == ~coll.here \/ ~Fits(json, coll.schema) \/ \E i \in DOMAIN coll.rows : HasIDOf(coll.rows[i], doc)
  IN  /\ s.pc = "insert"
      /\ \/ refused /\ Look(c, Finish(s, "InternalError"))
         \/ ~refused /\ Effect(c, InsertNext(after), db, [coll EXCEPT !.rows = Append(@, [json |-> json, doc |-> doc])])

\* Replace, for the document todo[1], and the rest of the loop: the row with its _id is
\* replaced, or there is one more.
Replace1(c) ==
  LET s == sess[c]
      row == [json |-> ToJSON(s.todo[1]), doc |-> s.todo[1]]
      same == {i \in DOMAIN coll.rows : HasIDOf(coll.rows[i], s.todo[1])}
      rows == IF same = {} THEN Append(coll.rows, row)
              ELSE [i \in DOMAIN coll.rows |-> IF i \in same THEN row ELSE coll.rows[i]]
      after == [s EXCEPT !.todo = Tail(@), !.modified = @ + 1, !.hit = @ + Cardinality(same)]
  IN  /\ s.pc = "replace"
      /\ \/ ~coll.here /\ Look(c, Finish(s, "InternalError"))
         \/ coll.here /\ ~Fits(row.json, coll.schema) /\ Look(c, Finish(s, "DocumentValidationFailure"))
         \/ coll.here /\ Fits(row.json, coll.schema) /\ Effect(c, ReplaceNext(after), db, [coll EXCEPT !.rows = rows])

\* Faulty variant: only the first document is in the filter.
FaultyDoomed(s, row) == HasIDOf(row, s.todo[1])

\* The filter of delete: the documents with one of the _ids.
Doomed(s, row) == \E i \in DOMAIN s.todo : HasIDOf(row, s.todo[i])

\* The places of a set of rows, in their order.
InOrder(places) == {p \in [1..Cardinality(places) -> places] : \A i, j \in DOMAIN p : i < j => p[i] < p[j]}

\* delete: the reply counts the documents that were to be deleted.
Delete(c) ==
  LET s == sess[c]
  IN  /\ s.pc = "delete"
      /\ \/ ~coll.here /\ Look(c, Finish(s, "InternalError"))
         \/ /\ coll.here
            /\ \E left \in InOrder({i \in DOMAIN coll.rows : ~Doomed(s, coll.rows[i])}) :
                 Effect(c, Finish([s EXCEPT !.n = Len(s.todo), !.hit = Len(coll.rows) - Len(left)], "none"), db,
                        [coll EXCEPT !.rows = [i \in DOMAIN left |-> coll.rows[left[i]]]])

\* QueryDocuments, first call: no collection is an empty one.
DescribeCollection(c) ==
  LET s == sess[c]
  IN  /\ s.pc = "describe"
      /\ Look(c, IF coll.here THEN [s EXCEPT !.pc = "read", !.schema = coll.schema, !.version = coll.version]
                 ELSE Queried(s, <<>>))

Orders(n) == {p \in [1..n -> 1..n] : \A i, j \in 1..n : p[i] = p[j] => i = j}

\* QueryDocuments, second call: all documents, in some order, decoded with the schema
\* described before.
Read(c) ==
  /\ sess[c].pc = "read"
  /\ \E order \in Orders(Len(coll.rows)) :
       LET s == [sess[c] EXCEPT !.overlap = FALSE]
           docs == [i \in DOMAIN coll.rows |-> FromJSON(coll.rows[order[i]].json, s.schema)]
       IN  Look(c, IF ~coll.here THEN Finish(s, "InternalError")
                   ELSE IF \E i \in DOMAIN docs : docs[i] = Garbled
                   THEN Finish([s EXCEPT !.misread = s.version = coll.version], "InternalError")
                   ELSE Queried(s, docs))

\* FetchStats: the description, where no collection is an empty one, and then the rows,
\* which are only counted.
FetchStats(c) ==
  \/ /\ sess[c].pc = "stats"
     /\ Look(c, IF coll.here THEN [sess[c] EXCEPT !.pc = "countRows"] ELSE Finish(sess[c], "none"))
  \/ /\ sess[c].pc = "countRows"
     /\ Look(c, IF coll.here THEN Finish([sess[c] EXCEPT !.n = Len(coll.rows)], "none")
                ELSE Finish(sess[c], "InternalError"))

-----------------------------------------------------------------------------
(* Commands of one call or two.                                            *)

DropCollection(c) ==
  /\ sess[c].pc = "drop"
  /\ \/ ~coll.here /\ Look(c, Finish(sess[c], "NamespaceNotFound"))
     \/ coll.here /\ Effect(c, Finish(sess[c], "none"), db, Missing)

DropDatabase(c) ==
  /\ sess[c].pc = "dropDatabase"
  /\ \/ ~db /\ Look(c, Finish(sess[c], "none"))
     \/ db /\ Effect(c, Finish([sess[c] EXCEPT !.n = 1], "none"), FALSE, IF coll.here THEN Missing ELSE coll)

ListCollections(c) ==
  /\ sess[c].pc = "listCollections"
  /\ Look(c, IF db THEN Finish([sess[c] EXCEPT !.n = IF coll.here THEN 1 ELSE 0], "none")
             ELSE Finish(sess[c], "InternalError"))

\* MsgListDatabases: the names, and then the size of each that is still there.
ListDatabases(c) ==
  \/ /\ sess[c].pc = "listDatabases"
     /\ Look(c, IF db THEN [sess[c] EXCEPT !.pc = "listed"] ELSE Finish(sess[c], "none"))
  \/ /\ sess[c].pc = "listed"
     /\ Look(c, Finish([sess[c] EXCEPT !.n = IF db THEN 1 ELSE 0], "none"))

\* MsgDBStats: the description of the database, then FetchStats for each collection.
DBStats(c) ==
  /\ sess[c].pc = "dbStats"
  /\ Look(c, IF db /\ coll.here THEN [sess[c] EXCEPT !.pc = "stats"] ELSE Finish(sess[c], "none"))

Init ==
  /\ db = FALSE
  /\ coll = [here |-> FALSE, schema |-> NullSchema, rows |-> <<>>, version |-> 0]
  /\ sess = [c \in Clients |-> Idle]
  /\ begun = 0 /\ faults = 0

Call(c) ==
  \/ DescribeDatabase(c) \/ CreateDatabase(c) \/ collectionExists(c) \/ CreateOrUpdateCollection(c)
  \/ Insert(c) \/ Replace1(c) \/ Delete(c) \/ DescribeCollection(c) \/ Read(c) \/ FetchStats(c)
  \/ DropCollection(c) \/ DropDatabase(c) \/ ListCollections(c) \/ ListDatabases(c) \/ DBStats(c)

Next == \E c \in Clients : Begin(c) \/ Call(c) \/ Fault(c)

Spec == Init /\ [][Next]_vars

-----------------------------------------------------------------------------
(* Properties.                                                             *)

Done(c, op) == sess[c].pc = "idle" /\ sess[c].cmd.op = op

\* Whatever the server accepts under the collection's schema, FerretDB can read: a query
\* fails to decode a row only if the collection was dropped and came again, or its schema
\* changed, after the query had asked for the schema (QueryDocuments, tjson.Unmarshal).
RowsDecode == \A c \in Clients : ~sess[c].misread

\* create says that it created the collection only if there was a time during the command
\* when it did not exist, and that it exists only if there was one when it did, though the
\* handler checks and creates in separate calls (CreateCollectionIfNotExist).
CreateHonest ==
  \A c \in Clients : Done(c, "create") =>
    /\ sess[c].err = "none" => FALSE \in sess[c].seen
    /\ sess[c].err = "NamespaceExists" => TRUE \in sess[c].seen

\* Unless another client's call comes in between, an insert adds its documents in their order
\* up to the first that fails, and a successful one adds all; only a document whose insertion
\* was not confirmed may be there uncounted (MsgInsert, insert).
InsertIsPrefix ==
  \A c \in Clients : Done(c, "insert") /\ ~sess[c].overlap =>
    LET s == sess[c]
        docs == s.cmd.docs
        added == SubSeq(coll.rows, s.hit + 1, Len(coll.rows))
    IN  \E n \in {s.n, s.n + 1} \cap 0..Len(docs) :
          /\ [i \in DOMAIN added |-> added[i].doc] = SubSeq(docs, 1, n)
          /\ s.err = "none" => n = s.n /\ n = Len(docs)

\* update and delete report the rows that they really changed or removed, unless another
\* client's call came between their read and their write: with one, they count documents
\* that are gone, and update brings them back (MsgUpdate, MsgDelete).
CountsTrueUnlessOverlap ==
  \A c \in Clients :
    /\ Done(c, "update") /\ ~sess[c].overlap => sess[c].modified = sess[c].hit
    /\ Done(c, "delete") /\ ~sess[c].overlap => sess[c].n = sess[c].hit

=============================================================================
