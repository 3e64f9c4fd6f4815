------------------------------ MODULE Gateway -------------------------------
(***************************************************************************)
(* One client connection, end to end: the client's messages as they arrive *)
(* on the stream, conn.run, which reads and answers them one by one, the   *)
(* commands, the rows of the collection, and the log of recent entries.    *)
(*                                                                         *)
(* The client may write a message before an earlier one is answered, stop  *)
(* in the middle of one, and announce one that is too long.                *)
(***************************************************************************)
EXTENDS Wire, Commands

CONSTANTS Requests,     \* the bodies of the messages that the client sends
          Ahead,        \* the places in Requests of those it does not wait for
          Cut,          \* the places in Requests of those it does not finish
          MaxRequests,  \* messages
          LogSize,      \* entries
          Debug         \* whether the log level is debug, as it is by default

ASSUME GatewayAssumption ==
  /\ Debug \in BOOLEAN /\ MaxRequests \in Nat /\ LogSize \in Nat \ {0}
  /\ Ahead \subseteq DOMAIN Requests /\ Cut \subseteq DOMAIN Requests

VARIABLES
  conn,           \* open, closed, or crashed with the whole process
  inbound,        \* what the client has written and the server has not read
  eof,            \* the client writes no more
  outbound,       \* what the server has written and the client has not read
  lastRequestID,  \* conn.lastRequestID
  log,            \* RecentEntries: its slots and index
  store,          \* the JSON of the rows
  sent,           \* the number of messages the client has begun
  answered,       \* the number of replies it has read
  \* What happened, for the properties:
  queue,          \* the bodies in inbound
  recent,         \* the last LogSize levels that were logged
  last            \* the last message and what became of it

vars == <<conn, inbound, eof, outbound, lastRequestID, log, store, sent, answered, queue, recent, last>>

-----------------------------------------------------------------------------
(* The log of recent entries; an entry is its level.                       *)

Levels == [debug |-> -1, info |-> 0, warn |-> 1, error |-> 2, dpanic |-> 3]

NewCircularBuffer == [slots |-> [i \in 0..(LogSize - 1) |-> "nil"], index |-> 0]

\* Faulty variant: the index starts over one slot too early.
FaultyAppendEntry(buffer, level) ==
  [slots |-> [buffer.slots EXCEPT ![buffer.index] = level],
   index |-> IF buffer.index >= LogSize - 2 THEN 0 ELSE buffer.index + 1]

\* circularBuffer.append.
AppendEntry(buffer, level) ==
  [slots |-> [buffer.slots EXCEPT ![buffer.index] = level], index |-> (buffer.index + 1) % LogSize]

\* circularBuffer.get.
RecentEntries(buffer, minLevel) ==
  SelectSeq([i \in 1..LogSize |-> buffer.slots[(i - 1 + buffer.index) % LogSize]],
            LAMBDA l : IF l = "nil" THEN FALSE ELSE Levels[l] >= Levels[minLevel])

\* GetArray: an entry's text says no more than its level.
LogArray(buffer, minLevel) ==
  LET entries == RecentEntries(buffer, minLevel) IN Array([i \in DOMAIN entries |-> String(Levels[entries[i]] + 2)])

\* The logger writes entries of an enabled level only.
Enabled(levels) == SelectSeq(levels, LAMBDA l : Debug \/ l # "debug")

Logged(buffer, levels) == FoldLeft(AppendEntry, buffer, Enabled(levels))

-----------------------------------------------------------------------------
(* Answering.  A response has a body, Absent if there is none, the rows,   *)
(* the levels of the entries written, and whether the connection ends.     *)

Response(body, rows, levels, close, panic) ==
  [body |-> body, rows |-> rows, levels |-> levels, close |-> close, panic |-> panic]

RequestLevels == <<"debug", "debug">>  \* header and message

\* The level of logResponse.
ResponseLevel(doc, close) ==
  IF Get(doc, "ok") = Double(2) THEN "debug" ELSE IF close THEN "error" ELSE "warn"

\* route for OP_MSG.
RouteMsg(outcome) ==
  LET close == ~outcome.write /\ ~IsProtocolError(outcome.err)
      doc == IF outcome.err = "none" THEN outcome.reply ELSE ProtocolDocument(outcome)
      level == ResponseLevel(doc, outcome.err # "none" /\ close)
  IN  IF outcome.err = "panic" THEN Response(Absent, outcome.rows, <<"dpanic">>, TRUE, TRUE)
      ELSE Response(OpMsg({}, <<Kind0(doc)>>), outcome.rows, <<level, level>>, outcome.err # "none" /\ close, FALSE)

\* A response that is no OP_MSG has no document for an error: there is nothing to write,
\* and run panics.
NoResponse(rows) == Response(Absent, rows, <<"error", "debug", "debug", "dpanic">>, TRUE, TRUE)

\* route for OP_QUERY, with CmdQuery, and for the opcodes that are not handled.
RouteOther(body, rows) ==
  IF body.op # "OP_QUERY" THEN NoResponse(rows)
  ELSE IF body.name # "admin.$cmd" \/ Command(body.query) \notin {"ismaster", "isMaster"} THEN NoResponse(rows)
  ELSE Response(OpReply(<<MsgIsMaster>>), rows, <<"debug", "debug">>, FALSE, FALSE)

Route(body, id, rows) ==
  IF body.op = "OP_MSG"
  THEN RouteMsg(Handle(MsgDocument(body.sections), rows, 10 * id, LogArray(Logged(log, RequestLevels), "debug")))
  ELSE RouteOther(body, rows)

\* The rows in an order in which PostgreSQL may return them, and back.
Orders(n) == {p \in [1..n -> 1..n] : \A i, j \in 1..n : p[i] = p[j] => i = j}
RowsIn(order) == [i \in DOMAIN store |-> [at |-> order[i], json |-> store[order[i]]]]
Stored0(rows) == LET sorted == SortSeq(rows, LAMBDA a, b : a.at < b.at) IN [i \in DOMAIN sorted |-> sorted[i].json]

-----------------------------------------------------------------------------
(* The connection.                                                         *)

Nothing == [kind |-> "none"]

Init ==
  /\ conn = "open" /\ inbound = <<>> /\ eof = FALSE /\ outbound = <<>>
  /\ lastRequestID = 0 /\ log = NewCircularBuffer /\ store = <<>>
  /\ sent = 0 /\ answered = 0 /\ queue = <<>> /\ recent = <<>> /\ last = Nothing

\* The client writes a message, after it has read all replies or without waiting.
Send(i) ==
  /\ conn = "open" /\ ~eof /\ sent < MaxRequests
  /\ answered = sent \/ (sent > 0 /\ i \in Ahead /\ outbound = <<>> /\ Len(queue) = 1)
  /\ sent' = sent + 1
  /\ inbound' = inbound \o WriteMessage(sent + 1, 0, Requests[i])
  /\ queue' = Append(queue, Requests[i])
  /\ last' = Nothing
  /\ UNCHANGED <<conn, eof, outbound, lastRequestID, log, store, answered, recent>>

\* The client stops in the middle of a message.
SendPart(i) ==
  /\ conn = "open" /\ ~eof /\ sent < MaxRequests
  /\ answered = sent \/ (sent > 0 /\ outbound = <<>> /\ Len(queue) = 1)
  /\ sent' = sent + 1
  /\ eof' = TRUE
  /\ LET whole == WriteMessage(sent + 1, 0, Requests[i])
     IN  \E n \in {1, MsgHeaderLen, Len(whole) - 1} : inbound' = inbound \o SubSeq(whole, 1, n)
  /\ queue' = Append(queue, [op |-> "part"])
  /\ last' = Nothing
  /\ UNCHANGED <<conn, outbound, lastRequestID, log, store, answered, recent>>

\* The client announces a message that is longer than MaxMsgLen.
SendTooLong(i) ==
  /\ conn = "open" /\ ~eof /\ sent < MaxRequests /\ answered = sent
  /\ sent' = sent + 1
  /\ inbound' = inbound \o [WriteMessage(sent + 1, 0, Requests[i]) EXCEPT ![1] = Cell("int32", MaxMsgLen + 1)]
  /\ queue' = Append(queue, [op |-> "long"])
  /\ last' = Nothing
  /\ UNCHANGED <<conn, eof, outbound, lastRequestID, log, store, answered, recent>>

\* The client closes its side.
SendEnd ==
  /\ conn = "open" /\ ~eof /\ answered = sent
  /\ eof' = TRUE /\ last' = Nothing
  /\ UNCHANGED <<conn, inbound, outbound, lastRequestID, log, store, sent, answered, queue, recent>>

\* ReadMessage fails: run returns, and the caller closes the connection.
Refuse ==
  /\ conn = "open"
  /\ IF HeaderRefused(inbound) THEN TRUE
     ELSE IF Complete(inbound) THEN ReadMessage(inbound).v = Bad ELSE eof
  /\ conn' = "closed"
  /\ last' = [kind |-> "refused", sent |-> queue]
  /\ inbound' = <<>> /\ queue' = <<>>
  /\ UNCHANGED <<eof, outbound, lastRequestID, log, store, sent, answered, recent>>

\* The message has been read, and r is what route returned.
Respond(message, r) ==
  LET all == recent \o Enabled(RequestLevels \o r.levels)
  IN  /\ inbound' = message.rest
      /\ log' = Logged(log, RequestLevels \o r.levels)
      /\ recent' = SubSeq(all, Max({1, Len(all) - LogSize + 1}), Len(all))
      /\ store' = Stored0(r.rows)
      /\ outbound' = IF r.panic THEN outbound
                     ELSE outbound \o WriteMessage(lastRequestID + 1, message.v.id, r.body)
      /\ lastRequestID' = IF r.panic THEN lastRequestID ELSE lastRequestID + 1
      /\ conn' = IF r.panic /\ Debug THEN "crashed" ELSE IF r.close THEN "closed" ELSE "open"
      /\ last' = [kind |-> "served", sent |-> queue, got |-> message.v.body, before |-> store,
                  body |-> r.body, panic |-> r.panic, closed |-> r.close]
      /\ queue' = Tail(queue)

\* One turn of the loop of run.  A recovered panic is logged with DPanic, which at the debug
\* level panics again and ends the process.
Serve ==
  /\ conn = "open"
  /\ Complete(inbound) /\ ~HeaderRefused(inbound)
  /\ LET message == ReadMessage(inbound)
     IN  /\ message.v # Bad
         /\ \E order \in Orders(Len(store)) :
              Respond(message, Route(message.v.body, message.v.id, RowsIn(order)))
  /\ UNCHANGED <<eof, sent, answered>>

\* The client reads a reply.
Collect ==
  /\ outbound # <<>>
  /\ outbound' = ReadMessage(outbound).rest
  /\ answered' = answered + 1
  /\ last' = Nothing
  /\ UNCHANGED <<conn, inbound, eof, lastRequestID, log, store, sent, queue, recent>>

Next ==
  \/ \E i \in DOMAIN Requests : Send(i)
  \/ \E i \in Cut : SendPart(i) \/ SendTooLong(i)
  \/ SendEnd
  \/ Refuse
  \/ Serve
  \/ Collect

Spec == Init /\ [][Next]_vars

-----------------------------------------------------------------------------
(* What the properties speak of.                                           *)

Decoded(rows) == [i \in DOMAIN rows |-> Unmarshal(rows[i])]
Before == Decoded(last.before)
After == Decoded(store)

\* The command the client sent last, and its reply.
Asked == MsgDocument(last.sent[1].sections)
Served(command) ==
  IF last.kind # "served" THEN FALSE ELSE IF last.sent[1].op # "OP_MSG" THEN FALSE ELSE Command(Asked) = command
Reply == IF last.panic THEN Document(<<>>) ELSE last.body.sections[1].docs[1]
Succeeded == Get(Reply, "ok") = Double(2) /\ ~Has(Reply, "writeErrors")

\* The only statement of an update or a delete.
Statement(key) == Get(Asked, key).e[1]

\* Whether each document has the value of a scalar for every key of the sort.
Sortable(docs, sort) ==
  \A i \in DOMAIN docs : \A j \in DOMAIN sort.d : IsScalar(Get(docs[i], sort.d[j][1]))

Count(docs, doc) == Len(SelectSeq(docs, LAMBDA d : d = doc))

Matching(docs, filter) == SelectSeq(docs, LAMBDA d : FilterDocument(d, filter) = "yes")

\* The places of the documents that match.
Rows(docs, filter) == {i \in DOMAIN docs : FilterDocument(docs[i], filter) = "yes"}

\* Which of the named pairs of a document and a filter match.
Answers(pairs) == [k \in DOMAIN pairs |-> FilterDocument(pairs[k][1], pairs[k][2]) = "yes"]

RECURSIVE Replies(_)
Replies(stream) ==
  LET first(m) == <<m.v>> \o Replies(m.rest) IN IF stream = <<>> THEN <<>> ELSE first(ReadMessage(stream))

-----------------------------------------------------------------------------
(* Properties.                                                             *)

\* Whatever the client writes ahead, the server handles each message as it was sent, one
\* after the other: it never takes the rest of one message for the beginning of another,
\* never handles a part of a message, and refuses only what was cut off or is too long
\* (ReadMessage, OpMsg.readFrom with its checksum, Document.ReadFrom).
HandledAsSent ==
  /\ last.kind = "refused" => last.sent = <<>> \/ last.sent[1].op \in {"part", "long"}
  /\ last.kind = "served" => last.got = last.sent[1]

\* The replies on the stream answer the requests in their order and without gaps, the
\* client decodes each to what the server built, and a connection that is closed without
\* a panic is closed after a reply that says InternalError (route, WriteMessage).
RepliesInOrder ==
  LET good(replies) ==
        /\ \A i \in DOMAIN replies : replies[i] # Bad /\ replies[i].to = answered + i /\ replies[i].id = answered + i
        /\ IF last.kind # "served" THEN TRUE ELSE
             ~last.panic =>
               /\ replies[Len(replies)].body = last.body
               /\ last.closed => Get(Reply, "code") = Int32(Codes.InternalError)
  IN  good(Replies(outbound))

\* An insert keeps exactly the documents before the first value that is no document and
\* reports an error if there is one; they read back as they were sent, with _id first
\* (MsgInsert, fjson.Marshal and Unmarshal).
InsertKeepsPrefix ==
  LET docs == Get(Asked, "documents").e
      wrong == {i \in DOMAIN docs : docs[i].t # "document"}
      idFirst(d) == Document(SelectSeq(d.d, LAMBDA p : p[1] = "_id") \o SelectSeq(d.d, LAMBDA p : p[1] # "_id"))
  IN  IF ~Served("insert") THEN TRUE
      ELSE IF NamespaceError(Asked) # "none" \/ Get(Asked, "documents").t # "array" THEN store = last.before
      ELSE /\ After = Before \o [i \in 1..(IF wrong = {} THEN Len(docs) ELSE Min(wrong) - 1) |-> idFirst(docs[i])]
           /\ Succeeded <=> wrong = {}

\* Whatever commands have run, every row decodes to a valid document whose _id comes first
\* and which, written back, decodes to the same document (InsertDocument, SetDocumentByID,
\* Document.Set, fjson).
StoreReadable ==
  \A i \in DOMAIN store :
    LET doc == Unmarshal(store[i])
    IN  /\ doc.t = "document" /\ Valid(doc)
        /\ Has(doc, "_id") => doc.d[1][1] = "_id"
        /\ Unmarshal(Marshal(doc)) = doc

\* In whatever order the rows come, find returns as many of the matching documents as the
\* limit allows, each no more often than it is stored; no document comes before one that
\* sorts before it, and none that is left out sorts before one that is not.  count counts
\* the same documents.  The limit is the number that was sent: one that is no whole number,
\* or does not fit, is refused (MsgFind, SortDocuments, GetWholeNumberParam, LimitDocuments,
\* MsgCount).
FindExact ==
  LET filter == OrEmpty(Get(Asked, IF Served("find") THEN "filter" ELSE "query"))
      sort == OrEmpty(Get(Asked, "sort"))
      asked == Get(Asked, "limit")
      limit == IF asked = Absent THEN 0 ELSE Halves(asked) \div 2
      allowed(n) == IF limit > 0 /\ limit < n THEN limit ELSE n
      first(batch, all) ==
        /\ Len(batch) = allowed(Len(all))
        /\ ~Has(Asked, "projection") =>
             /\ \A i \in DOMAIN batch : Count(batch, batch[i]) <= Count(all, batch[i])
             /\ Sortable(all, sort) =>
                  /\ \A i, j \in DOMAIN batch : i < j => ~Less(sort, batch[j], batch[i])
                  /\ \A i \in DOMAIN all : Count(batch, all[i]) < Count(all, all[i]) =>
                       \A j \in DOMAIN batch : ~Less(sort, all[i], batch[j])
      exact(all) == IF Served("count") THEN Get(Reply, "n") = Int32(allowed(Len(all)))
                    ELSE first(Get(Get(Reply, "cursor"), "firstBatch").e, all)
  IN  IF ~(Served("find") \/ Served("count")) THEN TRUE
      ELSE IF ~Succeeded THEN TRUE
      ELSE IF asked # Absent /\ ~IsWholeNumber(asked) THEN FALSE
      ELSE exact(Matching(Before, filter))

\* What find projects is a stored document with its keys in their order: a field that is
\* included, or not named when none is included, as it is stored, an excluded one not,
\* _id always unless it is excluded, and of an array with an operator nothing or a contiguous
\* part (projectDocument, filterFieldArraySlice, filterFieldArrayElemMatch).
ProjectionHonest ==
  LET projection == Get(Asked, "projection")
      named(k) == Get(projection, k)
      includes(v) == Mode(v) = "include" \/ (v.t = "document" /\ Has(v, "$elemMatch"))
      inclusion == \E i \in DOMAIN projection.d : projection.d[i][1] # "_id" /\ includes(projection.d[i][2])
      kept(k) == IF Has(projection, k) THEN Mode(named(k)) # "exclude" ELSE ~inclusion \/ k = "_id"
      part(a, b) == \E i \in 0..Len(b.e) : SubSeq(b.e, i + 1, i + Len(a.e)) = a.e
      whole(k) == ~Has(projection, k) \/ Mode(named(k)) # "operator"
      of(b, d) ==
        /\ Keys(b) = SelectSeq(Keys(d), LAMBDA k : kept(k) /\ (whole(k) \/ Has(b, k)))
        /\ \A i \in DOMAIN b.d :
             LET k == b.d[i][1]
             IN  IF whole(k) \/ Get(d, k).t # "array" THEN b.d[i][2] = Get(d, k) ELSE part(b.d[i][2], Get(d, k))
      batch == Get(Get(Reply, "cursor"), "firstBatch").e
  IN  IF ~Served("find") THEN TRUE
      ELSE IF ~Succeeded \/ projection = Absent THEN TRUE
      ELSE \A i \in DOMAIN batch : \E j \in DOMAIN Before : of(batch[i], Before[j])

\* The stored documents obey the laws of the filter language, for the filter asked for: the
\* conditions of a filter are ANDed, and $and, $or and $nor are what they say
\* (FilterDocument, filterOperator).  Among documents with scalars, a is greater than
\* another's exactly if that one is less, $gte is $gt or $eq, $in is one of several $eq,
\* and $ne the opposite of $eq (filterFieldExpr, Compare).
FilterLaws ==
  LET is(k, v) == Document(<< <<k, v>> >>)
      f == OrEmpty(Get(Asked, "filter"))
      g == is("a", Int32(1))
      both(op) == is(op, Array(<<f, g>>))
      plain == SelectSeq(After, LAMBDA d : IsScalar(Get(d, "a")))
      connected(yes) == /\ ~Has(f, "a") => (yes.all <=> yes.f /\ yes.g)
                        /\ yes.and <=> yes.f /\ yes.g
                        /\ yes.or <=> yes.f \/ yes.g
                        /\ yes.nor <=> ~yes.f /\ ~yes.g
      compared(yes) == /\ yes.gt <=> yes.lt
                       /\ yes.eq <=> yes.sym
                       /\ yes.gte <=> yes.gt \/ yes.eq
                       /\ yes.in <=> yes.self \/ yes.eq
                       /\ yes.ne <=> ~yes.eq
      filters == [f |-> f, g |-> g, all |-> Document(f.d \o g.d), and |-> both("$and"), or |-> both("$or"),
                  nor |-> both("$nor")]
      tests(d, e, x, y) ==
        [gt |-> <<d, "$gt", y>>, lt |-> <<e, "$lt", x>>, eq |-> <<d, "$eq", y>>, sym |-> <<e, "$eq", x>>,
         gte |-> <<d, "$gte", y>>, in |-> <<d, "$in", Array(<<x, y>>)>>, self |-> <<d, "$eq", x>>, ne |-> <<d, "$ne", y>>]
      answers(t) == [k \in DOMAIN t |-> <<t[k][1], is("a", is(t[k][2], t[k][3]))>>]
  IN  /\ IF ~Served("find") THEN TRUE
         ELSE IF ~Succeeded \/ f.d = <<>> THEN TRUE
         ELSE \A i \in DOMAIN After : connected(Answers([k \in DOMAIN filters |-> <<After[i], filters[k]>>]))
      /\ IF last.kind # "served" THEN TRUE
         ELSE IF After = Before THEN TRUE
         ELSE \A i, j \in DOMAIN plain :
                compared(Answers(answers(tests(plain[i], plain[j], Get(plain[i], "a"), Get(plain[j], "a")))))

\* The rows whose _id no other row has.
OnlyID(i) == \A j \in DOMAIN Before : j # i => Get(Before[j], "_id") # Get(Before[i], "_id")

\* A successful update with one of $set, $unset, $inc and $pop reports as modified just the
\* rows that changed, if no two have the same _id.  Each matched row - one of them, without
\* multi - then has the value that was set or lacks the field that was unset, and the
\* fields that the update does not name are as before (update, processSetFieldExpression,
\* SetByPath).
SetTakesEffect ==
  LET st == Statement("updates")
      op == Get(st, "u").d[1]
      key == op[2].d[1][1]
      value == op[2].d[1][2]
      effective(rows, done) ==
        IF Get(st, "multi") = Bool(TRUE) THEN rows \subseteq done ELSE rows # {} => rows \cap done # {}
      others(d) == [k \in ToSet(Keys(d)) \ {Path(key)[1]} |-> Get(d, k)]
  IN  IF ~Served("update") THEN TRUE
      ELSE IF ~Succeeded \/ Has(Reply, "upserted") THEN TRUE
      ELSE IF Len(Get(st, "u").d) # 1 THEN TRUE
      ELSE op[1] \in {"$set", "$unset", "$inc", "$pop"} =>
             /\ (\A i \in DOMAIN Before : OnlyID(i)) =>
                  Get(Reply, "nModified") = Int32(Cardinality({i \in DOMAIN Before : After[i] # Before[i]}))
             /\ effective(Rows(Before, Get(st, "q")),
                          CASE op[1] = "$set" -> Rows(After, Document(<< <<key, value>> >>))
                            [] op[1] = "$unset" -> {i \in DOMAIN After : ~HasByPath(After[i], Path(key))}
                            [] OTHER -> DOMAIN After)
             /\ \A i \in DOMAIN Before : OnlyID(i) => others(After[i]) = others(Before[i])

\* Also when it fails halfway, an update leaves each row either as it was or as the whole
\* update of a document that matched, and writes to no row with another _id than that
\* document then has (update, SetDocumentByID).  A replacement may keep a key that the new
\* document lacks, but only one that directly follows a key it removed (UpdateDocument).
UpdateWholeRows ==
  LET st == Statement("updates")
      u == OrEmpty(Get(st, "u"))
      left(d, result) == {k \in DOMAIN d.d : d.d[k][1] # "_id" /\ ~Has(u, d.d[k][1]) /\ Has(result, d.d[k][1])}
      from(i, rows, result) == {j \in rows : result[j] = After[i] /\ Get(result[j], "_id") = Get(Before[i], "_id")}
      whole(i, rows, result) ==
        \E j \in from(i, rows, result) :
          (u.d = <<>> \/ u.d[1][1] \notin Operators) =>
             \A k \in left(Before[j], result[j]) : k > 1 /\ ~Has(After[i], Before[j].d[k - 1][1])
  IN  IF ~Served("update") THEN TRUE
      ELSE /\ Len(After) >= Len(Before)
           /\ \A i \in DOMAIN Before :
                After[i] # Before[i] =>
                  whole(i, Rows(Before, Get(st, "q")), [j \in DOMAIN Before |-> UpdateDocument(Before[j], u).doc])

\* A delete removes the rows that a statement which ran without error matches - as many as
\* its limit - and no other; its n is their number.  With ordered, no statement after the
\* first failed one has run (MsgDelete, delete, DeleteDocumentsByID).
DeleteExact ==
  LET sts == Get(Asked, "deletes").e
      errors == IF Has(Reply, "writeErrors") THEN Get(Reply, "writeErrors").e ELSE <<>>
      failed == {Get(errors[i], "index").n + 1 : i \in DOMAIN errors}
      ran == {i \in DOMAIN sts \ failed : Get(Asked, "ordered") = Bool(FALSE) \/ \A e \in failed : i < e}
      ids(docs) == {Get(docs[i], "_id") : i \in DOMAIN docs}
      limits == {OptionalLimit(sts[i]).v : i \in ran}
      removed(hit) ==
        /\ limits \subseteq {0} => After = SelectSeq(Before, LAMBDA d : Get(d, "_id") \notin hit)
        /\ \A n \in limits \ {0} :
             /\ Cardinality(ids(Before) \ ids(After)) = Min({n, Cardinality(hit)})
             /\ After = SelectSeq(Before, LAMBDA d : Get(d, "_id") \notin hit \ ids(After))
  IN  IF ~Served("delete") THEN TRUE
      ELSE IF Get(Reply, "ok") # Double(2) THEN TRUE
      ELSE /\ Get(Reply, "n") = Int32(Len(Before) - Len(After))
           /\ removed(UNION {ids(Matching(Before, Get(sts[i], "q"))) : i \in ran})

\* findAndModify returns a stored document that matches and that no other one sorts before:
\* as it was, unless new is set, and then as it is now; after an upsert of a document that
\* was not there, and only then, the new one is among the rows and was not before.  Removing
\* returns a document with whose _id there is none any more (MsgFindAndModify).
ModifyReturns ==
  LET value == Get(Reply, "value")
      sort == OrEmpty(Get(Asked, "sort"))
      new == GetBoolOptionalParam(Asked, "new").v
      returned(found) ==
        IF found = <<>> /\ ~GetBoolOptionalParam(Asked, "upsert").v THEN value = Absent /\ store = last.before
        ELSE IF found = <<>> THEN After = Append(Before, value)
        ELSE IF new THEN Contains(After, value) /\ \E i \in DOMAIN found : Get(found[i], "_id") = Get(value, "_id")
        ELSE /\ Contains(found, value)
             /\ Sortable(Before, sort) => \A i \in DOMAIN found : ~Less(sort, found[i], value)
             /\ Has(Asked, "remove") => \A i \in DOMAIN After : Get(After[i], "_id") # Get(value, "_id")
  IN  IF ~Served("findAndModify") THEN TRUE
      ELSE IF ~Succeeded THEN TRUE
      ELSE returned(Matching(Before, Get(Asked, "query")))

\* The buffer of recent entries holds the last ones in the order in which they were written,
\* also when it has gone round (circularBuffer.append, get).
RecentInOrder == RecentEntries(log, "debug") = recent

=============================================================================
