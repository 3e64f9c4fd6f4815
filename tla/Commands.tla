------------------------------ MODULE Commands ------------------------------
(***************************************************************************)
(* The PostgreSQL handler's commands on one collection: what they make of  *)
(* a request document and the rows of the collection's table.  How the     *)
(* same commands interleave with each other is in Catalog, Documents and   *)
(* Fetch; here a command runs alone and no statement of it fails.          *)
(*                                                                         *)
(* A row is a JSON document and its place at among the rows, which are in  *)
(* the order in which PostgreSQL returns them.  An outcome is the reply,   *)
(* the rows, and the error: a code, whether it is a write error, or        *)
(* "panic".  An error without a code becomes an InternalError.             *)
(***************************************************************************)
EXTENDS Filter, Update, Projection, Fjson

CONSTANTS FetchedSliceCapacity  \* rows

Codes == [InternalError |-> 1, BadValue |-> 2, FailedToParse |-> 9, TypeMismatch |-> 14,
          NamespaceNotFound |-> 26, UnsuitableValueType |-> 28, ConflictingUpdateOperators |-> 40,
          CommandNotFound |-> 59, InvalidNamespace |-> 73, NotImplemented |-> 238,
          SortBadValue |-> 15974, SortBadOrder |-> 15975, InvalidArg |-> 28667, SliceFirstArg |-> 28724,
          ProjectionInEx |-> 31253, ProjectionExIn |-> 31254, FreeMonitoringDisabled |-> 50840,
          RegexOptions |-> 51075, RegexMissingParen |-> 51091]

\* An error of the protocol keeps its code; any other one is internal.
IsProtocolError(err) == err = "errUnset" \/ (err \in DOMAIN Codes /\ err # "InternalError")
CodeOf(err) == IF err \in DOMAIN Codes THEN Codes[err] ELSE Codes.InternalError

\* The wording of messages.
Wording == String(0)

\* The ok field of a reply.
Ok == <<"ok", Double(2)>>

Done(doc, rows) == [reply |-> doc, rows |-> rows, err |-> "none", write |-> FALSE]
Failed(err, write, rows) == [reply |-> Absent, rows |-> rows, err |-> err, write |-> write]

\* The first of several errors.
FirstError(errs) == Decision(errs, "none")

-----------------------------------------------------------------------------
(* Error documents.                                                        *)

\* WriteErrors.Document; an index of -1 is none.
WriteErrors(errs) ==
  LET one(e) == Document((IF e[1] < 0 THEN <<>> ELSE << <<"index", Int32(e[1])>> >>)
                         \o << <<"code", Int32(CodeOf(e[2]))>>, <<"errmsg", Wording>> >>)
  IN  Document(<<Ok, <<"writeErrors", Array([i \in DOMAIN errs |-> one(errs[i])])>> >>)

\* Error.Document; the code is left out where it is unset.
ErrorDocument(err) ==
  Document(<< <<"ok", Double(0)>>, <<"errmsg", Wording>> >>
           \o IF err = "errUnset" THEN <<>>
              ELSE << <<"code", Int32(CodeOf(err))>>, <<"codeName", String(CodeOf(err))>> >>)

\* The document that ProtocolError makes of an outcome's error.
ProtocolDocument(outcome) ==
  IF outcome.write THEN WriteErrors(<< <<-1, outcome.err>> >>) ELSE ErrorDocument(outcome.err)

-----------------------------------------------------------------------------
(* Rows.                                                                   *)

RECURSIVE SameJson(_, _)
SameJson(a, b) ==
  /\ a.j = b.j
  /\ IF a.j = "object"
     THEN DOMAIN a.v = DOMAIN b.v /\ \A k \in DOMAIN a.v : SameJson(a.v[k], b.v[k])
     ELSE a.v = b.v

\* _jsonb->'_id' = id
HasID(row, id) == "_id" \in DOMAIN row.json.v /\ SameJson(row.json.v["_id"], Marshal(id))

InsertDocument(rows, doc) ==
  Append(rows, [at |-> 1 + Max({0} \cup {rows[i].at : i \in DOMAIN rows}), json |-> MarshalDocument(doc)])

\* Faulty variant: the row of another document is written.
FaultySetDocumentByID(rows, doc) == [i \in DOMAIN rows |-> [rows[i] EXCEPT !.json = MarshalDocument(doc)]]

\* All rows with the _id of doc become doc.
SetDocumentByID(rows, doc) ==
  [i \in DOMAIN rows |->
     IF HasID(rows[i], Get(doc, "_id")) THEN [rows[i] EXCEPT !.json = MarshalDocument(doc)] ELSE rows[i]]

DeleteDocumentsByID(rows, ids) ==
  SelectSeq(rows, LAMBDA row : ~\E i \in DOMAIN ids : HasID(row, ids[i]))

\* The number of rows with the id.
CountID(rows, id) == Len(SelectSeq(rows, LAMBDA row : HasID(row, id)))

\* QueryDocuments.
Fetched(rows) == [i \in DOMAIN rows |-> Unmarshal(rows[i].json)]

\* The documents that match, or the first error of fetching and filtering.
Filtered(docs, filter) ==
  AnsweredYes(docs, [i \in DOMAIN docs |->
                       IF docs[i] = Undecoded THEN "InternalError" ELSE FilterDocument(docs[i], filter)])

-----------------------------------------------------------------------------
(* Parameters that several commands have.                                  *)

Unimplemented(doc, fields) == IF \E f \in fields : Has(doc, f) THEN "NotImplemented" ELSE "none"

\* A document or nil, which is Absent.
OptionalDocument(doc, key) ==
  LET v == Get(doc, key) IN IF v.t \in {"absent", "document"} THEN Result(v) ELSE Failure(Absent, "TypeMismatch")

OptionalArray(doc, key) == GetOptionalParam(doc, key, Array(<<>>))

\* An empty document where nil behaves like one.
OrEmpty(doc) == IF doc = Absent THEN Document(<<>>) ELSE doc

OptionalLimit(doc) == IF Has(doc, "limit") THEN GetWholeNumberParam(Get(doc, "limit")) ELSE Result(0)

NamespaceError(doc) ==
  IF GetRequiredParam(doc, "$db", "string").err # "none" \/ Get(doc, Command(doc)).t # "string"
  THEN "BadValue" ELSE "none"

\* The comments of the command and of the filter; without a filter the second one panics.
CommentError(doc, filter) ==
  IF GetOptionalParam(doc, "comment", Wording).err # "none" THEN "TypeMismatch"
  ELSE IF filter = Absent THEN "panic"
  ELSE GetOptionalParam(filter, "$comment", Wording).err

-----------------------------------------------------------------------------
(* insert, find and count.                                                 *)

\* Faulty variant: nothing is kept when one of the documents is refused.
FaultyMsgInsert(doc, rows) ==
  LET docs == OptionalArray(doc, "documents")
  IN  IF NamespaceError(doc) # "none" THEN Failed(NamespaceError(doc), FALSE, rows)
      ELSE IF docs.err # "none" THEN Failed(docs.err, FALSE, rows)
      ELSE IF \E i \in DOMAIN docs.v.e : docs.v.e[i].t # "document" THEN Failed("BadValue", FALSE, rows)
      ELSE Done(Document(<< <<"n", Int32(Len(docs.v.e))>>, Ok>>), FoldLeft(InsertDocument, rows, docs.v.e))

\* Every document is inserted in a transaction of its own; the first value that is not a
\* document ends the command.
MsgInsert(doc, rows) ==
  LET docs == OptionalArray(doc, "documents")
      wrong == {i \in DOMAIN docs.v.e : docs.v.e[i].t # "document"}
      n == IF wrong = {} THEN Len(docs.v.e) ELSE Min(wrong) - 1
      inserted == FoldLeft(InsertDocument, rows, SubSeq(docs.v.e, 1, n))
      err == FirstError(<<NamespaceError(doc), docs.err>>)
  IN  IF err # "none" THEN Failed(err, FALSE, rows)
      ELSE IF wrong # {} THEN Failed("BadValue", FALSE, inserted)
      ELSE Done(Document(<< <<"n", Int32(n)>>, Ok>>), inserted)

FindReply(doc, rows, found) ==
  LET cursor == Document(<< <<"firstBatch", Array(found.v)>>, <<"id", Int64(0)>>, <<"ns", Get(doc, Command(doc))>> >>)
  IN  IF found.err # "none" THEN Failed(found.err, FALSE, rows)
      ELSE Done(Document(<< <<"cursor", cursor>>, Ok>>), rows)

\* maxTimeMS is only validated: what the timeout does is in Fetch.
MsgFind(doc, rows) ==
  LET filter == OptionalDocument(doc, "filter")
      sort == OptionalDocument(doc, "sort")
      projection == OptionalDocument(doc, "projection")
      limit == OptionalLimit(doc)
      refused == FirstError(<<Unimplemented(doc, {"skip", "returnKey", "showRecordId", "tailable", "oplogReplay",
                                "noCursorTimeout", "awaitData", "allowPartialResults", "collation",
                                "allowDiskUse", "let"}),
                              filter.err, sort.err, projection.err,
                              GetOptionalPositiveNumber(doc, "maxTimeMS").err, limit.err,
                              NamespaceError(doc), CommentError(doc, OrEmpty(filter.v))>>)
  IN  IF refused # "none" THEN Failed(refused, FALSE, rows)
      ELSE FindReply(doc, rows,
             Then(Then(Then(Filtered(Fetched(rows), OrEmpty(filter.v)),
                            LAMBDA docs : SortDocuments(docs, OrEmpty(sort.v))),
                       LAMBDA docs : LimitDocuments(docs, limit.v)),
                  LAMBDA docs : ProjectDocuments(docs, OrEmpty(projection.v))))

MsgCount(doc, rows) ==
  LET filter == OptionalDocument(doc, "query")
      limit == OptionalLimit(doc)
      refused == FirstError(<<Unimplemented(doc, {"skip", "collation"}), filter.err, limit.err, NamespaceError(doc)>>)
      reply(found) == IF found.err # "none" THEN Failed(found.err, FALSE, rows)
                      ELSE Done(Document(<< <<"n", Int32(Len(found.v))>>, Ok>>), rows)
  IN  IF refused # "none" THEN Failed(refused, FALSE, rows)
      ELSE reply(Then(Filtered(Fetched(rows), OrEmpty(filter.v)), LAMBDA docs : LimitDocuments(docs, limit.v)))

-----------------------------------------------------------------------------
(* update and delete.  The statements of a command run one after another;  *)
(* s holds the command's variables.                                        *)

\* The result r of UpdateDocument for one document is written; without an _id it cannot be.
UpdateOne(s, r) ==
  IF s.err # "none" THEN s
  ELSE IF r.err # "none" THEN [s EXCEPT !.err = r.err, !.write = r.write]
  ELSE IF ~r.changed THEN s
  ELSE IF ~Has(r.doc, "_id") THEN [s EXCEPT !.err = "panic"]
  ELSE [s EXCEPT !.rows = SetDocumentByID(@, r.doc), !.modified = @ + CountID(s.rows, Get(r.doc, "_id"))]

\* No document matched: the filter itself, updated, is inserted.
UpsertOne(s, r, fresh) ==
  LET doc == IF Has(r.doc, "_id") THEN r.doc ELSE Set(r.doc, "_id", ObjectID(fresh + Len(s.rows)))
      entry == Document(<< <<"_id", Get(doc, "_id")>>, <<"index", Int32(0)>> >>)
  IN  IF r.err # "none" THEN [s EXCEPT !.err = r.err, !.write = r.write]
      ELSE [s EXCEPT !.rows = InsertDocument(@, doc), !.matched = @ + 1, !.upserted = Append(@, entry)]

\* What a statement does with the documents that match.
WriteMatched(s, matched, q, u, upsert, multi, fresh) ==
  LET found == matched.v
      chosen == IF multi \/ Len(found) <= 1 THEN found ELSE <<found[1]>>
  IN  IF matched.err # "none" THEN [s EXCEPT !.err = matched.err]
      ELSE IF found # <<>>
      THEN FoldLeft(LAMBDA x, d : UpdateOne(x, UpdateDocument(d, u)), [s EXCEPT !.matched = @ + Len(chosen)], chosen)
      ELSE IF upsert THEN UpsertOne(s, UpdateDocument(q, u), fresh) ELSE s

UpdateStatement(doc, s, st, fresh) ==
  LET q == OptionalDocument(st, "q")
      u == OptionalDocument(st, "u")
      upsert == GetOptionalParam(st, "upsert", Bool(FALSE))
      multi == GetOptionalParam(st, "multi", Bool(FALSE))
      early == FirstError(<<Unimplemented(st, {"c", "collation", "arrayFilters", "hint"}), q.err, u.err,
                            CommentError(doc, q.v)>>)
      invalid == IF u.v = Absent THEN "none" ELSE ValidateUpdateOperators(u.v)
      late == FirstError(<<upsert.err, multi.err>>)
  IN  IF s.err # "none" THEN s
      ELSE IF st.t # "document" THEN [s EXCEPT !.err = "BadValue"]
      ELSE IF early # "none" THEN [s EXCEPT !.err = early]
      ELSE IF invalid # "none" THEN [s EXCEPT !.err = invalid, !.write = TRUE]
      ELSE IF late # "none" THEN [s EXCEPT !.err = late]
      ELSE WriteMatched(s, Filtered(Fetched(s.rows), q.v), q.v, OrEmpty(u.v), upsert.v = Bool(TRUE),
                        multi.v = Bool(TRUE), fresh)

UpdateReply(s) ==
  LET upserted == IF s.upserted = <<>> THEN <<>> ELSE << <<"upserted", Array(s.upserted)>> >>
  IN  IF s.err # "none" THEN Failed(s.err, s.write, s.rows)
      ELSE Done(Document(<< <<"n", Int32(s.matched)>> >> \o upserted \o << <<"nModified", Int32(s.modified)>>, Ok>>), s.rows)

MsgUpdate(doc, rows, fresh) ==
  LET updates == OptionalArray(doc, "updates")
      refused == FirstError(<<Unimplemented(doc, {"let"}), NamespaceError(doc), updates.err>>)
      start == [rows |-> rows, matched |-> 0, modified |-> 0, upserted |-> <<>>, err |-> "none", write |-> FALSE]
  IN  IF refused # "none" THEN Failed(refused, FALSE, rows)
      ELSE UpdateReply(FoldLeft(LAMBDA s, st : UpdateStatement(doc, s, st, fresh), start, updates.v.e))

\* The messages of the fetching goroutine.
Batches(docs) ==
  LET c == FetchedSliceCapacity
  IN  [b \in 1..((Len(docs) + c - 1) \div c) |-> SubSeq(docs, (b - 1) * c + 1, Min({b * c, Len(docs)}))]

\* The documents found so far are deleted.
DeleteFound(s, found) ==
  LET ids == [i \in DOMAIN found.v |-> Get(found.v[i], "_id")]
      rows == DeleteDocumentsByID(s.rows, ids)
  IN  IF found.err # "none" THEN [s EXCEPT !.err = found.err]
      ELSE IF Contains(ids, Absent) THEN [s EXCEPT !.err = "panic"]
      ELSE [s EXCEPT !.rows = rows, !.n = @ + Len(s.rows) - Len(rows), !.found = found.v]

\* One message: what matches is deleted together with what was found before.
DeleteBatch(s, batch, filter, limit) ==
  IF s.err # "none" THEN s
  ELSE DeleteFound(s, Then(Filtered(batch, filter), LAMBDA docs : LimitDocuments(s.found \o docs, limit)))

\* processQuery.
DeleteStatement(doc, s, st) ==
  LET q == OptionalDocument(st, "q")
      limit == OptionalLimit(st)
      refused == FirstError(<<Unimplemented(st, {"collation", "hint"}), q.err, limit.err, NamespaceError(doc),
                              CommentError(doc, q.v)>>)
      batches == Batches(Fetched(s.rows))
  IN  IF st.t # "document" THEN [s EXCEPT !.err = "BadValue"]
      ELSE IF refused # "none" THEN [s EXCEPT !.err = refused]
      ELSE FoldLeft(LAMBDA x, b : DeleteBatch(x, b, q.v, limit.v), [s EXCEPT !.found = <<>>], batches)

\* The error of a statement is noted with its place.
Noted(s) == [s EXCEPT !.at = @ + 1, !.errors = IF s.err = "none" THEN @ ELSE Append(@, <<s.at, s.err>>)]

\* Faulty variant: the statements after a failed one run although ordered is set.
FaultyDeleteNext(doc, ordered, s, st) ==
  IF s.err = "panic" THEN s ELSE Noted(DeleteStatement(doc, [s EXCEPT !.err = "none"], st))

\* The loop over the statements; a failed one ends it if they are ordered.
DeleteNext(doc, ordered, s, st) ==
  IF s.err = "panic" \/ (ordered /\ s.errors # <<>>) THEN s
  ELSE Noted(DeleteStatement(doc, [s EXCEPT !.err = "none"], st))

DeleteReply(s) ==
  IF s.err = "panic" THEN Failed("panic", FALSE, s.rows)
  ELSE Done(Set(IF s.errors = <<>> THEN Document(<<Ok>>) ELSE WriteErrors(s.errors), "n", Int32(s.n)), s.rows)

MsgDelete(doc, rows) ==
  LET deletes == OptionalArray(doc, "deletes")
      ordered == GetOptionalParam(doc, "ordered", Bool(TRUE))
      refused == FirstError(<<Unimplemented(doc, {"let"}), deletes.err, ordered.err>>)
      start == [rows |-> rows, n |-> 0, found |-> <<>>, at |-> 0, errors |-> <<>>, err |-> "none"]
  IN  IF refused # "none" THEN Failed(refused, FALSE, rows)
      ELSE DeleteReply(FoldLeft(LAMBDA s, st : DeleteNext(doc, ordered.v = Bool(TRUE), s, st), start, deletes.v.e))

-----------------------------------------------------------------------------
(* findAndModify.                                                          *)

\* The error of prepareFindAndModifyParams, and whether it is a write error.
FindAndModifyError(doc) ==
  LET flag(key) == GetBoolOptionalParam(doc, key)
      remove == flag("remove").v
      update == Get(doc, "update")
      query == OptionalDocument(doc, "query")
      required == IF NamespaceError(doc) # "none" THEN "BadValue"
                  ELSE IF Get(doc, Command(doc)) = String(0) THEN "InvalidNamespace" ELSE "none"
      kind == CASE update = Absent -> IF remove THEN "none" ELSE "FailedToParse"
                [] update.t = "document" -> "none"
                [] update.t = "array" -> "NotImplemented"
                [] OTHER -> "FailedToParse"
      flags == IF remove /\ (update # Absent \/ flag("upsert").v \/ flag("new").v) THEN "FailedToParse" ELSE "none"
      err == FirstError(<<Unimplemented(doc, {"arrayFilters", "let", "fields"}), required, flag("remove").err,
                          flag("new").err, flag("upsert").err, query.err, OptionalDocument(doc, "sort").err,
                          GetOptionalPositiveNumber(doc, "maxTimeMS").err, kind, flags>>)
  IN  IF err # "none" THEN [err |-> err, write |-> FALSE]
      ELSE IF update # Absent /\ UnknownModifier(OrEmpty(update)) THEN [err |-> "FailedToParse", write |-> TRUE]
      ELSE [err |-> CommentError(doc, query.v), write |-> FALSE]

\* The document that findAndModify writes, without its _id; Unchanged and the like hold
\* it.  With upsert, a replacement only adds its fields to the document found.
Modified(found, update, upsert) ==
  CASE HasModifier(update) -> UpdateDocument(IF found = Absent THEN Document(<<>>) ELSE found, update)
    [] upsert /\ found # Absent -> Changed(FoldLeft(LAMBDA d, p : Set(d, p[1], p[2]), found, update.d))
    [] OTHER -> Changed(update)

\* The _id of a document that has none: the one found, the one asked for, a new one.
WithID(doc, found, query, fresh) ==
  IF Has(doc, "_id") THEN doc
  ELSE Set(doc, "_id", IF found # Absent THEN Get(found, "_id")
                       ELSE IF Has(query, "_id") THEN Get(query, "_id") ELSE fresh)

\* Faulty variant: the reply holds the document as it was although the new one is asked for.
FaultyResultDoc(new, found, returnNew) == IF found = Absent THEN new ELSE found

ResultDoc(new, found, returnNew) == IF returnNew \/ found = Absent THEN new ELSE found

LastError(pairs) == <<"lastErrorObject", Document(pairs)>>

\* found is the document that is modified, Absent if there is none.  A document without an
\* _id cannot be written.
FindAndUpdate(doc, rows, found, fresh) ==
  LET update == Get(doc, "update")
      upsert == GetBoolOptionalParam(doc, "upsert").v
      asIs == found # Absent /\ (HasModifier(update) \/ upsert)
      write(new, result) ==
        LET upserted == IF found = Absent THEN << <<"upserted", Get(result, "_id")>> >> ELSE <<>>
        IN  IF Get(new, "_id") = Absent THEN Failed("panic", FALSE, rows)
            ELSE Done(Document(<<LastError(<< <<"n", Int32(1)>>, <<"updatedExisting", Bool(found # Absent)>> >> \o upserted),
                                 <<"value", result>>, Ok>>),
                      IF found = Absent THEN InsertDocument(rows, new) ELSE SetDocumentByID(rows, new))
      returned(new) == write(new, ResultDoc(new, found, GetBoolOptionalParam(doc, "new").v))
      modify(r) == IF r.err # "none" THEN Failed(r.err, r.write, rows)
                   ELSE returned(IF asIs THEN r.doc ELSE WithID(r.doc, found, Get(doc, "query"), fresh))
  IN  IF found = Absent /\ ~upsert
      THEN Done(Document(<<LastError(<< <<"n", Int32(0)>>, <<"updatedExisting", Bool(FALSE)>> >>), Ok>>), rows)
      ELSE modify(Modified(found, update, upsert))

FindAndRemove(rows, found) ==
  CASE found = Absent -> Done(Document(<<LastError(<< <<"n", Int32(0)>> >>), Ok>>), rows)
    [] found # Absent /\ ~Has(found, "_id") -> Failed("panic", FALSE, rows)
    [] OTHER -> Done(Document(<<LastError(<< <<"n", Int32(1)>> >>), <<"value", found>>, Ok>>),
                     DeleteDocumentsByID(rows, <<Get(found, "_id")>>))

\* The first of the documents that match is modified.
ModifyMatched(doc, rows, refused, matched, fresh) ==
  LET found == IF matched.v = <<>> THEN Absent ELSE matched.v[1]
  IN  IF refused.err # "none" THEN Failed(refused.err, refused.write, rows)
      ELSE IF matched.err # "none" THEN Failed(matched.err, FALSE, rows)
      ELSE IF Has(doc, "update") THEN FindAndUpdate(doc, rows, found, ObjectID(fresh))
      ELSE FindAndRemove(rows, found)

\* All documents are sorted before they are filtered.
MsgFindAndModify(doc, rows, fresh) ==
  ModifyMatched(doc, rows, FindAndModifyError(doc),
                Then(SortDocuments(Fetched(rows), OrEmpty(Get(doc, "sort"))),
                     LAMBDA docs : Filtered(docs, Get(doc, "query"))), fresh)

-----------------------------------------------------------------------------
(* Commands that do not look at the collection.                            *)

\* The parameters of getParameter: their values, and their descriptions.
Parameters ==
  LET described(value, startup) ==
        Document(<< <<"value", value>>, <<"settableAtRuntime", Bool(TRUE)>>, <<"settableAtStartup", Bool(startup)>> >>)
  IN  Document(<< <<"acceptApiVersion2", described(Bool(FALSE), TRUE)>>, <<"authSchemaVersion", described(Int32(5), TRUE)>>,
                  <<"tlsMode", described(Wording, FALSE)>>, <<"sslMode", described(Wording, FALSE)>>,
                  <<"quiet", described(Bool(FALSE), TRUE)>>, Ok>>)

\* selectUnit.
SelectUnit(doc, showDetails, allParameters) ==
  LET asked == Keys(IF allParameters THEN Parameters ELSE doc)
      keys == SelectSeq(asked, LAMBDA k : k \notin {"getParameter", "comment", "$db"} /\ Has(Parameters, k))
      item(k) == LET v == Get(Parameters, k) IN IF showDetails \/ v.t # "document" THEN v ELSE Get(v, "value")
      unit == FoldLeft(LAMBDA d, k : Set(d, k, item(k)), Document(<<>>), keys)
  IN  Set(unit, "ok", Double(IF keys = <<>> THEN 0 ELSE 2))

MsgGetParameter(doc, rows) ==
  LET asked == Get(doc, "getParameter")
      flag(key) == IF asked.t = "document" THEN GetBoolOptionalParam(asked, key) ELSE Result(FALSE)
      showDetails == flag("showDetails")
      allParameters == flag("allParameters")
      all == allParameters.v \/ (asked.t = "string" /\ asked.n \in DOMAIN Text /\ Text[asked.n] = "*")
      unit == IF showDetails.v /\ all THEN Parameters ELSE SelectUnit(doc, showDetails.v, all)
      err == FirstError(<<showDetails.err, allParameters.err>>)
  IN  IF err # "none" THEN Failed(err, FALSE, rows)
      ELSE IF Len(unit.d) < 2 THEN Failed("errUnset", FALSE, rows) ELSE Done(unit, rows)

\* log is the array of the recent entries.
MsgGetLog(doc, rows, log) ==
  LET name == Get(doc, Command(doc))
      text == IF name.n \in DOMAIN Text THEN Text[name.n] ELSE ""
      lines(a) == Document(<< <<"log", a>>, <<"totalLinesWritten", Int64(Len(a.e))>>, Ok>>)
  IN  IF name.t # "string" THEN Failed("TypeMismatch", FALSE, rows)
      ELSE CASE text = "*" -> Done(Document(<< <<"names", Array(<<Wording, Wording>>)>>, Ok>>), rows)
             [] text = "global" -> Done(lines(log), rows)
             [] text = "startupWarnings" -> Done(lines(Array(<<Wording, Wording>>)), rows)
             [] OTHER -> Failed("errUnset", FALSE, rows)

MsgSetFreeMonitoring(doc, rows) ==
  LET action == GetRequiredParam(doc, "action", "string")
  IN  IF action.err # "none" THEN Failed(action.err, FALSE, rows)
      ELSE IF action.v.n \in DOMAIN Text /\ Text[action.v.n] \in {"enable", "disable"}
      THEN Failed("FreeMonitoringDisabled", FALSE, rows) ELSE Failed("BadValue", FALSE, rows)

\* The stages of the pipeline are only counted, and must be documents for that.
MsgAggregate(doc, rows) ==
  LET pipeline == GetRequiredParam(doc, "pipeline", "array")
  IN  IF pipeline.err # "none" THEN Failed(pipeline.err, FALSE, rows)
      ELSE IF \E i \in DOMAIN pipeline.v.e : pipeline.v.e[i].t # "document" THEN Failed("panic", FALSE, rows)
      ELSE Failed("NotImplemented", FALSE, rows)

MsgDebugError(rows) == Failed("debugError", FALSE, rows)

MsgIsMaster ==
  Document(<< <<"ismaster", Bool(TRUE)>>, <<"localTime", Date(Now)>>, <<"readOnly", Bool(FALSE)>>, Ok>>)

\* handleOpMsg: the table of commands.
Handle(doc, rows, fresh, log) ==
  CASE Command(doc) = "insert" -> MsgInsert(doc, rows)
    [] Command(doc) = "find" -> MsgFind(doc, rows)
    [] Command(doc) = "count" -> MsgCount(doc, rows)
    [] Command(doc) = "update" -> MsgUpdate(doc, rows, fresh)
    [] Command(doc) = "delete" -> MsgDelete(doc, rows)
    [] Command(doc) = "findAndModify" -> MsgFindAndModify(doc, rows, fresh)
    [] Command(doc) = "getParameter" -> MsgGetParameter(doc, rows)
    [] Command(doc) = "getLog" -> MsgGetLog(doc, rows, log)
    [] Command(doc) = "setFreeMonitoring" -> MsgSetFreeMonitoring(doc, rows)
    [] Command(doc) = "aggregate" -> MsgAggregate(doc, rows)
    [] Command(doc) = "debugError" -> MsgDebugError(rows)
    [] Command(doc) \in {"isMaster", "ismaster"} -> Done(MsgIsMaster, rows)
    [] OTHER -> Failed("CommandNotFound", FALSE, rows)

=============================================================================
