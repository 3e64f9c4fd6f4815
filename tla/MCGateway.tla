----------------------------- MODULE MCGateway ------------------------------
(***************************************************************************)
(* The messages of the client for model checking Gateway.                  *)
(***************************************************************************)
EXTENDS Gateway

MCDotted == [k \in {"a.b", "a.0"} |-> IF k = "a.b" THEN <<"a", "b">> ELSE <<"a", "0">>]

MCOperators == {"$set", "$setOnInsert", "$unset", "$inc", "$pop", "$currentDate", "$push", "$gt", "$gte", "$lt", "$lte",
                "$eq", "$ne", "$in", "$nin", "$not", "$and", "$or", "$nor", "$exists", "$type", "$size", "$all",
                "$mod", "$elemMatch", "$slice", "$regex", "$options", "$bitsAllSet", "$comment"}

MCText == <<"c", "d", "*", "global", "number", "timestamp", "i", "enable", "x", "y", "string">>

MCKeyOrder == <<"$currentDate", "$inc", "$pop", "$push", "$set", "$setOnInsert", "$unset", "_id", "a", "a.0", "a.b", "b", "c">>

MCBadPatterns == {3}

\* Pattern 1 is ^x and matches Y with no option; pattern 2 matches every text.
MCMatched(pattern, options) == IF pattern = 2 THEN {9, 10} ELSE IF options = "i" THEN {8, 9} ELSE {9}

-----------------------------------------------------------------------------
P(k, v) == <<k, v>>
D1(k, v) == Document(<<P(k, v)>>)
D2(k, v, l, w) == Document(<<P(k, v), P(l, w)>>)
D3(k, v, l, w, m, x) == Document(<<P(k, v), P(l, w), P(m, x)>>)
Empty == Document(<<>>)

Cmd(name, pairs) == Document(<<P(name, String(1))>> \o pairs \o <<P("$db", String(2))>>)
Msg(doc) == OpMsg({}, <<Kind0(doc)>>)

-----------------------------------------------------------------------------
(* Inserts: in one section, in two, with a checksum, with a value that is  *)
(* no document, without a database.                                        *)

One == D3("_id", Int32(1), "a", Int32(1), "b", String(9))
Two == D2("a", Double(5), "_id", Int32(2))
Three == D3("_id", ObjectID(3), "a", Array(<<Int32(1), Int32(2)>>), "b", Null)
Again == D3("_id", Int32(1), "a", Int32(MaxInt(W32)), "b", Double(0))
NoID == D1("a", Int64(MinInt(W64)))
Nested == D3("_id", Double(2), "a", D2("b", Date(1), "c", Regex(2, "i")), "b", NaN)
Odd == D3("_id", Timestamp(4), "b", Binary(2, 0, 3), "a", Bool(TRUE))

Insert(docs) == Msg(Cmd("insert", <<P("documents", Array(docs))>>))

Inserts == <<
  OpMsg({}, <<Kind0(Cmd("insert", <<>>)), Kind1("documents", <<One>>)>>),
  OpMsg({"checksumPresent"}, <<Kind0(Cmd("insert", <<>>)), Kind1("documents", <<Two, Three>>)>>),
  Insert(<<Again>>), Insert(<<NoID>>), Insert(<<Nested, Int32(1), One>>), Insert(<<Odd>>),
  Msg(D2("insert", String(1), "documents", Array(<<One>>))),
  Msg(Cmd("insert", <<P("documents", Int32(1))>>))>>

-----------------------------------------------------------------------------
Find(pairs) == Msg(Cmd("find", pairs))
Filtering(f) == Find(<<P("filter", f)>>)
Field(k, v) == Filtering(D1(k, v))
Test1(op, v) == Field("a", D1(op, v))

Finds == <<
  Find(<<>>),
  Find(<<P("sort", D1("a", Int32(1)))>>),
  Find(<<P("sort", D2("b", Int32(-1), "a", Double(2))), P("limit", Int64(1))>>),
  Find(<<P("sort", D1("a", Int32(2)))>>), Find(<<P("sort", D1("a", String(1)))>>),
  Find(<<P("limit", Double(3))>>), Find(<<P("limit", Double(2 * (MaxInt(W64) + 1)))>>),
  Find(<<P("limit", Int32(-1))>>), Find(<<P("limit", Null)>>),
  Find(<<P("skip", Int32(1))>>), Find(<<P("maxTimeMS", Int64(MaxInt(W32) + 1))>>),
  Find(<<P("projection", D1("b", Int32(1)))>>), Find(<<P("projection", D2("b", Bool(FALSE), "_id", Int32(0)))>>),
  Find(<<P("projection", D1("a", D1("$slice", Int32(-1))))>>),
  Find(<<P("projection", D1("a", D1("$slice", Array(<<Int32(1), Int32(1)>>))))>>),
  Find(<<P("projection", D1("a", D1("$elemMatch", D1("$gt", Int32(1)))))>>),
  Find(<<P("projection", D2("a", Int32(1), "b", Int32(0)))>>),
  Field("a", Int32(1)), Field("b", Regex(1, "i")), Field("b", Regex(3, "")), Field("a.b", Date(1)), Field("a.0", Int32(1)),
  Field("b", Null), Filtering(D2("a", Int32(1), "b", String(9))),
  Test1("$gt", Int32(1)), Test1("$lt", Double(3)), Test1("$gte", Double(2)), Test1("$lte", Int64(1)), Test1("$nin", Array(<<Int32(1)>>)),
  Test1("$ne", Int64(1)), Test1("$in", Array(<<Double(2), Double(5)>>)),
  Test1("$not", D1("$gt", Int32(1))), Test1("$exists", Bool(FALSE)), Test1("$type", String(5)), Test1("$type", Int32(4)),
  Test1("$size", Int32(2)), Test1("$mod", Array(<<Int32(2), Int32(1)>>)), Test1("$all", Array(<<Int32(1)>>)),
  Test1("$elemMatch", D1("$gt", Int32(1))), Test1("$bitsAllSet", Array(<<Int32(0)>>)), Test1("$regex", Int32(1)),
  Field("$or", Array(<<D1("a", Int32(1)), D1("a", Double(5))>>)), Field("$nor", Array(<<D1("b", NaN)>>)),
  Msg(Cmd("count", <<P("query", D1("a", D1("$gt", Int32(0)))), P("limit", Int32(1))>>)),
  Msg(Cmd("count", <<P("query", Int32(0))>>))>>

-----------------------------------------------------------------------------
Update1(pairs) == Msg(Cmd("update", <<P("updates", Array(<<Document(pairs)>>))>>))
Multi == P("multi", Bool(TRUE))
All == P("q", Empty)
All2 == P("query", Empty)

Updates == <<
  Update1(<<All, P("u", D1("$set", D1("a", Int32(5)))), Multi>>),
  Update1(<<All, P("u", D1("$set", D1("a.b", String(10))))>>),
  Update1(<<All, P("u", D1("$unset", D1("b", Null))), Multi>>),
  Update1(<<P("q", D1("a", D1("$gt", Int32(0)))), P("u", D1("$inc", D1("a", Int32(1)))), Multi>>),
  Update1(<<All, P("u", D1("$pop", D1("a", Int32(1)))), Multi>>),
  Update1(<<All, P("u", D1("$currentDate", D1("c", Bool(TRUE))))>>),
  Update1(<<All, P("u", D1("$currentDate", D1("c", D1("$type", String(6))))), Multi>>),
  Update1(<<All, P("u", D2("$set", D1("a", Int32(1)), "$inc", D1("a", Int32(1))))>>),
  Update1(<<All, P("u", D2("$set", D1("a", Int32(9)), "$setOnInsert", D1("_id", Int32(1))))>>),
  Update1(<<All, P("u", D1("c", Int32(1)))>>),
  Update1(<<P("q", D1("_id", Int32(1))), P("u", Empty)>>),
  Update1(<<P("q", D1("b", String(10))), P("u", D1("$set", D1("a", Int64(1)))), P("upsert", Bool(TRUE))>>),
  Update1(<<All, P("u", D1("$push", D1("a", Int32(1))))>>),
  Update1(<<P("u", Empty)>>),
  Update1(<<All, P("u", Empty), P("multi", Int32(1))>>)>>

Delete(pairs) == Msg(Cmd("delete", pairs))
Ones == D1("q", D1("a", Int32(1)))

Deletes == <<
  Delete(<<P("deletes", Array(<<D1("q", Empty)>>))>>),
  Delete(<<P("deletes", Array(<<D2("q", Empty, "limit", Int32(1))>>))>>),
  Delete(<<P("deletes", Array(<<D2("q", Empty, "hint", Int32(1)), Ones>>))>>),
  Delete(<<P("deletes", Array(<<D2("q", Empty, "limit", Double(1)), Ones>>)), P("ordered", Bool(FALSE))>>),
  Delete(<<P("deletes", Array(<<D1("limit", Int32(1))>>))>>)>>

Modify(pairs) == Msg(Cmd("findAndModify", pairs))
Set1(v) == P("update", D1("$set", D1("a", v)))

Modifies == <<
  Modify(<<All2, Set1(Int32(7)), P("new", Bool(TRUE))>>),
  Modify(<<All2, P("sort", D1("a", Int32(-1))), Set1(Int32(8))>>),
  Modify(<<All2, P("update", D1("c", Int32(1)))>>),
  Modify(<<P("query", D1("_id", Int32(6))), P("update", D1("c", Int32(1))), P("upsert", Int32(1))>>),
  Modify(<<All2, P("remove", Bool(TRUE))>>),
  Modify(<<All2, Set1(Int32(1)), P("remove", Bool(TRUE))>>),
  Modify(<<All2, P("update", Array(<<>>))>>),
  Modify(<<Set1(Int32(1))>>),
  Msg(Document(<<P("findAndModify", String(0)), All2, Set1(Int32(1)), P("$db", String(2))>>))>>

Others == <<
  Msg(Cmd("getLog", <<>>)), Msg(D1("getLog", String(4))), Msg(D1("getLog", Int32(1))),
  Msg(D1("getParameter", String(3))), Msg(D2("getParameter", Int32(1), "quiet", Int32(1))),
  Msg(D2("getParameter", D1("showDetails", Bool(TRUE)), "tlsMode", Int32(1))), Msg(D2("getParameter", Int32(1), "ok", Int32(1))),
  Msg(D2("setFreeMonitoring", Int32(1), "action", String(8))), Msg(D2("setFreeMonitoring", Int32(1), "action", String(1))),
  Msg(Cmd("aggregate", <<P("pipeline", Array(<<Empty>>))>>)), Msg(Cmd("aggregate", <<P("pipeline", Array(<<Null>>))>>)),
  Msg(D1("debugError", Int32(1))), Msg(D1("isMaster", Int32(1))), Msg(D1("unknown", Int32(1))),
  OpQuery("admin.$cmd", D1("isMaster", Int32(1)), Absent), OpQuery("admin.$cmd", D1("ping", Int32(1)), Empty),
  OpReply(<<Empty>>)>>

MCRequests == Inserts \o Finds \o Updates \o Deletes \o Modifies \o Others

MCAhead == {1, 2, Len(Inserts) + 1}
MCCut == {1, 2}

=============================================================================
