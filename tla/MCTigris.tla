------------------------------ MODULE MCTigris ------------------------------
(***************************************************************************)
(* The commands of the clients for model checking Tigris.                  *)
(***************************************************************************)
EXTENDS Tigris

MCDotted == [k \in {} |-> <<>>]
MCOperators == {"$set", "$inc", "$gt"}
MCText == <<"x">>
MCKeyOrder == <<"$inc", "$set", "_id", "a", "b", "c">>
MCMatched(pattern, options) == {}

P(k, v) == <<k, v>>
Doc(pairs) == Document(pairs)
Empty == Doc(<<>>)

\* An int32 for a; a date, in another order; one more key; a fraction; an int64; no JSON; no schema.
One == Doc(<<P("_id", Int32(1)), P("a", Int32(1))>>)
Two == Doc(<<P("b", Date(3)), P("a", Double(4)), P("_id", Int32(2))>>)
Wide == Doc(<<P("_id", Int32(2)), P("a", Int32(1)), P("b", Date(3))>>)
Half == Doc(<<P("_id", Int32(1)), P("a", Double(5))>>)
Long == Doc(<<P("_id", Int32(2)), P("a", Int64(MaxInt(W32) + 1))>>)
NaNs == Doc(<<P("_id", Int32(3)), P("a", NaN)>>)
Nulls == Doc(<<P("_id", Int32(3)), P("a", Null)>>)

Cmd(op) == [op |-> op, docs |-> <<>>, schema |-> NoSchema, q |-> Empty, u |-> Empty, limit |-> 0, multi |-> FALSE,
            upsert |-> FALSE, fresh |-> 9, sort |-> Empty, projection |-> Empty]

Insert1(docs) == [Cmd("insert") EXCEPT !.docs = docs]
Set1(v) == Doc(<<P("$set", Doc(<<P("a", v)>>))>>)

\* The schema of Two.
Validator ==
  Schema("object", "", [k \in {"$k", "_id", "a", "b"} |->
    CASE k = "$k" -> keysSchema [] k = "_id" -> int32Schema [] k = "a" -> ScalarSchema("number", "")
      [] k = "b" -> ScalarSchema("string", "date-time")])

MCCommands == <<
  Insert1(<<One, Two>>), Insert1(<<Half>>), Insert1(<<Wide>>), Insert1(<<Long, Nulls>>), Insert1(<<NaNs>>),
  [Cmd("create") EXCEPT !.schema = Validator],
  [Cmd("update") EXCEPT !.u = Set1(Int32(2)), !.multi = TRUE],
  [Cmd("update") EXCEPT !.q = Doc(<<P("a", Int32(7))>>), !.u = Set1(Int32(3)), !.upsert = TRUE],
  [Cmd("update") EXCEPT !.u = Set1(Null)],
  Cmd("delete"), [Cmd("delete") EXCEPT !.limit = 1], [Cmd("count") EXCEPT !.q = Doc(<<P("a", Int32(1))>>)],
  [Cmd("find") EXCEPT !.sort = Doc(<<P("a", Int32(1))>>), !.limit = 1, !.projection = Doc(<<P("a", Bool(TRUE))>>)],
  Cmd("collStats"), Cmd("dataSize"), Cmd("dbStats"),
  Cmd("drop"), Cmd("dropDatabase"), Cmd("listCollections"), Cmd("listDatabases")>>

MCSymmetry == Permutations(Clients)

-----------------------------------------------------------------------------
(* The documents that these commands can meet: those given, and what       *)
(* updates and decoding make of them.  What the proofs about TigrisCalls   *)
(* suppose of the data holds for them, and for lists of two.               *)

Given == {One, Two, Wide, Half, Long, NaNs, Nulls, Upserted(MCCommands[8]).doc}
Updates == {MCCommands[i].u : i \in {j \in DOMAIN MCCommands : MCCommands[j].op = "update"}}
SchemasOf(docs) == {DocumentSchema(d) : d \in docs} \ {NoSchema}

Made(docs) ==
  LET stored == {d \in docs : Marshal(d) \notin {Panic, Unmarshalable}}
  IN  docs \cup {UpdateDocument(d, u).doc : d \in docs, u \in Updates}
           \cup ({Unmarshal(Marshal(d), schema) : d \in stored, schema \in SchemasOf(docs)} \ {Undecoded})

MCDocs == Made(Made(Made(Given)))
MCLists == {<<>>} \cup {<<d>> : d \in MCDocs} \cup {<<d, e>> : d \in MCDocs, e \in MCDocs}

ASSUME MCDataAssumption ==
  DataOK(MCDocs, SchemasOf(MCDocs), MCLists) /\ IDsOK(MCDocs, SchemasOf(MCDocs), MCLists)

=============================================================================
