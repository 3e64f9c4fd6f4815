------------------------------- MODULE Tigris -------------------------------
(***************************************************************************)
(* The Tigris handler: the commands of TigrisCalls with what they compute  *)
(* from documents, schemas and JSON, and with what the Tigris server       *)
(* accepts.  These are the values of the constants of TigrisCalls:         *)
(*   SchemaFrom, NullSchema          DocumentSchema, NoSchema              *)
(*   ToJSON, Panics, Unencoded       Marshal, Panic, Unmarshalable         *)
(*   FromJSON, Garbled               Unmarshal, Undecoded                  *)
(*   Fits, GrowsInto, HasIDOf        Conforms, Compatible, SameID          *)
(*   Updated, UpsertOf               UpdateDocument, Upserted              *)
(*   Chosen, ResultOf                Matches, Found                        *)
(***************************************************************************)
EXTENDS TigrisCalls, Filter, Update, Projection, Tjson

-----------------------------------------------------------------------------
(* The documents that the handlers work on.                                *)

\* The documents that match the filter of the command, or the first error.
Matches(cmd, docs) ==
  AnsweredYes(docs, [i \in DOMAIN docs |-> FilterDocument(docs[i], cmd.q)])

Limited(cmd, found) == Then(found, LAMBDA docs : LimitDocuments(docs, cmd.limit))

\* What find, count and delete go on with.
Found(cmd, docs) ==
  IF cmd.op # "find" THEN Limited(cmd, Matches(cmd, docs))
  ELSE Then(Limited(cmd, Then(Matches(cmd, docs), LAMBDA found : SortDocuments(found, cmd.sort))),
            LAMBDA found : ProjectDocuments(found, cmd.projection))

\* The document of an upsert; the handler chooses its _id if it has none.
Upserted(cmd) ==
  LET new == UpdateDocument(cmd.q, cmd.u)
  IN  IF new.err # "none" \/ Has(new.doc, "_id") THEN new
      ELSE [new EXCEPT !.doc = Set(@, "_id", ObjectID(cmd.fresh))]

-----------------------------------------------------------------------------
(* The Tigris server.                                                      *)

SameID(row, doc) ==
  LET a == row.json.v["_id"]
      b == Marshal(Get(doc, "_id"))
  IN  IF a.j # b.j THEN FALSE ELSE a.v = b.v

\* Whether the server takes a JSON value under a schema; a property may be missing.
RECURSIVE Conforms(_, _)
Conforms(json, schema) ==
  CASE schema.type = "integer" ->
         IF json.j = "number" THEN UnmarshalInteger(json, "int64", IF schema.format = "int32" THEN W32 ELSE W64) # Undecoded
         ELSE json.j = "-0"
    [] schema.type = "number" -> json.j \in {"number", "-0"}
    [] schema.type = "boolean" -> json.j = "bool"
    [] schema.type = "array" -> json.j = "array"
    [] schema.type = "object" ->
         IF json.j # "object" THEN FALSE
         ELSE \A k \in DOMAIN json.v : k \in DOMAIN schema.properties /\ Conforms(json.v[k], schema.properties[k])
    [] OTHER ->
         IF json.j # "string" THEN FALSE
         ELSE CASE schema.format = "byte" -> json.v[1] = "base64"
                [] schema.format = "date-time" -> json.v[1] = "time"
                [] OTHER -> TRUE

\* Whether a collection's schema may become another one: properties may only be added.
Compatible(old, new) ==
  \A k \in DOMAIN old.properties :
    IF k \in DOMAIN new.properties THEN SchemaEqual(old.properties[k], new.properties[k]) ELSE FALSE

ASSUME TigrisAssumption == MaxCommands \in Nat /\ MaxFaults \in Nat /\ CommandsOK

-----------------------------------------------------------------------------
(* Properties; the others are in TigrisCalls.                              *)

\* A stored document reads back as it was written - the same values, types and order of the
\* keys, _id first - if the schema of the collection is the one of the document; otherwise
\* its numbers still compare equal, though their types are those of the schema (tjson,
\* Schema.Equal).
ReadBackSame ==
  \A i \in DOMAIN coll.rows :
    LET written == coll.rows[i].doc
        idFirst == Set(written, "_id", Get(written, "_id"))
        read == Unmarshal(coll.rows[i].json, coll.schema)
        number(k) == IsNumber(Get(written, k)) /\ IsNumber(Get(read, k))
    IN  /\ SchemaEqual(DocumentSchema(written), coll.schema) => read = idFirst
        /\ \A k \in ToSet(Keys(written)) :
             number(k) => Compare(Get(read, k), Get(written, k)) = <<"Equal">>

=============================================================================
