------------------------------- MODULE Tjson --------------------------------
(***************************************************************************)
(* TJSON (package tjson): how documents are kept in Tigris.  The types of  *)
(* the values are not in the JSON but in the schema of the collection.     *)
(* JSON values are those of Fjson, and "-0" is the number that is -0.      *)
(***************************************************************************)
EXTENDS Values

Json(kind, x) == [j |-> kind, v |-> x]
Undecoded == [t |-> "undecoded"]  \* the error of Unmarshal
Unmarshalable == [j |-> "error"]  \* the error of Marshal; its panics are Panic

\* A schema has a type, a format and the schemas of the properties of an object.
Schema(type, format, properties) == [type |-> type, format |-> format, properties |-> properties]
ScalarSchema(type, format) == Schema(type, format, <<>>)
NoSchema == Schema("none", "", <<>>)  \* an error of valueSchema or DocumentSchema

int32Schema == ScalarSchema("integer", "int32")
keysSchema == ScalarSchema("array", "")
binarySchema ==
  Schema("object", "", [k \in {"$b", "s"} |-> IF k = "s" THEN int32Schema ELSE ScalarSchema("string", "byte")])
regexSchema == Schema("object", "", [k \in {"$r", "o"} |-> ScalarSchema("string", "")])

RECURSIVE valueSchema(_)

subdocumentSchema(doc) ==
  LET keys == ToSet(Keys(doc))
      properties == [k \in keys \cup {"$k"} |-> IF k = "$k" THEN keysSchema ELSE valueSchema(Get(doc, k))]
  IN  IF \E k \in keys : properties[k] = NoSchema THEN NoSchema ELSE Schema("object", "", properties)

valueSchema(v) ==
  CASE v.t = "document" -> subdocumentSchema(v)
    [] v.t = "double" -> ScalarSchema("number", "")
    [] v.t = "string" -> ScalarSchema("string", "")
    [] v.t = "binary" -> binarySchema
    [] v.t = "objectID" -> ScalarSchema("string", "byte")
    [] v.t = "bool" -> ScalarSchema("boolean", "")
    [] v.t = "date" -> ScalarSchema("string", "date-time")
    [] v.t = "regex" -> regexSchema
    [] v.t = "int32" -> int32Schema
    [] v.t = "int64" -> ScalarSchema("integer", "")
    [] OTHER -> NoSchema

DocumentSchema(doc) == IF Has(doc, "_id") THEN subdocumentSchema(doc) ELSE NoSchema

\* The format that an empty format stands for.
Normalized(s) ==
  CASE s.format = "" /\ s.type = "number" -> "double"
    [] s.format = "" /\ s.type = "integer" -> "int64"
    [] OTHER -> s.format

\* Schema.Equal.
RECURSIVE SchemaEqual(_, _)
SchemaEqual(a, b) ==
  /\ a.type = b.type
  /\ IF a.type = "object"
     THEN /\ DOMAIN a.properties = DOMAIN b.properties
          /\ \A k \in DOMAIN a.properties : SchemaEqual(a.properties[k], b.properties[k])
     ELSE Normalized(a) = Normalized(b)

-----------------------------------------------------------------------------
RECURSIVE Marshal(_)

\* Faulty variant: the order of the keys is lost.
FaultyMarshalDocument(doc) ==
  LET keys == SetToSeq(ToSet(Keys(doc)))
      names == Json("array", [i \in DOMAIN keys |-> Json("string", <<"name", keys[i]>>)])
  IN  IF \E i \in DOMAIN doc.d : Marshal(doc.d[i][2]) \in {Panic, Unmarshalable} THEN Unmarshalable
      ELSE Json("object", [k \in ToSet(Keys(doc)) \cup {"$k"} |-> IF k = "$k" THEN names ELSE Marshal(Get(doc, k))])

\* documentType.MarshalJSON; the first value that fails decides.
MarshalDocument(doc) ==
  LET values == [i \in DOMAIN doc.d |-> Marshal(doc.d[i][2])]
      failed == SelectSeq(values, LAMBDA x : x \in {Panic, Unmarshalable})
      at(k) == CHOOSE i \in DOMAIN doc.d : doc.d[i][1] = k
  IN  IF failed # <<>> THEN failed[1]
      ELSE Json("object", [k \in ToSet(Keys(doc)) \cup {"$k"} |->
             IF k = "$k" THEN Json("array", [i \in DOMAIN doc.d |-> Json("string", <<"name", doc.d[i][1]>>)])
             ELSE values[at(k)]])

\* JSON has no number for NaN and the infinities.
MarshalDouble(v) ==
  CASE v.c = "finite" -> Json("number", v.n) [] v.c = "-0" -> Json("-0", 0) [] OTHER -> Unmarshalable

MarshalString(v) == Json("string", <<"text", v.n>>)
MarshalBool(v) == Json("bool", v.n)
MarshalInt32(v) == Json("number", 2 * v.n)
MarshalInt64(v) == Json("number", 2 * v.n)
MarshalDateTime(v) == Json("string", <<"time", v.n>>)
MarshalObjectID(v) == Json("string", <<"base64", <<12, v.n>>>>)

MarshalBinary(v) ==
  Json("object", [x \in {"$b", "s"} |->
     IF x = "s" THEN Json("number", 2 * v.s) ELSE Json("string", <<"base64", <<v.l, v.n>>>>)])

MarshalRegex(v) ==
  Json("object", [x \in {"$r", "o"} |->
     IF x = "o" THEN Json("string", <<"name", v.o>>) ELSE Json("string", <<"pattern", v.n>>)])

\* Marshal and toTJSON, which panics for arrays, nulls and timestamps.
Marshal(v) ==
  CASE v.t = "document" -> MarshalDocument(v)
    [] v.t = "double" -> MarshalDouble(v)
    [] v.t = "string" -> MarshalString(v)
    [] v.t = "binary" -> MarshalBinary(v)
    [] v.t = "objectID" -> MarshalObjectID(v)
    [] v.t = "bool" -> MarshalBool(v)
    [] v.t = "date" -> MarshalDateTime(v)
    [] v.t = "regex" -> MarshalRegex(v)
    [] v.t = "int32" -> MarshalInt32(v)
    [] v.t = "int64" -> MarshalInt64(v)
    [] OTHER -> Panic

-----------------------------------------------------------------------------
RECURSIVE Unmarshal(_, _)

\* The UnmarshalJSON methods: json is decoded into a Go variable of the type.
UnmarshalInteger(json, type, w) ==
  LET n == json.v \div 2
  IN  CASE json.j = "-0" -> Scalar(type, 0)
        [] json.j = "number" ->
             IF json.v % 2 = 0 /\ MinInt(w) <= n /\ n <= MaxInt(w) THEN Scalar(type, n) ELSE Undecoded
        [] OTHER -> Undecoded

UnmarshalInt32(json) == UnmarshalInteger(json, "int32", W32)
UnmarshalInt64(json) == UnmarshalInteger(json, "int64", W64)

UnmarshalDouble(json) ==
  CASE json.j = "number" -> Double(json.v) [] json.j = "-0" -> NegativeZero [] OTHER -> Undecoded

UnmarshalBool(json) == IF json.j = "bool" THEN Bool(json.v = 1) ELSE Undecoded

\* A string takes any characters for its text; what spells another value is here a
\* string of its own beyond those in use.
UnmarshalString(json) ==
  IF json.j # "string" THEN Undecoded ELSE IF json.v[1] = "text" THEN String(json.v[2]) ELSE String(Infinity)

UnmarshalObjectID(json) ==
  IF json.j # "string" THEN Undecoded ELSE IF json.v[1] # "base64" THEN Undecoded
  ELSE IF json.v[2][1] = 12 THEN ObjectID(json.v[2][2]) ELSE Undecoded

UnmarshalDateTime(json) ==
  IF json.j # "string" THEN Undecoded ELSE IF json.v[1] = "time" THEN Date(json.v[2]) ELSE Undecoded

UnmarshalBinary(o) == Binary(o["$b"].v[2][1], o["s"].v \div 2, o["$b"].v[2][2])
UnmarshalRegex(o) == Regex(o["$r"].v[2], o["o"].v[2])

\* documentType.UnmarshalJSONWithSchema.
UnmarshalDocument(o, schema) ==
  LET names == o["$k"].v
      keys == [i \in DOMAIN names |-> names[i].v[2]]
      values == [i \in DOMAIN keys |-> Unmarshal(o[keys[i]], schema.properties[keys[i]])]
      doc == FoldLeft(LAMBDA d, i : Set(d, keys[i], values[i]), Document(<<>>), [i \in DOMAIN keys |-> i])
  IN  IF Len(names) + 1 # Cardinality(DOMAIN o) THEN Undecoded
      ELSE IF \E i \in DOMAIN keys : keys[i] \notin DOMAIN o \/ keys[i] \notin DOMAIN schema.properties THEN Undecoded
      ELSE IF Contains(values, Undecoded) THEN Undecoded ELSE doc

\* The formats of integers and numbers.
UnmarshalNumber(json, schema) ==
  CASE schema.type = "integer" /\ schema.format = "int32" -> UnmarshalInt32(json)
    [] schema.type = "integer" /\ schema.format \in {"", "int64"} -> UnmarshalInt64(json)
    [] schema.type = "number" /\ schema.format \in {"", "double"} -> UnmarshalDouble(json)
    [] OTHER -> Undecoded

\* Unmarshal and fromTJSON.
Unmarshal(json, schema) ==
  CASE schema.type \in {"integer", "number"} -> UnmarshalNumber(json, schema)
    [] schema.type = "string" ->
         CASE schema.format = "" -> UnmarshalString(json)
           [] schema.format = "byte" -> UnmarshalObjectID(json)
           [] schema.format = "date-time" -> UnmarshalDateTime(json)
           [] OTHER -> Undecoded
    [] schema.type = "boolean" -> UnmarshalBool(json)
    [] schema.type = "object" /\ json.j = "object" ->
         CASE "$k" \in DOMAIN json.v -> UnmarshalDocument(json.v, schema)
           [] "$b" \in DOMAIN json.v -> UnmarshalBinary(json.v)
           [] "$r" \in DOMAIN json.v -> UnmarshalRegex(json.v)
           [] OTHER -> Undecoded
    [] OTHER -> Undecoded

=============================================================================
