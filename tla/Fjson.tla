------------------------------- MODULE Fjson --------------------------------
(***************************************************************************)
(* FJSON (package fjson): how documents are kept in a jsonb column.        *)
(*                                                                         *)
(* A JSON value is a record of its kind j and its content v.  An object is *)
(* a function from its keys: jsonb keeps no order.  A string is a pair of  *)
(* what its characters spell and the value spelled.                        *)
(***************************************************************************)
EXTENDS Values

Json(kind, x) == [j |-> kind, v |-> x]
JNull == Json("null", 0)
Undecoded == [t |-> "undecoded"]  \* the error of Unmarshal

\* An object with the single key k.
Single(k, json) == Json("object", [x \in {k} |-> json])

-----------------------------------------------------------------------------
(* The MarshalJSON methods.                                                *)

\* JSON has no number for -0, NaN and the infinities: these are strings.
MarshalDouble(v) ==
  LET name == CASE v.c = "-0" -> "-0" [] v.c = "nan" -> "NaN" [] v.n > 0 -> "Infinity" [] OTHER -> "-Infinity"
  IN  Single("$f", IF v.c = "finite" THEN Json("number", v.n) ELSE Json("string", <<"name", name>>))

MarshalString(v) == Json("string", <<"text", v.n>>)
MarshalBool(v) == Json("bool", v.n)
MarshalInt32(v) == Json("number", 2 * v.n)
MarshalInt64(v) == Single("$l", Json("string", <<"digits", v.n>>))
MarshalTimestamp(v) == Single("$t", Json("string", <<"digits", v.n>>))
MarshalDateTime(v) == Single("$d", Json("number", 2 * v.n))
MarshalObjectID(v) == Single("$o", Json("string", <<"hex", v.n>>))

MarshalBinary(v) ==
  Json("object", [x \in {"$b", "s"} |->
     IF x = "s" THEN Json("number", 2 * v.s) ELSE Json("string", <<"base64", <<v.l, v.n>>>>)])

MarshalRegex(v) ==
  Json("object", [x \in {"$r", "o"} |->
     IF x = "o" THEN Json("string", <<"name", v.o>>) ELSE Json("string", <<"pattern", v.n>>)])

RECURSIVE Marshal(_)

\* documentType.MarshalJSON: the order of the keys goes into $k.
MarshalDocument(doc) ==
  LET keys == ToSet(Keys(doc))
  IN  Json("object", [k \in keys \cup {"$k"} |->
         IF k = "$k" THEN Json("array", [i \in DOMAIN doc.d |-> Json("string", <<"name", doc.d[i][1]>>)])
         ELSE Marshal(Get(doc, k))])

MarshalArray(v) == Json("array", [i \in DOMAIN v.e |-> Marshal(v.e[i])])

\* Marshal and toFJSON.
Marshal(v) ==
  CASE v.t = "document" -> MarshalDocument(v)
    [] v.t = "array" -> MarshalArray(v)
    [] v.t = "double" -> MarshalDouble(v)
    [] v.t = "string" -> MarshalString(v)
    [] v.t = "binary" -> MarshalBinary(v)
    [] v.t = "objectID" -> MarshalObjectID(v)
    [] v.t = "bool" -> MarshalBool(v)
    [] v.t = "date" -> MarshalDateTime(v)
    [] v.t = "null" -> JNull
    [] v.t = "regex" -> MarshalRegex(v)
    [] v.t = "int32" -> MarshalInt32(v)
    [] v.t = "timestamp" -> MarshalTimestamp(v)
    [] v.t = "int64" -> MarshalInt64(v)

-----------------------------------------------------------------------------
(* The UnmarshalJSON methods, for the function that an object is.          *)

UnmarshalDouble(o) ==
  LET v == o["$f"].v
  IN  CASE o["$f"].j = "number" -> Double(v)
        [] o["$f"].j = "string" ->
             CASE v[2] = "-0" -> NegativeZero
               [] v[2] = "NaN" -> NaN
               [] v[2] = "Infinity" -> Inf(1)
               [] v[2] = "-Infinity" -> Inf(-1)
               [] OTHER -> Undecoded
        [] OTHER -> Undecoded

UnmarshalBinary(o) == Binary(o["$b"].v[2][1], Quotient(o["s"].v, 2), o["$b"].v[2][2])
UnmarshalObjectID(o) == ObjectID(o["$o"].v[2])
UnmarshalDateTime(o) == Date(Quotient(o["$d"].v, 2))
UnmarshalRegex(o) == Regex(o["$r"].v[2], o["o"].v[2])
UnmarshalTimestamp(o) == Timestamp(o["$t"].v[2])
UnmarshalInt64(o) == Int64(o["$l"].v[2])

RECURSIVE Unmarshal(_)

\* arrayType.UnmarshalJSON.
UnmarshalArray(json) ==
  LET values == [i \in DOMAIN json.v |-> Unmarshal(json.v[i])]
  IN  IF Contains(values, Undecoded) THEN Undecoded ELSE Array(values)

\* documentType.UnmarshalJSON: $k lists every other key of the object; Set puts the keys
\* in that order.
UnmarshalDocument(o) ==
  LET names == o["$k"].v
      keys == [i \in DOMAIN names |-> names[i].v[2]]
      values == [i \in DOMAIN keys |-> Unmarshal(o[keys[i]])]
      doc == FoldLeft(LAMBDA d, i : Set(d, keys[i], values[i]), Document(<<>>), [i \in DOMAIN keys |-> i])
  IN  IF o["$k"].j # "array" \/ Len(names) + 1 # Cardinality(DOMAIN o) THEN Undecoded
      ELSE IF \E i \in DOMAIN keys : keys[i] \notin DOMAIN o \/ ~IsValidKey(keys[i]) THEN Undecoded
      ELSE IF Contains(values, Undecoded) THEN Undecoded ELSE doc

\* Unmarshal and fromFJSON: the first of these keys that an object has decides; a bare
\* number is an int32.
Unmarshal(json) ==
  LET o == json.v
  IN  CASE json.j = "object" ->
             CASE "$k" \in DOMAIN o -> UnmarshalDocument(o)
               [] "$f" \in DOMAIN o -> UnmarshalDouble(o)
               [] "$b" \in DOMAIN o -> UnmarshalBinary(o)
               [] "$o" \in DOMAIN o -> UnmarshalObjectID(o)
               [] "$d" \in DOMAIN o -> UnmarshalDateTime(o)
               [] "$r" \in DOMAIN o -> UnmarshalRegex(o)
               [] "$t" \in DOMAIN o -> UnmarshalTimestamp(o)
               [] "$l" \in DOMAIN o -> UnmarshalInt64(o)
               [] OTHER -> Undecoded
        [] json.j = "array" -> UnmarshalArray(json)
        [] json.j = "string" -> String(json.v[2])
        [] json.j = "bool" -> Bool(json.v = 1)
        [] json.j = "null" -> Null
        [] json.j = "number" -> Int32(Quotient(json.v, 2))

=============================================================================
