-------------------------------- MODULE Bson --------------------------------
(***************************************************************************)
(* BSON (package bson): documents as streams.                              *)
(*                                                                         *)
(* A stream is a sequence of cells, one for every field that is read or    *)
(* written at once: a pair of the kind of the field and its content.  All  *)
(* lengths count cells.  A reader that finds a cell of another kind than   *)
(* the one it expects fails, where the code would read whatever bytes are  *)
(* there.                                                                  *)
(*                                                                         *)
(* A reader answers with the value v and the rest of the stream; v is Bad  *)
(* where the code returns an error.                                        *)
(***************************************************************************)
EXTENDS Values

CONSTANTS MaxDocumentLen  \* cells

\* The length and the terminating zero.
minDocumentLen == 2

Bad == [t |-> "bad"]
Read(v, rest) == [v |-> v, rest |-> rest]
Wrong == Read(Bad, <<>>)

\* The reader that goes on with what another one has read.
AndThen(r, Reader(_, _)) == IF r.v = Bad THEN Wrong ELSE Reader(r.v, r.rest)

Cell(kind, x) == <<kind, x>>
Zero == Cell("byte", 0)

\* The next cell is of this kind.
Next1(s, kind) == s # <<>> /\ s[1][1] = kind

\* The names of the elements of an array.
Itoa == <<"0", "1", "2", "3">>

Drop(s, n) == SubSeq(s, n + 1, Len(s))

-----------------------------------------------------------------------------
(* Reading.                                                                *)

\* stringType.ReadFrom; the empty string has no text.
ReadString(s) ==
  LET l == s[1][2]
      text == SubSeq(s, 2, l)
  IN  IF ~Next1(s, "int32") THEN Wrong
      ELSE IF l <= 0 \/ Len(s) < l + 1 THEN Wrong
      ELSE IF s[l + 1] # Zero \/ Len(text) > 1 \/ (text # <<>> /\ text[1][1] # "text") THEN Wrong
      ELSE Read(String(IF text = <<>> THEN 0 ELSE text[1][2]), Drop(s, l + 1))

\* binaryType.ReadFrom; every cell of the content is the same.
ReadBinary(s) ==
  LET l == s[1][2]
      content == SubSeq(s, 3, l + 2)
  IN  IF ~Next1(s, "int32") THEN Wrong
      ELSE IF l < 0 \/ Len(s) < l + 2 THEN Wrong
      ELSE IF s[2][1] # "byte" \/ \E i \in DOMAIN content : content[i][1] # "content" THEN Wrong
      ELSE Read(Binary(l, s[2][2], IF l = 0 THEN 0 ELSE content[1][2]), Drop(s, l + 2))

\* boolType.ReadFrom.
ReadBool(s) ==
  IF Next1(s, "byte") /\ s[1][2] \in {0, 1} THEN Read(Bool(s[1][2] = 1), Tail(s)) ELSE Wrong

\* regexType.ReadFrom.
ReadRegex(s) ==
  IF Next1(s, "pattern") /\ Next1(Tail(s), "cstring") THEN Read(Regex(s[1][2], s[2][2]), Drop(s, 2)) ELSE Wrong

\* The ReadFrom of the types whose values are one field of this kind.
ReadField(type, kind, s) == IF Next1(s, kind) THEN Read(Scalar(type, s[1][2]), Tail(s)) ELSE Wrong

ReadInt32(s) == ReadField("int32", "int32", s)
ReadInt64(s) == ReadField("int64", "int64", s)
ReadDateTime(s) == ReadField("date", "int64", s)
ReadTimestamp(s) == ReadField("timestamp", "int64", s)
ReadObjectID(s) == ReadField("objectID", "bytes12", s)

ReadDouble(s) ==
  IF Next1(s, "float64") THEN Read([t |-> "double", n |-> s[1][2].n, c |-> s[1][2].c], Tail(s)) ELSE Wrong

RECURSIVE ReadDocument(_), ReadElements(_, _), ReadValue(_, _)

ReadArray(s) ==
  AndThen(ReadDocument(s), LAMBDA doc, rest :
    IF \E i \in DOMAIN doc.d : doc.d[i][1] # Itoa[i] THEN Wrong
    ELSE Read(Array([i \in DOMAIN doc.d |-> doc.d[i][2]]), rest))

\* Types that are not supported are errors.
ReadValue(type, s) ==
  CASE type = "document" -> ReadDocument(s)
    [] type = "array" -> ReadArray(s)
    [] type = "string" -> ReadString(s)
    [] type = "binary" -> ReadBinary(s)
    [] type = "bool" -> ReadBool(s)
    [] type = "regex" -> ReadRegex(s)
    [] type = "null" -> Read(Null, s)
    [] type = "double" -> ReadDouble(s)
    [] type = "int32" -> ReadInt32(s)
    [] type = "int64" -> ReadInt64(s)
    [] type = "date" -> ReadDateTime(s)
    [] type = "timestamp" -> ReadTimestamp(s)
    [] type = "objectID" -> ReadObjectID(s)
    [] OTHER -> Wrong

\* The loop of Document.ReadFrom: the zero that ends the document is the last byte of it,
\* and the finished document must be valid.
ReadElements(s, pairs) ==
  IF s = <<>> THEN Wrong
  ELSE IF s[1] = Zero THEN IF Len(s) = 1 /\ Valid(Document(pairs)) THEN Read(Document(pairs), <<>>) ELSE Wrong
  ELSE IF ~Next1(s, "tag") \/ ~Next1(Tail(s), "cstring") THEN Wrong
  ELSE AndThen(ReadValue(s[1][2], Drop(s, 2)),
               LAMBDA value, rest : ReadElements(rest, Append(pairs, <<s[2][2], value>>)))

\* Faulty variant: what follows the elements is not left for the next reader.
FaultyReadDocument(s) ==
  IF ~Next1(s, "int32") THEN Wrong
  ELSE IF s[1][2] < minDocumentLen \/ s[1][2] > MaxDocumentLen \/ Len(s) < s[1][2] THEN Wrong
  ELSE Read(ReadElements(SubSeq(s, 2, s[1][2]), <<>>).v, Drop(s, s[1][2] + 1))

\* Document.ReadFrom.
ReadDocument(s) ==
  IF ~Next1(s, "int32") THEN Wrong
  ELSE IF s[1][2] < minDocumentLen \/ s[1][2] > MaxDocumentLen \/ Len(s) < s[1][2] THEN Wrong
  ELSE Read(ReadElements(SubSeq(s, 2, s[1][2]), <<>>).v, Drop(s, s[1][2]))

-----------------------------------------------------------------------------
(* Writing.                                                                *)

\* The WriteTo of the scalars.
WriteInt32(v) == <<Cell("int32", v.n)>>
WriteInt64(v) == <<Cell("int64", v.n)>>
WriteDateTime(v) == <<Cell("int64", v.n)>>
WriteTimestamp(v) == <<Cell("int64", v.n)>>
WriteObjectID(v) == <<Cell("bytes12", v.n)>>
WriteDouble(v) == <<Cell("float64", [n |-> v.n, c |-> v.c])>>
WriteBool(v) == <<Cell("byte", v.n)>>
WriteRegex(v) == <<Cell("pattern", v.n), Cell("cstring", v.o)>>
WriteString(v) == IF v.n = 0 THEN <<Cell("int32", 1), Zero>> ELSE <<Cell("int32", 2), Cell("text", v.n), Zero>>
WriteBinary(v) == <<Cell("int32", v.l), Cell("byte", v.s)>> \o [i \in 1..v.l |-> Cell("content", v.n)]

RECURSIVE WriteDocument(_)

WriteArray(v) == WriteDocument(Document([i \in DOMAIN v.e |-> <<Itoa[i], v.e[i]>>]))

\* One element: its tag, its name and its value.
WriteElement(name, v) ==
  <<Cell("tag", v.t), Cell("cstring", name)>>
  \o CASE v.t = "document" -> WriteDocument(v)
       [] v.t = "array" -> WriteArray(v)
       [] v.t = "string" -> WriteString(v)
       [] v.t = "binary" -> WriteBinary(v)
       [] v.t = "bool" -> WriteBool(v)
       [] v.t = "regex" -> WriteRegex(v)
       [] v.t = "null" -> <<>>
       [] v.t = "double" -> WriteDouble(v)
       [] v.t = "int32" -> WriteInt32(v)
       [] v.t = "int64" -> WriteInt64(v)
       [] v.t = "date" -> WriteDateTime(v)
       [] v.t = "timestamp" -> WriteTimestamp(v)
       [] v.t = "objectID" -> WriteObjectID(v)

\* Document.MarshalBinary.
WriteDocument(doc) ==
  LET framed(elist) == <<Cell("int32", Len(elist) + minDocumentLen)>> \o elist \o <<Zero>>
  IN  framed(FlattenSeq([i \in DOMAIN doc.d |-> WriteElement(doc.d[i][1], doc.d[i][2])]))

=============================================================================
