-------------------------------- MODULE Wire --------------------------------
(***************************************************************************)
(* The wire protocol (package wire): messages on the stream of a           *)
(* connection.  A header is four cells, the length of the message among    *)
(* them; flags are sets of names; otherwise streams and readers are those  *)
(* of Bson.                                                                *)
(***************************************************************************)
EXTENDS Bson

CONSTANTS MaxMsgLen,         \* cells
          maxNumberReturned

MsgHeaderLen == 4

\* The bodies of messages.
OpMsg(flags, sections) == [op |-> "OP_MSG", flags |-> flags, sections |-> sections]
Kind0(doc) == [kind |-> 0, id |-> "", docs |-> <<doc>>]
Kind1(id, docs) == [kind |-> 1, id |-> id, docs |-> docs]
OpQuery(name, query, selector) ==
  [op |-> "OP_QUERY", name |-> name, query |-> query, selector |-> selector]
OpReply(docs) == [op |-> "OP_REPLY", docs |-> docs]

-----------------------------------------------------------------------------
(* The document of an OP_MSG.                                              *)

\* One section added to the document; Absent is no document yet.
AddSection(doc, section) ==
  CASE doc = Bad -> Bad
    [] section.kind = 0 ->
         IF Len(section.docs) # 1 \/ doc # Absent THEN Bad
         ELSE FoldLeft(LAMBDA d, p : Set(d, p[1], p[2]), Document(<<>>), section.docs[1].d)
    [] section.kind = 1 ->
         IF section.id = "" \/ doc = Absent THEN Bad
         ELSE IF Has(doc, section.id) THEN Bad
         ELSE Set(doc, section.id, Array(section.docs))
    [] OTHER -> Bad

\* OpMsg.Document; Bad stands for its errors.
MsgDocument(sections) == FoldLeft(AddSection, Absent, sections)

-----------------------------------------------------------------------------
(* Reading.                                                                *)

\* The documents of a section of kind 1, up to its end.
RECURSIVE ReadDocuments(_)
ReadDocuments(s) ==
  LET first(doc) == IF doc.v = Bad THEN <<Bad>> ELSE <<doc.v>> \o ReadDocuments(doc.rest)
  IN  IF s = <<>> THEN <<>> ELSE first(ReadDocument(s))

ReadSection(s) ==
  LET size == s[2][2]
      kind1(docs) == IF Contains(docs, Bad) THEN Wrong ELSE Read(Kind1(s[3][2], docs), Drop(s, size + 1))
  IN  IF ~Next1(s, "byte") THEN Wrong
      ELSE IF s[1][2] = 0 THEN AndThen(ReadDocument(Tail(s)), LAMBDA doc, rest : Read(Kind0(doc), rest))
      ELSE IF s[1][2] # 1 \/ ~Next1(Tail(s), "int32") THEN Wrong
      ELSE IF size < 2 \/ Len(s) < size + 1 \/ ~Next1(Drop(s, 2), "cstring") THEN Wrong
      ELSE kind1(ReadDocuments(SubSeq(s, 4, size + 1)))

\* The loop of OpMsg.readFrom: there is another section while more than the checksum is
\* left.  A section that cannot be read is the last one.
RECURSIVE ReadSections(_, _, _)
ReadSections(s, peek, sections) ==
  LET more(section) ==
        LET all == Append(sections, section.v)
        IN  IF section.v = Bad \/ Len(section.rest) < peek THEN Read(all, section.rest)
            ELSE ReadSections(section.rest, peek, all)
  IN  more(ReadSection(s))

\* The message of the sections, which must be all there is and make a document.
Checked(flags, sections, rest) ==
  IF Contains(sections, Bad) \/ rest # <<>> THEN Bad
  ELSE IF MsgDocument(sections) = Bad THEN Bad ELSE OpMsg(flags, sections)

\* Faulty variant: the checksum is taken for the beginning of another section.
FaultyReadMsg(s) ==
  LET read == ReadSections(Tail(s), 1, <<>>)
  IN  IF Next1(s, "flags") THEN Checked(s[1][2], read.v, read.rest) ELSE Bad

\* OpMsg.UnmarshalBinary; the checksum is read and not looked at.
ReadMsg(s) ==
  LET checksum == "checksumPresent" \in s[1][2]
      end(read) == IF ~checksum THEN Checked(s[1][2], read.v, read.rest)
                   ELSE IF Next1(read.rest, "uint32") THEN Checked(s[1][2], read.v, Tail(read.rest)) ELSE Bad
  IN  IF Next1(s, "flags") THEN end(ReadSections(Tail(s), IF checksum THEN 2 ELSE 1, <<>>)) ELSE Bad

\* OpQuery.UnmarshalBinary.
ReadQuery(s) ==
  LET selector(rest) == IF rest = <<>> THEN Read(Absent, <<>>) ELSE ReadDocument(rest)
      whole(query, more) ==
        AndThen(selector(more), LAMBDA v, rest : IF rest # <<>> THEN Wrong ELSE Read(OpQuery(s[2][2], query, v), rest))
  IN  IF Len(s) < 4 \/ ~Next1(s, "flags") \/ ~Next1(Tail(s), "cstring") THEN Bad
      ELSE AndThen(ReadDocument(Drop(s, 4)), whole).v

\* OpReply.UnmarshalBinary: as many documents as the message says and nothing else.
ReadReply(s) ==
  LET n == s[4][2]
      reply(docs) == IF Contains(docs, Bad) \/ Len(docs) # n THEN Bad ELSE OpReply(docs)
  IN  IF Len(s) < 4 \/ ~Next1(s, "flags") THEN Bad
      ELSE IF n < 0 \/ n > maxNumberReturned THEN Bad ELSE reply(ReadDocuments(Drop(s, 4)))

\* MsgHeader.readFrom refuses a length, or the stream ends inside the message.
HeaderRefused(s) ==
  Len(s) >= MsgHeaderLen /\ (s[1][2] < MsgHeaderLen \/ s[1][2] > MaxMsgLen)

\* The stream holds the message its first cell announces.
Complete(s) == Len(s) >= MsgHeaderLen /\ Len(s) >= s[1][2]

\* ReadMessage on a stream with a complete message.
ReadMessage(s) ==
  LET body == SubSeq(s, MsgHeaderLen + 1, s[1][2])
      message(v) == Read(IF v = Bad THEN Bad ELSE [id |-> s[2][2], to |-> s[3][2], body |-> v], Drop(s, s[1][2]))
  IN  message(CASE s[4][2] = "OP_MSG" -> ReadMsg(body)
                [] s[4][2] = "OP_QUERY" -> ReadQuery(body)
                [] s[4][2] = "OP_REPLY" -> ReadReply(body)
                [] OTHER -> Bad)

-----------------------------------------------------------------------------
(* Writing.                                                                *)

\* One section, as OpMsg.MarshalBinary writes it.
WriteSection(section) ==
  LET docs == FlattenSeq([i \in DOMAIN section.docs |-> WriteDocument(section.docs[i])])
  IN  IF section.kind = 0 THEN <<Cell("byte", 0)>> \o docs
      ELSE <<Cell("byte", 1), Cell("int32", Len(docs) + 2), Cell("cstring", section.id)>> \o docs

\* OpMsg.MarshalBinary.
WriteMsg(body) ==
  <<Cell("flags", body.flags)>>
  \o FlattenSeq([i \in DOMAIN body.sections |-> WriteSection(body.sections[i])])
  \o (IF "checksumPresent" \in body.flags THEN <<Cell("uint32", 0)>> ELSE <<>>)

\* OpQuery.MarshalBinary.
WriteQuery(body) ==
  <<Cell("flags", {}), Cell("cstring", body.name), Cell("int32", 0), Cell("int32", 0)>>
  \o WriteDocument(body.query)
  \o (IF body.selector = Absent THEN <<>> ELSE WriteDocument(body.selector))

\* OpReply.MarshalBinary.
WriteReply(body) ==
  <<Cell("flags", {}), Cell("int64", 0), Cell("int32", 0), Cell("int32", Len(body.docs))>>
  \o FlattenSeq([i \in DOMAIN body.docs |-> WriteDocument(body.docs[i])])

\* MsgHeader.MarshalBinary.
WriteHeader(length, id, to, op) ==
  <<Cell("int32", length), Cell("int32", id), Cell("int32", to), Cell("opcode", op)>>

\* WriteMessage, with the length that conn.route computes.
WriteMessage(id, to, body) ==
  LET headed(b) == WriteHeader(Len(b) + MsgHeaderLen, id, to, body.op) \o b
  IN  headed(CASE body.op = "OP_MSG" -> WriteMsg(body)
               [] body.op = "OP_QUERY" -> WriteQuery(body)
               [] OTHER -> WriteReply(body))

=============================================================================
