---------------------------- MODULE TigrisProofs ----------------------------
(***************************************************************************)
(* Proofs about TigrisCalls, for any number of clients and commands,       *)
(* whatever calls fail, and whatever the handlers compute from documents,  *)
(* schemas and JSON, as far as CommandsOK, DataOK and IDsOK say: what      *)
(* create replies, that an insert adds a prefix of its documents, that     *)
(* rows can be decoded, and that update and delete count what they change. *)
(***************************************************************************)
EXTENDS TigrisCalls, FiniteSetTheorems, WellFoundedInduction, TLAPS

-----------------------------------------------------------------------------
(* Sessions.                                                               *)

Fields == {"pc", "cmd", "schema", "version", "todo", "n", "modified", "err", "seen", "overlap", "hit", "misread"}

\* Session t differs from session s in the fields K only.
Same(t, s, K) == DOMAIN s = Fields /\ DOMAIN t = Fields /\ \A f \in Fields \ K : t[f] = s[f]

\* What ends a command.
LEMMA FinishSame ==
  ASSUME NEW s, DOMAIN s = Fields, NEW e
  PROVE  Same(Finish(s, e), s, {"pc", "err"}) /\ Finish(s, e).pc = "idle" /\ Finish(s, e).err = e
BY Zenon DEF Finish, Same, Fields

\* What comes before the first call for a document, ...
LEMMA InsertNextSame ==
  ASSUME NEW s, DOMAIN s = Fields
  PROVE  /\ Same(InsertNext(s), s, {"pc", "err", "schema"})
         /\ InsertNext(s).pc \in {"idle", "describeDB"}
         /\ InsertNext(s).pc = "describeDB" => /\ s.todo # <<>> /\ InsertNext(s).schema = SchemaFrom(s.todo[1])
                                               /\ SchemaFrom(s.todo[1]) # NullSchema
         /\ InsertNext(s).pc = "idle" /\ InsertNext(s).err = "none" => s.todo = <<>>
<1>1. CASE s.todo = <<>>
  BY <1>1, FinishSame DEF InsertNext, Same, Fields
<1>2. CASE s.todo # <<>> /\ SchemaFrom(s.todo[1]) = NullSchema
  BY <1>2, FinishSame DEF InsertNext, Same, Fields
<1>3. CASE s.todo # <<>> /\ SchemaFrom(s.todo[1]) # NullSchema
  BY Zenon, <1>3 DEF InsertNext, Same, Fields
<1> QED
  BY Zenon, <1>1, <1>2, <1>3

\* ... and before a write.
LEMMA WriteSame ==
  ASSUME NEW s, DOMAIN s = Fields, NEW doc, NEW pc
  PROVE  /\ Same(Write(s, doc, pc), s, {"pc", "err"})
         /\ \/ Write(s, doc, pc).pc = "idle" /\ Write(s, doc, pc).err \in {"panic", "InternalError"}
            \/ Write(s, doc, pc).pc = pc /\ ToJSON(doc) \notin {Panics, Unencoded}
<1>1. CASE ToJSON(doc) = Panics
  BY Zenon, <1>1, FinishSame DEF Write
<1>2. CASE ToJSON(doc) # Panics /\ ToJSON(doc) = Unencoded
  BY Zenon, <1>2, FinishSame DEF Write
<1>3. CASE ToJSON(doc) \notin {Panics, Unencoded}
  BY Zenon, <1>3 DEF Write, Same, Fields
<1> QED
  BY Zenon, <1>1, <1>2, <1>3

\* What follows CreateCollectionIfNotExist.
LEMMA CreatedSame ==
  ASSUME NEW s, DOMAIN s = Fields, NEW created \in BOOLEAN
  PROVE  LET t == Created(s, created) IN
         /\ Same(t, s, {"pc", "err"})
         /\ s.cmd.op = "create" => t.pc = "idle" /\ t.err = IF created THEN "none" ELSE "NamespaceExists"
         /\ s.cmd.op # "create" => \/ t.pc = "idle" /\ t.err \in {"panic", "InternalError"}
                                   \/ t.pc = "insert" /\ ToJSON(s.todo[1]) \notin {Panics, Unencoded}
BY FinishSame, WriteSame DEF Created

\* The loop of update goes over the documents only.
LEMMA ReplaceNextSame ==
  ASSUME NEW s, DOMAIN s = Fields
  PROVE  Same(ReplaceNext(s), s, {"pc", "err", "todo"}) /\ ReplaceNext(s).pc \in {"idle", "replace"}
<1> DEFINE updated == [i \in DOMAIN s.todo |-> Updated(s.todo[i], s.cmd.u)]
           stops == {i \in DOMAIN s.todo : updated[i].err # "none" \/ updated[i].changed}
           first == CHOOSE i \in stops : \A j \in stops : i <= j
           rest == SubSeq(s.todo, first, Len(s.todo))
           with(q) == [s EXCEPT !.todo = q]
<1>1. ReplaceNext(s) = IF stops = {} THEN Finish(with(<<>>), "none")
                       ELSE IF updated[first].err # "none" THEN Finish(with(rest), updated[first].err)
                       ELSE Write(with([rest EXCEPT ![1] = updated[first].doc]), updated[first].doc, "replace")
  BY Zenon DEF ReplaceNext
<1>2. \A q : Same(with(q), s, {"todo"})
  BY Zenon DEF Same, Fields
<1> HIDE DEF updated, stops, first, rest, with
<1>3. \A q, e : Same(Finish(with(q), e), s, {"pc", "err", "todo"}) /\ Finish(with(q), e).pc = "idle"
  BY <1>2, FinishSame DEF Same
<1>4. \A q, doc : /\ Same(Write(with(q), doc, "replace"), s, {"pc", "err", "todo"})
                  /\ Write(with(q), doc, "replace").pc \in {"idle", "replace"}
  BY <1>2, WriteSame DEF Same
<1> QED
  BY Zenon, <1>1, <1>3, <1>4

\* The commands that query documents.
Queries == {"update", "delete", "find", "count"}

\* What the handlers do with documents keeps the session, but for these fields.
LEMMA QueriedSame ==
  ASSUME NEW s, DOMAIN s = Fields, s.cmd.op \in Queries, NEW docs
  PROVE  /\ Same(Queried(s, docs), s, {"pc", "err", "todo", "n", "schema"})
         /\ Queried(s, docs).pc \in {"idle", "replace", "describeDB", "delete"}
<1> DEFINE K == {"pc", "err", "todo", "n", "schema"}
           good(t) == Same(t, s, K) /\ t.pc \in {"idle", "replace", "describeDB", "delete"}
<1>1. \A e : good(Finish(s, e))
  BY FinishSame DEF Same
<1>2. \A n, e : good(Finish([s EXCEPT !.n = n], e))
  <2> TAKE n, e
  <2>1. Same([s EXCEPT !.n = n], s, {"n"})
    BY Zenon DEF Same, Fields
  <2> QED
    BY <2>1, FinishSame DEF Same
<1>3. \A f : good(Reply(s, f))
  BY Zenon, <1>1, <1>2 DEF Reply
<1>4. \A q : good([s EXCEPT !.todo = q, !.pc = "delete"])
  BY Zenon DEF Same, Fields
<1>5. \A q, n : good(ReplaceNext([s EXCEPT !.todo = q, !.n = n]))
  <2> SUFFICES ASSUME NEW q, NEW n PROVE good(ReplaceNext([s EXCEPT !.todo = q, !.n = n]))
    BY Zenon
  <2>1. Same([s EXCEPT !.todo = q, !.n = n], s, {"todo", "n"})
    BY Zenon DEF Same, Fields
  <2> QED
    BY Zenon, <2>1, ReplaceNextSame DEF Same
<1>6. \A q : good(InsertNext([s EXCEPT !.todo = q]))
  <2> TAKE q
  <2>1. Same([s EXCEPT !.todo = q], s, {"todo"})
    BY Zenon DEF Same, Fields
  <2> QED
    BY Zenon, <2>1, InsertNextSame DEF Same
<1> HIDE DEF good
<1>7. good(MsgUpdate(s, docs))
  BY Zenon, <1>1, <1>5, <1>6 DEF MsgUpdate
<1>8. good(MsgDelete(s, docs))
  BY Zenon, <1>1, <1>4 DEF MsgDelete
<1>9. good(Queried(s, docs))
  BY Zenon, <1>3, <1>7, <1>8 DEF Queried, MsgFind, MsgCount, Queries
<1> QED
  BY Zenon, <1>9 DEF good

-----------------------------------------------------------------------------
(* Types.                                                                  *)

\* The collection, and the rows in it.
IsColl(k) ==
  /\ DOMAIN k = {"here", "schema", "rows", "version"} /\ k.here \in BOOLEAN /\ k.version \in Nat
  /\ IsSequence(k.rows)

\* Only commands that query documents ask for a description of the collection.
IsSession(s) == DOMAIN s = Fields /\ (s.pc \in {"describe", "read"} => s.cmd.op \in Queries)

TypeOK == db \in BOOLEAN /\ IsColl(coll) /\ DOMAIN sess = Clients /\ \A c \in Clients : IsSession(sess[c])

\* A function on 1..n is a sequence, ...
LEMMA FunctionSequence ==
  ASSUME NEW n \in Nat, NEW f, f = [i \in 1..n |-> f[i]]
  PROVE  IsSequence(f) /\ Len(f) = n /\ DOMAIN f = 1..n
<1>1. f \in [1..n -> {f[i] : i \in DOMAIN f}]
  BY Zenon
<1> HIDE DEF IsSequence
<1> QED
  BY <1>1 DEF IsSequence

\* ... a sequence has a length, ...
LEMMA SequenceFacts ==
  ASSUME NEW q, IsSequence(q)
  PROVE  Len(q) \in Nat /\ DOMAIN q = 1..Len(q) /\ q = [i \in 1..Len(q) |-> q[i]]
BY DEF IsSequence

\* ... which is 0 if it is empty, ...
LEMMA EmptySequence ==
  ASSUME NEW q, IsSequence(q)
  PROVE  q = <<>> <=> Len(q) = 0
<1>1. \A S : \A r \in Seq(S) : r = <<>> <=> Len(r) = 0
  OBVIOUS
<1> QED
  BY Zenon, <1>1 DEF IsSequence

\* ... one more element, ...
LEMMA AppendSequence ==
  ASSUME NEW q, IsSequence(q), NEW e
  PROVE  /\ IsSequence(Append(q, e)) /\ Len(Append(q, e)) = Len(q) + 1
         /\ Append(q, e)[Len(q) + 1] = e
         /\ \A i \in 1..Len(q) : Append(q, e)[i] = q[i]
<1> DEFINE S == {q[i] : i \in DOMAIN q} \cup {e}
<1>1. q \in Seq(S) /\ e \in S
  BY DEF IsSequence
<1> HIDE DEF S
<1>2. /\ Append(q, e) \in Seq(S) /\ Len(Append(q, e)) = Len(q) + 1
      /\ Append(q, e)[Len(q) + 1] = e
      /\ \A i \in 1..Len(q) : Append(q, e)[i] = q[i]
  BY <1>1
<1>3. \A r \in Seq(S) : Len(r) \in Nat /\ r \in [1..Len(r) -> S]
  OBVIOUS
<1>4. Append(q, e) = [i \in 1..Len(Append(q, e)) |-> Append(q, e)[i]]
  BY Zenon, <1>2, <1>3
<1> QED
  BY Zenon, <1>2, <1>3, <1>4, FunctionSequence

\* ... or one less.
LEMMA TailSequence ==
  ASSUME NEW q, IsSequence(q), Len(q) # 0
  PROVE  /\ IsSequence(Tail(q)) /\ Len(Tail(q)) = Len(q) - 1
         /\ \A i \in 1..(Len(q) - 1) : Tail(q)[i] = q[i + 1]
<1> DEFINE S == {q[i] : i \in DOMAIN q}
<1>1. q \in Seq(S)
  BY Zenon DEF IsSequence
<1> HIDE DEF S
<1>2. q # <<>>
  OBVIOUS
<1>3. /\ Tail(q) \in Seq(S) /\ Len(Tail(q)) = Len(q) - 1
      /\ \A i \in 1..(Len(q) - 1) : Tail(q)[i] = q[i + 1]
  BY <1>1, <1>2
<1>4. \A r \in Seq(S) : Len(r) \in Nat /\ r \in [1..Len(r) -> S]
  OBVIOUS
<1>5. Tail(q) = [i \in 1..Len(Tail(q)) |-> Tail(q)[i]]
  BY Zenon, <1>3, <1>4
<1> QED
  BY Zenon, <1>3, <1>4, <1>5, FunctionSequence

\* What a call without an effect does to the sessions, ...
LEMMA LookSessions ==
  ASSUME DOMAIN sess = Clients, NEW c \in Clients, NEW t, Look(c, t)
  PROVE  /\ coll' = coll /\ db' = db /\ DOMAIN sess' = Clients
         /\ sess'[c] = t /\ \A d \in Clients \ {c} : sess'[d] = sess[d]
BY Zenon DEF Look

\* ... and one with an effect.
Saw(s, here) == [s EXCEPT !.seen = @ \cup {here}]
Noticed(s, here) == [s EXCEPT !.seen = IF s.pc = "idle" THEN @ ELSE @ \cup {here}, !.overlap = TRUE]

\* The client goes on as t, or its command ends.
LEMMA EffectSessions ==
  ASSUME DOMAIN sess = Clients, NEW c \in Clients, NEW t, NEW b, NEW k, Effect(c, t, b, k)
  PROVE  /\ coll' = k /\ db' = b /\ DOMAIN sess' = Clients
         /\ \E x \in {t, Finish(sess[c], "InternalError")} : sess'[c] = Saw(x, k.here)
         /\ \A d \in Clients \ {c} : sess'[d] = Noticed(sess[d], k.here)
BY Zenon DEF Effect, Saw, Noticed

\* The client of the call has seen the collection after it, ...
LEMMA SawSame ==
  ASSUME NEW s, DOMAIN s = Fields, NEW here
  PROVE  Same(Saw(s, here), s, {"seen"}) /\ Saw(s, here).seen = s.seen \cup {here}
BY Zenon DEF Saw, Same, Fields

\* ... and so have the clients with other commands.
LEMMA NoticedSame ==
  ASSUME NEW s, DOMAIN s = Fields, NEW here
  PROVE  /\ Same(Noticed(s, here), s, {"seen", "overlap"}) /\ Noticed(s, here).overlap = TRUE
         /\ s.seen \subseteq Noticed(s, here).seen
         /\ s.pc # "idle" => here \in Noticed(s, here).seen
BY Zenon DEF Noticed, Same, Fields

\* A call keeps the command, and leads to a session and a collection.
Moves(s, t) == IsSession(t) /\ t.cmd = s.cmd /\ t.seen = s.seen
Calls(c) == \E t : /\ Moves(sess[c], t)
                   /\ Look(c, t) \/ \E b \in BOOLEAN : \E k : IsColl(k) /\ Effect(c, t, b, k)

\* Whatever the handlers compute from documents, a call keeps the command.
LEMMA CallMoves ==
  ASSUME TypeOK, NEW c \in Clients, Call(c)
  PROVE  Calls(c)
<1> DEFINE s == sess[c]
           moves(t) == Moves(s, t)
<1>1. DOMAIN s = Fields /\ IsColl(coll) /\ db \in BOOLEAN /\ (s.pc \in {"describe", "read"} => s.cmd.op \in Queries)
  BY Zenon DEF TypeOK, IsSession
<1>2. \A t, K : Same(t, s, K) /\ "cmd" \notin K /\ "seen" \notin K /\ t.pc \notin {"describe", "read"} => moves(t)
  BY Zenon DEF Moves, IsSession, Same, Fields
<1>3. \A e : moves(Finish(s, e))
  BY Zenon, <1>1, <1>2, FinishSame
<1>4. \A pc : pc \notin {"describe", "read"} => moves([s EXCEPT !.pc = pc])
  <2> TAKE pc
  <2>1. Same([s EXCEPT !.pc = pc], s, {"pc"}) /\ [s EXCEPT !.pc = pc].pc = pc
    BY Zenon, <1>1 DEF Same, Fields
  <2> QED
    BY Zenon, <1>2, <2>1
<1>5. \A created \in BOOLEAN : moves(Created(s, created))
  BY Zenon, <1>1, <1>2, CreatedSame
<1>6. \A n, e : moves(Finish([s EXCEPT !.n = n], e))
  <2> TAKE n, e
  <2>1. Same([s EXCEPT !.n = n], s, {"n"})
    BY Zenon, <1>1 DEF Same, Fields
  <2>2. Same(Finish([s EXCEPT !.n = n], e), s, {"n", "pc", "err"}) /\ Finish([s EXCEPT !.n = n], e).pc = "idle"
    BY Zenon, <2>1, FinishSame DEF Same
  <2> QED
    BY Zenon, <1>2, <2>2
<1>Looks. \A t : moves(t) /\ Look(c, t) => Calls(c)
  BY Zenon DEF Calls
<1>Acts. \A t, b, k : moves(t) /\ b \in BOOLEAN /\ IsColl(k) /\ Effect(c, t, b, k) => Calls(c)
  BY Zenon DEF Calls
<1> HIDE DEF s, moves
<1>7. CASE DescribeDatabase(c)
  BY Zenon, <1>4, <1>7, <1>Looks DEF DescribeDatabase, s
<1>8. CASE CreateDatabase(c)
  BY Zenon, <1>1, <1>4, <1>8, <1>Acts DEF CreateDatabase, s
<1>9. CASE collectionExists(c)
  BY Zenon, <1>4, <1>5, <1>9, <1>Looks DEF collectionExists, s
<1>10. CASE CreateOrUpdateCollection(c)
  <2> DEFINE new == [here |-> TRUE, schema |-> s.schema, rows |-> coll.rows, version |-> coll.version + 1]
  <2>1. IsColl(new)
    BY <1>1 DEF IsColl
  <2> HIDE DEF new
  <2> QED
    BY Zenon, <1>3, <1>5, <1>10, <1>Looks, <1>Acts, <2>1 DEF CreateOrUpdateCollection, s, new
<1>rows. ASSUME NEW q, IsSequence(q) PROVE IsColl([coll EXCEPT !.rows = q])
  BY Zenon, <1>1, <1>rows DEF IsColl
<1>11. CASE Insert(c)
  <2> DEFINE after == [s EXCEPT !.todo = Tail(@), !.n = @ + 1]
             row == [json |-> ToJSON(s.todo[1]), doc |-> s.todo[1]]
             k == [coll EXCEPT !.rows = Append(@, row)]
  <2>1. moves(InsertNext(after))
    <3>1. Same(after, s, {"todo", "n"})
      BY Zenon, <1>1 DEF Same, Fields
    <3> HIDE DEF after
    <3>2. /\ Same(InsertNext(after), s, {"todo", "n", "pc", "err", "schema"})
          /\ InsertNext(after).pc \in {"idle", "describeDB"}
      BY Zenon, <3>1, InsertNextSame DEF Same
    <3> QED
      BY Zenon, <1>2, <3>2
  <2>2. IsColl(k)
    BY ZenonT(60), <1>1, <1>rows, AppendSequence DEF IsColl
  <2>3. \/ Look(c, Finish(s, "InternalError"))
        \/ Effect(c, InsertNext(after), db, k)
    BY Zenon, <1>11 DEF Insert, s
  <2> HIDE DEF after, k
  <2> QED
    BY Zenon, <1>1, <1>3, <1>Looks, <1>Acts, <2>1, <2>2, <2>3
<1>12. CASE Replace1(c)
  <2> DEFINE row == [json |-> ToJSON(s.todo[1]), doc |-> s.todo[1]]
             same == {i \in DOMAIN coll.rows : HasIDOf(coll.rows[i], s.todo[1])}
             rows == IF same = {} THEN Append(coll.rows, row)
                     ELSE [i \in DOMAIN coll.rows |-> IF i \in same THEN row ELSE coll.rows[i]]
             after == [s EXCEPT !.todo = Tail(@), !.modified = @ + 1, !.hit = @ + Cardinality(same)]
  <2>1. moves(ReplaceNext(after))
    <3>1. Same(after, s, {"todo", "modified", "hit"})
      BY Zenon, <1>1 DEF Same, Fields
    <3> HIDE DEF after
    <3>2. /\ Same(ReplaceNext(after), s, {"todo", "modified", "hit", "pc", "err"})
          /\ ReplaceNext(after).pc \in {"idle", "replace"}
      BY Zenon, <3>1, ReplaceNextSame DEF Same
    <3> QED
      BY Zenon, <1>2, <3>2
  <2>2. IsSequence(rows)
    <3> HIDE DEF row, same
    <3>1. IsSequence(coll.rows)
      BY Zenon, <1>1 DEF IsColl
    <3>2. IsSequence(Append(coll.rows, row))
      BY Zenon, <3>1, AppendSequence
    <3>3. IsSequence([i \in DOMAIN coll.rows |-> IF i \in same THEN row ELSE coll.rows[i]])
      BY Zenon, <3>1, SequenceFacts, FunctionSequence
    <3> QED
      BY Zenon, <3>2, <3>3
  <2>3. \/ \E e : Look(c, Finish(s, e))
        \/ Effect(c, ReplaceNext(after), db, [coll EXCEPT !.rows = rows])
    BY Zenon, <1>12 DEF Replace1, s
  <2> HIDE DEF after, rows
  <2> QED
    BY Zenon, <1>1, <1>3, <1>rows, <1>Looks, <1>Acts, <2>1, <2>2, <2>3
<1>13. CASE Delete(c)
  <2> DEFINE places == {i \in DOMAIN coll.rows : ~Doomed(s, coll.rows[i])}
             rows(left) == [i \in DOMAIN left |-> coll.rows[left[i]]]
             t(left) == Finish([s EXCEPT !.n = Len(s.todo), !.hit = Len(coll.rows) - Len(left)], "none")
  <2>1. \A left : moves(t(left))
    <3> SUFFICES ASSUME NEW left PROVE moves(t(left))
      BY Zenon
    <3> DEFINE u == [s EXCEPT !.n = Len(s.todo), !.hit = Len(coll.rows) - Len(left)]
    <3>1. Same(u, s, {"n", "hit"})
      BY Zenon, <1>1 DEF Same, Fields
    <3> HIDE DEF u
    <3>2. Same(Finish(u, "none"), s, {"n", "hit", "pc", "err"}) /\ Finish(u, "none").pc = "idle"
      BY <3>1, FinishSame DEF Same
    <3>3. moves(Finish(u, "none"))
      BY Zenon, <1>2, <3>2
    <3> QED
      BY Zenon, <3>3 DEF u
  <2>2. \A left \in InOrder(places) : IsSequence(rows(left))
    <3>1. Cardinality(places) \in Nat
      <4>1. Len(coll.rows) \in Nat /\ places \subseteq 1..Len(coll.rows)
        BY Zenon, <1>1, SequenceFacts DEF IsColl
      <4>2. IsFiniteSet(1..Len(coll.rows))
        <5>1. 1 \in Int /\ Len(coll.rows) \in Int
          BY <4>1
        <5> QED
          BY Zenon, <5>1, FS_Interval
      <4> HIDE DEF places
      <4> QED
        BY Zenon, <4>1, <4>2, FS_Subset, FS_CardinalityType
    <3> QED
      BY Zenon, <3>1, FunctionSequence DEF InOrder
  <2>3. \/ Look(c, Finish(s, "InternalError"))
        \/ \E left \in InOrder(places) : Effect(c, t(left), db, [coll EXCEPT !.rows = rows(left)])
    BY Zenon, <1>13 DEF Delete, s
  <2> HIDE DEF rows, t, places
  <2> QED
    BY Zenon, <1>1, <1>3, <1>rows, <1>Looks, <1>Acts, <2>1, <2>2, <2>3
<1>queried. ASSUME NEW u, Same(u, s, {"overlap", "misread"}), s.pc \in {"describe", "read"}, NEW docs
            PROVE  moves(Queried(u, docs))
  <2>1. u.cmd.op \in Queries /\ DOMAIN u = Fields
    BY Zenon, <1>1, <1>queried DEF Same, Fields
  <2>2. /\ Same(Queried(u, docs), s, {"overlap", "misread", "pc", "err", "todo", "n", "schema"})
        /\ Queried(u, docs).pc \notin {"describe", "read"}
    BY <1>queried, <2>1, QueriedSame DEF Same
  <2> QED
    BY Zenon, <1>2, <2>2
<1>14. CASE DescribeCollection(c)
  <2>1. Same(s, s, {"overlap", "misread"})
    BY Zenon, <1>1 DEF Same
  <2> DEFINE t == [s EXCEPT !.pc = "read", !.schema = coll.schema, !.version = coll.version]
  <2>2. s.pc = "describe" => moves(t)
    BY Zenon, <1>1 DEF moves, Moves, IsSession, Fields
  <2>3. s.pc = "describe" /\ (Look(c, t) \/ Look(c, Queried(s, <<>>)))
    BY Zenon, <1>14 DEF DescribeCollection, s
  <2> HIDE DEF t
  <2> QED
    BY Zenon, <1>queried, <1>Looks, <2>1, <2>2, <2>3
<1>21. CASE Read(c)
  <2> DEFINE u == [s EXCEPT !.overlap = FALSE]
             v(b) == [u EXCEPT !.misread = b]
  <2>1. Same(u, s, {"overlap", "misread"})
    BY Zenon, <1>1 DEF Same, Fields
  <2>2. \A b : Same(v(b), s, {"overlap", "misread"})
    BY Zenon, <1>1 DEF Same, Fields
  <2>3. /\ s.pc = "read"
        /\ \/ Look(c, Finish(u, "InternalError"))
           \/ \E b : Look(c, Finish(v(b), "InternalError"))
           \/ \E docs : Look(c, Queried(u, docs))
    BY Zenon, <1>21 DEF Read, s
  <2> HIDE DEF u, v
  <2>4. \A x : Same(x, s, {"overlap", "misread"}) => moves(Finish(x, "InternalError"))
    <3> TAKE x
    <3>1. HAVE Same(x, s, {"overlap", "misread"})
    <3>2. /\ Same(Finish(x, "InternalError"), s, {"overlap", "misread", "pc", "err"})
          /\ Finish(x, "InternalError").pc = "idle"
      BY <3>1, FinishSame DEF Same
    <3> QED
      BY Zenon, <1>2, <3>2
  <2> QED
    BY Zenon, <1>queried, <1>Looks, <2>1, <2>2, <2>3, <2>4
<1>15. CASE FetchStats(c)
  BY Zenon, <1>3, <1>4, <1>6, <1>15, <1>Looks DEF FetchStats, s
<1>Missing. IsColl(Missing)
  <2>1. IsSequence(<<>>)
    BY DEF IsSequence
  <2> QED
    BY <1>1, <2>1 DEF IsColl, Missing
<1>16. CASE DropCollection(c)
  BY Zenon, <1>1, <1>3, <1>16, <1>Looks, <1>Acts, <1>Missing DEF DropCollection, s
<1>17. CASE DropDatabase(c)
  BY Zenon, <1>1, <1>3, <1>6, <1>17, <1>Looks, <1>Acts, <1>Missing DEF DropDatabase, s
<1>18. CASE ListCollections(c)
  BY Zenon, <1>3, <1>6, <1>18, <1>Looks DEF ListCollections, s
<1>19. CASE ListDatabases(c)
  BY Zenon, <1>3, <1>4, <1>6, <1>19, <1>Looks DEF ListDatabases, s
<1>20. CASE DBStats(c)
  BY Zenon, <1>3, <1>4, <1>20, <1>Looks DEF DBStats, s
<1> QED
  BY Zenon, <1>7, <1>8, <1>9, <1>10, <1>11, <1>12, <1>13, <1>14, <1>15, <1>16, <1>17, <1>18, <1>19, <1>20,
     <1>21 DEF Call

\* How a command begins, ...
Begins(c, cmd, t) ==
  /\ coll' = coll /\ db' = db /\ DOMAIN sess' = Clients
  /\ sess'[c] = t /\ \A d \in Clients \ {c} : sess'[d] = sess[d]
  /\ IsSession(t) /\ t.cmd = cmd /\ t.seen = {coll.here} /\ t.n = 0 /\ ~t.overlap /\ ~t.misread
  /\ t.pc \notin {"read", "exists", "createDB", "createColl", "insert", "replace", "delete"}
  /\ t.pc = "describeDB" => cmd.op \in {"create", "insert"}

\* ... create, insert and those that count in particular.
BeginsWith(cmd, t) ==
  /\ cmd.op \in {"update", "delete"} => t.pc = "describe" /\ t.modified = 0 /\ t.hit = 0
  /\ cmd.op = "create" => t.pc = "describeDB" /\ t.schema = cmd.schema
  /\ cmd.op = "insert" =>
       /\ t.todo = cmd.docs /\ t.hit = Len(coll.rows) /\ t.pc \in {"idle", "describeDB"}
       /\ t.pc = "describeDB" => /\ cmd.docs # <<>> /\ t.schema = SchemaFrom(cmd.docs[1])
                                 /\ SchemaFrom(cmd.docs[1]) # NullSchema
       /\ t.pc = "idle" /\ t.err = "none" => cmd.docs = <<>>

\* Begin is such a beginning, for a command the handler has.
LEMMA BeginMoves ==
  ASSUME TypeOK, CommandsOK, NEW c \in Clients, Begin(c)
  PROVE  \E i \in DOMAIN Commands : \E t : Begins(c, Commands[i], t) /\ BeginsWith(Commands[i], t)
<1> DEFINE s(cmd) == [Idle EXCEPT !.cmd = cmd, !.seen = {coll.here}]
           with(cmd, pc) == [s(cmd) EXCEPT !.pc = pc]
           ins(cmd) == [s(cmd) EXCEPT !.todo = s(cmd).cmd.docs, !.hit = Len(coll.rows)]
           first(cmd) == CASE cmd.op = "insert" -> MsgInsert(s(cmd))
                           [] cmd.op = "create" -> MsgCreate(s(cmd))
                           [] cmd.op = "collStats" -> MsgCollStats(s(cmd))
                           [] cmd.op = "dataSize" -> MsgDataSize(s(cmd))
                           [] cmd.op \in {"update", "delete", "find", "count"} -> with(cmd, "describe")
                           [] OTHER -> with(cmd, cmd.op)
<1>1. PICK i \in DOMAIN Commands : sess' = [sess EXCEPT ![c] = first(Commands[i])]
  BY Zenon DEF Begin
<1> DEFINE cmd == Commands[i]
           t == first(cmd)
<1>2. coll' = coll /\ db' = db
  BY Zenon DEF Begin
<1>3. DOMAIN sess' = Clients /\ sess'[c] = t /\ \A d \in Clients \ {c} : sess'[d] = sess[d]
  BY Zenon, <1>1 DEF TypeOK
<1>4. cmd.op \in AllOps
  BY Zenon DEF CommandsOK
<1> DEFINE fresh(x) == /\ DOMAIN x = Fields /\ x.cmd = cmd /\ x.seen = {coll.here} /\ x.n = 0
                       /\ ~x.overlap /\ ~x.misread
<1>5. /\ fresh(s(cmd))
      /\ \A pc : fresh(with(cmd, pc)) /\ with(cmd, pc).pc = pc /\ with(cmd, pc).modified = 0 /\ with(cmd, pc).hit = 0
  BY Zenon DEF Idle, Fields
<1>6. fresh(ins(cmd)) /\ ins(cmd).todo = cmd.docs /\ ins(cmd).hit = Len(coll.rows)
  BY Zenon DEF Idle, Fields
<1> HIDE DEF cmd
<1>7. CASE cmd.op = "insert"
  <2>1. t = InsertNext(ins(cmd))
    BY Zenon, <1>7 DEF MsgInsert
  <2> HIDE DEF ins, first
  <2>2. /\ Same(t, ins(cmd), {"pc", "err", "schema"}) /\ BeginsWith(cmd, t)
        /\ t.pc \in {"idle", "describeDB"}
    BY <1>6, <1>7, <2>1, InsertNextSame DEF BeginsWith, Same, Fields
  <2>3. fresh(t)
    BY Zenon, <1>6, <2>2 DEF Same, Fields
  <2>4. Begins(c, cmd, t)
    BY Zenon, <1>2, <1>3, <1>7, <2>2, <2>3 DEF Begins, IsSession
  <2> QED
    BY Zenon, <2>2, <2>4 DEF cmd
<1>8. CASE cmd.op = "create"
  <2>1. t = [s(cmd) EXCEPT !.schema = s(cmd).cmd.schema, !.pc = "describeDB"]
    BY Zenon, <1>8 DEF MsgCreate
  <2> HIDE DEF s, first
  <2>2. fresh(t) /\ t.pc = "describeDB" /\ t.schema = cmd.schema
    BY ZenonT(60), <1>5, <2>1 DEF Fields
  <2>3. Begins(c, cmd, t) /\ BeginsWith(cmd, t)
    BY Zenon, <1>2, <1>3, <1>8, <2>2 DEF Begins, BeginsWith, IsSession
  <2> QED
    BY Zenon, <2>3 DEF cmd
<1>9. CASE cmd.op \notin {"insert", "create"}
  <2>1. \E pc : /\ t = with(cmd, pc)
                /\ pc \in (AllOps \ {"insert", "create", "update", "delete", "find", "count"}) \cup {"stats", "describe"}
                /\ pc = "describe" <=> cmd.op \in Queries
    <3>1. CASE cmd.op \in {"collStats", "dataSize"}
      <4>1. MsgCollStats(s(cmd)) = with(cmd, "stats") /\ MsgDataSize(s(cmd)) = with(cmd, "stats")
        BY Zenon DEF MsgCollStats, MsgDataSize
      <4> HIDE DEF with, s
      <4>2. t = with(cmd, "stats")
        BY Zenon, <3>1, <4>1
      <4> QED
        BY <3>1, <4>2 DEF Queries
    <3>2. CASE cmd.op \in Queries
      <4> HIDE DEF with, s
      <4>1. t = with(cmd, "describe")
        BY Zenon, <3>2 DEF Queries
      <4> QED
        BY Zenon, <3>2, <4>1
    <3>3. CASE cmd.op \notin {"collStats", "dataSize"} \cup Queries
      <4> HIDE DEF with, s
      <4>1. t = with(cmd, cmd.op)
        BY Zenon, <1>9, <3>3 DEF Queries
      <4> QED
        BY Zenon, <1>4, <1>9, <3>3, <4>1 DEF AllOps, Queries
    <3> QED
      BY Zenon, <3>1, <3>2, <3>3
  <2> HIDE DEF with, first
  <2>2. fresh(t) /\ t.pc \notin {"read", "exists", "createDB", "createColl", "insert", "replace", "delete", "describeDB"}
        /\ (t.pc = "describe" <=> cmd.op \in Queries) /\ t.modified = 0 /\ t.hit = 0
    BY ZenonT(60), <1>5, <2>1 DEF AllOps
  <2>3. Begins(c, cmd, t) /\ BeginsWith(cmd, t)
    BY Zenon, <1>2, <1>3, <1>9, <2>2 DEF Begins, BeginsWith, IsSession, Queries
  <2> QED
    BY Zenon, <2>3 DEF cmd
<1> QED
  BY Zenon, <1>7, <1>8, <1>9

\* A command that is over is a session.
LEMMA FinishSession ==
  ASSUME NEW s, IsSession(s), NEW e
  PROVE  IsSession(Finish(s, e))
<1>1. DOMAIN s = Fields
  BY Zenon DEF IsSession
<1>2. Same(Finish(s, e), s, {"pc", "err"}) /\ Finish(s, e).pc = "idle"
  BY Zenon, <1>1, FinishSame
<1> QED
  BY Zenon, <1>2 DEF IsSession, Same

\* The steps keep the types.
LEMMA TypeStep ==
  ASSUME TypeOK, CommandsOK, Next
  PROVE  TypeOK'
<1>1. PICK c \in Clients : Begin(c) \/ Call(c) \/ Fault(c)
  BY Zenon DEF Next
<1>2. CASE Begin(c)
  BY ZenonT(60), <1>2, BeginMoves DEF Begins, TypeOK
<1>3. CASE Call(c)
  <2>1. PICK t : /\ Moves(sess[c], t)
                 /\ Look(c, t) \/ \E b \in BOOLEAN : \E k : IsColl(k) /\ Effect(c, t, b, k)
    BY Zenon, <1>3, CallMoves DEF Calls
  <2>2. CASE Look(c, t)
    BY <2>1, <2>2, LookSessions DEF TypeOK, Moves
  <2>3. ASSUME NEW b \in BOOLEAN, NEW k, IsColl(k), Effect(c, t, b, k)
        PROVE  TypeOK'
    <3>1. PICK x \in {t, Finish(sess[c], "InternalError")} : sess'[c] = Saw(x, k.here)
      BY ZenonT(60), <2>3, EffectSessions DEF TypeOK
    <3>2. IsSession(x)
      <4>1. IsSession(Finish(sess[c], "InternalError")) /\ IsSession(t)
        BY Zenon, <2>1, FinishSession DEF TypeOK, Moves
      <4> QED
        BY Zenon, <4>1
    <3>3. IsSession(sess'[c])
      <4>1. Same(Saw(x, k.here), x, {"seen"})
        BY Zenon, <3>2, SawSame DEF IsSession
      <4> QED
        BY Zenon, <3>1, <3>2, <4>1 DEF IsSession, Same, Fields
    <3>4. ASSUME NEW d \in Clients \ {c} PROVE IsSession(sess'[d])
      <4>1. IsSession(sess[d]) /\ sess'[d] = Noticed(sess[d], k.here)
        BY <2>3, EffectSessions DEF TypeOK
      <4>2. Same(Noticed(sess[d], k.here), sess[d], {"seen", "overlap"})
        BY Zenon, <4>1, NoticedSame DEF IsSession
      <4> QED
        BY Zenon, <4>1, <4>2 DEF IsSession, Same, Fields
    <3>5. coll' = k /\ db' = b /\ DOMAIN sess' = Clients
      BY Zenon, <2>3, EffectSessions DEF TypeOK
    <3> QED
      BY Zenon, <2>3, <3>3, <3>4, <3>5 DEF TypeOK
  <2> QED
    BY Zenon, <2>1, <2>2, <2>3
<1>4. CASE Fault(c)
  <2>1. /\ coll' = coll /\ db' = db /\ DOMAIN sess' = Clients
        /\ sess'[c] = Finish(sess[c], "InternalError")
        /\ \A d \in Clients \ {c} : sess'[d] = sess[d]
    BY Zenon, <1>4 DEF Fault, TypeOK
  <2>2. IsSession(Finish(sess[c], "InternalError"))
    BY Zenon, FinishSession DEF TypeOK
  <2> QED
    BY Zenon, <2>1, <2>2 DEF TypeOK
<1> QED
  BY Zenon, <1>1, <1>2, <1>3, <1>4

-----------------------------------------------------------------------------
(* create and insert.                                                      *)

\* What a create has seen of the collection.
CreateOf(s, here) ==
  s.cmd.op = "create" =>
    /\ s.pc \in {"idle", "describeDB", "createDB", "exists", "createColl"}
    /\ s.pc # "idle" => here \in s.seen
    /\ s.pc = "createColl" => FALSE \in s.seen
    /\ s.pc = "idle" => /\ s.err = "none" => FALSE \in s.seen
                        /\ s.err = "NamespaceExists" => TRUE \in s.seen

\* The first m documents of an insert are the rows after those that it began with, ...
Added(s, rows, m) ==
  /\ Len(rows) = s.hit + m
  /\ \A i \in 1..m : rows[s.hit + i].doc = s.cmd.docs[i]

\* ... and those that it has not inserted yet.
Rest(s) ==
  /\ IsSequence(s.todo) /\ Len(s.todo) = Len(s.cmd.docs) - s.n /\ Len(s.todo) # 0
  /\ \A i \in 1..Len(s.todo) : s.todo[i] = s.cmd.docs[s.n + i]

\* How far an insert has come.
InsertOf(s, rows) ==
  s.cmd.op = "insert" =>
    /\ s.pc \in {"idle", "describeDB", "createDB", "exists", "createColl", "insert"}
    /\ s.n \in Nat /\ s.hit \in Nat /\ IsSequence(s.cmd.docs)
    /\ s.pc # "idle" => Rest(s) /\ (~s.overlap => Added(s, rows, s.n))
    /\ s.pc = "idle" /\ ~s.overlap =>
         \E m \in {s.n, s.n + 1} : /\ m <= Len(s.cmd.docs) /\ Added(s, rows, m)
                                   /\ s.err = "none" => m = s.n /\ m = Len(s.cmd.docs)

\* The calls of other clients disturb neither.
LEMMA NoticedKept ==
  ASSUME NEW s, DOMAIN s = Fields, NEW k, CreateOf(s, k.here), InsertOf(s, k.rows), NEW new
  PROVE  CreateOf(Noticed(s, new.here), new.here) /\ InsertOf(Noticed(s, new.here), new.rows)
<1> DEFINE t == Noticed(s, new.here)
<1>1. /\ Same(t, s, {"seen", "overlap"}) /\ t.overlap = TRUE /\ s.seen \subseteq t.seen
      /\ s.pc # "idle" => new.here \in t.seen
  BY Zenon, NoticedSame
<1> HIDE DEF t
<1>2. t.pc = s.pc /\ t.cmd = s.cmd /\ t.err = s.err /\ t.n = s.n /\ t.hit = s.hit /\ t.todo = s.todo
  BY Zenon, <1>1 DEF Same, Fields
<1>3. CreateOf(t, new.here)
  BY Zenon, <1>1, <1>2 DEF CreateOf
<1>4. Rest(s) => Rest(t)
  BY Zenon, <1>2 DEF Rest
<1>5. InsertOf(t, new.rows)
  BY Zenon, <1>1, <1>2, <1>4 DEF InsertOf
<1> QED
  BY Zenon, <1>3, <1>5 DEF t

\* An insert that goes on without a new row, or ends with an error.
LEMMA InsertGoesOn ==
  ASSUME NEW s, NEW t, Same(t, s, {"pc", "err", "seen", "schema"}), NEW rows, InsertOf(s, rows), s.pc # "idle",
         \/ t.pc = "idle" /\ t.err # "none"
         \/ t.pc \in {"describeDB", "createDB", "exists", "createColl", "insert"}
  PROVE  InsertOf(t, rows)
<1> SUFFICES ASSUME t.cmd.op = "insert" PROVE InsertOf(t, rows)
  BY Zenon DEF InsertOf
<1>1. t.cmd = s.cmd /\ t.n = s.n /\ t.hit = s.hit /\ t.todo = s.todo /\ t.overlap = s.overlap
  BY Zenon DEF Same, Fields
<1>2. s.n \in Nat /\ s.hit \in Nat /\ IsSequence(s.cmd.docs) /\ Rest(s) /\ (~s.overlap => Added(s, rows, s.n))
  BY Zenon, <1>1 DEF InsertOf
<1>3. Rest(t) /\ (~t.overlap => Added(t, rows, t.n))
  BY Zenon, <1>1, <1>2 DEF Rest, Added
<1>4. t.n <= Len(t.cmd.docs)
  <2>1. Len(s.cmd.docs) \in Nat /\ Len(s.todo) \in Nat
    BY Zenon, <1>2, SequenceFacts DEF Rest
  <2> QED
    BY <1>1, <1>2, <2>1 DEF Rest
<1> QED
  BY Zenon, <1>1, <1>2, <1>3, <1>4 DEF InsertOf

\* The documents that are left after one more.
LEMMA RestShrinks ==
  ASSUME NEW s, Rest(s), s.n \in Nat, IsSequence(s.cmd.docs)
  PROVE  /\ IsSequence(Tail(s.todo)) /\ Len(Tail(s.todo)) = Len(s.cmd.docs) - (s.n + 1)
         /\ \A i \in 1..Len(Tail(s.todo)) : Tail(s.todo)[i] = s.cmd.docs[(s.n + 1) + i]
         /\ Tail(s.todo) = <<>> <=> s.n + 1 = Len(s.cmd.docs)
         /\ Tail(s.todo) = <<>> <=> Len(Tail(s.todo)) = 0
<1> DEFINE todo == s.todo
           docs == s.cmd.docs
           n == s.n
<1>rest. /\ IsSequence(todo) /\ IsSequence(docs) /\ n \in Nat /\ Len(todo) = Len(docs) - n /\ Len(todo) # 0
         /\ \A i \in 1..Len(todo) : todo[i] = docs[n + i]
  BY Zenon DEF Rest
<1> HIDE DEF todo, docs, n
<1>1. /\ IsSequence(Tail(todo)) /\ Len(Tail(todo)) = Len(todo) - 1
      /\ \A i \in 1..(Len(todo) - 1) : Tail(todo)[i] = todo[i + 1]
  BY Zenon, <1>rest, TailSequence
<1>2. Len(todo) \in Nat /\ Len(docs) \in Nat /\ Len(Tail(todo)) \in Nat
  BY Zenon, <1>rest, <1>1, SequenceFacts
<1>3. Tail(todo) = <<>> <=> Len(Tail(todo)) = 0
  BY Zenon, <1>1, EmptySequence
<1>4. ASSUME NEW i \in 1..Len(Tail(todo)) PROVE Tail(todo)[i] = docs[(n + 1) + i]
  <2>0. i \in 1..(Len(todo) - 1) /\ Len(todo) \in Nat /\ n \in Nat
    BY Zenon, <1>rest, <1>1, <1>2, <1>4
  <2>1. i \in 1..(Len(todo) - 1) /\ i + 1 \in 1..Len(todo) /\ n + (i + 1) = (n + 1) + i
    BY <2>0
  <2>2. Tail(todo)[i] = docs[n + (i + 1)]
    BY Zenon, <1>rest, <1>1, <2>1
  <2> QED
    BY Zenon, <2>1, <2>2
<1>5. /\ Len(Tail(todo)) = Len(docs) - (n + 1)
      /\ Tail(todo) = <<>> <=> n + 1 = Len(docs)
  <2> DEFINE l == Len(docs)
             r == Len(todo)
             m == Len(Tail(todo))
  <2>1. r = l - n /\ m = r - 1 /\ r \in Nat /\ l \in Nat /\ m \in Nat /\ n \in Nat
    BY Zenon, <1>rest, <1>1, <1>2
  <2> HIDE DEF l, r, m
  <2>2. m = l - (n + 1) /\ (m = 0 <=> n + 1 = l)
    BY <2>1
  <2> QED
    BY Zenon, <1>3, <2>2 DEF l, m
<1> QED
  BY Zenon, <1>1, <1>3, <1>4, <1>5 DEF todo, docs, n

\* The rows with one more document.
LEMMA RowsGrow ==
  ASSUME NEW s, s.hit \in Nat, s.n \in Nat, NEW rows, IsSequence(rows), Added(s, rows, s.n),
         NEW row, row.doc = s.cmd.docs[s.n + 1]
  PROVE  Added(s, Append(rows, row), s.n + 1)
<1> DEFINE new == Append(rows, row)
           docs == s.cmd.docs
           n == s.n
           hit == s.hit
<1>rows. /\ hit \in Nat /\ n \in Nat /\ Len(rows) = hit + n /\ row.doc = docs[n + 1]
         /\ \A i \in 1..n : rows[hit + i].doc = docs[i]
  BY Zenon DEF Added
<1> HIDE DEF docs, n, hit
<1>1. /\ Len(new) = Len(rows) + 1 /\ new[Len(rows) + 1] = row
      /\ \A i \in 1..Len(rows) : new[i] = rows[i]
  BY AppendSequence
<1> HIDE DEF new
<1>2. ASSUME NEW i \in 1..(n + 1) PROVE new[hit + i].doc = docs[i]
  <2>1. CASE i = n + 1
    <3>1. hit + i = Len(rows) + 1
      BY <1>rows, <2>1
    <3> QED
      BY Zenon, <1>rows, <1>1, <2>1, <3>1
  <2>2. CASE i \in 1..n
    <3>1. hit + i \in 1..Len(rows)
      BY <1>rows, <2>2
    <3> QED
      BY Zenon, <1>rows, <1>1, <2>2, <3>1
  <2> QED
    BY <1>rows, <2>1, <2>2
<1>3. Len(new) = hit + (n + 1)
  BY <1>rows, <1>1
<1> QED
  BY Zenon, <1>2, <1>3 DEF Added, new, docs, n, hit

\* An insert after the row for its next document, and the answer to it.
LEMMA InsertAdds ==
  ASSUME NEW s, DOMAIN s = Fields, s.cmd.op = "insert", s.pc = "insert", NEW rows, IsSequence(rows), InsertOf(s, rows),
         NEW row, row.doc = s.todo[1],
         NEW after, after = [s EXCEPT !.todo = Tail(@), !.n = @ + 1],
         NEW x \in {InsertNext(after), Finish(s, "InternalError")}, NEW here
  PROVE  InsertOf(Saw(x, here), Append(rows, row))
<1> DEFINE docs == s.cmd.docs
           t == Saw(x, here)
           new == Append(rows, row)
<1>1. /\ s.n \in Nat /\ s.hit \in Nat /\ IsSequence(docs) /\ IsSequence(s.todo)
      /\ Len(s.todo) = Len(docs) - s.n /\ Len(s.todo) # 0
      /\ \A i \in 1..Len(s.todo) : s.todo[i] = docs[s.n + i]
      /\ Rest(s) /\ (~s.overlap => Added(s, rows, s.n))
  BY Zenon DEF InsertOf, Rest
<1>2. Len(docs) \in Nat /\ Len(s.todo) \in Nat /\ Len(rows) \in Nat
  BY Zenon, <1>1, SequenceFacts
<1>3. s.n + 1 <= Len(docs)
  BY <1>1, <1>2
<1>4. ~s.overlap => Added(s, new, s.n + 1)
  <2> SUFFICES ASSUME ~s.overlap PROVE Added(s, new, s.n + 1)
    BY Zenon
  <2>1. row.doc = docs[s.n + 1]
    BY <1>1, <1>2
  <2> QED
    BY Zenon, <1>1, <2>1, RowsGrow
<1>5. CASE x = Finish(s, "InternalError")
  <2>1. Same(t, s, {"pc", "err", "seen"}) /\ t.pc = "idle" /\ t.err = "InternalError"
    BY <1>5, FinishSame, SawSame DEF Same, Fields
  <2> HIDE DEF t, new
  <2>2. t.cmd = s.cmd /\ t.n = s.n /\ t.hit = s.hit /\ t.overlap = s.overlap
    BY Zenon, <2>1 DEF Same, Fields
  <2>3. ~t.overlap => Added(t, new, t.n + 1)
    BY Zenon, <1>4, <2>2 DEF Added
  <2>4. InsertOf(t, new)
    BY Zenon, <1>1, <1>3, <2>1, <2>2, <2>3 DEF InsertOf
  <2> QED
    BY Zenon, <2>4 DEF t, new
<1>6. CASE x = InsertNext(after)
  <2>1. Same(after, s, {"todo", "n"}) /\ after.todo = Tail(s.todo) /\ after.n = s.n + 1
    BY Zenon DEF Same, Fields
  <2>2. /\ Same(x, after, {"pc", "err", "schema"}) /\ x.pc \in {"idle", "describeDB"}
        /\ x.pc = "describeDB" => after.todo # <<>>
        /\ x.pc = "idle" /\ x.err = "none" => after.todo = <<>>
    BY ZenonT(60), <1>6, <2>1, InsertNextSame DEF Same
  <2>3. Same(t, x, {"seen"})
    BY <2>2, SawSame DEF Same
  <2> HIDE DEF t, new
  <2>4. /\ t.cmd = s.cmd /\ t.n = s.n + 1 /\ t.hit = s.hit /\ t.overlap = s.overlap /\ t.todo = Tail(s.todo)
        /\ t.pc = x.pc /\ t.err = x.err
    <3>1. after.cmd = s.cmd /\ after.hit = s.hit /\ after.overlap = s.overlap
      BY Zenon, <2>1 DEF Same, Fields
    <3>2. /\ x.cmd = after.cmd /\ x.n = after.n /\ x.hit = after.hit /\ x.overlap = after.overlap
          /\ x.todo = after.todo
      BY Zenon, <2>2 DEF Same, Fields
    <3>3. /\ t.cmd = x.cmd /\ t.n = x.n /\ t.hit = x.hit /\ t.overlap = x.overlap /\ t.todo = x.todo
          /\ t.pc = x.pc /\ t.err = x.err
      BY Zenon, <2>3 DEF Same, Fields
    <3> QED
      BY Zenon, <2>1, <3>1, <3>2, <3>3
  <2>5. ~t.overlap => Added(t, new, t.n)
    BY Zenon, <1>4, <2>4 DEF Added
  <2>6. /\ IsSequence(Tail(s.todo)) /\ Len(Tail(s.todo)) = Len(docs) - (s.n + 1)
        /\ \A i \in 1..Len(Tail(s.todo)) : Tail(s.todo)[i] = docs[(s.n + 1) + i]
        /\ Tail(s.todo) = <<>> <=> s.n + 1 = Len(docs)
        /\ Tail(s.todo) = <<>> <=> Len(Tail(s.todo)) = 0
    BY Zenon, <1>1, RestShrinks
  <2>7. t.pc = "describeDB" => Rest(t)
    BY Zenon, <2>1, <2>2, <2>4, <2>6 DEF Rest
  <2>8. t.pc = "idle" /\ t.err = "none" => t.n = Len(docs)
    BY Zenon, <2>1, <2>2, <2>4, <2>6
  <2>9. InsertOf(t, new)
    BY <1>1, <1>3, <2>2, <2>4, <2>5, <2>7, <2>8 DEF InsertOf
  <2> QED
    BY Zenon, <2>9 DEF t, new
<1> QED
  BY Zenon, <1>5, <1>6

\* A call of a client keeps what its create or insert relies on.
LEMMA CallKept ==
  ASSUME TypeOK, NEW c \in Clients, CreateOf(sess[c], coll.here), InsertOf(sess[c], coll.rows), Call(c)
  PROVE  CreateOf(sess'[c], coll'.here) /\ InsertOf(sess'[c], coll'.rows)
<1> DEFINE s == sess[c]
<1>1. DOMAIN s = Fields /\ IsColl(coll) /\ db \in BOOLEAN /\ DOMAIN sess = Clients
  BY Zenon DEF TypeOK, IsSession
<1>2. CASE s.cmd.op \notin {"create", "insert"}
  <2>1. PICK t : /\ Moves(s, t)
                 /\ Look(c, t) \/ \E b \in BOOLEAN : \E k : IsColl(k) /\ Effect(c, t, b, k)
    BY Zenon, CallMoves DEF Calls
  <2>2. /\ t.cmd = s.cmd /\ Finish(s, "InternalError").cmd = s.cmd
        /\ DOMAIN t = Fields /\ DOMAIN Finish(s, "InternalError") = Fields
    BY <1>1, <2>1, FinishSame DEF Moves, IsSession, Same, Fields
  <2>3. \A x, h : DOMAIN x = Fields => Saw(x, h).cmd = x.cmd
    BY SawSame DEF Same, Fields
  <2>4. sess'[c].cmd = s.cmd
    BY <1>1, <2>1, <2>2, <2>3, LookSessions, EffectSessions
  <2> QED
    BY Zenon, <1>2, <2>4 DEF CreateOf, InsertOf
<1>3. CASE s.cmd.op \in {"create", "insert"}
  <2> DEFINE fine(t, h) ==
        /\ Same(t, s, {"pc", "err", "seen"})
        /\ \/ t.pc = "idle" /\ t.err \notin {"none", "NamespaceExists"}
           \/ t.pc \in {"createDB", "exists"} /\ (s.cmd.op = "create" => h \in t.seen)
           \/ t.pc = "createColl" /\ (s.cmd.op = "create" => h \in t.seen /\ FALSE \in t.seen)
           \/ t.pc = "insert" /\ s.cmd.op = "insert"
           \/ s.cmd.op = "create" /\ t.pc = "idle" /\ t.err = "none" /\ FALSE \in t.seen
           \/ s.cmd.op = "create" /\ t.pc = "idle" /\ t.err = "NamespaceExists" /\ TRUE \in t.seen
  <2>1. ASSUME NEW t, NEW h, fine(t, h), s.pc # "idle"
        PROVE  CreateOf(t, h) /\ InsertOf(t, coll.rows)
    <3>1. t.cmd = s.cmd
      BY Zenon, <2>1 DEF Same, Fields
    <3>2. CreateOf(t, h)
      BY Zenon, <2>1, <3>1 DEF CreateOf
    <3>3. InsertOf(t, coll.rows)
      <4>1. CASE s.cmd.op # "insert"
        BY Zenon, <3>1, <4>1 DEF InsertOf
      <4>2. CASE s.cmd.op = "insert"
        <5>1. Same(t, s, {"pc", "err", "seen", "schema"})
          BY Zenon, <2>1 DEF Same
        <5> QED
          BY Zenon, <2>1, <4>2, <5>1, InsertGoesOn
      <4> QED
        BY Zenon, <4>1, <4>2
    <3> QED
      BY Zenon, <3>2, <3>3
  <2>2. /\ s.pc \in {"idle", "describeDB", "createDB", "exists", "createColl", "insert"}
        /\ s.pc = "insert" => s.cmd.op = "insert"
    BY Zenon, <1>3 DEF CreateOf, InsertOf
  <2>3. \/ DescribeDatabase(c) \/ CreateDatabase(c) \/ collectionExists(c) \/ CreateOrUpdateCollection(c)
        \/ Insert(c)
    BY Zenon, <2>2 DEF Call, Replace1, Delete, DescribeCollection, Read, FetchStats, DropCollection, DropDatabase,
                ListCollections, ListDatabases, DBStats
  <2> DEFINE kept == CreateOf(sess'[c], coll'.here) /\ InsertOf(sess'[c], coll'.rows)
  <2>4. ASSUME NEW t, Look(c, t), fine(t, coll.here), s.pc # "idle"
        PROVE  kept
    <3>1. sess'[c] = t /\ coll' = coll
      BY Zenon, <1>1, <2>4, LookSessions
    <3>2. CreateOf(t, coll.here) /\ InsertOf(t, coll.rows)
      BY Zenon, <2>1, <2>4
    <3> QED
      BY Zenon, <3>1, <3>2
  <2>5. ASSUME NEW t, NEW b, NEW k, Effect(c, t, b, k), k.rows = coll.rows, s.pc # "idle",
               fine(Saw(t, k.here), k.here)
        PROVE  kept
    <3>1. /\ Effect(c, t, b, k) /\ k.rows = coll.rows /\ s.pc # "idle"
          /\ fine(Saw(t, k.here), k.here)
      BY Zenon, <2>5
    <3>2. fine(Saw(Finish(s, "InternalError"), k.here), k.here)
      <4> DEFINE f == Finish(s, "InternalError")
                 t1 == Saw(f, k.here)
      <4>1. Same(f, s, {"pc", "err"}) /\ f.pc = "idle" /\ f.err = "InternalError"
        BY Zenon, <1>1, FinishSame
      <4> HIDE DEF f
      <4>2. Same(t1, f, {"seen"})
        BY <4>1, SawSame DEF Same
      <4> HIDE DEF t1
      <4>3. Same(t1, s, {"pc", "err", "seen"}) /\ t1.pc = "idle" /\ t1.err = "InternalError"
        BY Zenon, <4>1, <4>2 DEF Same, Fields
      <4>4. fine(t1, k.here)
        BY Zenon, <4>3
      <4> QED
        BY Zenon, <4>4 DEF t1, f
    <3>3. coll' = k /\ fine(sess'[c], k.here)
      <4>1. PICK x \in {t, Finish(s, "InternalError")} : sess'[c] = Saw(x, k.here)
        BY <1>1, <3>1, EffectSessions
      <4>2. coll' = k
        BY ZenonT(60), <1>1, <3>1, EffectSessions
      <4> HIDE DEF fine, s
      <4> QED
        BY Zenon, <3>1, <3>2, <4>1, <4>2
    <3>4. CreateOf(sess'[c], k.here) /\ InsertOf(sess'[c], coll.rows)
      BY Zenon, <2>1, <3>1, <3>3
    <3> QED
      BY Zenon, <3>1, <3>3, <3>4
  <2>6. ASSUME NEW e, e \notin {"none", "NamespaceExists"}
        PROVE  fine(Finish(s, e), coll.here)
    <3>1. Same(Finish(s, e), s, {"pc", "err"}) /\ Finish(s, e).pc = "idle" /\ Finish(s, e).err = e
      BY Zenon, <1>1, FinishSame
    <3>2. Same(Finish(s, e), s, {"pc", "err", "seen"})
      BY Zenon, <3>1 DEF Same
    <3> QED
      BY Zenon, <2>6, <3>1, <3>2
  <2>7. CASE DescribeDatabase(c)
    <3>1. PICK pc \in {"exists", "createDB"} : Look(c, [s EXCEPT !.pc = pc]) /\ s.pc = "describeDB"
      BY Zenon, <2>7 DEF DescribeDatabase
    <3>2. coll.here \in s.seen \/ s.cmd.op = "insert"
      BY Zenon, <1>3, <3>1 DEF CreateOf
    <3> DEFINE t == [s EXCEPT !.pc = pc]
    <3>3. Same(t, s, {"pc", "err", "seen"}) /\ t.pc = pc /\ t.seen = s.seen
      BY Zenon, <1>1 DEF Same, Fields
    <3> HIDE DEF t
    <3>4. fine(t, coll.here)
      BY Zenon, <1>3, <3>1, <3>2, <3>3
    <3>5. Look(c, t) /\ s.pc # "idle"
      BY Zenon, <3>1 DEF t
    <3> QED
      BY Zenon, <2>4, <3>4, <3>5
  <2>8. CASE CreateDatabase(c)
    <3> DEFINE t == [s EXCEPT !.pc = "exists"]
    <3>1. Effect(c, t, TRUE, coll) /\ s.pc # "idle"
      BY Zenon, <2>8 DEF CreateDatabase
    <3>2. Same(t, s, {"pc"}) /\ t.pc = "exists"
      BY Zenon, <1>1 DEF Same, Fields
    <3> HIDE DEF t
    <3>3. Same(Saw(t, coll.here), t, {"seen"}) /\ Saw(t, coll.here).seen = t.seen \cup {coll.here}
      BY ZenonT(60), <3>2, SawSame DEF Same
    <3>4. fine(Saw(t, coll.here), coll.here)
      BY Zenon, <3>2, <3>3 DEF Same, Fields
    <3> QED
      BY Zenon, <2>5, <3>1, <3>4
  <2>9. ASSUME NEW b \in BOOLEAN, s.cmd.op = "create" => (IF b THEN FALSE ELSE TRUE) \in s.seen
        PROVE  /\ fine(Created(s, b), coll.here)
               /\ \A h : fine(Saw(Created(s, b), h), h)
    <3> DEFINE t == Created(s, b)
    <3>1. /\ Same(t, s, {"pc", "err"})
          /\ s.cmd.op = "create" => t.pc = "idle" /\ t.err = IF b THEN "none" ELSE "NamespaceExists"
          /\ s.cmd.op # "create" => \/ t.pc = "idle" /\ t.err \in {"panic", "InternalError"}
                                    \/ t.pc = "insert"
      BY Zenon, <1>1, CreatedSame
    <3> HIDE DEF t
    <3>2. Same(t, s, {"pc", "err", "seen"}) /\ t.seen = s.seen /\ DOMAIN t = Fields
      BY Zenon, <3>1 DEF Same, Fields
    <3>3. fine(t, coll.here)
      BY Zenon, <1>3, <2>9, <3>1, <3>2
    <3>4. ASSUME NEW h PROVE fine(Saw(t, h), h)
      <4>1. Same(Saw(t, h), t, {"seen"}) /\ Saw(t, h).seen = t.seen \cup {h}
        BY Zenon, <3>2, SawSame
      <4>2. /\ Same(Saw(t, h), s, {"pc", "err", "seen"}) /\ Saw(t, h).pc = t.pc /\ Saw(t, h).err = t.err
            /\ s.seen \subseteq Saw(t, h).seen
        BY Zenon, <3>2, <4>1 DEF Same, Fields
      <4> QED
        BY Zenon, <1>3, <2>9, <3>1, <4>2
    <3> QED
      BY Zenon, <3>3, <3>4 DEF t
  <2>10. CASE collectionExists(c)
    <3>1. s.pc = "exists"
      BY Zenon, <2>10 DEF collectionExists
    <3>2. s.cmd.op = "create" => coll.here \in s.seen
      BY Zenon, <3>1 DEF CreateOf
    <3>3. CASE coll.here
      <4>1. Look(c, Created(s, FALSE))
        BY Zenon, <2>10, <3>3 DEF collectionExists
      <4>2. fine(Created(s, FALSE), coll.here)
        BY Zenon, <1>1, <2>9, <3>2, <3>3
      <4> HIDE DEF fine
      <4> QED
        BY Zenon, <2>4, <3>1, <4>1, <4>2
    <3>4. CASE ~coll.here
      <4> DEFINE t == [s EXCEPT !.pc = "createColl"]
      <4>1. Look(c, t)
        BY Zenon, <2>10, <3>4 DEF collectionExists
      <4>2. Same(t, s, {"pc", "err", "seen"}) /\ t.pc = "createColl" /\ t.seen = s.seen
        BY Zenon, <1>1 DEF Same, Fields
      <4> HIDE DEF t
      <4>3. coll.here = FALSE
        BY Zenon, <1>1, <3>4 DEF IsColl
      <4>4. fine(t, coll.here)
        BY Zenon, <3>2, <4>2, <4>3
      <4> HIDE DEF fine
      <4> QED
        BY Zenon, <2>4, <3>1, <4>1, <4>4
    <3> QED
      BY Zenon, <3>3, <3>4
  <2>11. CASE CreateOrUpdateCollection(c)
    <3> DEFINE new == [here |-> TRUE, schema |-> s.schema, rows |-> coll.rows, version |-> coll.version + 1]
    <3>1. s.pc = "createColl"
      BY Zenon, <2>11 DEF CreateOrUpdateCollection
    <3>2. s.cmd.op = "create" => coll.here \in s.seen /\ FALSE \in s.seen
      BY Zenon, <3>1 DEF CreateOf
    <3>3. \/ \E e \in {"BadValue", "InternalError"} : Look(c, Finish(s, e))
          \/ coll.here /\ Look(c, Created(s, FALSE))
          \/ Effect(c, Created(s, TRUE), TRUE, new)
      BY Zenon, <2>11 DEF CreateOrUpdateCollection
    <3>4. fine(Created(s, TRUE), coll.here) /\ \A h : fine(Saw(Created(s, TRUE), h), h)
      BY Zenon, <2>9, <3>2
    <3>5. new.rows = coll.rows
      BY Zenon
    <3>6. ASSUME coll.here PROVE fine(Created(s, FALSE), coll.here)
      <4>1. coll.here = TRUE
        BY Zenon, <1>1, <3>6 DEF IsColl
      <4> QED
        BY Zenon, <2>9, <3>2, <4>1
    <3>7. \A e \in {"BadValue", "InternalError"} : fine(Finish(s, e), coll.here)
      BY Zenon, <2>6
    <3> HIDE DEF fine, new
    <3> QED
      BY Zenon, <2>4, <2>5, <3>1, <3>3, <3>4, <3>5, <3>6, <3>7
  <2>12. CASE Insert(c)
    <3> DEFINE after == [s EXCEPT !.todo = Tail(@), !.n = @ + 1]
               row == [json |-> ToJSON(s.todo[1]), doc |-> s.todo[1]]
               k == [coll EXCEPT !.rows = Append(@, row)]
    <3>1. s.pc = "insert" /\ s.cmd.op = "insert"
      BY Zenon, <2>2, <2>12 DEF Insert
    <3>2. \/ Look(c, Finish(s, "InternalError"))
          \/ Effect(c, InsertNext(after), db, k)
      BY Zenon, <2>12 DEF Insert
    <3>3. CASE Look(c, Finish(s, "InternalError"))
      BY Zenon, <2>4, <2>6, <3>1, <3>3
    <3>4. CASE Effect(c, InsertNext(after), db, k)
      <4>0. \E x \in {InsertNext(after), Finish(s, "InternalError")} : sess'[c] = Saw(x, k.here)
        BY ZenonT(60), <1>1, <3>4, EffectSessions
      <4>1. PICK x \in {InsertNext(after), Finish(s, "InternalError")} : sess'[c] = Saw(x, k.here)
        BY Zenon, <4>0
      <4>2. coll' = k /\ k.rows = Append(coll.rows, row) /\ row.doc = s.todo[1] /\ IsSequence(coll.rows)
        BY Zenon, <1>1, <3>4, EffectSessions DEF IsColl
      <4>3. InsertOf(Saw(x, k.here), Append(coll.rows, row))
        BY Zenon, <1>1, <3>1, <4>1, <4>2, InsertAdds
      <4>4. InsertOf(sess'[c], coll'.rows)
        BY Zenon, <4>1, <4>2, <4>3
      <4>5. sess'[c].cmd.op = "insert"
        <5>1. Same(after, s, {"todo", "n"})
          BY Zenon, <1>1 DEF Same, Fields
        <5> HIDE DEF after
        <5>2. /\ Same(InsertNext(after), after, {"pc", "err", "schema"})
              /\ Same(Finish(s, "InternalError"), s, {"pc", "err"})
          BY <1>1, <5>1, InsertNextSame, FinishSame DEF Same
        <5>3. x.cmd = s.cmd /\ DOMAIN x = Fields
          <6>1. after.cmd = s.cmd
            BY Zenon, <5>1 DEF Same, Fields
          <6>2. InsertNext(after).cmd = s.cmd /\ Finish(s, "InternalError").cmd = s.cmd
            BY Zenon, <5>2, <6>1 DEF Same, Fields
          <6>3. DOMAIN InsertNext(after) = Fields /\ DOMAIN Finish(s, "InternalError") = Fields
            BY Zenon, <5>2 DEF Same
          <6> QED
            BY Zenon, <4>1, <6>2, <6>3 DEF after
        <5>4. Same(Saw(x, k.here), x, {"seen"})
          BY Zenon, <5>3, SawSame
        <5> QED
          BY Zenon, <3>1, <4>1, <5>3, <5>4 DEF Same, Fields
      <4> QED
        BY Zenon, <4>4, <4>5 DEF CreateOf
    <3> QED
      BY Zenon, <3>2, <3>3, <3>4
  <2> QED
    BY Zenon, <2>3, <2>7, <2>8, <2>10, <2>11, <2>12
<1> QED
  BY Zenon, <1>2, <1>3

\* The beginning of a command: a create has seen the collection, an insert has added nothing.
LEMMA BeginKept ==
  ASSUME TypeOK, CommandsOK, NEW c, NEW i \in DOMAIN Commands, NEW t,
         Begins(c, Commands[i], t), BeginsWith(Commands[i], t)
  PROVE  CreateOf(t, coll.here) /\ InsertOf(t, coll.rows)
<1> DEFINE cmd == Commands[i]
<1>1. t.cmd = cmd /\ t.seen = {coll.here} /\ t.n = 0
  BY Zenon DEF Begins
<1>2. CreateOf(t, coll.here)
  BY Zenon, <1>1 DEF CreateOf, BeginsWith
<1>3. InsertOf(t, coll.rows)
  <2> SUFFICES ASSUME cmd.op = "insert" PROVE InsertOf(t, coll.rows)
    BY Zenon, <1>1 DEF InsertOf
  <2>1. /\ t.todo = cmd.docs /\ t.hit = Len(coll.rows) /\ t.pc \in {"idle", "describeDB"}
        /\ t.pc = "describeDB" => cmd.docs # <<>>
        /\ t.pc = "idle" /\ t.err = "none" => cmd.docs = <<>>
    BY Zenon DEF BeginsWith
  <2>2. IsSequence(cmd.docs) /\ IsSequence(coll.rows)
    BY Zenon DEF CommandsOK, TypeOK, IsColl
  <2>3. Len(cmd.docs) \in Nat /\ Len(coll.rows) \in Nat /\ (cmd.docs = <<>> <=> Len(cmd.docs) = 0)
    BY Zenon, <2>2, SequenceFacts, EmptySequence
  <2> HIDE DEF cmd
  <2>4. Added(t, coll.rows, 0)
    BY <2>1, <2>3 DEF Added
  <2>5. t.pc = "describeDB" => Rest(t)
    BY <1>1, <2>1, <2>2, <2>3 DEF Rest
  <2> QED
    BY <1>1, <2>1, <2>2, <2>3, <2>4, <2>5 DEF InsertOf
<1> QED
  BY Zenon, <1>2, <1>3

\* The inductive invariant for create and insert.
CommandInv == TypeOK /\ \A c \in Clients : CreateOf(sess[c], coll.here) /\ InsertOf(sess[c], coll.rows)

\* It holds initially, ...
LEMMA CommandInit == Init => CommandInv
<1> SUFFICES ASSUME Init PROVE CommandInv
  BY Zenon
<1>1. IsSequence(<<>>)
  BY DEF IsSequence
<1>2. IsColl(coll) /\ db \in BOOLEAN
  BY Zenon, <1>1 DEF Init, IsColl
<1>3. DOMAIN sess = Clients /\ \A c \in Clients : sess[c] = Idle
  BY Zenon DEF Init
<1>4. DOMAIN Idle = Fields /\ Idle.pc = "idle" /\ Idle.cmd.op = "none"
  BY Zenon DEF Idle, Fields
<1> QED
  BY Zenon, <1>2, <1>3, <1>4 DEF CommandInv, TypeOK, IsSession, CreateOf, InsertOf

\* ... and is kept by every step.
LEMMA CommandNext ==
  ASSUME CommandsOK, CommandInv, [Next]_vars
  PROVE  CommandInv'
<1>1. CASE UNCHANGED vars
  <2>1. coll' = coll /\ sess' = sess /\ db' = db
    BY Zenon, <1>1 DEF vars
  <2> QED
    BY Zenon, <2>1 DEF CommandInv, TypeOK
<1>2. CASE Next
  <2>1. TypeOK /\ TypeOK'
    BY Zenon, <1>2, TypeStep DEF CommandInv
  <2>2. PICK c \in Clients : Begin(c) \/ Call(c) \/ Fault(c)
    BY Zenon, <1>2 DEF Next
  <2> DEFINE kept(d) == CreateOf(sess'[d], coll'.here) /\ InsertOf(sess'[d], coll'.rows)
  <2>3. ASSUME coll' = coll PROVE \A d \in Clients : sess'[d] = sess[d] => kept(d)
    BY Zenon, <2>3 DEF CommandInv
  <2>4. CASE Begin(c)
    <3>0. PICK i \in DOMAIN Commands : \E t : Begins(c, Commands[i], t) /\ BeginsWith(Commands[i], t)
      BY Zenon, <2>1, <2>4, BeginMoves
    <3>1. PICK t : Begins(c, Commands[i], t) /\ BeginsWith(Commands[i], t)
      BY Zenon, <3>0
    <3>2. coll' = coll /\ sess'[c] = t /\ \A d \in Clients \ {c} : sess'[d] = sess[d]
      BY Zenon, <3>1 DEF Begins
    <3>3. CreateOf(t, coll.here) /\ InsertOf(t, coll.rows)
      BY Zenon, <2>1, <3>1, BeginKept
    <3>4. \A d \in Clients : kept(d)
      BY Zenon, <2>3, <3>2, <3>3
    <3> QED
      BY Zenon, <2>1, <3>4 DEF CommandInv
  <2>5. CASE Call(c)
    <3>1. kept(c)
      BY Zenon, <2>1, <2>5, CallKept DEF CommandInv
    <3>2. PICK t : Look(c, t) \/ \E b \in BOOLEAN : \E k : IsColl(k) /\ Effect(c, t, b, k)
      BY Zenon, <2>1, <2>5, CallMoves DEF Calls
    <3>3. ASSUME NEW d \in Clients \ {c} PROVE kept(d)
      <4>1. CASE Look(c, t)
        BY Zenon, <2>1, <2>3, <4>1, LookSessions DEF TypeOK
      <4>2. ASSUME NEW b, NEW k, Effect(c, t, b, k) PROVE kept(d)
        <5>1. coll' = k /\ sess'[d] = Noticed(sess[d], k.here)
          BY <2>1, <4>2, EffectSessions DEF TypeOK
        <5>2. DOMAIN sess[d] = Fields /\ CreateOf(sess[d], coll.here) /\ InsertOf(sess[d], coll.rows)
          BY Zenon DEF CommandInv, TypeOK, IsSession
        <5>3. CreateOf(Noticed(sess[d], k.here), k.here) /\ InsertOf(Noticed(sess[d], k.here), k.rows)
          BY Zenon, <5>2, NoticedKept
        <5> QED
          BY Zenon, <5>1, <5>3
      <4> QED
        BY Zenon, <3>2, <4>1, <4>2
    <3> QED
      BY Zenon, <2>1, <3>1, <3>3 DEF CommandInv
  <2>6. CASE Fault(c)
    <3> DEFINE s == sess[c]
               t == Finish(s, "InternalError")
    <3>1. /\ coll' = coll /\ sess'[c] = t /\ s.pc # "idle"
          /\ \A d \in Clients \ {c} : sess'[d] = sess[d]
      BY Zenon, <2>1, <2>6 DEF Fault, TypeOK
    <3>2. DOMAIN s = Fields /\ InsertOf(s, coll.rows)
      BY Zenon DEF CommandInv, TypeOK, IsSession
    <3>3. Same(t, s, {"pc", "err"}) /\ t.pc = "idle" /\ t.err = "InternalError"
      BY Zenon, <3>2, FinishSame
    <3> HIDE DEF t, s
    <3>4. Same(t, s, {"pc", "err", "seen", "schema"})
      BY Zenon, <3>3 DEF Same
    <3>5. InsertOf(t, coll.rows)
      BY Zenon, <3>1, <3>2, <3>3, <3>4, InsertGoesOn
    <3>6. CreateOf(t, coll.here)
      BY Zenon, <3>3 DEF CreateOf
    <3>7. \A d \in Clients : kept(d)
      BY Zenon, <2>3, <3>1, <3>5, <3>6
    <3> QED
      BY Zenon, <2>1, <3>7 DEF CommandInv
  <2> QED
    BY Zenon, <2>2, <2>4, <2>5, <2>6
<1> QED
  BY Zenon, <1>1, <1>2

\* The commands keep the invariant, if they are ones that the handler has.
THEOREM CommandInvariant ==
  ASSUME CommandsOK
  PROVE  Spec => []CommandInv
BY CommandInit, CommandNext, PTL DEF Spec

\* create tells the truth (CreateHonest): it says that it created the collection only if
\* there was a time during the command when it did not exist, and that it exists only if
\* there was one when it did, for any number of clients, whatever calls fail.
THEOREM CreateAlwaysHonest ==
  ASSUME CommandsOK
  PROVE  Spec => []CreateHonest
<1>1. CommandInv => CreateHonest
  BY Zenon DEF CommandInv, CreateOf, CreateHonest, Done
<1> QED
  BY <1>1, CommandInvariant, PTL

\* A part of a sequence.
LEMMA PartOf ==
  ASSUME NEW q, IsSequence(q), NEW from \in Nat \ {0}, NEW to \in Nat, from <= to + 1, to <= Len(q)
  PROVE  SubSeq(q, from, to) = [i \in 1..(to + 1 - from) |-> q[i + from - 1]]
<1> DEFINE S == {q[i] : i \in DOMAIN q}
<1>1. q \in Seq(S) /\ Len(q) \in Nat
  BY Zenon, SequenceFacts DEF IsSequence
<1> HIDE DEF S
<1> QED
  BY <1>1

\* Unless another client's call comes in between, the rows that an insert has added are the
\* first of its documents, in their order, up to the first that fails, all if it succeeds
\* (InsertIsPrefix), for any number of clients, whatever calls fail.
THEOREM InsertAlwaysPrefix ==
  ASSUME CommandsOK
  PROVE  Spec => []InsertIsPrefix
<1>1. ASSUME CommandInv PROVE InsertIsPrefix
  <2> SUFFICES ASSUME NEW c \in Clients, Done(c, "insert"), ~sess[c].overlap
               PROVE  LET s == sess[c]
                          docs == s.cmd.docs
                          added == SubSeq(coll.rows, s.hit + 1, Len(coll.rows))
                      IN  \E n \in {s.n, s.n + 1} \cap 0..Len(docs) :
                            /\ [i \in DOMAIN added |-> added[i].doc] = SubSeq(docs, 1, n)
                            /\ s.err = "none" => n = s.n /\ n = Len(docs)
    BY Zenon DEF InsertIsPrefix
  <2> DEFINE s == sess[c]
             docs == s.cmd.docs
             rows == coll.rows
             added == SubSeq(rows, s.hit + 1, Len(rows))
  <2>1. InsertOf(s, rows) /\ s.cmd.op = "insert" /\ s.pc = "idle" /\ ~s.overlap /\ IsSequence(rows)
    BY Zenon, <1>1 DEF CommandInv, TypeOK, IsColl, Done
  <2>2. s.n \in Nat /\ s.hit \in Nat /\ IsSequence(docs)
    BY Zenon, <2>1 DEF InsertOf
  <2>3. PICK m \in {s.n, s.n + 1} : /\ m <= Len(docs) /\ Added(s, rows, m)
                                    /\ s.err = "none" => m = s.n /\ m = Len(docs)
    BY Zenon, <2>1 DEF InsertOf
  <2> HIDE DEF s, docs, rows
  <2>4. m \in Nat /\ Len(docs) \in Nat /\ Len(rows) \in Nat /\ Len(rows) = s.hit + m
    BY <2>1, <2>2, <2>3, SequenceFacts DEF Added
  <2>5. added = [i \in 1..m |-> rows[i + (s.hit + 1) - 1]]
    <3> DEFINE from == s.hit + 1
               to == s.hit + m
    <3>1. from \in Nat \ {0} /\ from <= to + 1 /\ to <= to /\ to + 1 - from = m
      <4>1. \A h, n \in Nat : /\ h + 1 \in Nat \ {0} /\ h + 1 <= (h + n) + 1 /\ h + n <= h + n
                              /\ (h + n) + 1 - (h + 1) = n
        OBVIOUS
      <4> QED
        BY Zenon, <2>2, <2>4, <4>1
    <3>0. to = Len(rows) /\ to \in Nat
      BY Zenon, <2>4
    <3> HIDE DEF from, to
    <3>2. SubSeq(rows, from, to) = [i \in 1..(to + 1 - from) |-> rows[i + from - 1]]
      BY <2>1, <3>0, <3>1, PartOf
    <3> QED
      BY Zenon, <3>0, <3>1, <3>2 DEF from
  <2>6. SubSeq(docs, 1, m) = [i \in 1..m |-> docs[i]]
    <3>1. SubSeq(docs, 1, m) = [i \in 1..(m + 1 - 1) |-> docs[i + 1 - 1]]
      BY <2>2, <2>3, <2>4, PartOf
    <3> QED
      BY <2>4, <3>1
  <2> HIDE DEF added
  <2>7. \A i \in 1..m : added[i].doc = docs[i]
    <3> TAKE i \in 1..m
    <3>1. rows[s.hit + i].doc = docs[i]
      BY Zenon, <2>3 DEF Added, docs
    <3>2. i + (s.hit + 1) - 1 = s.hit + i
      BY <2>2, <2>4
    <3> QED
      BY Zenon, <2>5, <3>1, <3>2
  <2>8. [i \in DOMAIN added |-> added[i].doc] = SubSeq(docs, 1, m)
    BY Zenon, <2>5, <2>6, <2>7
  <2>9. m \in {s.n, s.n + 1} \cap 0..Len(docs)
    BY <2>3, <2>4
  <2> QED
    BY Zenon, <2>3, <2>8, <2>9 DEF s, docs, rows, added
<1> QED
  BY <1>1, CommandInvariant, PTL

-----------------------------------------------------------------------------
(* Rows that can be decoded.                                               *)

Bad == {Panics, Unencoded}

\* A row is the JSON of a document that a schema takes.
RowOf(row, schema, Docs) ==
  \E d \in Docs : row = [json |-> ToJSON(d), doc |-> d] /\ ToJSON(d) \notin Bad /\ Fits(ToJSON(d), schema)

\* All rows are, with the schema of the collection.
RowsOf(k, Docs, Schemas) ==
  /\ ~k.here => k.rows = <<>>
  /\ k.here => k.schema \in Schemas
  /\ \A i \in DOMAIN k.rows : RowOf(k.rows[i], k.schema, Docs)

\* The calls with a schema to create a collection with, and with a document to write.
Creates == {"describeDB", "createDB", "exists", "createColl"}
Writes == {"insert", "replace"}

\* The documents and the schema that a command holds.
Holds(s, Docs, Schemas) ==
  /\ ~s.misread
  /\ s.pc # "idle" => \E i \in DOMAIN Commands : s.cmd = Commands[i]
  /\ s.pc \in Creates => s.schema \in Schemas
  /\ s.pc \in Creates \cup Writes /\ s.cmd.op # "create" => s.todo \in Seq(Docs) /\ s.todo # <<>>
  /\ s.pc \in Writes => s.cmd.op # "create" /\ ToJSON(s.todo[1]) \notin Bad
  /\ s.pc = "replace" => s.cmd.op = "update"

\* A description that the collection has not outgrown is that of the collection.
Described(s, k, Schemas) ==
  s.pc = "read" => /\ s.schema \in Schemas /\ s.version \in Nat /\ s.version <= k.version
                   /\ s.version = k.version => k.here /\ s.schema = k.schema

\* A collection changes its schema with its version only.
Newer(new, k) ==
  \/ new.version = k.version + 1
  \/ new.version = k.version /\ new.here = k.here /\ new.schema = k.schema

\* A nonempty set of numbers has a smallest one.
LEMMA Smallest ==
  ASSUME NEW T, T \subseteq Nat, T # {}
  PROVE  \E i \in T : \A j \in T : i <= j
<1> DEFINE R == OpToRel(<, Nat)
           L == {p \in Nat \X Nat : p[1] < p[2]}
<1>1. R = L
  BY Zenon DEF OpToRel
<1>2. \E i \in T : \A j \in T : <<j, i>> \notin R
  BY NatLessThanWellFounded, WFMin, Zenon
<1> HIDE DEF R
<1>3. PICK i \in T : \A j \in T : <<j, i>> \notin L
  BY Zenon, <1>1, <1>2
<1>4. \A j \in T : ~(j < i)
  BY Zenon, <1>3
<1> QED
  BY <1>3, <1>4

\* What a command holds is in five of its fields.
LEMMA HoldsSame ==
  ASSUME NEW Docs, NEW Schemas, NEW s, NEW t, Same(t, s, {"version", "n", "modified", "err", "seen", "overlap", "hit"}),
         Holds(s, Docs, Schemas)
  PROVE  Holds(t, Docs, Schemas)
<1>1. t.pc = s.pc /\ t.cmd = s.cmd /\ t.schema = s.schema /\ t.todo = s.todo /\ t.misread = s.misread
  BY Zenon DEF Same, Fields
<1> QED
  BY Zenon, <1>1 DEF Holds

\* A command that is over holds nothing.
LEMMA HoldsIdle ==
  ASSUME NEW Docs, NEW Schemas, NEW t, t.pc = "idle", ~t.misread
  PROVE  Holds(t, Docs, Schemas)
BY Zenon DEF Holds, Creates, Writes

\* A command that is not over, with documents.
Running(s) == DOMAIN s = Fields /\ ~s.misread /\ \E i \in DOMAIN Commands : s.cmd = Commands[i]

\* Before the first call for a document, ...
LEMMA InsertNextHolds ==
  ASSUME NEW Docs, NEW Schemas, Decodes(Docs, Schemas), NEW s, Running(s), s.todo \in Seq(Docs)
  PROVE  Holds(InsertNext(s), Docs, Schemas) /\ InsertNext(s).pc # "read"
<1> DEFINE t == InsertNext(s)
<1>1. /\ Same(t, s, {"pc", "err", "schema"}) /\ t.pc \in {"idle", "describeDB"}
      /\ t.pc = "describeDB" => /\ s.todo # <<>> /\ t.schema = SchemaFrom(s.todo[1])
                                /\ SchemaFrom(s.todo[1]) # NullSchema
  BY Zenon, InsertNextSame DEF Running
<1> HIDE DEF t
<1>2. t.cmd = s.cmd /\ t.todo = s.todo /\ t.misread = s.misread
  BY Zenon, <1>1 DEF Same, Fields
<1>3. s.todo # <<>> => s.todo[1] \in Docs
  OBVIOUS
<1>4. t.pc = "describeDB" => t.schema \in Schemas
  BY Zenon, <1>1, <1>3 DEF Decodes
<1>5. Holds(t, Docs, Schemas)
  BY Zenon, <1>1, <1>2, <1>4 DEF Holds, Running, Creates, Writes
<1> QED
  BY Zenon, <1>1, <1>5 DEF t

\* ... and before a write.
LEMMA WriteHolds ==
  ASSUME NEW Docs, NEW Schemas, NEW s, Running(s), s.cmd.op # "create", s.todo \in Seq(Docs), s.todo # <<>>,
         NEW pc, pc = "insert" \/ (pc = "replace" /\ s.cmd.op = "update")
  PROVE  Holds(Write(s, s.todo[1], pc), Docs, Schemas) /\ Write(s, s.todo[1], pc).pc # "read"
<1> DEFINE t == Write(s, s.todo[1], pc)
<1>1. /\ Same(t, s, {"pc", "err"})
      /\ t.pc = "idle" \/ (t.pc = pc /\ ToJSON(s.todo[1]) \notin {Panics, Unencoded})
  BY WriteSame DEF Running
<1> HIDE DEF t
<1>2. t.cmd = s.cmd /\ t.todo = s.todo /\ t.misread = s.misread
  BY Zenon, <1>1 DEF Same, Fields
<1>3. Holds(t, Docs, Schemas)
  BY Zenon, <1>1, <1>2 DEF Holds, Running, Creates, Writes, Bad
<1> QED
  BY Zenon, <1>1, <1>3 DEF t

\* The loop of update goes over documents, updated or not.
LEMMA ReplaceNextHolds ==
  ASSUME NEW Docs, NEW Schemas, NEW s, Running(s), s.cmd.op = "update", s.todo \in Seq(Docs),
         \A d \in Docs : Updated(d, s.cmd.u).err = "none" => Updated(d, s.cmd.u).doc \in Docs
  PROVE  Holds(ReplaceNext(s), Docs, Schemas) /\ ReplaceNext(s).pc # "read"
<1> DEFINE updated == [i \in DOMAIN s.todo |-> Updated(s.todo[i], s.cmd.u)]
           stops == {i \in DOMAIN s.todo : updated[i].err # "none" \/ updated[i].changed}
           first == CHOOSE i \in stops : \A j \in stops : i <= j
           rest == SubSeq(s.todo, first, Len(s.todo))
           with(q) == [s EXCEPT !.todo = q]
           next == [rest EXCEPT ![1] = updated[first].doc]
           good(t) == Holds(t, Docs, Schemas) /\ t.pc # "read"
<1>1. ReplaceNext(s) = IF stops = {} THEN Finish(with(<<>>), "none")
                       ELSE IF updated[first].err # "none" THEN Finish(with(rest), updated[first].err)
                       ELSE Write(with(next), updated[first].doc, "replace")
  BY Zenon DEF ReplaceNext
<1>2. \A q : Same(with(q), s, {"todo"}) /\ with(q).todo = q
  BY Zenon DEF Same, Fields, Running
<1>3. DOMAIN s.todo = 1..Len(s.todo) /\ Len(s.todo) \in Nat /\ \A i \in DOMAIN s.todo : s.todo[i] \in Docs
  OBVIOUS
<1>4. stops # {} => first \in stops
  <2> SUFFICES ASSUME stops # {} PROVE first \in stops
    BY Zenon
  <2>1. stops \subseteq Nat
    BY <1>3
  <2> HIDE DEF stops
  <2>2. \E i \in stops : \A j \in stops : i <= j
    BY Zenon, <2>1, Smallest
  <2> QED
    BY Zenon, <2>2
<1>5. stops # {} /\ updated[first].err = "none" => updated[first].doc \in Docs
  <2>1. \A i \in DOMAIN s.todo : updated[i].err = "none" => updated[i].doc \in Docs
    BY Zenon, <1>3
  <2>2. stops \subseteq DOMAIN s.todo
    BY Zenon
  <2> HIDE DEF updated, stops, first
  <2> QED
    BY Zenon, <1>4, <2>1, <2>2
<1>6. stops # {} => rest \in Seq(Docs) /\ Len(rest) # 0 /\ Len(rest) \in Nat
  <2> SUFFICES ASSUME stops # {} PROVE rest \in Seq(Docs) /\ Len(rest) # 0 /\ Len(rest) \in Nat
    BY Zenon
  <2>1. first \in 1..Len(s.todo)
    BY Zenon, <1>3, <1>4
  <2> HIDE DEF first
  <2> QED
    BY <1>3, <2>1
<1> HIDE DEF updated, stops, first, rest, with
<1>7. stops # {} /\ updated[first].err = "none" => next \in Seq(Docs) /\ next # <<>> /\ next[1] = updated[first].doc
  <2>1. \A q \in Seq(Docs), d \in Docs : Len(q) # 0 => LET n == [q EXCEPT ![1] = d] IN
          n \in Seq(Docs) /\ n # <<>> /\ n[1] = d
    OBVIOUS
  <2> QED
    BY Zenon, <1>5, <1>6, <2>1
<1> HIDE DEF next
<1>8. \A q : Running(with(q)) /\ with(q).cmd = s.cmd
  BY ZenonT(60), <1>2 DEF Running, Same, Fields
<1>9. \A q, e : good(Finish(with(q), e))
  <2> TAKE q, e
  <2>1. Same(Finish(with(q), e), with(q), {"pc", "err"}) /\ Finish(with(q), e).pc = "idle"
    BY Zenon, <1>8, FinishSame DEF Running
  <2>2. ~Finish(with(q), e).misread
    BY Zenon, <1>8, <2>1 DEF Same, Fields, Running
  <2> QED
    BY Zenon, <2>1, <2>2, HoldsIdle
<1>10. stops # {} /\ updated[first].err = "none" => good(Write(with(next), updated[first].doc, "replace"))
  <2> DEFINE u == with(next)
  <2> SUFFICES ASSUME stops # {} /\ updated[first].err = "none" PROVE good(Write(u, updated[first].doc, "replace"))
    BY Zenon
  <2>1. Running(u) /\ u.cmd.op = "update" /\ u.todo \in Seq(Docs) /\ u.todo # <<>> /\ u.todo[1] = updated[first].doc
    BY Zenon, <1>2, <1>7, <1>8
  <2> HIDE DEF u
  <2>2. good(Write(u, u.todo[1], "replace"))
    BY Zenon, <2>1, WriteHolds
  <2> QED
    BY Zenon, <2>1, <2>2
<1> HIDE DEF good
<1>11. good(ReplaceNext(s))
  BY Zenon, <1>1, <1>9, <1>10
<1> QED
  BY Zenon, <1>11 DEF good

\* What the handlers do with documents leads to documents.
LEMMA QueriedHolds ==
  ASSUME NEW Docs, NEW Schemas, DataOK(Docs, Schemas, Seq(Docs)), NEW s, Running(s), s.cmd.op \in Queries,
         NEW docs \in Seq(Docs)
  PROVE  Holds(Queried(s, docs), Docs, Schemas) /\ Queried(s, docs).pc # "read"
<1> DEFINE good(t) == Holds(t, Docs, Schemas) /\ t.pc # "read"
           cmd == s.cmd
<1>1. Decodes(Docs, Schemas) /\ ClosedUnder(cmd, Docs, Seq(Docs))
  BY Zenon DEF DataOK, Running
<1>2. \A u, e : Running(u) => good(Finish(u, e))
  <2> TAKE u, e
  <2>1. HAVE Running(u)
  <2>2. Same(Finish(u, e), u, {"pc", "err"}) /\ Finish(u, e).pc = "idle"
    BY Zenon, <2>1, FinishSame DEF Running
  <2>3. ~Finish(u, e).misread
    BY Zenon, <2>1, <2>2 DEF Same, Fields, Running
  <2> QED
    BY Zenon, <2>2, <2>3, HoldsIdle
<1>3. \A q, n : LET u == [s EXCEPT !.todo = q, !.n = n] IN Running(u) /\ u.cmd = cmd /\ u.todo = q
  BY Zenon DEF Running, Fields
<1>4. \A n : Running([s EXCEPT !.n = n])
  BY Zenon DEF Running, Fields
<1>5. \A q : LET u == [s EXCEPT !.todo = q] IN Running(u) /\ u.cmd = cmd /\ u.todo = q
  BY Zenon DEF Running, Fields
<1>6. \A q : good([s EXCEPT !.todo = q, !.pc = "delete"])
  <2> SUFFICES ASSUME NEW q PROVE good([s EXCEPT !.todo = q, !.pc = "delete"])
    BY Zenon
  <2> DEFINE t == [s EXCEPT !.todo = q, !.pc = "delete"]
  <2>1. t.cmd = cmd /\ t.misread = s.misread /\ t.pc = "delete"
    BY Zenon DEF Running, Fields
  <2> HIDE DEF t
  <2>2. good(t)
    BY Zenon, <2>1 DEF Holds, Creates, Writes, Running
  <2> QED
    BY Zenon, <2>2 DEF t
<1>7. cmd.op = "update" => good(MsgUpdate(s, docs))
  <2> SUFFICES ASSUME cmd.op = "update" PROVE good(MsgUpdate(s, docs))
    BY Zenon
  <2> DEFINE matched == Chosen(s.cmd, docs)
             chosen == IF s.cmd.multi \/ matched.v = <<>> THEN matched.v ELSE <<matched.v[1]>>
             upsert == UpsertOf(s.cmd)
             replacing == [s EXCEPT !.todo = chosen, !.n = Len(chosen)]
             inserting == [s EXCEPT !.todo = <<upsert.doc>>]
  <2>1. /\ matched.err = "none" => matched.v \in Seq(Docs)
        /\ upsert.err = "none" => upsert.doc \in Docs
        /\ \A d \in Docs : Updated(d, cmd.u).err = "none" => Updated(d, cmd.u).doc \in Docs
    BY Zenon, <1>1 DEF ClosedUnder
  <2>2. MsgUpdate(s, docs) = IF matched.err # "none" THEN Finish(s, matched.err)
                             ELSE IF matched.v # <<>> THEN ReplaceNext(replacing)
                             ELSE IF ~s.cmd.upsert THEN Finish(s, "none")
                             ELSE IF upsert.err # "none" THEN Finish(s, upsert.err)
                             ELSE InsertNext(inserting)
    BY Zenon DEF MsgUpdate
  <2>3. /\ Running(replacing) /\ replacing.cmd = cmd /\ replacing.todo = chosen
        /\ Running(inserting) /\ inserting.cmd = cmd /\ inserting.todo = <<upsert.doc>>
    <3> HIDE DEF chosen, upsert
    <3> QED
      BY Zenon, <1>3, <1>5
  <2>4. matched.err = "none" => chosen \in Seq(Docs)
    BY <2>1
  <2>5. upsert.err = "none" => <<upsert.doc>> \in Seq(Docs)
    BY <2>1
  <2> HIDE DEF replacing, inserting, chosen, matched, upsert, cmd
  <2>6. matched.err = "none" => good(ReplaceNext(replacing))
    <3>1. /\ replacing.cmd.op = "update"
          /\ \A d \in Docs : Updated(d, replacing.cmd.u).err = "none" =>
                             Updated(d, replacing.cmd.u).doc \in Docs
      BY Zenon, <2>1, <2>3
    <3> QED
      BY Zenon, <2>3, <2>4, <3>1, ReplaceNextHolds
  <2>7. upsert.err = "none" => good(InsertNext(inserting))
    BY Zenon, <1>1, <2>3, <2>5, InsertNextHolds
  <2> HIDE DEF good
  <2> QED
    BY Zenon, <1>2, <2>2, <2>6, <2>7
<1> HIDE DEF good
<1>8. good(MsgDelete(s, docs))
  BY Zenon, <1>2, <1>6 DEF MsgDelete
<1>9. \A f : good(Reply(s, f))
  BY Zenon, <1>2, <1>4 DEF Reply
<1>10. good(Queried(s, docs))
  BY Zenon, <1>7, <1>8, <1>9 DEF Queried, MsgFind, MsgCount, Queries, cmd
<1> QED
  BY Zenon, <1>10 DEF good

\* A row more, or others in the place of some, ...
LEMMA RowsWritten ==
  ASSUME NEW Docs, NEW Schemas, NEW k, IsColl(k), RowsOf(k, Docs, Schemas), k.here,
         NEW q, IsSequence(q), \A i \in DOMAIN q : RowOf(q[i], k.schema, Docs)
  PROVE  RowsOf([k EXCEPT !.rows = q], Docs, Schemas) /\ Newer([k EXCEPT !.rows = q], k)
<1> DEFINE new == [k EXCEPT !.rows = q]
<1>1. new.here = k.here /\ new.schema = k.schema /\ new.version = k.version /\ new.rows = q
  BY Zenon DEF IsColl
<1> HIDE DEF new
<1>2. RowsOf(new, Docs, Schemas) /\ Newer(new, k)
  BY Zenon, <1>1 DEF RowsOf, Newer
<1> QED
  BY Zenon, <1>2 DEF new

\* ... or another schema, which takes what the old one took, ...
LEMMA RowsTaken ==
  ASSUME NEW Docs, NEW Schemas, Decodes(Docs, Schemas), NEW k, RowsOf(k, Docs, Schemas),
         NEW schema \in Schemas, k.here => GrowsInto(k.schema, schema),
         NEW new, new = [here |-> TRUE, schema |-> schema, rows |-> k.rows, version |-> k.version + 1]
  PROVE  RowsOf(new, Docs, Schemas) /\ Newer(new, k)
<1>1. ASSUME NEW i \in DOMAIN k.rows PROVE RowOf(k.rows[i], schema, Docs)
  <2>1. k.here
    BY DEF RowsOf
  <2>2. PICK d \in Docs : /\ k.rows[i] = [json |-> ToJSON(d), doc |-> d]
                          /\ ToJSON(d) \notin Bad /\ Fits(ToJSON(d), k.schema)
    BY Zenon DEF RowsOf, RowOf
  <2>3. Fits(ToJSON(d), schema)
    BY Zenon, <2>1, <2>2 DEF RowsOf, Decodes, Bad
  <2> QED
    BY Zenon, <2>2, <2>3 DEF RowOf
<1> QED
  BY Zenon, <1>1 DEF RowsOf, Newer

\* ... or none at all, leave rows that can be decoded.
LEMMA RowsMissing ==
  ASSUME NEW Docs, NEW Schemas
  PROVE  RowsOf(Missing, Docs, Schemas) /\ Newer(Missing, coll)
BY DEF RowsOf, Newer, Missing


\* A call of a client leaves it with documents, and rows that can be decoded.
LEMMA CallReads ==
  ASSUME TypeOK, NEW Docs, NEW Schemas, DataOK(Docs, Schemas, Seq(Docs)), NEW c \in Clients,
         RowsOf(coll, Docs, Schemas),
         Holds(sess[c], Docs, Schemas), Described(sess[c], coll, Schemas), Call(c)
  PROVE  /\ RowsOf(coll', Docs, Schemas) /\ Newer(coll', coll)
         /\ Holds(sess'[c], Docs, Schemas) /\ Described(sess'[c], coll', Schemas)
<1> DEFINE s == sess[c]
           goal == /\ RowsOf(coll', Docs, Schemas) /\ Newer(coll', coll)
                   /\ Holds(sess'[c], Docs, Schemas) /\ Described(sess'[c], coll', Schemas)
           good(t) == Holds(t, Docs, Schemas) /\ t.pc # "read"
<1> SUFFICES goal
  BY Zenon
<1>1. /\ DOMAIN s = Fields /\ IsColl(coll) /\ db \in BOOLEAN /\ DOMAIN sess = Clients
      /\ s.pc \in {"describe", "read"} => s.cmd.op \in Queries
  BY Zenon DEF TypeOK, IsSession
<1>2. s.pc # "idle" => Running(s)
  BY Zenon, <1>1 DEF Holds, Running
<1>3. \A u, e : DOMAIN u = Fields /\ ~u.misread => good(Finish(u, e)) /\ DOMAIN Finish(u, e) = Fields
  <2> TAKE u, e
  <2>1. HAVE DOMAIN u = Fields /\ ~u.misread
  <2>2. Same(Finish(u, e), u, {"pc", "err"}) /\ Finish(u, e).pc = "idle"
    BY Zenon, <2>1, FinishSame
  <2>3. ~Finish(u, e).misread /\ DOMAIN Finish(u, e) = Fields
    BY Zenon, <2>1, <2>2 DEF Same, Fields
  <2> QED
    BY Zenon, <2>2, <2>3, HoldsIdle
<1>4. \A e : good(Finish(s, e)) /\ DOMAIN Finish(s, e) = Fields
  BY Zenon, <1>1, <1>3 DEF Holds
<1>5. \A n, e : good(Finish([s EXCEPT !.n = n], e))
  <2> TAKE n, e
  <2>1. DOMAIN [s EXCEPT !.n = n] = Fields /\ [s EXCEPT !.n = n].misread = s.misread
    BY Zenon, <1>1 DEF Fields
  <2> QED
    BY Zenon, <1>3, <2>1 DEF Holds
<1>Looks. ASSUME NEW t, good(t), Look(c, t) PROVE goal
  <2>1. sess'[c] = t /\ coll' = coll
    BY Zenon, <1>1, <1>Looks, LookSessions
  <2> QED
    BY Zenon, <1>Looks, <2>1 DEF Described, Newer
<1>Acts. ASSUME NEW t, NEW b, NEW k, good(t), DOMAIN t = Fields, RowsOf(k, Docs, Schemas), Newer(k, coll),
                Effect(c, t, b, k)
         PROVE  goal
  <2>1. PICK x \in {t, Finish(s, "InternalError")} : sess'[c] = Saw(x, k.here)
    BY ZenonT(60), <1>1, <1>Acts, EffectSessions
  <2>2. coll' = k
    BY ZenonT(60), <1>1, <1>Acts, EffectSessions
  <2>3. good(x) /\ DOMAIN x = Fields
    BY Zenon, <1>4, <1>Acts, <2>1
  <2>4. Same(Saw(x, k.here), x, {"seen"})
    BY Zenon, <2>3, SawSame
  <2>5. /\ Same(Saw(x, k.here), x, {"version", "n", "modified", "err", "seen", "overlap", "hit"})
        /\ Saw(x, k.here).pc = x.pc
    BY Zenon, <2>4 DEF Same, Fields
  <2>6. Holds(Saw(x, k.here), Docs, Schemas)
    BY Zenon, <2>3, <2>5, HoldsSame
  <2> QED
    BY Zenon, <1>Acts, <2>1, <2>2, <2>3, <2>5, <2>6 DEF Described
<1>6. \A pc : pc \notin Creates \cup Writes \cup {"read"} /\ s.pc # "idle" => good([s EXCEPT !.pc = pc])
  <2> TAKE pc
  <2> DEFINE t == [s EXCEPT !.pc = pc]
  <2>1. HAVE pc \notin Creates \cup Writes \cup {"read"} /\ s.pc # "idle"
  <2>2. t.pc = pc /\ t.cmd = s.cmd /\ t.misread = s.misread
    BY Zenon, <1>1 DEF Fields
  <2> HIDE DEF t
  <2>3. good(t)
    BY Zenon, <2>1, <2>2 DEF Holds, Creates, Writes
  <2> QED
    BY Zenon, <2>3 DEF t
<1>7. \A pc \in Creates : s.pc \in Creates => good([s EXCEPT !.pc = pc]) /\ DOMAIN [s EXCEPT !.pc = pc] = Fields
  <2> TAKE pc \in Creates
  <2> DEFINE t == [s EXCEPT !.pc = pc]
  <2>1. HAVE s.pc \in Creates
  <2>2. /\ t.pc = pc /\ t.cmd = s.cmd /\ t.misread = s.misread /\ t.schema = s.schema /\ t.todo = s.todo
        /\ DOMAIN t = Fields
    BY Zenon, <1>1 DEF Fields
  <2> HIDE DEF t
  <2>3. good(t)
    BY Zenon, <2>1, <2>2 DEF Holds, Creates, Writes
  <2> QED
    BY Zenon, <2>2, <2>3 DEF t
<1>8. \A b \in BOOLEAN : s.pc \in Creates => good(Created(s, b)) /\ DOMAIN Created(s, b) = Fields
  <2> TAKE b \in BOOLEAN
  <2>1. HAVE s.pc \in Creates
  <2>2. DOMAIN Created(s, b) = Fields
    BY Zenon, <1>1, CreatedSame DEF Same
  <2>3. CASE s.cmd.op = "create"
    <3> HIDE DEF good
    <3>1. good(Created(s, b))
      BY Zenon, <1>4, <2>3 DEF Created
    <3> QED
      BY Zenon, <2>2, <3>1
  <2>4. CASE s.cmd.op # "create"
    <3>1. Created(s, b) = Write(s, s.todo[1], "insert")
      BY Zenon, <2>4 DEF Created
    <3>2. Running(s) /\ s.todo \in Seq(Docs) /\ s.todo # <<>>
      BY Zenon, <1>2, <2>1, <2>4 DEF Holds, Creates
    <3>3. good(Write(s, s.todo[1], "insert"))
      BY Zenon, <2>4, <3>2, WriteHolds
    <3> HIDE DEF good
    <3> QED
      BY Zenon, <2>2, <3>1, <3>3
  <2> QED
    BY Zenon, <2>3, <2>4
<1> HIDE DEF s, good, goal
<1>9. CASE DescribeDatabase(c)
  <2>1. s.pc = "describeDB" /\ \E pc \in {"exists", "createDB"} : Look(c, [s EXCEPT !.pc = pc])
    BY Zenon, <1>9 DEF DescribeDatabase, s
  <2> QED
    BY Zenon, <1>7, <1>Looks, <2>1 DEF Creates
<1>10. CASE CreateDatabase(c)
  <2>1. s.pc = "createDB" /\ Effect(c, [s EXCEPT !.pc = "exists"], TRUE, coll)
    BY Zenon, <1>10 DEF CreateDatabase, s
  <2>2. Newer(coll, coll)
    BY Zenon DEF Newer
  <2> QED
    BY Zenon, <1>7, <1>Acts, <2>1, <2>2 DEF Creates
<1>11. CASE collectionExists(c)
  <2>1. s.pc = "exists" /\ (Look(c, Created(s, FALSE)) \/ Look(c, [s EXCEPT !.pc = "createColl"]))
    BY Zenon, <1>11 DEF collectionExists, s
  <2> QED
    BY Zenon, <1>7, <1>8, <1>Looks, <2>1 DEF Creates
<1>12. CASE CreateOrUpdateCollection(c)
  <2> DEFINE new == [here |-> TRUE, schema |-> s.schema, rows |-> coll.rows, version |-> coll.version + 1]
  <2>1. /\ s.pc = "createColl"
        /\ \/ \E e : Look(c, Finish(s, e))
           \/ Look(c, Created(s, FALSE))
           \/ Effect(c, Created(s, TRUE), TRUE, new) /\ (coll.here => GrowsInto(coll.schema, s.schema))
    BY Zenon, <1>12 DEF CreateOrUpdateCollection, s
  <2>2. s.schema \in Schemas /\ Decodes(Docs, Schemas)
    BY Zenon, <2>1 DEF Holds, Creates, s, DataOK
  <2>3. (coll.here => GrowsInto(coll.schema, s.schema)) => RowsOf(new, Docs, Schemas) /\ Newer(new, coll)
    BY Zenon, <2>2, RowsTaken
  <2> HIDE DEF new
  <2>4. good(Created(s, TRUE)) /\ good(Created(s, FALSE)) /\ DOMAIN Created(s, TRUE) = Fields
    BY Zenon, <1>8, <2>1 DEF Creates
  <2> QED
    BY Zenon, <1>4, <1>Looks, <1>Acts, <2>1, <2>3, <2>4
<1>17. CASE FetchStats(c)
  <2>1. s.pc # "idle" /\ \/ \E e : Look(c, Finish(s, e))
                         \/ \E n, e : Look(c, Finish([s EXCEPT !.n = n], e))
                         \/ Look(c, [s EXCEPT !.pc = "countRows"])
    BY Zenon, <1>17 DEF FetchStats, s
  <2> QED
    BY Zenon, <1>4, <1>5, <1>6, <1>Looks, <2>1 DEF Creates, Writes
<1>18. CASE DropCollection(c)
  <2>1. \/ \E e : Look(c, Finish(s, e))
        \/ Effect(c, Finish(s, "none"), db, Missing)
    BY Zenon, <1>18 DEF DropCollection, s
  <2> QED
    BY Zenon, <1>4, <1>Looks, <1>Acts, <2>1, RowsMissing
<1>19. CASE DropDatabase(c)
  <2>1. \/ \E e : Look(c, Finish(s, e))
        \/ Effect(c, Finish([s EXCEPT !.n = 1], "none"), FALSE, Missing)
        \/ Effect(c, Finish([s EXCEPT !.n = 1], "none"), FALSE, coll)
    BY Zenon, <1>19 DEF DropDatabase, s
  <2>2. DOMAIN Finish([s EXCEPT !.n = 1], "none") = Fields
    BY Zenon, <1>1 DEF Finish
  <2>3. Newer(coll, coll)
    BY Zenon DEF Newer
  <2> QED
    BY ZenonT(60), <1>4, <1>5, <1>Looks, <1>Acts, <2>1, <2>2, <2>3, RowsMissing
<1>20. CASE ListCollections(c)
  <2>1. \/ \E e : Look(c, Finish(s, e))
        \/ \E n, e : Look(c, Finish([s EXCEPT !.n = n], e))
    BY Zenon, <1>20 DEF ListCollections, s
  <2> QED
    BY Zenon, <1>4, <1>5, <1>Looks, <2>1
<1>21. CASE ListDatabases(c)
  <2>1. s.pc # "idle" /\ \/ \E e : Look(c, Finish(s, e))
                         \/ \E n, e : Look(c, Finish([s EXCEPT !.n = n], e))
                         \/ Look(c, [s EXCEPT !.pc = "listed"])
    BY Zenon, <1>21 DEF ListDatabases, s
  <2> QED
    BY Zenon, <1>4, <1>5, <1>6, <1>Looks, <2>1 DEF Creates, Writes
<1>22. CASE DBStats(c)
  <2>1. s.pc # "idle" /\ \/ \E e : Look(c, Finish(s, e))
                         \/ Look(c, [s EXCEPT !.pc = "stats"])
    BY Zenon, <1>22 DEF DBStats, s
  <2> QED
    BY Zenon, <1>4, <1>6, <1>Looks, <2>1 DEF Creates, Writes
<1>rows. ASSUME NEW row, RowOf(row, coll.schema, Docs)
         PROVE  LET q == Append(coll.rows, row) IN IsSequence(q) /\ \A i \in DOMAIN q : RowOf(q[i], coll.schema, Docs)
  <2> DEFINE q == Append(coll.rows, row)
  <2>1. IsSequence(coll.rows) /\ \A i \in DOMAIN coll.rows : RowOf(coll.rows[i], coll.schema, Docs)
    BY Zenon, <1>1 DEF IsColl, RowsOf
  <2>2. /\ IsSequence(q) /\ Len(q) = Len(coll.rows) + 1 /\ q[Len(coll.rows) + 1] = row
        /\ \A i \in 1..Len(coll.rows) : q[i] = coll.rows[i]
    BY ZenonT(60), <2>1, AppendSequence
  <2> HIDE DEF q
  <2>3. DOMAIN q = 1..(Len(coll.rows) + 1) /\ DOMAIN coll.rows = 1..Len(coll.rows) /\ Len(coll.rows) \in Nat
    BY Zenon, <2>1, <2>2, SequenceFacts
  <2>4. ASSUME NEW i \in DOMAIN q PROVE RowOf(q[i], coll.schema, Docs)
    <3>1. i = Len(coll.rows) + 1 \/ i \in DOMAIN coll.rows
      BY <2>3
    <3> QED
      BY Zenon, <1>rows, <2>1, <2>2, <2>3, <3>1
  <2> QED
    BY Zenon, <2>2, <2>4 DEF q
<1>writes. ASSUME s.pc \in Writes
           PROVE  /\ Running(s) /\ s.todo \in Seq(Docs) /\ s.todo # <<>> /\ s.todo[1] \in Docs
                  /\ Tail(s.todo) \in Seq(Docs) /\ ToJSON(s.todo[1]) \notin Bad
                  /\ Fits(ToJSON(s.todo[1]), coll.schema) =>
                       RowOf([json |-> ToJSON(s.todo[1]), doc |-> s.todo[1]], coll.schema, Docs)
  <2>1. Running(s) /\ s.todo \in Seq(Docs) /\ s.todo # <<>> /\ ToJSON(s.todo[1]) \notin Bad
    BY Zenon, <1>2, <1>writes DEF Holds, Writes, s
  <2>2. s.todo[1] \in Docs /\ Tail(s.todo) \in Seq(Docs)
    BY <2>1
  <2> QED
    BY Zenon, <2>1, <2>2 DEF RowOf
<1>13. CASE Insert(c)
  <2> DEFINE after == [s EXCEPT !.todo = Tail(@), !.n = @ + 1]
             row == [json |-> ToJSON(s.todo[1]), doc |-> s.todo[1]]
             q == Append(coll.rows, row)
             k == [coll EXCEPT !.rows = Append(@, row)]
  <2>1. /\ s.pc = "insert"
        /\ \/ Look(c, Finish(s, "InternalError"))
           \/ coll.here /\ Fits(ToJSON(s.todo[1]), coll.schema) /\ Effect(c, InsertNext(after), db, k)
    BY Zenon, <1>13 DEF Insert, s
  <2>2. CASE Look(c, Finish(s, "InternalError"))
    BY Zenon, <1>4, <1>Looks, <2>2
  <2>3. CASE coll.here /\ Fits(ToJSON(s.todo[1]), coll.schema) /\ Effect(c, InsertNext(after), db, k)
    <3>1. Running(s) /\ Tail(s.todo) \in Seq(Docs) /\ RowOf(row, coll.schema, Docs)
      BY Zenon, <1>writes, <2>1, <2>3 DEF Writes
    <3>2. Running(after) /\ after.todo = Tail(s.todo)
      BY Zenon, <3>1 DEF Running, Fields
    <3> HIDE DEF after
    <3>3. good(InsertNext(after)) /\ DOMAIN InsertNext(after) = Fields
      BY Zenon, <3>1, <3>2, InsertNextHolds, InsertNextSame DEF DataOK, Same, Running, good
    <3>4. IsSequence(q) /\ \A i \in DOMAIN q : RowOf(q[i], coll.schema, Docs)
      BY Zenon, <1>rows, <3>1
    <3> HIDE DEF row
    <3>5. RowsOf(k, Docs, Schemas) /\ Newer(k, coll)
      BY Zenon, <1>1, <2>3, <3>4, RowsWritten
    <3> HIDE DEF k
    <3> QED
      BY Zenon, <1>Acts, <2>3, <3>3, <3>5
  <2> QED
    BY Zenon, <2>1, <2>2, <2>3
<1>14. CASE Replace1(c)
  <2> DEFINE row == [json |-> ToJSON(s.todo[1]), doc |-> s.todo[1]]
             same == {i \in DOMAIN coll.rows : HasIDOf(coll.rows[i], s.todo[1])}
             q == IF same = {} THEN Append(coll.rows, row)
                  ELSE [i \in DOMAIN coll.rows |-> IF i \in same THEN row ELSE coll.rows[i]]
             after == [s EXCEPT !.todo = Tail(@), !.modified = @ + 1, !.hit = @ + Cardinality(same)]
             k == [coll EXCEPT !.rows = q]
  <2>1. /\ s.pc = "replace"
        /\ \/ \E e : Look(c, Finish(s, e))
           \/ coll.here /\ Fits(row.json, coll.schema) /\ Effect(c, ReplaceNext(after), db, k)
    BY Zenon, <1>14 DEF Replace1, s
  <2>2. CASE \E e : Look(c, Finish(s, e))
    BY Zenon, <1>4, <1>Looks, <2>2
  <2>3. CASE coll.here /\ Fits(row.json, coll.schema) /\ Effect(c, ReplaceNext(after), db, k)
    <3>1. Running(s) /\ Tail(s.todo) \in Seq(Docs) /\ RowOf(row, coll.schema, Docs) /\ s.cmd.op = "update"
      BY Zenon, <1>writes, <2>1, <2>3 DEF Writes, Holds, s
    <3>2. /\ Running(after) /\ after.todo = Tail(s.todo) /\ after.cmd = s.cmd
      BY Zenon, <3>1 DEF Running, Fields
    <3> HIDE DEF after
    <3>3. \A d \in Docs : Updated(d, after.cmd.u).err = "none" => Updated(d, after.cmd.u).doc \in Docs
      BY Zenon, <3>1, <3>2 DEF DataOK, ClosedUnder, Running
    <3>4. good(ReplaceNext(after)) /\ DOMAIN ReplaceNext(after) = Fields
      <4>1. good(ReplaceNext(after))
        BY Zenon, <3>1, <3>2, <3>3, ReplaceNextHolds DEF good
      <4> QED
        BY Zenon, <3>2, <4>1, ReplaceNextSame DEF Same, Running
    <3>5. IsSequence(q) /\ \A i \in DOMAIN q : RowOf(q[i], coll.schema, Docs)
      <4>1. CASE same = {}
        BY Zenon, <1>rows, <3>1, <4>1
      <4>2. CASE same # {}
        <5> HIDE DEF same, row
        <5>1. IsSequence(coll.rows) /\ \A i \in DOMAIN coll.rows : RowOf(coll.rows[i], coll.schema, Docs)
          BY Zenon, <1>1 DEF IsColl, RowsOf
        <5>2. IsSequence([i \in DOMAIN coll.rows |-> IF i \in same THEN row ELSE coll.rows[i]])
          BY Zenon, <5>1, SequenceFacts, FunctionSequence
        <5> QED
          BY Zenon, <3>1, <4>2, <5>1, <5>2
      <4> QED
        BY Zenon, <4>1, <4>2
    <3> HIDE DEF q
    <3>6. RowsOf(k, Docs, Schemas) /\ Newer(k, coll)
      BY Zenon, <1>1, <2>3, <3>5, RowsWritten
    <3> HIDE DEF k
    <3> QED
      BY Zenon, <1>Acts, <2>3, <3>4, <3>6
  <2> QED
    BY Zenon, <2>1, <2>2, <2>3
<1>15. CASE Delete(c)
  <2> DEFINE places == {i \in DOMAIN coll.rows : ~Doomed(s, coll.rows[i])}
             q(left) == [i \in DOMAIN left |-> coll.rows[left[i]]]
             u(left) == [s EXCEPT !.n = Len(s.todo), !.hit = Len(coll.rows) - Len(left)]
  <2>1. \/ Look(c, Finish(s, "InternalError"))
        \/ /\ coll.here
           /\ \E left \in InOrder(places) : Effect(c, Finish(u(left), "none"), db, [coll EXCEPT !.rows = q(left)])
    BY Zenon, <1>15 DEF Delete, s
  <2>2. CASE Look(c, Finish(s, "InternalError"))
    BY Zenon, <1>4, <1>Looks, <2>2
  <2>3. ASSUME coll.here, NEW left \in InOrder(places),
               Effect(c, Finish(u(left), "none"), db, [coll EXCEPT !.rows = q(left)])
        PROVE  goal
    <3>1. DOMAIN u(left) = Fields /\ ~u(left).misread
      BY Zenon, <1>1 DEF Fields, Holds, s
    <3>2. Cardinality(places) \in Nat
      <4>0. Len(coll.rows) \in Nat /\ DOMAIN coll.rows = 1..Len(coll.rows)
        BY Zenon, <1>1, SequenceFacts DEF IsColl
      <4>1. Len(coll.rows) \in Nat /\ places \subseteq 1..Len(coll.rows)
        BY Zenon, <4>0
      <4>2. IsFiniteSet(1..Len(coll.rows))
        <5>1. 1 \in Int /\ Len(coll.rows) \in Int
          BY <4>1
        <5> QED
          BY Zenon, <5>1, FS_Interval
      <4> HIDE DEF places
      <4> QED
        BY Zenon, <4>1, <4>2, FS_Subset, FS_CardinalityType
    <3>3. DOMAIN left = 1..Cardinality(places) /\ \A i \in DOMAIN left : left[i] \in DOMAIN coll.rows
      BY Zenon DEF InOrder
    <3> HIDE DEF u, places
    <3>4. IsSequence(q(left))
      BY Zenon, <3>2, <3>3, FunctionSequence
    <3>5. \A i \in DOMAIN q(left) : RowOf(q(left)[i], coll.schema, Docs)
      BY Zenon, <3>3 DEF RowsOf
    <3> HIDE DEF q
    <3>6. RowsOf([coll EXCEPT !.rows = q(left)], Docs, Schemas) /\ Newer([coll EXCEPT !.rows = q(left)], coll)
      BY ZenonT(60), <1>1, <2>3, <3>4, <3>5, RowsWritten
    <3>7. good(Finish(u(left), "none")) /\ DOMAIN Finish(u(left), "none") = Fields
      BY Zenon, <1>3, <3>1
    <3> QED
      BY Zenon, <1>Acts, <2>3, <3>6, <3>7
  <2> QED
    BY Zenon, <2>1, <2>2, <2>3
<1>16. CASE DescribeCollection(c)
  <2> DEFINE t == [s EXCEPT !.pc = "read", !.schema = coll.schema, !.version = coll.version]
  <2>1. s.pc = "describe" /\ ((coll.here /\ Look(c, t)) \/ Look(c, Queried(s, <<>>)))
    BY Zenon, <1>16 DEF DescribeCollection, s
  <2>2. CASE coll.here /\ Look(c, t)
    <3>1. /\ t.pc = "read" /\ t.schema = coll.schema /\ t.version = coll.version /\ t.cmd = s.cmd
          /\ t.misread = s.misread
      BY Zenon, <1>1 DEF Fields
    <3> HIDE DEF t
    <3>2. sess'[c] = t /\ coll' = coll
      BY Zenon, <1>1, <2>2, LookSessions
    <3>3. Holds(t, Docs, Schemas)
      BY ZenonT(60), <2>1, <3>1 DEF Holds, Creates, Writes, s
    <3>4. Described(t, coll, Schemas)
      BY <1>1, <2>2, <3>1 DEF Described, RowsOf, IsColl
    <3> QED
      BY Zenon, <3>2, <3>3, <3>4 DEF goal, Newer
  <2>3. CASE Look(c, Queried(s, <<>>))
    <3>1. Running(s) /\ s.cmd.op \in Queries /\ <<>> \in Seq(Docs)
      BY <1>1, <1>2, <2>1
    <3>2. good(Queried(s, <<>>))
      BY Zenon, <3>1, QueriedHolds DEF good
    <3> QED
      BY Zenon, <1>Looks, <2>3, <3>2
  <2> QED
    BY Zenon, <2>1, <2>2, <2>3
<1>23. CASE Read(c)
  <2> DEFINE u == [s EXCEPT !.overlap = FALSE]
             docs(order) == [i \in DOMAIN coll.rows |-> FromJSON(coll.rows[order[i]].json, u.schema)]
             v == [u EXCEPT !.misread = u.version = coll.version]
  <2>1. s.pc = "read"
    BY Zenon, <1>23 DEF Read, s
  <2>2. PICK order \in Orders(Len(coll.rows)) :
          Look(c, IF ~coll.here THEN Finish(u, "InternalError")
                  ELSE IF \E i \in DOMAIN docs(order) : docs(order)[i] = Garbled THEN Finish(v, "InternalError")
                  ELSE Queried(u, docs(order)))
    BY Zenon, <1>23 DEF Read, s
  <2>3. /\ DOMAIN u = Fields /\ u.misread = s.misread /\ u.schema = s.schema /\ u.version = s.version /\ u.cmd = s.cmd
    BY Zenon, <1>1 DEF Fields
  <2>4. DOMAIN v = Fields /\ v.misread = (s.version = coll.version)
    BY Zenon, <1>1, <2>3 DEF Fields
  <2>5. Running(s) /\ ~s.misread /\ s.cmd.op \in Queries /\ s.schema \in Schemas
    BY Zenon, <1>1, <1>2, <2>1 DEF Holds, Described, s
  <2>6. \A i \in DOMAIN coll.rows : order[i] \in DOMAIN coll.rows
    <3>1. DOMAIN coll.rows = 1..Len(coll.rows)
      BY Zenon, <1>1, SequenceFacts DEF IsColl
    <3> QED
      BY Zenon, <3>1 DEF Orders
  <2>7. ASSUME NEW i \in DOMAIN coll.rows
        PROVE  /\ docs(order)[i] \in Docs \cup {Garbled}
               /\ s.version = coll.version => docs(order)[i] # Garbled
    <3>0. RowOf(coll.rows[order[i]], coll.schema, Docs)
      BY Zenon, <2>6 DEF RowsOf
    <3>1. PICK d \in Docs : /\ coll.rows[order[i]].json = ToJSON(d) /\ ToJSON(d) \notin Bad
                            /\ Fits(ToJSON(d), coll.schema)
      BY <3>0 DEF RowOf
    <3>2. docs(order)[i] = FromJSON(ToJSON(d), s.schema)
      BY Zenon, <2>3, <3>1
    <3>3. s.version = coll.version => Fits(ToJSON(d), s.schema)
      BY Zenon, <2>1, <3>1 DEF Described, s
    <3> HIDE DEF docs
    <3> QED
      BY ZenonT(60), <2>5, <3>1, <3>2, <3>3 DEF DataOK, Decodes, Bad
  <2>8. DOMAIN docs(order) = DOMAIN coll.rows /\ docs(order) = [i \in DOMAIN coll.rows |-> docs(order)[i]]
    OBVIOUS
  <2> HIDE DEF u, v, docs
  <2>9. CASE Look(c, Finish(u, "InternalError"))
    BY ZenonT(60), <1>3, <1>Looks, <2>3, <2>5, <2>9
  <2>10. CASE /\ \E i \in DOMAIN docs(order) : docs(order)[i] = Garbled
              /\ Look(c, Finish(v, "InternalError"))
    <3>1. ~v.misread
      BY Zenon, <2>4, <2>7, <2>8, <2>10
    <3> QED
      BY ZenonT(60), <1>3, <1>Looks, <2>4, <2>10, <3>1
  <2>11. CASE /\ ~\E i \in DOMAIN docs(order) : docs(order)[i] = Garbled
              /\ Look(c, Queried(u, docs(order)))
    <3>1. docs(order) \in Seq(Docs)
      <4>1. \A i \in DOMAIN coll.rows : docs(order)[i] \in Docs
        BY Zenon, <2>7, <2>8, <2>11
      <4>2. DOMAIN coll.rows = 1..Len(coll.rows) /\ Len(coll.rows) \in Nat
        BY Zenon, <1>1, SequenceFacts DEF IsColl
      <4>3. docs(order) \in [1..Len(coll.rows) -> Docs]
        BY Zenon, <2>8, <4>1, <4>2
      <4>4. \A n \in Nat : \A f \in [1..n -> Docs] : f \in Seq(Docs)
        OBVIOUS
      <4> QED
        BY Zenon, <4>2, <4>3, <4>4
    <3>2. Running(u) /\ u.cmd.op \in Queries
      BY Zenon, <2>3, <2>5 DEF Running
    <3>3. good(Queried(u, docs(order)))
      BY Zenon, <3>1, <3>2, QueriedHolds DEF good
    <3> QED
      BY Zenon, <1>Looks, <2>11, <3>3
  <2> QED
    BY Zenon, <2>2, <2>9, <2>10, <2>11
<1> QED
  BY ZenonT(60), <1>9, <1>10, <1>11, <1>12, <1>13, <1>14, <1>15, <1>16, <1>17, <1>18, <1>19, <1>20, <1>21, <1>22,
     <1>23 DEF Call

\* A command begins with documents and a schema of its own.
LEMMA BeginReads ==
  ASSUME NEW Docs, NEW Schemas, DataOK(Docs, Schemas, Seq(Docs)),
         NEW c, NEW i \in DOMAIN Commands, NEW t, Begins(c, Commands[i], t), BeginsWith(Commands[i], t)
  PROVE  Holds(t, Docs, Schemas) /\ t.pc # "read"
<1> DEFINE cmd == Commands[i]
<1>1. /\ t.cmd = cmd /\ ~t.misread /\ t.pc \notin {"read", "exists", "createDB", "createColl", "insert", "replace"}
      /\ t.pc = "describeDB" => cmd.op \in {"create", "insert"}
  BY Zenon DEF Begins
<1>2. cmd.op = "create" => t.schema \in Schemas
  BY Zenon DEF BeginsWith, DataOK
<1>3. ASSUME cmd.op = "insert", t.pc = "describeDB"
      PROVE  t.todo \in Seq(Docs) /\ t.todo # <<>> /\ t.schema \in Schemas
  <2>1. /\ t.todo = cmd.docs /\ cmd.docs # <<>> /\ t.schema = SchemaFrom(cmd.docs[1])
        /\ SchemaFrom(cmd.docs[1]) # NullSchema
    BY Zenon, <1>3 DEF BeginsWith
  <2>2. cmd.docs \in Seq(Docs)
    BY Zenon, <1>3 DEF DataOK, ClosedUnder
  <2> HIDE DEF cmd
  <2>3. cmd.docs[1] \in Docs
    BY <2>1, <2>2
  <2> QED
    BY Zenon, <2>1, <2>2, <2>3 DEF DataOK, Decodes
<1>4. \E j \in DOMAIN Commands : t.cmd = Commands[j]
  BY Zenon, <1>1
<1> HIDE DEF cmd
<1> QED
  BY Zenon, <1>1, <1>2, <1>3, <1>4 DEF Holds, Creates, Writes

\* The calls of other clients disturb neither what a command holds nor its description.
LEMMA NoticedReads ==
  ASSUME NEW Docs, NEW Schemas, NEW s, DOMAIN s = Fields, NEW k, k.version \in Nat, NEW new, Newer(new, k), NEW here,
         Holds(s, Docs, Schemas), Described(s, k, Schemas)
  PROVE  Holds(Noticed(s, here), Docs, Schemas) /\ Described(Noticed(s, here), new, Schemas)
<1> DEFINE t == Noticed(s, here)
<1>1. Same(t, s, {"seen", "overlap"})
  BY Zenon, NoticedSame
<1> HIDE DEF t
<1>2. Same(t, s, {"version", "n", "modified", "err", "seen", "overlap", "hit"})
  BY Zenon, <1>1 DEF Same
<1>3. Holds(t, Docs, Schemas)
  BY Zenon, <1>2, HoldsSame
<1>4. t.pc = s.pc /\ t.schema = s.schema /\ t.version = s.version
  BY Zenon, <1>1 DEF Same, Fields
<1>5. Described(t, new, Schemas)
  BY <1>4 DEF Described, Newer
<1> QED
  BY Zenon, <1>3, <1>5 DEF t

\* The inductive invariant for what is read.
ReadInv(Docs, Schemas) ==
  /\ TypeOK /\ RowsOf(coll, Docs, Schemas)
  /\ \A c \in Clients : Holds(sess[c], Docs, Schemas) /\ Described(sess[c], coll, Schemas)

\* It holds initially, ...
LEMMA ReadInit ==
  ASSUME NEW Docs, NEW Schemas, Init
  PROVE  ReadInv(Docs, Schemas)
<1>1. TypeOK
  BY Zenon, CommandInit DEF CommandInv
<1>2. RowsOf(coll, Docs, Schemas)
  BY DEF Init, RowsOf
<1>3. \A c \in Clients : sess[c].pc = "idle" /\ ~sess[c].misread
  BY Zenon DEF Init, Idle
<1> QED
  BY Zenon, <1>1, <1>2, <1>3, HoldsIdle DEF ReadInv, Described

\* ... and is kept by every step.
LEMMA ReadNext ==
  ASSUME NEW Docs, NEW Schemas, CommandsOK, DataOK(Docs, Schemas, Seq(Docs)), ReadInv(Docs, Schemas), [Next]_vars
  PROVE  ReadInv(Docs, Schemas)'
<1> DEFINE kept(d) == Holds(sess'[d], Docs, Schemas) /\ Described(sess'[d], coll', Schemas)
<1>0. \A d \in Clients : Holds(sess[d], Docs, Schemas) /\ Described(sess[d], coll, Schemas) /\ DOMAIN sess[d] = Fields
  BY Zenon DEF ReadInv, TypeOK, IsSession
<1>1. CASE UNCHANGED vars
  <2>1. coll' = coll /\ sess' = sess /\ db' = db
    BY Zenon, <1>1 DEF vars
  <2> QED
    BY Zenon, <2>1 DEF ReadInv, TypeOK
<1>2. CASE Next
  <2>1. TypeOK /\ TypeOK'
    BY Zenon, <1>2, TypeStep DEF ReadInv
  <2>2. PICK c \in Clients : Begin(c) \/ Call(c) \/ Fault(c)
    BY Zenon, <1>2 DEF Next
  <2>3. ASSUME coll' = coll, \A d \in Clients \ {c} : sess'[d] = sess[d],
               Holds(sess'[c], Docs, Schemas), sess'[c].pc # "read"
        PROVE  ReadInv(Docs, Schemas)'
    <3>1. kept(c)
      BY Zenon, <2>3 DEF Described
    <3>2. \A d \in Clients \ {c} : kept(d)
      BY Zenon, <1>0, <2>3
    <3>3. RowsOf(coll', Docs, Schemas)
      BY Zenon, <2>3 DEF ReadInv
    <3> QED
      BY Zenon, <2>1, <3>1, <3>2, <3>3 DEF ReadInv
  <2>4. CASE Begin(c)
    <3>0. PICK i \in DOMAIN Commands : \E t : Begins(c, Commands[i], t) /\ BeginsWith(Commands[i], t)
      BY Zenon, <2>1, <2>4, BeginMoves
    <3>1. PICK t : Begins(c, Commands[i], t) /\ BeginsWith(Commands[i], t)
      BY Zenon, <3>0
    <3>2. Holds(t, Docs, Schemas) /\ t.pc # "read"
      BY Zenon, <3>1, BeginReads
    <3>3. coll' = coll /\ sess'[c] = t /\ \A d \in Clients \ {c} : sess'[d] = sess[d]
      BY Zenon, <3>1 DEF Begins
    <3> QED
      BY Zenon, <2>3, <3>2, <3>3
  <2>5. CASE Call(c)
    <3>1. RowsOf(coll', Docs, Schemas) /\ Newer(coll', coll) /\ kept(c)
      BY Zenon, <1>0, <2>1, <2>5, CallReads DEF ReadInv
    <3>2. PICK t : Look(c, t) \/ \E b \in BOOLEAN : \E k : IsColl(k) /\ Effect(c, t, b, k)
      BY Zenon, <2>1, <2>5, CallMoves DEF Calls
    <3>3. ASSUME NEW d \in Clients \ {c} PROVE kept(d)
      <4>1. CASE Look(c, t)
        <5>1. sess'[d] = sess[d] /\ coll' = coll
          BY Zenon, <2>1, <4>1, LookSessions DEF TypeOK
        <5> QED
          BY Zenon, <1>0, <5>1
      <4>2. ASSUME NEW b, NEW k, Effect(c, t, b, k) PROVE kept(d)
        <5>1. coll' = k /\ sess'[d] = Noticed(sess[d], k.here)
          BY <2>1, <4>2, EffectSessions DEF TypeOK
        <5>2. coll.version \in Nat
          BY Zenon, <2>1 DEF TypeOK, IsColl
        <5>3. Newer(k, coll)
          BY Zenon, <3>1, <5>1
        <5>4. Holds(Noticed(sess[d], k.here), Docs, Schemas) /\ Described(Noticed(sess[d], k.here), k, Schemas)
          BY Zenon, <1>0, <5>2, <5>3, NoticedReads
        <5> QED
          BY Zenon, <5>1, <5>4
      <4> QED
        BY Zenon, <3>2, <4>1, <4>2
    <3> QED
      BY Zenon, <2>1, <3>1, <3>3 DEF ReadInv
  <2>6. CASE Fault(c)
    <3> DEFINE t == Finish(sess[c], "InternalError")
    <3>1. coll' = coll /\ sess'[c] = t /\ \A d \in Clients \ {c} : sess'[d] = sess[d]
      BY Zenon, <2>1, <2>6 DEF Fault, TypeOK
    <3>2. Same(t, sess[c], {"pc", "err"}) /\ t.pc = "idle"
      BY Zenon, <1>0, FinishSame
    <3> HIDE DEF t
    <3>3. ~t.misread
      BY Zenon, <1>0, <3>2 DEF Same, Fields, Holds
    <3>4. Holds(t, Docs, Schemas)
      BY Zenon, <3>2, <3>3, HoldsIdle
    <3> QED
      BY Zenon, <2>3, <3>1, <3>2, <3>4
  <2> QED
    BY Zenon, <2>2, <2>4, <2>5, <2>6
<1> QED
  BY Zenon, <1>1, <1>2

\* Whatever the server accepts under the schema of the collection, FerretDB can read
\* (RowsDecode): a query fails to decode a row only if the collection came anew, or its schema
\* changed, after the query had asked for the schema.  It is so for any number of clients and
\* whatever calls fail, if JSON that a schema takes can be decoded with that schema and with
\* one that it may grow into, and what handlers make of documents are documents (DataOK).
THEOREM RowsAlwaysDecode ==
  ASSUME NEW CONSTANT Docs, NEW CONSTANT Schemas, CommandsOK, DataOK(Docs, Schemas, Seq(Docs))
  PROVE  Spec => []RowsDecode
<1>1. Init => ReadInv(Docs, Schemas)
  BY Zenon, ReadInit
<1>2. ReadInv(Docs, Schemas) /\ [Next]_vars => ReadInv(Docs, Schemas)'
  BY Zenon, ReadNext
<1>3. ReadInv(Docs, Schemas) => RowsDecode
  BY Zenon DEF ReadInv, Holds, RowsDecode
<1> QED
  BY <1>1, <1>2, <1>3, PTL DEF Spec

-----------------------------------------------------------------------------
(* Counts.                                                                 *)

\* The places of the rows with the _id of a document.
At(rows, doc) == {m \in DOMAIN rows : HasIDOf(rows[m], doc)}

Distinct(rows) == \A i, j \in DOMAIN rows : HasIDOf(rows[i], rows[j].doc) => i = j

\* Each of the documents has one row, ...
Placed(docs, rows) == \A i \in DOMAIN docs : \E m \in DOMAIN rows : At(rows, docs[i]) = {m}

\* ... of its own.
Paired(docs, rows) ==
  \E at \in [DOMAIN docs -> DOMAIN rows] :
    \A i, j \in DOMAIN docs : At(rows, docs[i]) = {at[i]} /\ (at[i] = at[j] => i = j)

\* What the reply to an update counts, ...
UpdateOf(s, rows) ==
  s.cmd.op = "update" =>
    /\ s.pc \in {"idle", "describe", "read", "replace", "insert"} \cup Creates
    /\ ~s.overlap \/ s.pc \notin {"replace", "idle"} => s.modified = s.hit
    /\ s.pc = "replace" /\ ~s.overlap => Placed(s.todo, rows)

\* ... and to a delete.
DeleteOf(s, rows) ==
  s.cmd.op = "delete" =>
    /\ s.pc \in {"idle", "describe", "read", "delete"}
    /\ s.pc # "idle" => s.n = 0 /\ s.hit = 0
    /\ s.pc = "idle" /\ ~s.overlap => s.n = s.hit
    /\ s.pc = "delete" /\ ~s.overlap => IsSequence(s.todo) /\ Paired(s.todo, rows)

\* The facts about _ids.
LEMMA IDFacts ==
  ASSUME NEW Docs, NEW Schemas, IDsOK(Docs, Schemas, Seq(Docs))
  PROVE  /\ \A row \in Rows(Docs) : row.doc \in Docs /\ HasIDOf(row, row.doc)
         /\ \A row, other \in Rows(Docs), d \in Docs :
              HasIDOf(row, d) /\ HasIDOf(other, d) => \A e \in Docs : HasIDOf(row, e) <=> HasIDOf(other, e)
<1>1. \A row \in Rows(Docs) : row.doc \in Docs
  BY DEF Rows
<1>2. \A row \in Rows(Docs) : HasIDOf(row, row.doc)
  BY Zenon DEF IDsOK
<1>3. \A row, other \in Rows(Docs) :
        (\E d \in Docs : HasIDOf(row, d) /\ HasIDOf(other, d)) => \A d \in Docs : HasIDOf(row, d) <=> HasIDOf(other, d)
  BY Zenon DEF IDsOK
<1> QED
  BY Zenon, <1>1, <1>2, <1>3

\* The rows of the collection are such rows.
LEMMA InRows ==
  ASSUME NEW Docs, NEW Schemas, NEW k, RowsOf(k, Docs, Schemas)
  PROVE  \A i \in DOMAIN k.rows : k.rows[i] \in Rows(Docs)
<1>1. ASSUME NEW i \in DOMAIN k.rows PROVE k.rows[i] \in Rows(Docs)
  <2>1. PICK d \in Docs : k.rows[i] = [json |-> ToJSON(d), doc |-> d] /\ ToJSON(d) \notin {Panics, Unencoded}
    BY Zenon DEF RowsOf, RowOf, Bad
  <2> QED
    BY Zenon, <2>1 DEF Rows
<1> QED
  BY Zenon, <1>1

\* A row with a new _id keeps them distinct, ...
LEMMA DistinctAppend ==
  ASSUME NEW Docs, NEW Schemas, IDsOK(Docs, Schemas, Seq(Docs)), NEW rows, IsSequence(rows),
         \A i \in DOMAIN rows : rows[i] \in Rows(Docs), Distinct(rows),
         NEW row \in Rows(Docs), \A i \in DOMAIN rows : ~HasIDOf(rows[i], row.doc)
  PROVE  Distinct(Append(rows, row))
<1> DEFINE q == Append(rows, row)
           n == Len(rows)
<1>1. /\ IsSequence(q) /\ Len(q) = n + 1 /\ q[n + 1] = row
      /\ \A i \in 1..n : q[i] = rows[i]
  BY ZenonT(60), AppendSequence
<1>2. DOMAIN rows = 1..n /\ n \in Nat
  BY Zenon, SequenceFacts
<1> HIDE DEF q, n
<1>3. DOMAIN q = 1..(n + 1)
  BY Zenon, <1>1, SequenceFacts
<1>4. \A j \in DOMAIN rows : ~HasIDOf(row, rows[j].doc)
  <2> TAKE j \in DOMAIN rows
  <2>1. row.doc \in Docs /\ HasIDOf(row, row.doc) /\ rows[j].doc \in Docs /\ HasIDOf(rows[j], rows[j].doc)
    BY Zenon, IDFacts
  <2>2. HasIDOf(row, rows[j].doc) => HasIDOf(rows[j], row.doc)
    BY Zenon, <2>1, IDFacts
  <2> QED
    BY Zenon, <2>2
<1>5. ASSUME NEW i \in DOMAIN q, NEW j \in DOMAIN q, HasIDOf(q[i], q[j].doc)
      PROVE  i = j
  <2>1. \A m \in DOMAIN q : (m = n + 1 /\ q[m] = row) \/ (m \in DOMAIN rows /\ q[m] = rows[m])
    BY <1>1, <1>2, <1>3
  <2> QED
    BY Zenon, <1>4, <1>5, <2>1 DEF Distinct
<1> QED
  BY Zenon, <1>5 DEF Distinct, q

\* ... and one in the place of those with its _id keeps every document in its places.
LEMMA RowsReplaced ==
  ASSUME NEW Docs, NEW Schemas, IDsOK(Docs, Schemas, Seq(Docs)), NEW rows,
         \A i \in DOMAIN rows : rows[i] \in Rows(Docs), NEW row \in Rows(Docs),
         NEW q, q = [i \in DOMAIN rows |-> IF i \in At(rows, row.doc) THEN row ELSE rows[i]]
  PROVE  /\ \A d \in Docs : At(q, d) = At(rows, d)
         /\ Distinct(rows) => Distinct(q)
<1>1. DOMAIN q = DOMAIN rows /\ \A i \in DOMAIN rows : q[i] = IF i \in At(rows, row.doc) THEN row ELSE rows[i]
  BY Zenon
<1>2. row.doc \in Docs /\ HasIDOf(row, row.doc)
  BY Zenon, IDFacts
<1>3. ASSUME NEW i \in DOMAIN rows, NEW d \in Docs PROVE HasIDOf(q[i], d) <=> HasIDOf(rows[i], d)
  <2>1. CASE i \in At(rows, row.doc)
    <3>1. q[i] = row /\ HasIDOf(rows[i], row.doc)
      BY Zenon, <1>1, <2>1 DEF At
    <3> QED
      BY Zenon, <1>2, <3>1, IDFacts
  <2>2. CASE i \notin At(rows, row.doc)
    BY Zenon, <1>1, <2>2
  <2> QED
    BY Zenon, <2>1, <2>2
<1>4. \A d \in Docs : At(q, d) = At(rows, d)
  BY Zenon, <1>1, <1>3 DEF At
<1>5. ASSUME Distinct(rows), NEW i \in DOMAIN rows, NEW j \in DOMAIN rows, HasIDOf(q[i], q[j].doc)
      PROVE  i = j
  <2>1. rows[j].doc \in Docs /\ HasIDOf(rows[j], rows[j].doc)
    BY Zenon, IDFacts
  <2>2. CASE j \notin At(rows, row.doc)
    <3>1. q[j] = rows[j]
      BY Zenon, <1>1, <2>2
    <3> QED
      BY Zenon, <1>3, <1>5, <2>1, <3>1 DEF Distinct
  <2>3. CASE j \in At(rows, row.doc)
    <3>1. q[j] = row /\ HasIDOf(rows[j], row.doc)
      BY Zenon, <1>1, <2>3 DEF At
    <3>2. HasIDOf(rows[i], row.doc)
      BY Zenon, <1>2, <1>3, <1>5, <3>1
    <3>3. \A e \in Docs : HasIDOf(rows[i], e) <=> HasIDOf(rows[j], e)
      BY Zenon, <1>2, <3>1, <3>2, IDFacts
    <3>4. HasIDOf(rows[i], rows[j].doc)
      BY Zenon, <2>1, <3>3
    <3> QED
      BY Zenon, <1>5, <3>4 DEF Distinct
  <2> QED
    BY Zenon, <2>2, <2>3
<1> QED
  BY Zenon, <1>1, <1>4, <1>5 DEF Distinct

\* The documents read have rows of their own, ...
LEMMA ReadPaired ==
  ASSUME NEW Docs, NEW Schemas, IDsOK(Docs, Schemas, Seq(Docs)), NEW rows, IsSequence(rows),
         \A i \in DOMAIN rows : rows[i] \in Rows(Docs), Distinct(rows), NEW schema \in Schemas,
         NEW order \in Orders(Len(rows)),
         NEW docs \in Seq(Docs), docs = [i \in DOMAIN rows |-> FromJSON(rows[order[i]].json, schema)],
         Garbled \notin Docs
  PROVE  Paired(docs, rows)
<1>1. DOMAIN rows = 1..Len(rows)
  BY Zenon, SequenceFacts
<1>2. order \in [DOMAIN rows -> DOMAIN rows] /\ \A i, j \in DOMAIN rows : order[i] = order[j] => i = j
  BY Zenon, <1>1 DEF Orders
<1>3. DOMAIN docs = DOMAIN rows /\ \A i \in DOMAIN rows : docs[i] = FromJSON(rows[order[i]].json, schema)
  BY Zenon
<1>4. \A i \in DOMAIN docs : docs[i] \in Docs
  OBVIOUS
<1>5. ASSUME NEW i \in DOMAIN rows PROVE At(rows, docs[i]) = {order[i]}
  <2> DEFINE m == order[i]
  <2>1. m \in DOMAIN rows /\ docs[i] = FromJSON(rows[m].json, schema) /\ docs[i] \in Docs
    BY Zenon, <1>2, <1>3, <1>4
  <2> HIDE DEF m
  <2>2. HasIDOf(rows[m], docs[i])
    <3>1. \A row \in Rows(Docs), s \in Schemas :
            FromJSON(row.json, s) # Garbled => HasIDOf(row, FromJSON(row.json, s))
      BY Zenon DEF IDsOK
    <3> QED
      BY Zenon, <2>1, <3>1
  <2>3. ASSUME NEW l \in DOMAIN rows, HasIDOf(rows[l], docs[i]) PROVE l = m
    <3>1. rows[m].doc \in Docs /\ HasIDOf(rows[m], rows[m].doc)
      BY Zenon, <2>1, IDFacts
    <3>2. \A e \in Docs : HasIDOf(rows[l], e) <=> HasIDOf(rows[m], e)
      <4>1. rows[l] \in Rows(Docs) /\ rows[m] \in Rows(Docs)
        BY Zenon, <2>1
      <4> QED
        BY ZenonT(60), <2>1, <2>2, <2>3, <4>1, IDFacts
    <3>3. HasIDOf(rows[l], rows[m].doc)
      BY Zenon, <3>1, <3>2
    <3> QED
      BY Zenon, <2>1, <3>3 DEF Distinct
  <2>4. At(rows, docs[i]) = {m}
    BY Zenon, <2>1, <2>2, <2>3 DEF At
  <2> QED
    BY Zenon, <2>4 DEF m
<1>6. \A i, j \in DOMAIN docs : At(rows, docs[i]) = {order[i]} /\ (order[i] = order[j] => i = j)
  BY Zenon, <1>2, <1>3, <1>5
<1>7. order \in [DOMAIN docs -> DOMAIN rows]
  BY Zenon, <1>2, <1>3
<1> QED
  BY Zenon, <1>6, <1>7 DEF Paired

\* ... and so have some of them.
LEMMA AmongPaired ==
  ASSUME NEW docs, NEW rows, Paired(docs, rows), NEW found, Among(found, docs)
  PROVE  Paired(found, rows)
<1>1. PICK from \in [DOMAIN found -> DOMAIN docs] :
        \A i, j \in DOMAIN found : found[i] = docs[from[i]] /\ (from[i] = from[j] => i = j)
  BY Zenon DEF Among
<1>2. PICK at \in [DOMAIN docs -> DOMAIN rows] :
        \A i, j \in DOMAIN docs : At(rows, docs[i]) = {at[i]} /\ (at[i] = at[j] => i = j)
  BY Zenon DEF Paired
<1> DEFINE f == [i \in DOMAIN found |-> at[from[i]]]
<1>3. f \in [DOMAIN found -> DOMAIN rows] /\ \A i \in DOMAIN found : f[i] = at[from[i]]
  BY Zenon, <1>1, <1>2
<1> HIDE DEF f
<1>4. \A i, j \in DOMAIN found : At(rows, found[i]) = {f[i]} /\ (f[i] = f[j] => i = j)
  BY <1>1, <1>2, <1>3
<1> QED
  BY Zenon, <1>3, <1>4 DEF Paired

\* A document with a row of its own has a row.
LEMMA PairedPlaced ==
  ASSUME NEW docs, NEW rows, Paired(docs, rows)
  PROVE  Placed(docs, rows)
BY Zenon DEF Paired, Placed

\* An update leaves a document in its places.
Keeps(u, rows, Docs) ==
  \A d \in Docs : Updated(d, u).err = "none" => At(rows, Updated(d, u).doc) = At(rows, d)

\* The loop of update goes over documents that have a row.
LEMMA ReplaceNextPlaced ==
  ASSUME NEW Docs, NEW s, DOMAIN s = Fields, s.todo \in Seq(Docs), NEW rows, Keeps(s.cmd.u, rows, Docs),
         Placed(s.todo, rows), ReplaceNext(s).pc = "replace"
  PROVE  Placed(ReplaceNext(s).todo, rows)
<1> DEFINE updated == [i \in DOMAIN s.todo |-> Updated(s.todo[i], s.cmd.u)]
           stops == {i \in DOMAIN s.todo : updated[i].err # "none" \/ updated[i].changed}
           first == CHOOSE i \in stops : \A j \in stops : i <= j
           rest == SubSeq(s.todo, first, Len(s.todo))
           with(q) == [s EXCEPT !.todo = q]
           next == [rest EXCEPT ![1] = updated[first].doc]
<1>1. ReplaceNext(s) = IF stops = {} THEN Finish(with(<<>>), "none")
                       ELSE IF updated[first].err # "none" THEN Finish(with(rest), updated[first].err)
                       ELSE Write(with(next), updated[first].doc, "replace")
  BY Zenon DEF ReplaceNext
<1>2. \A q : DOMAIN with(q) = Fields /\ with(q).todo = q
  BY Zenon DEF Fields
<1>3. DOMAIN s.todo = 1..Len(s.todo) /\ Len(s.todo) \in Nat /\ \A i \in DOMAIN s.todo : s.todo[i] \in Docs
  OBVIOUS
<1>4. stops # {} => first \in DOMAIN s.todo
  <2> SUFFICES ASSUME stops # {} PROVE first \in DOMAIN s.todo
    BY Zenon
  <2>1. stops \subseteq Nat /\ stops \subseteq DOMAIN s.todo
    BY <1>3
  <2> HIDE DEF stops
  <2>2. \E i \in stops : \A j \in stops : i <= j
    BY Zenon, <2>1, Smallest
  <2>3. first \in stops
    BY Zenon, <2>2
  <2> HIDE DEF first
  <2> QED
    BY Zenon, <2>1, <2>3
<1>5. stops # {} /\ updated[first].err = "none" => At(rows, updated[first].doc) = At(rows, s.todo[first])
  <2>1. \A i \in DOMAIN s.todo : updated[i].err = "none" => At(rows, updated[i].doc) = At(rows, s.todo[i])
    BY ZenonT(60), <1>3 DEF Keeps
  <2> HIDE DEF updated, stops, first
  <2> QED
    BY Zenon, <1>4, <2>1
<1>6. stops # {} => /\ Len(rest) = Len(s.todo) - first + 1 /\ DOMAIN rest = 1..Len(rest)
                    /\ \A i \in 1..Len(rest) : rest[i] = s.todo[first + i - 1] /\ first + i - 1 \in DOMAIN s.todo
  <2> SUFFICES ASSUME stops # {} PROVE /\ Len(rest) = Len(s.todo) - first + 1 /\ DOMAIN rest = 1..Len(rest)
                                       /\ \A i \in 1..Len(rest) : /\ rest[i] = s.todo[first + i - 1]
                                                                  /\ first + i - 1 \in DOMAIN s.todo
    BY Zenon
  <2>1. first \in 1..Len(s.todo)
    BY Zenon, <1>3, <1>4
  <2> HIDE DEF first
  <2> QED
    BY <1>3, <2>1
<1> HIDE DEF updated, stops, first, rest, with
<1>7. ASSUME stops # {}, updated[first].err = "none" PROVE Placed(next, rows)
  <2>1. ASSUME NEW i \in DOMAIN next PROVE \E m \in DOMAIN rows : At(rows, next[i]) = {m}
    <3>1. i \in 1..Len(rest) /\ DOMAIN rest = 1..Len(rest)
      BY Zenon, <1>6, <1>7
    <3>2. CASE i = 1
      <4>1. At(rows, next[i]) = At(rows, s.todo[first])
        BY Zenon, <1>5, <1>7, <3>1, <3>2
      <4> QED
        BY Zenon, <1>4, <1>7, <4>1 DEF Placed
    <3>3. CASE i # 1
      <4>1. next[i] = s.todo[first + i - 1] /\ first + i - 1 \in DOMAIN s.todo
        BY Zenon, <1>6, <1>7, <3>1, <3>3
      <4> QED
        BY Zenon, <4>1 DEF Placed
    <3> QED
      BY Zenon, <3>2, <3>3
  <2> QED
    BY Zenon, <2>1 DEF Placed
<1> HIDE DEF next
<1>8. \A q, e : Finish(with(q), e).pc = "idle"
  BY Zenon, <1>2, FinishSame
<1>9. stops # {} /\ updated[first].err = "none" /\ ReplaceNext(s) = Write(with(next), updated[first].doc, "replace")
  BY Zenon, <1>1, <1>8
<1>10. Same(Write(with(next), updated[first].doc, "replace"), with(next), {"pc", "err"})
  BY Zenon, <1>2, WriteSame
<1>11. ReplaceNext(s).todo = next
  BY Zenon, <1>2, <1>9, <1>10 DEF Same, Fields
<1> QED
  BY Zenon, <1>7, <1>9, <1>11

\* The updates of the commands do.
LEMMA UpdatesKeep ==
  ASSUME NEW Docs, NEW Schemas, IDsOK(Docs, Schemas, Seq(Docs)), NEW s, Running(s), s.cmd.op = "update",
         NEW rows, \A i \in DOMAIN rows : rows[i] \in Rows(Docs)
  PROVE  Keeps(s.cmd.u, rows, Docs)
<1>1. \A d \in Docs, row \in Rows(Docs) :
        Updated(d, s.cmd.u).err = "none" => (HasIDOf(row, d) <=> HasIDOf(row, Updated(d, s.cmd.u).doc))
  BY Zenon DEF IDsOK, Running
<1> QED
  BY Zenon, <1>1 DEF Keeps, At

\* What an update does with the documents it has read, ...
LEMMA UpdateQueried ==
  ASSUME NEW Docs, NEW Schemas, DataOK(Docs, Schemas, Seq(Docs)), IDsOK(Docs, Schemas, Seq(Docs)),
         NEW s, Running(s), s.cmd.op = "update", NEW rows, \A i \in DOMAIN rows : rows[i] \in Rows(Docs),
         NEW docs \in Seq(Docs), Paired(docs, rows)
  PROVE  LET t == Queried(s, docs) IN
         /\ t.cmd = s.cmd /\ t.modified = s.modified /\ t.hit = s.hit
         /\ t.pc \in {"idle", "replace", "describeDB"} /\ (t.pc = "replace" => Placed(t.todo, rows))
<1> DEFINE t == Queried(s, docs)
           matched == Chosen(s.cmd, docs)
           chosen == IF s.cmd.multi \/ matched.v = <<>> THEN matched.v ELSE <<matched.v[1]>>
           upsert == UpsertOf(s.cmd)
           replacing == [s EXCEPT !.todo = chosen, !.n = Len(chosen)]
           inserting == [s EXCEPT !.todo = <<upsert.doc>>]
           good(x) == x.pc \in {"idle", "replace", "describeDB"} /\ (x.pc = "replace" => Placed(x.todo, rows))
<1>1. t.cmd = s.cmd /\ t.modified = s.modified /\ t.hit = s.hit
  <2>1. Same(t, s, {"pc", "err", "todo", "n", "schema"})
    BY Zenon, QueriedSame DEF Running, Queries
  <2> HIDE DEF t
  <2> QED
    BY Zenon, <2>1 DEF Same, Fields
<1>2. t = IF matched.err # "none" THEN Finish(s, matched.err)
          ELSE IF matched.v # <<>> THEN ReplaceNext(replacing)
          ELSE IF ~s.cmd.upsert THEN Finish(s, "none")
          ELSE IF upsert.err # "none" THEN Finish(s, upsert.err)
          ELSE InsertNext(inserting)
  <2>1. t = MsgUpdate(s, docs)
    BY Zenon DEF Queried
  <2> HIDE DEF t
  <2> QED
    BY Zenon, <2>1 DEF MsgUpdate
<1>3. \A e : good(Finish(s, e))
  BY ZenonT(60), FinishSame DEF Running
<1>4. good(InsertNext(inserting))
  <2>1. DOMAIN inserting = Fields
    BY Zenon DEF Running
  <2> HIDE DEF inserting
  <2> QED
    BY Zenon, <2>1, InsertNextSame
<1>5. ASSUME matched.err = "none" PROVE good(ReplaceNext(replacing))
  <2>1. matched.v \in Seq(Docs) /\ Among(matched.v, docs)
    BY Zenon, <1>5 DEF DataOK, ClosedUnder, IDsOK, Running
  <2>2. Placed(matched.v, rows)
    BY ZenonT(60), <2>1, AmongPaired, PairedPlaced
  <2> HIDE DEF matched
  <2>3. chosen \in Seq(Docs) /\ \A i \in DOMAIN chosen : i \in DOMAIN matched.v /\ chosen[i] = matched.v[i]
    BY <2>1
  <2>4. Placed(chosen, rows)
    BY Zenon, <2>2, <2>3 DEF Placed
  <2> HIDE DEF chosen
  <2>5. DOMAIN replacing = Fields /\ replacing.todo = chosen /\ replacing.cmd = s.cmd
    BY Zenon DEF Running, Fields
  <2>6. Keeps(replacing.cmd.u, rows, Docs)
    BY Zenon, <2>5, UpdatesKeep
  <2> HIDE DEF replacing
  <2>7. ReplaceNext(replacing).pc = "replace" => Placed(ReplaceNext(replacing).todo, rows)
    BY ZenonT(60), <2>3, <2>4, <2>5, <2>6, ReplaceNextPlaced
  <2> QED
    BY Zenon, <2>5, <2>7, ReplaceNextSame
<1> HIDE DEF good, matched, chosen, upsert, replacing, inserting, t
<1>6. good(t)
  BY Zenon, <1>2, <1>3, <1>4, <1>5
<1> QED
  BY Zenon, <1>1, <1>6 DEF good, t

\* ... and a delete.
LEMMA DeleteQueried ==
  ASSUME NEW Docs, NEW Schemas, DataOK(Docs, Schemas, Seq(Docs)), IDsOK(Docs, Schemas, Seq(Docs)),
         NEW s, Running(s), s.cmd.op = "delete", NEW rows, NEW docs \in Seq(Docs), Paired(docs, rows)
  PROVE  LET t == Queried(s, docs) IN
         /\ t.cmd = s.cmd /\ t.n = s.n /\ t.hit = s.hit
         /\ t.pc \in {"idle", "delete"} /\ (t.pc = "delete" => IsSequence(t.todo) /\ Paired(t.todo, rows))
<1> DEFINE found == ResultOf(s.cmd, docs)
           deleting == [s EXCEPT !.todo = found.v, !.pc = "delete"]
           good(x) == /\ x.cmd = s.cmd /\ x.n = s.n /\ x.hit = s.hit
                      /\ x.pc \in {"idle", "delete"} /\ (x.pc = "delete" => IsSequence(x.todo) /\ Paired(x.todo, rows))
<1>1. Queried(s, docs) = IF found.err # "none" \/ found.v = <<>> THEN Finish(s, found.err) ELSE deleting
  <2>1. Queried(s, docs) = MsgDelete(s, docs)
    BY Zenon DEF Queried
  <2> QED
    BY Zenon, <2>1 DEF MsgDelete
<1>2. \A e : good(Finish(s, e))
  BY FinishSame DEF Running, Same, Fields
<1>3. ASSUME found.err = "none" PROVE good(deleting)
  <2>1. found.v \in Seq(Docs) /\ Among(found.v, docs)
    BY Zenon, <1>3 DEF DataOK, ClosedUnder, IDsOK, Running
  <2> HIDE DEF found
  <2>2. Paired(found.v, rows)
    BY Zenon, <2>1, AmongPaired
  <2>3. IsSequence(found.v)
    BY <2>1 DEF IsSequence
  <2>4. /\ deleting.cmd = s.cmd /\ deleting.n = s.n /\ deleting.hit = s.hit
        /\ deleting.pc = "delete" /\ deleting.todo = found.v
    BY Zenon DEF Running, Fields
  <2> HIDE DEF deleting
  <2> QED
    BY Zenon, <2>2, <2>3, <2>4
<1> HIDE DEF good, found, deleting
<1>4. good(Queried(s, docs))
  BY Zenon, <1>1, <1>2, <1>3
<1> QED
  BY Zenon, <1>4 DEF good

\* No call makes a second row with an _id.
LEMMA DistinctStep ==
  ASSUME TypeOK, NEW Docs, NEW Schemas, IDsOK(Docs, Schemas, Seq(Docs)), NEW c \in Clients,
         RowsOf(coll, Docs, Schemas), Holds(sess[c], Docs, Schemas), Distinct(coll.rows), Call(c)
  PROVE  Distinct(coll'.rows)
<1> DEFINE s == sess[c]
           rows == coll.rows
           goal == Distinct(coll'.rows)
           row == [json |-> ToJSON(s.todo[1]), doc |-> s.todo[1]]
<1> SUFFICES goal
  BY Zenon
<1>1. IsColl(coll) /\ DOMAIN sess = Clients /\ IsSequence(rows)
  BY Zenon DEF TypeOK, IsColl
<1>2. \A i \in DOMAIN rows : rows[i] \in Rows(Docs)
  BY Zenon, InRows
<1>Looks. \A t : Look(c, t) => goal
  BY Zenon, <1>1, LookSessions
<1>Acts. \A t, b, k : Effect(c, t, b, k) /\ Distinct(k.rows) => goal
  BY ZenonT(60), <1>1, EffectSessions
<1>3. s.pc \in Writes => row \in Rows(Docs) /\ row.doc = s.todo[1]
  <2> SUFFICES ASSUME s.pc \in Writes PROVE row \in Rows(Docs) /\ row.doc = s.todo[1]
    BY Zenon
  <2>1. s.todo \in Seq(Docs) /\ s.todo # <<>> /\ ToJSON(s.todo[1]) \notin {Panics, Unencoded}
    BY Zenon DEF Holds, Writes, Bad
  <2>2. s.todo[1] \in Docs
    BY <2>1
  <2> QED
    BY Zenon, <2>1, <2>2 DEF Rows
<1>4. \A q : [coll EXCEPT !.rows = q].rows = q
  BY Zenon, <1>1 DEF IsColl
<1> HIDE DEF goal
<1>5. CASE Insert(c)
  <2>1. /\ s.pc = "insert"
        /\ \/ \E t : Look(c, t)
           \/ /\ \A i \in DOMAIN rows : ~HasIDOf(rows[i], s.todo[1])
              /\ \E t : Effect(c, t, db, [coll EXCEPT !.rows = Append(rows, row)])
    BY Zenon, <1>5 DEF Insert
  <2>2. row \in Rows(Docs) /\ row.doc = s.todo[1]
    BY Zenon, <1>3, <2>1 DEF Writes
  <2> HIDE DEF s, row
  <2>3. (\A i \in DOMAIN rows : ~HasIDOf(rows[i], s.todo[1])) => Distinct(Append(rows, row))
    BY ZenonT(60), <1>1, <1>2, <2>2, DistinctAppend
  <2> HIDE DEF rows
  <2> QED
    BY Zenon, <1>4, <1>Looks, <1>Acts, <2>1, <2>3
<1>6. CASE Replace1(c)
  <2> DEFINE same == {i \in DOMAIN rows : HasIDOf(rows[i], s.todo[1])}
             r == [i \in DOMAIN rows |-> IF i \in same THEN row ELSE rows[i]]
             q == IF same = {} THEN Append(rows, row) ELSE r
  <2>1. s.pc = "replace" /\ \/ \E t : Look(c, t)
                            \/ \E t : Effect(c, t, db, [coll EXCEPT !.rows = q])
    BY Zenon, <1>6 DEF Replace1
  <2>2. row \in Rows(Docs) /\ row.doc = s.todo[1]
    BY Zenon, <1>3, <2>1 DEF Writes
  <2> HIDE DEF s, row
  <2>3. same = {} => Distinct(Append(rows, row))
    <3>1. same = {} => \A i \in DOMAIN rows : ~HasIDOf(rows[i], row.doc)
      BY ZenonT(60), <2>2
    <3> QED
      BY ZenonT(60), <1>1, <1>2, <2>2, <3>1, DistinctAppend
  <2>4. Distinct(r)
    <3>1. same = At(rows, row.doc)
      BY Zenon, <2>2 DEF At
    <3> HIDE DEF same
    <3>2. r = [i \in DOMAIN rows |-> IF i \in At(rows, row.doc) THEN row ELSE rows[i]]
      BY Zenon, <3>1
    <3> HIDE DEF r
    <3> QED
      BY <1>2, <2>2, <3>2, RowsReplaced
  <2>5. Distinct(q)
    <3> HIDE DEF r, same
    <3> QED
      BY Zenon, <2>3, <2>4
  <2> HIDE DEF q
  <2> QED
    BY ZenonT(60), <1>4, <1>Looks, <1>Acts, <2>1, <2>5
<1>7. CASE Delete(c)
  <2> DEFINE places == {i \in DOMAIN rows : ~Doomed(s, rows[i])}
             q(left) == [i \in DOMAIN left |-> rows[left[i]]]
  <2>1. \/ \E t : Look(c, t)
        \/ \E left \in InOrder(places) : \E t : Effect(c, t, db, [coll EXCEPT !.rows = q(left)])
    BY Zenon, <1>7 DEF Delete
  <2>2. ASSUME NEW left \in InOrder(places) PROVE Distinct(q(left))
    <3>1. DOMAIN rows \subseteq Nat
      BY <1>1, SequenceFacts
    <3>2. \A i \in DOMAIN left : left[i] \in DOMAIN rows
      BY Zenon DEF InOrder
    <3>3. \A i, j \in DOMAIN left : left[i] = left[j] => i = j
      <4>1. DOMAIN left = 1..Cardinality(places) /\ \A i, j \in DOMAIN left : i < j => left[i] < left[j]
        BY Zenon DEF InOrder
      <4>2. \A i, j \in DOMAIN left : i \in Int /\ j \in Int
        BY <4>1
      <4> HIDE DEF places
      <4> QED
        BY <3>1, <3>2, <4>1, <4>2
    <3> HIDE DEF places
    <3>4. DOMAIN q(left) = DOMAIN left /\ \A i \in DOMAIN left : q(left)[i] = rows[left[i]]
      BY Zenon
    <3> HIDE DEF q
    <3> QED
      BY <3>2, <3>3, <3>4 DEF Distinct
  <2> HIDE DEF places, q
  <2> QED
    BY ZenonT(60), <1>4, <1>Looks, <1>Acts, <2>1, <2>2
<1>8. CASE \/ DescribeDatabase(c) \/ CreateDatabase(c) \/ collectionExists(c) \/ CreateOrUpdateCollection(c)
           \/ DescribeCollection(c) \/ Read(c) \/ FetchStats(c) \/ DropCollection(c) \/ DropDatabase(c)
           \/ ListCollections(c) \/ ListDatabases(c) \/ DBStats(c)
  <2> DEFINE new == [here |-> TRUE, schema |-> s.schema, rows |-> coll.rows, version |-> coll.version + 1]
  <2>1. \/ \E t : Look(c, t)
        \/ \E t, b : \E k \in {coll, Missing, new} : Effect(c, t, b, k)
    <3>1. CASE DescribeDatabase(c) \/ collectionExists(c) \/ DescribeCollection(c) \/ Read(c)
      BY Zenon, <3>1 DEF DescribeDatabase, collectionExists, DescribeCollection, Read
    <3>2. CASE FetchStats(c) \/ ListCollections(c) \/ ListDatabases(c) \/ DBStats(c)
      BY Zenon, <3>2 DEF FetchStats, ListCollections, ListDatabases, DBStats
    <3> DEFINE acts(k) == \E t, b : Effect(c, t, b, k)
    <3>3. CASE CreateDatabase(c)
      <4>1. acts(coll)
        BY Zenon, <3>3 DEF CreateDatabase
      <4> QED
        BY Zenon, <4>1
    <3>4. CASE CreateOrUpdateCollection(c)
      <4>1. (\E t : Look(c, t)) \/ acts(new)
        BY Zenon, <3>4 DEF CreateOrUpdateCollection
      <4> QED
        BY Zenon, <4>1
    <3>5. CASE DropCollection(c) \/ DropDatabase(c)
      <4>1. (\E t : Look(c, t)) \/ acts(Missing) \/ acts(coll)
        BY ZenonT(60), <3>5 DEF DropCollection, DropDatabase
      <4> QED
        BY Zenon, <4>1
    <3> QED
      BY ZenonT(60), <1>8, <3>1, <3>2, <3>3, <3>4, <3>5
  <2>2. \A k \in {coll, Missing, new} : Distinct(k.rows)
    BY DEF Missing, Distinct
  <2> QED
    BY Zenon, <1>Looks, <1>Acts, <2>1, <2>2
<1> QED
  BY ZenonT(60), <1>5, <1>6, <1>7, <1>8 DEF Call

\* What the counts say is in these fields.
LEMMA CountsSame ==
  ASSUME NEW s, NEW t, Same(t, s, {"seen"}), NEW rows, UpdateOf(s, rows), DeleteOf(s, rows)
  PROVE  UpdateOf(t, rows) /\ DeleteOf(t, rows)
<1>1. /\ t.cmd = s.cmd /\ t.pc = s.pc /\ t.overlap = s.overlap /\ t.modified = s.modified /\ t.hit = s.hit /\ t.n = s.n
      /\ t.todo = s.todo
  BY Zenon DEF Same, Fields
<1> QED
  BY Zenon, <1>1 DEF UpdateOf, DeleteOf

\* A command that ends early has counted what it has changed.
LEMMA CountsFinish ==
  ASSUME NEW s, DOMAIN s = Fields, s.pc # "idle", NEW rows, UpdateOf(s, rows), DeleteOf(s, rows), NEW e, NEW other
  PROVE  UpdateOf(Finish(s, e), other) /\ DeleteOf(Finish(s, e), other) /\ DOMAIN Finish(s, e) = Fields
<1> DEFINE t == Finish(s, e)
<1>1. Same(t, s, {"pc", "err"}) /\ t.pc = "idle"
  BY Zenon, FinishSame
<1> HIDE DEF t
<1>2. /\ t.cmd = s.cmd /\ t.overlap = s.overlap /\ t.modified = s.modified /\ t.hit = s.hit /\ t.n = s.n
      /\ DOMAIN t = Fields
  BY Zenon, <1>1 DEF Same, Fields
<1>3. UpdateOf(t, other) /\ DeleteOf(t, other)
  BY Zenon, <1>1, <1>2 DEF UpdateOf, DeleteOf
<1> QED
  BY Zenon, <1>2, <1>3 DEF t

\* What a client read, it can find.
LEMMA QueryCounts ==
  ASSUME NEW Docs, NEW Schemas, DataOK(Docs, Schemas, Seq(Docs)), IDsOK(Docs, Schemas, Seq(Docs)),
         NEW s, Running(s), s.cmd.op \in {"update", "delete"}, s.pc \in {"describe", "read"},
         NEW rows, \A i \in DOMAIN rows : rows[i] \in Rows(Docs), UpdateOf(s, rows), DeleteOf(s, rows),
         NEW u, Same(u, s, {"overlap"}), NEW docs \in Seq(Docs), Paired(docs, rows)
  PROVE  UpdateOf(Queried(u, docs), rows) /\ DeleteOf(Queried(u, docs), rows)
<1> DEFINE t == Queried(u, docs)
<1>1. /\ Running(u) /\ u.cmd = s.cmd /\ u.modified = s.modified /\ u.hit = s.hit /\ u.n = s.n
  BY Zenon DEF Running, Same, Fields
<1>2. CASE s.cmd.op = "update"
  <2>0. u.cmd.op = "update"
    BY Zenon, <1>1, <1>2
  <2>1. /\ t.cmd = u.cmd /\ t.modified = u.modified /\ t.hit = u.hit
        /\ t.pc \in {"idle", "replace", "describeDB"} /\ (t.pc = "replace" => Placed(t.todo, rows))
    BY Zenon, <1>1, <2>0, UpdateQueried
  <2> HIDE DEF t
  <2>2. UpdateOf(t, rows) /\ DeleteOf(t, rows)
    BY Zenon, <1>1, <1>2, <2>1 DEF UpdateOf, DeleteOf, Creates
  <2> QED
    BY Zenon, <2>2 DEF t
<1>3. CASE s.cmd.op = "delete"
  <2>1. /\ t.cmd = s.cmd /\ t.n = s.n /\ t.hit = s.hit
        /\ t.pc \in {"idle", "delete"} /\ (t.pc = "delete" => IsSequence(t.todo) /\ Paired(t.todo, rows))
    BY <1>1, <1>3, DeleteQueried
  <2> HIDE DEF t
  <2>2. UpdateOf(t, rows) /\ DeleteOf(t, rows)
    BY Zenon, <1>3, <2>1 DEF UpdateOf, DeleteOf
  <2> QED
    BY ZenonT(60), <2>2 DEF t
<1> QED
  BY Zenon, <1>2, <1>3

\* A delete removes as many rows as it has documents, if each has a row of its own.
LEMMA DeletedRows ==
  ASSUME NEW s, IsSequence(s.todo), NEW rows, IsSequence(rows), Paired(s.todo, rows),
         NEW left \in InOrder({i \in DOMAIN rows : ~Doomed(s, rows[i])})
  PROVE  Len(rows) - Len(left) = Len(s.todo)
<1> DEFINE n == Len(rows)
           m == Len(s.todo)
           doomed == {i \in DOMAIN rows : Doomed(s, rows[i])}
           places == {i \in DOMAIN rows : ~Doomed(s, rows[i])}
<1>1. n \in Nat /\ DOMAIN rows = 1..n /\ m \in Nat /\ DOMAIN s.todo = 1..m
  BY Zenon, SequenceFacts
<1>2. PICK at \in [DOMAIN s.todo -> DOMAIN rows] :
        \A i, j \in DOMAIN s.todo : At(rows, s.todo[i]) = {at[i]} /\ (at[i] = at[j] => i = j)
  BY Zenon DEF Paired
<1>3. at \in Bijection(1..m, doomed)
  <2>1. \A i \in DOMAIN s.todo : at[i] \in doomed
    <3> TAKE i \in DOMAIN s.todo
    <3>1. at[i] \in At(rows, s.todo[i])
      BY Zenon, <1>2
    <3> QED
      BY ZenonT(60), <3>1 DEF At, Doomed
  <2>2. \A k \in doomed : \E i \in DOMAIN s.todo : at[i] = k
    <3> TAKE k \in doomed
    <3>1. PICK i \in DOMAIN s.todo : HasIDOf(rows[k], s.todo[i])
      BY Zenon DEF Doomed
    <3>2. k \in At(rows, s.todo[i])
      BY Zenon, <3>1 DEF At
    <3> QED
      BY Zenon, <1>2, <3>2
  <2> HIDE DEF doomed, n, m
  <2>3. at \in [1..m -> doomed]
    BY Zenon, <1>1, <1>2, <2>1
  <2>4. \A i, j \in 1..m : at[i] = at[j] => i = j
    BY Zenon, <1>1, <1>2
  <2>5. \A k \in doomed : \E i \in 1..m : at[i] = k
    BY Zenon, <1>1, <2>2
  <2> QED
    BY Zenon, <2>3, <2>4, <2>5 DEF Bijection, Injection, Surjection, IsInjective
<1>4. Cardinality(doomed) = m
  <2> HIDE DEF doomed, m
  <2>1. ExistsBijection(1..m, doomed)
    BY Zenon, <1>3 DEF ExistsBijection
  <2> QED
    BY Zenon, <1>1, <2>1, FS_CountingElements DEF m
<1>5. IsFiniteSet(DOMAIN rows) /\ Cardinality(DOMAIN rows) = n
  <2> HIDE DEF n
  <2>1. 1 \in Int /\ n \in Int
    BY <1>1
  <2>2. IsFiniteSet(1..n) /\ Cardinality(1..n) = IF 1 > n THEN 0 ELSE n - 1 + 1
    BY Zenon, <2>1, FS_Interval
  <2> QED
    BY <1>1, <2>2
<1>6. Cardinality(places) = n - m
  <2>1. places = DOMAIN rows \ doomed /\ DOMAIN rows \cap doomed = doomed
    BY Zenon
  <2> HIDE DEF places, doomed
  <2> QED
    <3>1. Cardinality(DOMAIN rows \ doomed) = Cardinality(DOMAIN rows) - Cardinality(DOMAIN rows \cap doomed)
      BY Zenon, <1>5, FS_Difference
    <3> QED
      BY Zenon, <1>4, <1>5, <2>1, <3>1
<1>7. Len(left) = Cardinality(places)
  <2>1. left \in [1..Cardinality(places) -> places]
    BY Zenon DEF InOrder
  <2>2. Cardinality(places) \in Nat
    <3>1. places \subseteq DOMAIN rows
      BY Zenon
    <3> HIDE DEF places
    <3> QED
      BY ZenonT(60), <1>5, <3>1, FS_Subset, FS_CardinalityType
  <2> HIDE DEF places
  <2> QED
    BY <2>1, <2>2
<1> HIDE DEF n, m, places
<1>8. n - Len(left) = m
  <2>1. \A x, y \in Nat : x - (x - y) = y
    OBVIOUS
  <2>2. n \in Nat /\ m \in Nat /\ Len(left) = n - m
    BY Zenon, <1>1, <1>6, <1>7
  <2> QED
    BY Zenon, <2>1, <2>2
<1> QED
  BY Zenon, <1>8 DEF n, m

\* A call of a client keeps what its update or delete counts.
LEMMA CallCounts ==
  ASSUME TypeOK, NEW Docs, NEW Schemas, DataOK(Docs, Schemas, Seq(Docs)), IDsOK(Docs, Schemas, Seq(Docs)),
         NEW c \in Clients,
         RowsOf(coll, Docs, Schemas), Holds(sess[c], Docs, Schemas), Described(sess[c], coll, Schemas),
         Distinct(coll.rows), UpdateOf(sess[c], coll.rows), DeleteOf(sess[c], coll.rows), Call(c)
  PROVE  UpdateOf(sess'[c], coll'.rows) /\ DeleteOf(sess'[c], coll'.rows)
<1> DEFINE s == sess[c]
           rows == coll.rows
           good(t, r) == UpdateOf(t, r) /\ DeleteOf(t, r)
           goal == good(sess'[c], coll'.rows)
<1> SUFFICES goal
  BY Zenon
<1>1. /\ DOMAIN s = Fields /\ IsColl(coll) /\ DOMAIN sess = Clients /\ IsSequence(rows)
      /\ s.pc \in {"describe", "read"} => s.cmd.op \in Queries
  BY Zenon DEF TypeOK, IsSession, IsColl
<1>2. s.pc # "idle" => Running(s)
  BY Zenon, <1>1 DEF Holds, Running
<1>3. \A i \in DOMAIN rows : rows[i] \in Rows(Docs)
  BY Zenon, InRows
<1>4. CASE s.cmd.op \notin {"update", "delete"}
  <2>1. PICK t : /\ Moves(s, t)
                 /\ Look(c, t) \/ \E b \in BOOLEAN : \E k : IsColl(k) /\ Effect(c, t, b, k)
    BY Zenon, CallMoves DEF Calls
  <2> DEFINE f == Finish(s, "InternalError")
  <2>0. Same(f, s, {"pc", "err"})
    BY Zenon, <1>1, FinishSame
  <2>2. t.cmd = s.cmd /\ f.cmd = s.cmd /\ DOMAIN t = Fields /\ DOMAIN f = Fields
    <3> HIDE DEF f
    <3> QED
      BY Zenon, <2>0, <2>1 DEF Moves, IsSession, Same, Fields
  <2>3. ASSUME NEW x, NEW h, DOMAIN x = Fields PROVE Saw(x, h).cmd = x.cmd
    <3>1. Same(Saw(x, h), x, {"seen"})
      BY ZenonT(60), <2>3, SawSame
    <3> QED
      BY Zenon, <3>1 DEF Same, Fields
  <2>4. sess'[c].cmd = s.cmd
    BY <1>1, <2>1, <2>2, <2>3, LookSessions, EffectSessions
  <2> QED
    BY Zenon, <1>4, <2>4 DEF UpdateOf, DeleteOf
<1>5. CASE s.cmd.op \in {"update", "delete"}
  <2>Looks. ASSUME NEW t, good(t, rows), Look(c, t) PROVE goal
    <3>1. sess'[c] = t /\ coll' = coll
      BY Zenon, <1>1, <2>Looks, LookSessions
    <3> QED
      BY Zenon, <2>Looks, <3>1
  <2>Acts. ASSUME NEW t, NEW b, NEW k, good(t, k.rows), DOMAIN t = Fields, s.pc # "idle", Effect(c, t, b, k) PROVE goal
    <3>1. PICK x \in {t, Finish(s, "InternalError")} : sess'[c] = Saw(x, k.here)
      BY ZenonT(60), <1>1, <2>Acts, EffectSessions
    <3>2. coll' = k
      BY ZenonT(60), <1>1, <2>Acts, EffectSessions
    <3>3. good(x, k.rows) /\ DOMAIN x = Fields
      <4>1. good(Finish(s, "InternalError"), k.rows) /\ DOMAIN Finish(s, "InternalError") = Fields
        BY Zenon, <1>1, <2>Acts, CountsFinish
      <4> HIDE DEF good
      <4> QED
        BY Zenon, <2>Acts, <3>1, <4>1
    <3>4. Same(Saw(x, k.here), x, {"seen"})
      BY Zenon, <3>3, SawSame
    <3>5. good(Saw(x, k.here), k.rows)
      BY Zenon, <3>3, <3>4, CountsSame
    <3> QED
      BY Zenon, <3>1, <3>2, <3>5
  <2>1. s.pc # "idle" => \A e : good(Finish(s, e), rows)
    BY Zenon, <1>1, CountsFinish
  <2>2. s.cmd.op = "update" => s.pc \in {"idle", "describe", "read", "replace", "insert"} \cup Creates
    BY Zenon DEF UpdateOf
  <2>3. s.cmd.op = "delete" => s.pc \in {"idle", "describe", "read", "delete"}
    BY Zenon DEF DeleteOf
  <2>4. ASSUME s.pc \in Creates \cup {"insert"}, NEW t, NEW K, Same(t, s, K), K \cap {"cmd", "modified", "hit"} = {},
               t.pc \in Creates \cup {"insert", "idle"}
        PROVE  DOMAIN t = Fields /\ \A r : good(t, r)
    <3>1. s.cmd.op = "update"
      BY ZenonT(60), <1>5, <2>3, <2>4 DEF Creates
    <3>2. t.cmd = s.cmd /\ t.modified = s.modified /\ t.hit = s.hit /\ DOMAIN t = Fields
      BY Zenon, <2>4 DEF Same, Fields
    <3>3. s.modified = s.hit
      BY Zenon, <2>4, <3>1 DEF UpdateOf, Creates
    <3>4. \A r : good(t, r)
      BY ZenonT(60), <2>4, <3>1, <3>2, <3>3 DEF UpdateOf, DeleteOf, Creates
    <3> QED
      BY Zenon, <3>2, <3>4
  <2> HIDE DEF goal
  <2>5. CASE s.pc \in Creates
    <3>1. \A pc \in Creates : LET t == [s EXCEPT !.pc = pc] IN DOMAIN t = Fields /\ \A r : good(t, r)
      <4> TAKE pc \in Creates
      <4> DEFINE t == [s EXCEPT !.pc = pc]
      <4>1. Same(t, s, {"pc"}) /\ t.pc = pc
        BY Zenon, <1>1 DEF Same, Fields
      <4> HIDE DEF t, good
      <4>2. DOMAIN t = Fields /\ \A r : good(t, r)
        BY Zenon, <2>4, <2>5, <4>1
      <4> QED
        BY Zenon, <4>2 DEF t
    <3>2. \A b \in BOOLEAN : LET t == Created(s, b) IN DOMAIN t = Fields /\ \A r : good(t, r)
      <4> TAKE b \in BOOLEAN
      <4>1. Same(Created(s, b), s, {"pc", "err"}) /\ Created(s, b).pc \in {"idle", "insert"}
        BY Zenon, <1>1, <1>5, CreatedSame
      <4> HIDE DEF good
      <4> QED
        BY ZenonT(60), <2>4, <2>5, <4>1
    <3>3. \/ \E e : Look(c, Finish(s, e))
          \/ \E pc \in Creates : Look(c, [s EXCEPT !.pc = pc])
          \/ \E b \in BOOLEAN : Look(c, Created(s, b))
          \/ \E k : Effect(c, [s EXCEPT !.pc = "exists"], TRUE, k)
          \/ \E k : Effect(c, Created(s, TRUE), TRUE, k)
      <4>1. DescribeDatabase(c) \/ CreateDatabase(c) \/ collectionExists(c) \/ CreateOrUpdateCollection(c)
        BY Zenon, <2>5 DEF Call, Creates, Insert, Replace1, Delete, DescribeCollection, Read, FetchStats,
           DropCollection,
                    DropDatabase, ListCollections, ListDatabases, DBStats
      <4>2. CASE DescribeDatabase(c)
        BY Zenon, <4>2 DEF DescribeDatabase, Creates
      <4>3. CASE CreateDatabase(c)
        BY Zenon, <4>3 DEF CreateDatabase
      <4>4. CASE collectionExists(c)
        BY Zenon, <4>4 DEF collectionExists, Creates
      <4>5. CASE CreateOrUpdateCollection(c)
        <5>1. FALSE \in BOOLEAN
          BY Zenon
        <5> QED
          BY Zenon, <4>5, <5>1 DEF CreateOrUpdateCollection
      <4> QED
        BY ZenonT(60), <4>1, <4>2, <4>3, <4>4, <4>5
    <3>4. s.pc # "idle" /\ "exists" \in Creates
      BY Zenon, <2>5 DEF Creates
    <3> HIDE DEF s, good, rows
    <3> QED
      BY ZenonT(60), <2>1, <2>Looks, <2>Acts, <3>1, <3>2, <3>3, <3>4
  <2>6. CASE s.pc = "insert"
    <3> DEFINE after == [s EXCEPT !.todo = Tail(@), !.n = @ + 1]
    <3>1. \/ Look(c, Finish(s, "InternalError"))
          \/ \E k : Effect(c, InsertNext(after), db, k)
      <4>1. Insert(c)
        BY Zenon, <2>6 DEF Call, DescribeDatabase, CreateDatabase, collectionExists, CreateOrUpdateCollection,
           Replace1, Delete,
                    DescribeCollection, Read, FetchStats, DropCollection, DropDatabase, ListCollections, ListDatabases,
                    DBStats
      <4> QED
        BY Zenon, <4>1 DEF Insert
    <3>2. Same(after, s, {"todo", "n"})
      BY Zenon, <1>1 DEF Same, Fields
    <3> HIDE DEF after
    <3>3. /\ Same(InsertNext(after), s, {"todo", "n", "pc", "err", "schema"})
          /\ InsertNext(after).pc \in Creates \cup {"insert", "idle"}
      BY ZenonT(60), <3>2, InsertNextSame DEF Same, Creates
    <3> HIDE DEF good, s, rows
    <3>4. DOMAIN InsertNext(after) = Fields /\ \A r : good(InsertNext(after), r)
      BY Zenon, <2>4, <2>6, <3>3
    <3> QED
      BY ZenonT(60), <2>1, <2>6, <2>Looks, <2>Acts, <3>1, <3>4
  <2>7. CASE s.pc = "describe"
    <3> DEFINE t == [s EXCEPT !.pc = "read", !.schema = coll.schema, !.version = coll.version]
    <3>1. Look(c, t) \/ Look(c, Queried(s, <<>>))
      <4>1. DescribeCollection(c)
        BY Zenon, <2>7 DEF Call, DescribeDatabase, CreateDatabase, collectionExists, CreateOrUpdateCollection,
           Replace1, Delete,
                    Insert, Read, FetchStats, DropCollection, DropDatabase, ListCollections, ListDatabases, DBStats
      <4> QED
        BY Zenon, <4>1 DEF DescribeCollection
    <3>2. good(t, rows)
      <4>1. t.pc = "read" /\ t.cmd = s.cmd /\ t.modified = s.modified /\ t.hit = s.hit /\ t.n = s.n
        BY Zenon, <1>1 DEF Fields
      <4> HIDE DEF t
      <4> QED
        BY Zenon, <2>7, <4>1 DEF UpdateOf, DeleteOf
    <3>3. good(Queried(s, <<>>), rows)
      <4>1. <<>> \in Seq(Docs) /\ Paired(<<>>, rows)
        <5>1. DOMAIN <<>> = {} /\ <<>> \in [DOMAIN <<>> -> DOMAIN rows]
          OBVIOUS
        <5>2. ASSUME NEW e, DOMAIN e = {}, e \in [DOMAIN e -> DOMAIN rows] PROVE Paired(e, rows)
          <6>1. SUFFICES \E at \in [DOMAIN e -> DOMAIN rows] :
                           \A i, j \in DOMAIN e : At(rows, e[i]) = {at[i]} /\ (at[i] = at[j] => i = j)
            BY Zenon DEF Paired
          <6> WITNESS e \in [DOMAIN e -> DOMAIN rows]
          <6> QED
            BY Zenon, <5>2
        <5>3. Paired(<<>>, rows)
          BY Zenon, <5>1, <5>2
        <5> QED
          BY <5>3
      <4>2. Same(s, s, {"overlap"})
        BY Zenon, <1>1 DEF Same
      <4> HIDE DEF s, rows
      <4>3. Running(s) /\ UpdateOf(s, rows) /\ DeleteOf(s, rows)
        BY Zenon, <1>2, <2>7 DEF s, rows
      <4> QED
        BY ZenonT(60), <1>3, <1>5, <2>7, <4>1, <4>2, <4>3, QueryCounts
    <3> HIDE DEF t, good
    <3> QED
      BY ZenonT(60), <2>Looks, <3>1, <3>2, <3>3
  <2>8. CASE s.pc = "read"
    <3> DEFINE u == [s EXCEPT !.overlap = FALSE]
               docs(order) == [i \in DOMAIN rows |-> FromJSON(rows[order[i]].json, u.schema)]
               v == [u EXCEPT !.misread = u.version = coll.version]
    <3>1. PICK order \in Orders(Len(rows)) :
            Look(c, IF ~coll.here THEN Finish(u, "InternalError")
                    ELSE IF \E i \in DOMAIN docs(order) : docs(order)[i] = Garbled THEN Finish(v, "InternalError")
                    ELSE Queried(u, docs(order)))
      <4>1. Read(c)
        BY ZenonT(60), <2>8 DEF Call, DescribeDatabase, CreateDatabase, collectionExists, CreateOrUpdateCollection,
           Replace1, Delete,
                    Insert, DescribeCollection, FetchStats, DropCollection, DropDatabase, ListCollections, ListDatabases,
                    DBStats
      <4> QED
        BY Zenon, <4>1 DEF Read
    <3>2. Same(u, s, {"overlap"}) /\ u.schema = s.schema
      BY Zenon, <1>1 DEF Same, Fields
    <3>3. Same(v, s, {"overlap", "misread"})
      BY Zenon, <1>1 DEF Same, Fields
    <3>4. ASSUME NEW x, Same(x, s, {"overlap", "misread"}) PROVE good(Finish(x, "InternalError"), rows)
      <4> DEFINE t == Finish(x, "InternalError")
      <4>1. Same(t, x, {"pc", "err"}) /\ t.pc = "idle"
        BY <3>4, FinishSame DEF Same
      <4> HIDE DEF t
      <4>2. t.cmd = s.cmd /\ t.modified = s.modified /\ t.hit = s.hit /\ t.n = s.n
        BY ZenonT(60), <3>4, <4>1 DEF Same, Fields
      <4>3. good(t, rows)
        BY ZenonT(60), <2>8, <4>1, <4>2 DEF UpdateOf, DeleteOf
      <4> QED
        BY ZenonT(60), <4>3 DEF t
    <3>5. Running(s) /\ s.schema \in Schemas
      BY Zenon, <1>2, <2>8 DEF Described
    <3>6. DOMAIN rows = 1..Len(rows) /\ Len(rows) \in Nat
      BY Zenon, <1>1, SequenceFacts
    <3>7. \A i \in DOMAIN rows : docs(order)[i] \in Docs \cup {Garbled}
      <4> SUFFICES ASSUME NEW i \in DOMAIN rows PROVE docs(order)[i] \in Docs \cup {Garbled}
        BY Zenon
      <4>1. order[i] \in DOMAIN rows
        BY Zenon, <3>6 DEF Orders
      <4>2. rows[order[i]] \in Rows(Docs)
        BY Zenon, <1>3, <4>1
      <4>3. FromJSON(rows[order[i]].json, s.schema) \in Docs \cup {Garbled}
        <5> HIDE DEF rows
        <5>0. \A row \in Rows(Docs) : \E d \in Docs : row.json = ToJSON(d) /\ ToJSON(d) \notin {Panics, Unencoded}
          BY DEF Rows
        <5>1. PICK d \in Docs : rows[order[i]].json = ToJSON(d) /\ ToJSON(d) \notin {Panics, Unencoded}
          BY Zenon, <4>2, <5>0
        <5> QED
          BY ZenonT(60), <3>5, <5>1 DEF DataOK, Decodes
      <4> QED
        BY Zenon, <3>2, <4>3
    <3>0. u.schema = s.schema /\ docs(order) = [i \in DOMAIN rows |-> FromJSON(rows[order[i]].json, u.schema)]
      BY Zenon, <3>2
    <3>8. /\ docs(order) = [i \in DOMAIN rows |-> FromJSON(rows[order[i]].json, s.schema)]
          /\ DOMAIN docs(order) = DOMAIN rows
      <4> HIDE DEF u, rows, s, docs
      <4> QED
        BY Zenon, <3>0
    <3> HIDE DEF u, v, docs
    <3>9. CASE Look(c, Finish(u, "InternalError")) \/ Look(c, Finish(v, "InternalError"))
      <4>1. Same(u, s, {"overlap", "misread"})
        BY Zenon, <3>2 DEF Same
      <4> HIDE DEF good
      <4> QED
        BY ZenonT(60), <2>Looks, <3>3, <3>4, <3>9, <4>1
    <3>10. CASE /\ ~\E i \in DOMAIN docs(order) : docs(order)[i] = Garbled
                /\ Look(c, Queried(u, docs(order)))
      <4>1. docs(order) \in Seq(Docs)
        <5>1. \A i \in DOMAIN rows : docs(order)[i] \in Docs
          BY ZenonT(60), <3>7, <3>8, <3>10
        <5>2. docs(order) \in [1..Len(rows) -> Docs]
          BY ZenonT(60), <3>6, <3>8, <5>1
        <5>3. \A n \in Nat : \A f \in [1..n -> Docs] : f \in Seq(Docs)
          OBVIOUS
        <5> QED
          BY ZenonT(60), <3>6, <5>2, <5>3
      <4>2. Paired(docs(order), rows)
        BY ZenonT(60), <1>1, <1>3, <3>5, <3>8, <4>1, ReadPaired DEF DataOK
      <4>3. UpdateOf(s, rows) /\ DeleteOf(s, rows)
        BY Zenon
      <4> HIDE DEF s, rows
      <4>4. good(Queried(u, docs(order)), rows)
        BY ZenonT(60), <1>3, <1>5, <2>8, <3>2, <3>5, <4>1, <4>2, <4>3, QueryCounts
      <4> HIDE DEF good
      <4> QED
        BY ZenonT(60), <2>Looks, <3>10, <4>4
    <3> QED
      BY ZenonT(60), <3>1, <3>9, <3>10
  <2>9. CASE s.pc = "replace"
    <3> DEFINE row == [json |-> ToJSON(s.todo[1]), doc |-> s.todo[1]]
               same == {i \in DOMAIN rows : HasIDOf(rows[i], s.todo[1])}
               r == [i \in DOMAIN rows |-> IF i \in same THEN row ELSE rows[i]]
               q == IF same = {} THEN Append(rows, row) ELSE r
               after == [s EXCEPT !.todo = Tail(@), !.modified = @ + 1, !.hit = @ + Cardinality(same)]
               k == [coll EXCEPT !.rows = q]
    <3>1. \/ \E e : Look(c, Finish(s, e))
          \/ Effect(c, ReplaceNext(after), db, k)
      <4>1. Replace1(c)
        BY ZenonT(60), <2>9 DEF Call, DescribeDatabase, CreateDatabase, collectionExists, CreateOrUpdateCollection,
           Read, Delete,
                    Insert, DescribeCollection, FetchStats, DropCollection, DropDatabase, ListCollections, ListDatabases,
                    DBStats
      <4> QED
        BY Zenon, <4>1 DEF Replace1
    <3>2. /\ Running(s) /\ s.cmd.op = "update" /\ s.todo \in Seq(Docs) /\ s.todo # <<>>
          /\ ToJSON(s.todo[1]) \notin {Panics, Unencoded}
      BY ZenonT(60), <1>2, <2>9 DEF Holds, Writes, Bad
    <3>3. /\ s.todo[1] \in Docs /\ Tail(s.todo) \in Seq(Docs)
          /\ \A i \in DOMAIN Tail(s.todo) : Tail(s.todo)[i] = s.todo[i + 1] /\ i + 1 \in DOMAIN s.todo
          /\ 1 \in DOMAIN s.todo
      BY <3>2
    <3>4. row \in Rows(Docs) /\ row.doc = s.todo[1] /\ same = At(rows, s.todo[1])
      BY Zenon, <3>2, <3>3 DEF Rows, At
    <3>5. k.rows = q
      BY Zenon, <1>1 DEF IsColl
    <3>6. /\ Same(after, s, {"todo", "modified", "hit"}) /\ after.todo = Tail(s.todo)
          /\ after.modified = s.modified + 1 /\ after.hit = s.hit + Cardinality(same)
      BY Zenon, <1>1 DEF Same, Fields
    <3> DEFINE t == ReplaceNext(after)
    <3> HIDE DEF after, row, k
    <3>7. Same(t, after, {"pc", "err", "todo"}) /\ t.pc \in {"idle", "replace"}
      BY ZenonT(60), <3>6, ReplaceNextSame DEF Same
    <3>8. /\ t.cmd = s.cmd /\ t.modified = s.modified + 1 /\ t.hit = s.hit + Cardinality(same) /\ t.overlap = s.overlap
          /\ DOMAIN t = Fields /\ after.cmd = s.cmd /\ DOMAIN after = Fields
      <4> HIDE DEF t, same
      <4> QED
        BY Zenon, <3>6, <3>7 DEF Same, Fields
    <3>9. ASSUME ~s.overlap PROVE s.modified = s.hit /\ Placed(s.todo, rows) /\ Cardinality(same) = 1 /\ q = r
      <4>1. s.modified = s.hit /\ Placed(s.todo, rows)
        BY ZenonT(60), <2>9, <3>2, <3>9 DEF UpdateOf
      <4>2. PICK m \in DOMAIN rows : same = {m}
        BY ZenonT(60), <3>3, <3>4, <4>1 DEF Placed
      <4>3. Cardinality({m}) = 1
        BY Zenon, FS_Singleton
      <4> HIDE DEF r, same
      <4> QED
        BY ZenonT(60), <4>1, <4>2, <4>3
    <3>10. ASSUME ~s.overlap, t.pc = "replace" PROVE Placed(t.todo, q)
      <4>1. q = r /\ \A d \in Docs : At(r, d) = At(rows, d)
        <5>1. r = [i \in DOMAIN rows |-> IF i \in At(rows, row.doc) THEN row ELSE rows[i]]
          BY ZenonT(60), <3>4
        <5> HIDE DEF r, q, same
        <5>2. \A d \in Docs : At(r, d) = At(rows, d)
          BY <1>3, <3>4, <5>1, RowsReplaced
        <5> QED
          BY ZenonT(60), <3>9, <3>10, <5>2
      <4>2. DOMAIN r = DOMAIN rows
        BY Zenon
      <4> HIDE DEF r, q, same
      <4>3. Placed(after.todo, rows)
        <5>1. \A i \in DOMAIN s.todo : \E m \in DOMAIN rows : At(rows, s.todo[i]) = {m}
          BY ZenonT(60), <3>9, <3>10 DEF Placed
        <5>2. \A i \in DOMAIN Tail(s.todo) : \E m \in DOMAIN rows : At(rows, Tail(s.todo)[i]) = {m}
          <6> HIDE DEF s, rows, t
          <6> QED
            BY Zenon, <3>3, <5>1
        <5> QED
          BY Zenon, <3>6, <5>2 DEF Placed
      <4>4. Keeps(after.cmd.u, rows, Docs)
        BY ZenonT(60), <1>3, <3>2, <3>8, UpdatesKeep
      <4>5. Placed(t.todo, rows)
        BY ZenonT(60), <3>3, <3>6, <3>8, <3>10, <4>3, <4>4, ReplaceNextPlaced
      <4>6. t.todo \in Seq(Docs)
        <5>1. /\ Running(after) /\ after.cmd.op = "update" /\ after.todo \in Seq(Docs)
              /\ \A d \in Docs :
                   Updated(d, after.cmd.u).err = "none" => Updated(d, after.cmd.u).doc \in Docs
          <6> HIDE DEF s, rows, t
          <6>1. after.misread = s.misread /\ after.todo \in Seq(Docs) /\ after.cmd.op = "update"
            BY ZenonT(60), <3>2, <3>3, <3>6, <3>8 DEF Same, Fields
          <6>2. Running(after)
            BY ZenonT(60), <3>2, <3>8, <6>1 DEF Running
          <6>3. PICK i \in DOMAIN Commands : after.cmd = Commands[i]
            BY Zenon, <6>2 DEF Running
          <6> QED
            BY ZenonT(60), <6>1, <6>2, <6>3 DEF DataOK, ClosedUnder
        <5>2. Holds(t, Docs, Schemas)
          BY ZenonT(60), <5>1, ReplaceNextHolds
        <5> HIDE DEF t
        <5> QED
          BY ZenonT(60), <3>8, <3>2, <3>10, <5>2 DEF Holds, Writes
      <4>7. \A i \in DOMAIN t.todo : t.todo[i] \in Docs
        <5> HIDE DEF t
        <5> QED
          BY <4>6
      <4>8. \A i \in DOMAIN t.todo : \E m \in DOMAIN rows : At(rows, t.todo[i]) = {m}
        BY Zenon, <4>5 DEF Placed
      <4> HIDE DEF t, rows
      <4>9. \A i \in DOMAIN t.todo : \E m \in DOMAIN r : At(r, t.todo[i]) = {m}
        BY ZenonT(60), <4>1, <4>2, <4>7, <4>8
      <4> QED
        BY Zenon, <4>1, <4>9 DEF Placed
    <3>11. good(t, q)
      <4> HIDE DEF t, q, same
      <4> QED
        BY ZenonT(60), <3>2, <3>7, <3>8, <3>9, <3>10 DEF UpdateOf, DeleteOf
    <3> HIDE DEF t, q, good, s, rows
    <3> QED
      BY ZenonT(60), <2>1, <2>9, <2>Looks, <2>Acts, <3>1, <3>5, <3>8, <3>11 DEF t
  <2>10. CASE s.pc = "delete"
    <3> DEFINE places == {i \in DOMAIN rows : ~Doomed(s, rows[i])}
               t(left) == Finish([s EXCEPT !.n = Len(s.todo), !.hit = Len(rows) - Len(left)], "none")
               k(left) == [coll EXCEPT !.rows = [i \in DOMAIN left |-> rows[left[i]]]]
    <3>1. \/ \E e : Look(c, Finish(s, e))
          \/ \E left \in InOrder(places) : Effect(c, t(left), db, k(left))
      <4>1. Delete(c)
        BY ZenonT(60), <2>10 DEF Call, DescribeDatabase, CreateDatabase, collectionExists, CreateOrUpdateCollection,
           Read, Replace1,
                     Insert, DescribeCollection, FetchStats, DropCollection, DropDatabase, ListCollections, ListDatabases,
                     DBStats
      <4> QED
        BY Zenon, <4>1 DEF Delete
    <3>2. ASSUME NEW left \in InOrder(places), NEW q PROVE good(t(left), q) /\ DOMAIN t(left) = Fields
      <4>1. /\ t(left).cmd = s.cmd /\ t(left).pc = "idle" /\ t(left).overlap = s.overlap /\ DOMAIN t(left) = Fields
            /\ t(left).n = Len(s.todo) /\ t(left).hit = Len(rows) - Len(left)
        <5> HIDE DEF rows
        <5> QED
          BY Zenon, <1>1 DEF Finish, Fields
      <4>2. s.cmd.op = "delete" /\ (~s.overlap => IsSequence(s.todo) /\ Paired(s.todo, rows))
        BY Zenon, <1>5, <2>10 DEF UpdateOf, DeleteOf, Creates
      <4> HIDE DEF t, s, rows, places
      <4>3. ~s.overlap => Len(rows) - Len(left) = Len(s.todo)
        BY ZenonT(60), <1>1, <3>2, <4>2, DeletedRows DEF places
      <4> QED
        BY ZenonT(60), <4>1, <4>2, <4>3 DEF UpdateOf, DeleteOf
    <3> HIDE DEF t, k, good, s, rows, places
    <3> QED
      BY ZenonT(60), <2>1, <2>10, <2>Looks, <2>Acts, <3>1, <3>2
  <2>11. s.pc \in {"describe", "read", "replace", "insert", "delete"} \cup Creates
    <3>1. s.pc # "idle"
      BY Zenon DEF Call, DescribeDatabase, CreateDatabase, collectionExists, CreateOrUpdateCollection, Read,
         Replace1, Delete,
             Insert, DescribeCollection, FetchStats, DropCollection, DropDatabase, ListCollections, ListDatabases, DBStats
    <3> QED
      BY ZenonT(60), <1>5, <3>1 DEF UpdateOf, DeleteOf
  <2> HIDE DEF goal, s
  <2> QED
    BY ZenonT(60), <2>5, <2>6, <2>7, <2>8, <2>9, <2>10, <2>11
<1> HIDE DEF goal, s
<1> QED
  BY Zenon, <1>4, <1>5


\* A command that begins has counted nothing.
LEMMA BeginCounts ==
  ASSUME NEW c, NEW cmd, NEW t, Begins(c, cmd, t), BeginsWith(cmd, t), NEW rows
  PROVE  UpdateOf(t, rows) /\ DeleteOf(t, rows)
<1>1. t.cmd = cmd /\ t.n = 0 /\ (cmd.op \in {"update", "delete"} => t.pc = "describe" /\ t.modified = 0 /\ t.hit = 0)
  BY Zenon DEF Begins, BeginsWith
<1> QED
  BY Zenon, <1>1 DEF UpdateOf, DeleteOf

\* The calls of other clients make what a command counts uncertain, or come before it reads.
LEMMA NoticedCounts ==
  ASSUME NEW s, DOMAIN s = Fields, NEW rows, UpdateOf(s, rows), DeleteOf(s, rows), NEW here, NEW other
  PROVE  UpdateOf(Noticed(s, here), other) /\ DeleteOf(Noticed(s, here), other)
<1> DEFINE t == Noticed(s, here)
<1>1. Same(t, s, {"seen", "overlap"}) /\ t.overlap = TRUE
  BY Zenon, NoticedSame
<1> HIDE DEF t
<1>2. /\ t.cmd = s.cmd /\ t.pc = s.pc /\ t.modified = s.modified /\ t.hit = s.hit /\ t.n = s.n
  BY Zenon, <1>1 DEF Same, Fields
<1>3. UpdateOf(t, other) /\ DeleteOf(t, other)
  BY Zenon, <1>1, <1>2 DEF UpdateOf, DeleteOf
<1> QED
  BY Zenon, <1>3 DEF t

\* The inductive invariant for the counts.
CountsInv(Docs, Schemas) ==
  /\ ReadInv(Docs, Schemas) /\ Distinct(coll.rows)
  /\ \A c \in Clients : UpdateOf(sess[c], coll.rows) /\ DeleteOf(sess[c], coll.rows)

\* It holds initially, ...
LEMMA CountsInit ==
  ASSUME NEW Docs, NEW Schemas, Init
  PROVE  CountsInv(Docs, Schemas)
<1>1. ReadInv(Docs, Schemas)
  BY Zenon, ReadInit
<1>2. Distinct(coll.rows)
  BY DEF Init, Distinct
<1>3. \A c \in Clients : sess[c].cmd.op = "none"
  BY Zenon DEF Init, Idle
<1> QED
  BY ZenonT(60), <1>1, <1>2, <1>3 DEF CountsInv, UpdateOf, DeleteOf

\* ... and is kept by every step.
LEMMA CountsNext ==
  ASSUME NEW Docs, NEW Schemas, CommandsOK, DataOK(Docs, Schemas, Seq(Docs)), IDsOK(Docs, Schemas, Seq(Docs)),
         CountsInv(Docs, Schemas), [Next]_vars
  PROVE  CountsInv(Docs, Schemas)'
<1> DEFINE kept(d) == UpdateOf(sess'[d], coll'.rows) /\ DeleteOf(sess'[d], coll'.rows)
<1>0. \A d \in Clients : /\ UpdateOf(sess[d], coll.rows) /\ DeleteOf(sess[d], coll.rows) /\ DOMAIN sess[d] = Fields
                         /\ Holds(sess[d], Docs, Schemas) /\ Described(sess[d], coll, Schemas)
  BY Zenon DEF CountsInv, ReadInv, TypeOK, IsSession
<1>1. CASE UNCHANGED vars
  <2>1. coll' = coll /\ sess' = sess /\ db' = db
    BY Zenon, <1>1 DEF vars
  <2> QED
    BY Zenon, <2>1 DEF CountsInv, ReadInv, TypeOK
<1>2. CASE Next
  <2>0. ReadInv(Docs, Schemas) /\ ReadInv(Docs, Schemas)' /\ Distinct(coll.rows)
    BY Zenon, <1>2, ReadNext DEF CountsInv
  <2>1. TypeOK /\ RowsOf(coll, Docs, Schemas)
    BY Zenon, <2>0 DEF ReadInv
  <2>2. PICK c \in Clients : Begin(c) \/ Call(c) \/ Fault(c)
    BY Zenon, <1>2 DEF Next
  <2>3. ASSUME coll' = coll, \A d \in Clients \ {c} : sess'[d] = sess[d], kept(c)
        PROVE  CountsInv(Docs, Schemas)'
    <3>1. \A d \in Clients \ {c} : kept(d)
      BY Zenon, <1>0, <2>3
    <3>2. Distinct(coll'.rows)
      BY Zenon, <2>0, <2>3
    <3> QED
      BY ZenonT(60), <2>0, <2>3, <3>1, <3>2 DEF CountsInv
  <2>4. CASE Begin(c)
    <3>0. PICK i \in DOMAIN Commands : \E t : Begins(c, Commands[i], t) /\ BeginsWith(Commands[i], t)
      BY ZenonT(60), <2>1, <2>4, BeginMoves
    <3>1. PICK t : Begins(c, Commands[i], t) /\ BeginsWith(Commands[i], t)
      BY Zenon, <3>0
    <3>2. UpdateOf(t, coll'.rows) /\ DeleteOf(t, coll'.rows)
      BY Zenon, <3>1, BeginCounts
    <3>3. coll' = coll /\ sess'[c] = t /\ \A d \in Clients \ {c} : sess'[d] = sess[d]
      BY Zenon, <3>1 DEF Begins
    <3> QED
      BY ZenonT(60), <2>3, <3>2, <3>3
  <2>5. CASE Call(c)
    <3>1. kept(c) /\ Distinct(coll'.rows)
      <4>1. kept(c)
        BY ZenonT(60), <1>0, <2>0, <2>1, <2>5, CallCounts
      <4>2. Distinct(coll'.rows)
        BY ZenonT(60), <1>0, <2>0, <2>1, <2>5, DistinctStep
      <4> QED
        BY Zenon, <4>1, <4>2
    <3>2. PICK t : Look(c, t) \/ \E b \in BOOLEAN : \E k : IsColl(k) /\ Effect(c, t, b, k)
      BY Zenon, <2>1, <2>5, CallMoves DEF Calls
    <3>3. ASSUME NEW d \in Clients \ {c} PROVE kept(d)
      <4>1. CASE Look(c, t)
        <5>1. sess'[d] = sess[d] /\ coll' = coll
          BY ZenonT(60), <2>1, <4>1, LookSessions DEF TypeOK
        <5> QED
          BY Zenon, <1>0, <5>1
      <4>2. ASSUME NEW b, NEW k, Effect(c, t, b, k) PROVE kept(d)
        <5>1. coll' = k /\ sess'[d] = Noticed(sess[d], k.here)
          BY <2>1, <4>2, EffectSessions DEF TypeOK
        <5>2. UpdateOf(Noticed(sess[d], k.here), coll'.rows) /\ DeleteOf(Noticed(sess[d], k.here), coll'.rows)
          BY Zenon, <1>0, NoticedCounts
        <5> QED
          BY ZenonT(60), <5>1, <5>2
      <4> QED
        BY ZenonT(60), <3>2, <4>1, <4>2
    <3> QED
      BY ZenonT(60), <2>0, <3>1, <3>3 DEF CountsInv
  <2>6. CASE Fault(c)
    <3> DEFINE t == Finish(sess[c], "InternalError")
    <3>1. /\ coll' = coll /\ sess'[c] = t /\ (\A d \in Clients \ {c} : sess'[d] = sess[d])
          /\ sess[c].pc # "idle"
      BY Zenon, <2>1, <2>6 DEF Fault, TypeOK
    <3>2. UpdateOf(t, coll'.rows) /\ DeleteOf(t, coll'.rows)
      BY Zenon, <1>0, <3>1, CountsFinish
    <3> HIDE DEF t
    <3> QED
      BY ZenonT(60), <2>3, <3>1, <3>2
  <2> QED
    BY ZenonT(60), <2>2, <2>4, <2>5, <2>6
<1> QED
  BY Zenon, <1>1, <1>2

\* update and delete report the rows that they really changed or removed, unless another
\* client's call came between their read and their write (CountsTrueUnlessOverlap).  It is so
\* for any number of clients and whatever calls fail, if the rows that a handler reads and
\* the documents that it makes of them are told apart by their _ids (DataOK, IDsOK): no two
\* rows of the collection then have the same one, and each document read is one of the rows.
THEOREM CountsTrueWhenAlone ==
  ASSUME NEW CONSTANT Docs, NEW CONSTANT Schemas, CommandsOK, DataOK(Docs, Schemas, Seq(Docs)),
         IDsOK(Docs, Schemas, Seq(Docs))
  PROVE  Spec => []CountsTrueUnlessOverlap
<1>1. Init => CountsInv(Docs, Schemas)
  BY Zenon, CountsInit
<1>2. CountsInv(Docs, Schemas) /\ [Next]_vars => CountsInv(Docs, Schemas)'
  BY Zenon, CountsNext
<1>3. CountsInv(Docs, Schemas) => CountsTrueUnlessOverlap
  BY Zenon DEF CountsInv, UpdateOf, DeleteOf, Done, CountsTrueUnlessOverlap
<1> QED
  BY <1>1, <1>2, <1>3, PTL DEF Spec

=============================================================================
