------------------------------- MODULE Update -------------------------------
(***************************************************************************)
(* UpdateDocument and ValidateUpdateOperators (update.go).  The result is  *)
(* the document, whether it is reported changed, and the error: its code,  *)
(* and whether it is a write error.                                        *)
(***************************************************************************)
EXTENDS Params

CONSTANTS KeyOrder,  \* the keys in the order of strings
          Now        \* the time of the server

Unchanged(doc) == [doc |-> doc, changed |-> FALSE, err |-> "none", write |-> FALSE]
Changed(doc) == [doc |-> doc, changed |-> TRUE, err |-> "none", write |-> FALSE]
Refused(code, write) == [doc |-> Document(<<>>), changed |-> FALSE, err |-> code, write |-> write]

\* A loop over the pairs of an operator's document that ends at the first error.
ForEach(doc, pairs, Step(_, _)) ==
  FoldLeft(LAMBDA s, p :
             IF s.err # "none" THEN s
             ELSE LET r == Step(s.doc, p) IN [r EXCEPT !.changed = s.changed \/ @],
           Unchanged(doc), pairs)

\* sort.Strings(doc.Keys())
SortKeys(doc) ==
  LET rank(k) == CHOOSE i \in DOMAIN KeyOrder : KeyOrder[i] = k
  IN  Document(SortSeq(doc.d, LAMBDA p, q : rank(p[1]) < rank(q[1])))

\* The result of SetByPath, whose error has a code.
Stored(doc, code, write) ==
  CASE doc = Absent -> Refused(code, write)
    [] doc = Panic -> Refused("panic", FALSE)
    [] OTHER -> Changed(doc)

-----------------------------------------------------------------------------
(* The operators.                                                          *)

\* Faulty variant: every key counts as changed.
FaultyprocessSetFieldExpression(doc, setDoc, setOnInsert) ==
  ForEach(doc, SortKeys(setDoc).d, LAMBDA d, p : Stored(SetByPath(d, Path(p[1]), p[2]), "InternalError", FALSE))

\* A value that compares equal to the new one is left as it is.
SetField(d, path, v, results, setOnInsert) ==
  IF HasByPath(d, path) /\ (Len(results) # 1 \/ Contains(results, "panic")) THEN Refused("panic", FALSE)
  ELSE IF HasByPath(d, path) /\ results[1] = "Equal" THEN Unchanged(d)
  ELSE IF setOnInsert /\ Len(path) > 1 THEN Unchanged(d)
  ELSE Stored(SetByPath(d, path, v), "InternalError", FALSE)

processSetFieldExpression(doc, setDoc, setOnInsert) ==
  ForEach(doc, SortKeys(setDoc).d,
          LAMBDA d, p : SetField(d, Path(p[1]), p[2], Compare(p[2], GetByPath(d, Path(p[1]))), setOnInsert))

PopField(d, path, n, arr) ==
  IF n.err # "none" \/ n.v \notin {1, -1} THEN Refused("FailedToParse", TRUE)
  ELSE IF arr = Absent THEN Unchanged(d)
  ELSE IF arr.t # "array" THEN Refused("TypeMismatch", TRUE)
  ELSE IF arr.e = <<>> THEN Unchanged(d)
  ELSE Stored(SetByPath(d, path, RemoveIndex(arr, IF n.v = -1 THEN 0 ELSE Len(arr.e) - 1)), "InternalError", FALSE)

processPopFieldExpression(doc, update) ==
  ForEach(doc, update.d,
          LAMBDA d, p : PopField(d, Path(p[1]), GetWholeNumberParam(p[2]), GetByPath(d, Path(p[1]))))

\* A missing field is set to the increment, whatever it is.  Only a double that stays
\* the same counts as not changed.  The error about a field that is no number names the
\* document's _id.
IncField(d, path, old, new) ==
  IF new.err = "errUnexpectedRightOpType" /\ ~Has(d, "_id") THEN Refused("panic", FALSE)
  ELSE IF new.err # "none" THEN Refused("TypeMismatch", TRUE)
  ELSE [Stored(SetByPath(d, path, new.v), "UnsuitableValueType", TRUE)
          EXCEPT !.changed = old.t # "double" \/ IsNaN(old) \/ Compare(old, new.v) # <<"Equal">>]

Incremented(old, v) == IF old = Absent THEN Result(v) ELSE addNumbers(v, old)

processIncFieldExpression(doc, incDoc) ==
  ForEach(doc, incDoc.d,
          LAMBDA d, p : IncField(d, Path(p[1]), GetByPath(d, Path(p[1])), Incremented(GetByPath(d, Path(p[1])), p[2])))

\* true or {$type: "date"} sets the date, {$type: "timestamp"} a timestamp.
processCurrentDateFieldExpression(doc, expr) ==
  LET stamp(d, p) ==
        LET type == Get(p[2], "$type")
        IN  IF p[2].t = "document" /\ type # Absent /\ Text[type.n] = "timestamp"
            THEN Changed(Set(d, p[1], Timestamp(Now)))
            ELSE IF p[2].t \in {"document", "bool"} THEN Changed(Set(d, p[1], Date(Now))) ELSE Unchanged(d)
  IN  ForEach(doc, SortKeys(expr).d, stamp)

Unset(doc, unsetDoc) ==
  ForEach(doc, unsetDoc.d,
          LAMBDA d, p : IF HasByPath(d, Path(p[1])) THEN Changed(RemoveByPath(d, Path(p[1]))) ELSE Unchanged(d))

\* The loop over doc.Keys() that removes keys from doc: the range goes over the array
\* that Remove shifts, so the key after a removed one is passed over.
RECURSIVE RemoveRanging(_, _, _, _)
RemoveRanging(doc, backing, i, doomed) ==
  LET left == RemoveKey(doc, backing[i])
  IN  IF i > Len(backing) THEN doc
      ELSE IF backing[i] \notin doomed \/ ~Has(doc, backing[i]) THEN RemoveRanging(doc, backing, i + 1, doomed)
      ELSE RemoveRanging(left, Keys(left) \o SubSeq(backing, Len(doc.d), Len(backing)), i + 1, doomed)

RemoveKeys(doc, kept) ==
  RemoveRanging(doc, Keys(doc), 1, {k \in ToSet(Keys(doc)) : k \notin kept \cup {"_id"}})

\* An update without operators is a replacement.
Replace(doc, update) ==
  Changed(FoldLeft(LAMBDA d, p : Set(d, p[1], p[2]), RemoveKeys(doc, ToSet(Keys(update))), SortKeys(update).d))

-----------------------------------------------------------------------------
\* The loop over the keys of the update, from the i-th on.  Every operator but $unset
\* sets changed anew; a replacement, done once for every key, sorts the keys.
RECURSIVE UpdateFrom(_, _, _)
UpdateFrom(s, update, i) ==
  LET op == update.d[i][1]
      v == update.d[i][2]
      replace == op \notin Operators
  IN  IF s.err # "none" \/ i > Len(update.d) THEN s
      ELSE IF ~replace /\ v.t # "document" THEN Refused("panic", FALSE)
      ELSE UpdateFrom(
             CASE op = "$currentDate" -> processCurrentDateFieldExpression(s.doc, v)
                [] op \in {"$set", "$setOnInsert"} -> processSetFieldExpression(s.doc, v, op = "$setOnInsert")
                [] op = "$unset" -> [Unset(s.doc, v) EXCEPT !.changed = @ \/ s.changed]
                [] op = "$inc" -> processIncFieldExpression(s.doc, v)
                [] op = "$pop" -> processPopFieldExpression(s.doc, v)
                [] OTHER -> IF replace THEN Replace(s.doc, update) ELSE Refused("NotImplemented", FALSE),
             IF replace THEN SortKeys(update) ELSE update, i + 1)

UpdateDocument(doc, update) ==
  IF update.d = <<>>
  THEN [Unchanged(RemoveKeys(doc, {})) EXCEPT !.changed = \E i \in DOMAIN doc.d : doc.d[i][1] # "_id"]
  ELSE UpdateFrom(Unchanged(doc), update, 1)

-----------------------------------------------------------------------------
(* Validation; the errors are write errors.                                *)

Modifiers == {"$currentDate", "$inc", "$set", "$setOnInsert", "$unset", "$pop"}

\* The error of HasSupportedUpdateModifiers, and its answer.
UnknownModifier(update) == \E i \in DOMAIN update.d : update.d[i][1] \in Operators \ Modifiers
HasModifier(update) == \E i \in DOMAIN update.d : update.d[i][1] \in Modifiers

\* checkConflictingChanges
Conflict(set, inc) ==
  set # Absent /\ inc # Absent /\ \E i \in DOMAIN set.d : Has(inc, set.d[i][1])

\* validateCurrentDateExpression for the value of one field.
CurrentDateError(v) ==
  LET type == Get(v, "$type")
  IN  IF v.t = "bool" THEN "none"
      ELSE IF v.t # "document" THEN "BadValue"
      ELSE IF \E i \in DOMAIN v.d : v.d[i][1] # "$type" THEN "BadValue"
      ELSE IF type = Absent \/ (type.t = "string" /\ type.n \in DOMAIN Text /\ Text[type.n] \in {"date", "timestamp"})
      THEN "none" ELSE "BadValue"

ValidateUpdateOperators(update) ==
  LET value(op) == Get(update, op)
      date == value("$currentDate")
      wrong == {i \in DOMAIN date.d : CurrentDateError(date.d[i][2]) # "none"}
  IN  IF UnknownModifier(update) THEN "FailedToParse"
      ELSE IF \E op \in Modifiers \ {"$currentDate"} : value(op).t \notin {"absent", "document"} THEN "FailedToParse"
      ELSE IF Conflict(value("$set"), value("$inc")) THEN "ConflictingUpdateOperators"
      ELSE IF date = Absent THEN "none"
      ELSE IF date.t # "document" THEN "FailedToParse"
      ELSE IF wrong = {} THEN "none" ELSE "BadValue"

=============================================================================
