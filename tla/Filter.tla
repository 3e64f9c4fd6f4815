------------------------------- MODULE Filter -------------------------------
(***************************************************************************)
(* FilterDocument: whether a document satisfies a filter (filter.go).  The *)
(* answer is "yes", "no", an error code or "panic".  A loop that returns   *)
(* at the first element that decides is the first decision of a sequence.  *)
(***************************************************************************)
EXTENDS Params

CONSTANTS Matched(_, _)  \* the strings that a pattern with options matches

\* The first of the outcomes that is not the one that goes on.
Decision(outcomes, goOn) ==
  LET decisive == SelectSeq(outcomes, LAMBDA o : o # goOn) IN IF decisive = <<>> THEN goOn ELSE decisive[1]

Answer(b) == IF b THEN "yes" ELSE "no"

\* Whether a comparison gave one of the results, unless it panicked.
Test(results, wanted) ==
  IF Contains(results, "panic") THEN "panic" ELSE Answer(\E r \in wanted : Contains(results, r))

Negation(answer) == CASE answer = "yes" -> "no" [] answer = "no" -> "yes" [] OTHER -> answer
NegatedIf(negated, answer) == IF negated THEN Negation(answer) ELSE answer

-----------------------------------------------------------------------------
(* Operators on one field.                                                 *)

filterFieldRegex(field, regex) ==
  IF CompileError(regex) # "none" THEN CompileError(regex)
  ELSE CASE field.t = "array" ->
              Answer(\E i \in DOMAIN field.e : field.e[i].t = "string" /\ field.e[i].n \in Matched(regex.n, regex.o))
         [] field.t = "string" -> Answer(field.n \in Matched(regex.n, regex.o))
         [] field.t = "regex" -> Test(Compare(field, regex), {"Equal"})
         [] OTHER -> "no"

\* {$regex: value, $options: options}
filterFieldExprRegex(field, value, options) ==
  LET given == IF options = Absent THEN "" ELSE Text[options.n]
  IN  IF options # Absent /\ options.t # "string" THEN "BadValue"
      ELSE IF value.t \notin {"string", "regex"} THEN "BadValue"
      ELSE IF value.t = "regex" /\ given # "" /\ value.o # "" THEN "RegexOptions"
      ELSE filterFieldRegex(field, IF value.t = "regex" /\ given = "" THEN value ELSE Regex(value.n, given))

filterFieldExprSize(field, value) ==
  LET size == GetWholeNumberParam(value)
  IN  IF field.t # "array" THEN "no"
      ELSE IF size.err # "none" \/ size.v < 0 THEN "BadValue"
      ELSE Answer(Len(field.e) = size.v)

filterFieldExprAll(field, value) ==
  IF value.t # "array" THEN "BadValue"
  ELSE IF value.e = <<>> \/ field.t = "document" THEN "no"
  ELSE IF field.t = "array" THEN Answer(ContainsAll(field, value))
  ELSE Answer(\A i \in DOMAIN value.e : Compare(field, value.e[i]) = <<"Equal">>)

\* $bitsAllClear, $bitsAllSet, $bitsAnyClear and $bitsAnySet: four functions that differ
\* in the last line only.
filterFieldExprBits(op, field, value) ==
  LET mask == BinaryMask(value)
      bits == Bits(ToInt64(Halves(field)))
  IN  IF field.t = "binary" THEN "NotImplemented"
      ELSE IF ~IsWholeNumber(field) \/ field.n > 2 * 2 ^ (W64 - 1) THEN "no"
      ELSE IF mask.err # "none" THEN mask.err
      ELSE Answer(CASE op = "$bitsAllClear" -> mask.v \cap bits = {}
                    [] op = "$bitsAllSet" -> mask.v \subseteq bits
                    [] op = "$bitsAnyClear" -> ~(mask.v \subseteq bits)
                    [] op = "$bitsAnySet" -> mask.v \cap bits # {})

\* An element of $mod: a number whose whole part is at most 2^63.
ModError(v) ==
  ~IsNumber(v) \/ IsNaN(v) \/ IsInf(v) \/ Quotient(Halves(v), 2) \notin MinInt(W64)..(MaxInt(W64) + 1)

filterFieldMod(field, value) ==
  LET whole == Quotient(Halves(field), 2)
      divisor == ToInt64(Halves(value.e[1]))
      remainder == Quotient(Halves(value.e[2]), 2)
  IN  IF ~IsNumber(field) \/ IsNaN(field) \/ IsInf(field) \/ whole # ToInt64(Halves(field)) THEN "no"
      ELSE IF value.t # "array" THEN "panic"
      ELSE IF Len(value.e) # 2 \/ ModError(value.e[1]) \/ ModError(value.e[2]) THEN "BadValue"
      ELSE IF remainder > MaxInt(W64) THEN "no"
      ELSE IF divisor = 0 THEN "BadValue"
      ELSE Answer(whole - divisor * Quotient(whole, divisor) = remainder)

\* A filter value that is not a bool matches every document.
filterFieldExprExists(exists, value) == Answer(value.t # "bool" \/ (value.n = 1) = exists)

RECURSIVE HasType(_, _)
HasType(v, type) ==
  \/ /\ v.t = "array" /\ type # "array"
     /\ \E i \in DOMAIN v.e : v.e[i].t # "array" /\ HasType(v.e[i], type)
  \/ v.t = type
  \/ type = "number" /\ IsNumber(v)

\* The type that one value of $type names.
TypeNamed(value) ==
  CASE value.t = "string" -> parseTypeCode(value)
    [] value.t = "int32" -> TypeOfCode(value.n)
    [] value.t = "double" /\ IsWholeNumber(value) -> TypeOfCode(value.n \div 2)
    [] OTHER -> Failure("", "BadValue")

\* Of an array of different types the numeric codes are only validated.
filterFieldExprType(field, value) ==
  LET one(named, counts) == IF named.err # "none" THEN named.err ELSE Answer(counts /\ HasType(field, named.v))
      types == IF value.t = "array" THEN value.e ELSE <<value>>
      same == value.t # "array" \/ hasSameTypeElements(value)
  IN  Decision([i \in DOMAIN types |-> one(TypeNamed(types[i]), same \/ types[i].t = "string")], "no")

\* $in: whether the field equals one of the values.
FieldIs(field, v) ==
  CASE v.t = "document" ->
         IF \E i \in DOMAIN v.d : v.d[i][1] \in Operators THEN "BadValue"
         ELSE Answer(field.t = "document" /\ DeepEqual(field, v))
    [] v.t = "regex" -> filterFieldRegex(field, v)
    [] OTHER -> Test(Compare(field, v), {"Equal"})

FieldIn(field, value) ==
  IF value.t # "array" THEN "BadValue" ELSE Decision([i \in DOMAIN value.e |-> FieldIs(field, value.e[i])], "no")

\* The results that a comparison asks for; $ne asks for any other.
Comparisons == [k \in {"$eq", "$ne", "$gt", "$gte", "$lt", "$lte"} |->
  CASE k \in {"$eq", "$ne"} -> {"Equal"}
    [] k = "$gt" -> {"Greater"} [] k = "$gte" -> {"Equal", "Greater"}
    [] k = "$lt" -> {"Less"} [] k = "$lte" -> {"Equal", "Less"}]

-----------------------------------------------------------------------------
(* Expressions and documents.                                              *)

RECURSIVE filterFieldExpr(_, _, _), FilterDocument(_, _), ExprPair(_, _, _, _, _)

\* {$elemMatch: expr} is evaluated on the array itself.
filterFieldExprElemMatch(doc, key, value) ==
  LET refuse(k) ==
        IF k \in {"$text", "$where"} THEN "BadValue"
        ELSE IF k \in {"$and", "$or", "$nor", "$ne", "$not"} THEN "NotImplemented"
        ELSE IF Len(value.d) > 1 /\ k \notin Operators THEN "BadValue" ELSE "no"
      refused == Decision([i \in DOMAIN value.d |-> refuse(value.d[i][1])], "no")
  IN  IF Get(doc, key).t # "array" THEN "no"
      ELSE IF value.t # "document" THEN "BadValue"
      ELSE IF refused # "no" THEN refused ELSE filterFieldExpr(doc, key, value)

\* An operator of an expression that the loop goes on from when it holds.
Operator(doc, key, expr, op, value) ==
  LET field == Get(doc, key)
  IN  CASE op \in DOMAIN Comparisons ->
             IF value.t = "regex" /\ op # "$eq" THEN "BadValue"
             ELSE NegatedIf(op = "$ne", Test(Compare(field, value), Comparisons[op]))
        [] op \in {"$in", "$nin"} -> NegatedIf(op = "$nin", FieldIn(field, value))
        [] op = "$not" /\ value.t = "document" -> Negation(filterFieldExpr(doc, key, value))
        [] op = "$not" /\ value.t \notin {"document", "regex"} -> "BadValue"
        [] op = "$regex" \/ (op = "$not" /\ value.t = "regex") ->
             NegatedIf(op = "$not", filterFieldExprRegex(field, value, Get(expr, "$options")))
        [] op = "$elemMatch" -> filterFieldExprElemMatch(doc, key, value)
        [] op = "$size" -> filterFieldExprSize(field, value)
        [] op = "$all" -> filterFieldExprAll(field, value)
        [] op \in {"$bitsAllClear", "$bitsAllSet", "$bitsAnyClear", "$bitsAnySet"} ->
             filterFieldExprBits(op, field, value)
        [] op = "$mod" -> filterFieldMod(field, value)
        [] op = "$exists" -> filterFieldExprExists(field # Absent, value)
        [] op = "$type" -> filterFieldExprType(field, value)
        [] OTHER -> "BadValue"

\* One key of an expression: a decision of the whole expression, or "next".
ExprPair(doc, key, expr, op, value) ==
  LET field == Get(doc, key)
      allNull == op = "$all" /\ value.t = "array" /\ value.e # <<>> /\ \A i \in DOMAIN value.e : value.e[i] = Null
      same == field.t = "document" /\ DeepEqual(value, field)
      next(answer) == IF answer = "yes" THEN "next" ELSE answer
  IN  IF op = "$options" THEN "next"
      ELSE IF field = Absent /\ op \notin {"$exists", "$not"} THEN Answer(value = Null \/ allNull)
      ELSE IF op \notin Operators THEN Answer(field.t = "document" /\ DeepEqual(field, expr))
      ELSE IF op = "$eq" /\ value.t = "document" THEN Answer(same)
      ELSE IF op = "$ne" /\ value.t = "document" THEN Answer(field.t = "document" /\ ~same)
      ELSE next(Operator(doc, key, expr, op, value))

\* {field: {expr}} or {field: {document}}
filterFieldExpr(doc, key, expr) ==
  LET end(decision) == IF decision = "next" THEN "yes" ELSE decision
  IN  IF expr.d = <<>> THEN Answer(Get(doc, key) = Document(<<>>))
      ELSE end(Decision([i \in DOMAIN expr.d |-> ExprPair(doc, key, expr, expr.d[i][1], expr.d[i][2])], "next"))

\* {$and: [...]}, {$or: [...]}, {$nor: [...]}
filterOperator(doc, op, value) ==
  LET one(v) == IF v.t = "document" THEN FilterDocument(doc, v) ELSE "BadValue"
  IN  IF op = "$comment" THEN "yes"
      ELSE IF op \notin {"$and", "$or", "$nor"} \/ value.t # "array" THEN "BadValue"
      ELSE NegatedIf(op = "$nor", Decision([i \in DOMAIN value.e |-> one(value.e[i])], Answer(op = "$and")))

\* {key: value} on doc itself, without a path.
FilterField(doc, key, value) ==
  LET field == Get(doc, key)
  IN  IF key \in Operators THEN filterOperator(doc, key, value)
      ELSE IF value.t = "document" THEN filterFieldExpr(doc, key, value)
      ELSE IF field = Absent THEN Answer(value = Null)
      ELSE IF value.t = "regex" THEN filterFieldRegex(field, value)
      ELSE Test(Compare(field, value), {"Equal"})

\* A path ends at a field of a document or at an element of an array; below a scalar
\* the dotted key itself is looked up.
filterDocumentPair(doc, key, value) ==
  LET path == Path(key)
      parent == GetByPath(doc, Front(path))
      element == IF IsIndex(Last(path)) THEN GetIndex(parent, Index[Last(path)]) ELSE Absent
  IN  IF Len(path) > 1 /\ (parent = Absent \/ (parent.t = "array" /\ element = Absent)) THEN "no"
      ELSE IF parent.t = "array" /\ element.t = "array" THEN Test(Compare(element, value), {"Equal"})
      ELSE FilterField(CASE parent.t = "document" -> parent
                         [] parent.t = "array" -> Document(<< <<key, element>> >>)
                         [] OTHER -> doc,
                       IF parent.t = "document" THEN Last(path) ELSE key,
                       value)

\* Faulty variant: one matching condition is enough.
FaultyFilterDocument(doc, filter) ==
  IF filter.d = <<>> THEN "yes"
  ELSE Decision([i \in DOMAIN filter.d |-> filterDocumentPair(doc, filter.d[i][1], filter.d[i][2])], "no")

\* The conditions of a filter are ANDed.
FilterDocument(doc, filter) ==
  Decision([i \in DOMAIN filter.d |-> filterDocumentPair(doc, filter.d[i][1], filter.d[i][2])], "yes")

\* The documents whose answer is yes, or the first error.
AnsweredYes(docs, answers) ==
  LET wrong == SelectSeq(answers, LAMBDA a : a \notin {"yes", "no"})
      places == SelectSeq([i \in DOMAIN docs |-> i], LAMBDA i : answers[i] = "yes")
  IN  IF wrong # <<>> THEN Failure(<<>>, wrong[1]) ELSE Result([j \in DOMAIN places |-> docs[places[j]]])

=============================================================================
