----------------------------- MODULE Projection -----------------------------
(***************************************************************************)
(* What find does with the documents that match: SortDocuments (sort.go),  *)
(* LimitDocuments (limit.go) and ProjectDocuments (projection.go).         *)
(***************************************************************************)
EXTENDS Params

-----------------------------------------------------------------------------
(* Sorting.                                                                *)

getSortType(value) ==
  LET order(n) ==
        IF n.err = "errUnexpectedType" THEN Failure(0, "SortBadValue")
        ELSE IF n.err = "errNotWholeNumber" THEN Failure(0, "BadValue")
        ELSE IF n.v \in {1, -1} THEN n ELSE Failure(0, "SortBadOrder")
  IN  order(GetWholeNumberParam(value))

\* A document without the field is neither before nor after another one.
lessFunc(key, order, a, b) ==
  LET x == Get(a, key)
      y == Get(b, key)
  IN  /\ x # Absent /\ y # Absent
      /\ CompareOrder(x, y, order) = IF order = 1 THEN "Less" ELSE "Greater"

\* The keys by which a comes before b.
LessKeys(sort, a, b) == {i \in DOMAIN sort.d : lessFunc(sort.d[i][1], getSortType(sort.d[i][2]).v, a, b)}

\* No key before one of these tells the documents apart.
Decides(keys, less, greater) == \E i \in keys : \A j \in 1..(i - 1) : j \notin less \cup greater

\* docsSorter.Less: the first key that tells the documents apart decides.
Less(sort, a, b) ==
  LET first(less) == Decides(less, less, LessKeys(sort, b, a)) IN first(LessKeys(sort, a, b))

\* Comparing a document with anything panics.
LessPanics(sort, a, b) ==
  LET panics(x, y) == x # Absent /\ y # Absent /\ CompareOrder(x, y, 1) = "panic"
  IN  Decides({i \in DOMAIN sort.d : panics(Get(a, sort.d[i][1]), Get(b, sort.d[i][1]))},
              LessKeys(sort, a, b), LessKeys(sort, b, a))

\* sort.Sort of a short slice: an element moves to the left past those it is less than.
RECURSIVE InsertInto(_, _, _)
InsertInto(sorted, doc, sort) ==
  IF sorted = <<>> THEN <<doc>>
  ELSE IF Contains(sorted, Panic) \/ LessPanics(sort, doc, Last(sorted)) THEN <<Panic>>
  ELSE IF Less(sort, doc, Last(sorted)) THEN Append(InsertInto(Front(sorted), doc, sort), Last(sorted))
  ELSE Append(sorted, doc)

SortDocuments(docs, sort) ==
  LET wrong == SelectSeq(sort.d, LAMBDA p : getSortType(p[2]).err # "none")
      unlessPanic(sorted) == IF Contains(sorted, Panic) THEN Failure(docs, "panic") ELSE Result(sorted)
  IN  IF Len(sort.d) > 32 THEN Failure(docs, "InternalError")
      ELSE IF wrong # <<>> THEN Failure(docs, getSortType(wrong[1][2]).err)
      ELSE IF sort.d = <<>> THEN Result(docs)
      ELSE unlessPanic(FoldLeft(LAMBDA s, d : InsertInto(s, d, sort), <<>>, docs))

-----------------------------------------------------------------------------
\* Faulty variant: one document more than the limit.
FaultyLimitDocuments(docs, limit) ==
  IF limit <= 0 \/ Len(docs) <= limit + 1 THEN Result(docs) ELSE Result(SubSeq(docs, 1, limit + 1))

LimitDocuments(docs, limit) ==
  CASE limit = 0 -> Result(docs)
    [] limit > 0 -> Result(IF Len(docs) <= limit THEN docs ELSE SubSeq(docs, 1, limit))
    [] limit < 0 -> Failure(<<>>, "NotImplemented")

-----------------------------------------------------------------------------
(* Projecting.                                                             *)

\* What a projection value does to a field: include, exclude, or an operator.
Mode(v) ==
  CASE IsNumber(v) -> IF Contains(Compare(v, Int32(0)), "Equal") THEN "exclude" ELSE "include"
    [] v.t = "bool" -> IF v.n = 1 THEN "include" ELSE "exclude"
    [] v.t = "document" -> "operator"
    [] OTHER -> "unsupported"

\* isProjectionInclusion: $slice takes back what was said before it.
isProjectionInclusion(projection) ==
  LET operator(s, p) ==
        CASE p[1] = "$elemMatch" -> [s EXCEPT !.inclusion = TRUE]
          [] p[1] = "$slice" -> [s EXCEPT !.inclusion = FALSE]
          [] OTHER -> [s EXCEPT !.err = "InternalError"]
      field(s, p, mode) ==
        CASE s.err # "none" \/ p[1] = "_id" -> s
          [] OTHER ->
             CASE mode = "operator" -> FoldLeft(operator, s, p[2].d)
               [] mode = "exclude" ->
                    IF s.inclusion THEN [s EXCEPT !.err = "ProjectionExIn"] ELSE [s EXCEPT !.exclusion = TRUE]
               [] mode = "include" ->
                    IF s.exclusion THEN [s EXCEPT !.err = "ProjectionInEx"] ELSE [s EXCEPT !.inclusion = TRUE]
               [] OTHER -> [s EXCEPT !.err = "InternalError"]
  IN  FoldLeft(LAMBDA s, p : field(s, p, Mode(p[2])),
               [inclusion |-> FALSE, exclusion |-> FALSE, err |-> "none"], projection.d)

\* The loop of filterFieldArrayElemMatch over the elements of the array, for one
\* condition {field: value}: an element without the field is removed and the next one is
\* passed over, a different one is removed, all equal ones stay.
RECURSIVE ElemMatchFrom(_, _, _, _)
ElemMatchFrom(arr, j, cond, found) ==
  LET elem == GetIndex(arr, j)
      value == Get(elem, cond[1])
  IN  IF elem = Absent THEN [arr |-> arr, found |-> found]
      ELSE IF elem.t # "document" THEN ElemMatchFrom(arr, j + 1, cond, found)
      ELSE IF value = Absent THEN ElemMatchFrom(RemoveIndex(arr, j), j + 1, cond, found)
      ELSE IF Contains(Compare(value, cond[2]), "Equal") THEN ElemMatchFrom(arr, j + 1, cond, TRUE)
      ELSE ElemMatchFrom(RemoveIndex(arr, j), j, cond, found)

\* The conditions one after another; one that finds nothing ends the loop.  (The code
\* takes them in the order of a Go map; a projection with one condition has one order.)
filterFieldArrayElemMatch(arr, conditions) ==
  FoldLeft(LAMBDA s, cond :
             IF ~s.found \/ cond[2].t = "document" THEN s
             ELSE ElemMatchFrom(s.arr, 0, cond, FALSE),
           [arr |-> arr, found |-> TRUE], conditions.d)

\* The int of a $slice argument: NaN is 0 and numbers out of range are the limits.
SliceInt(v) ==
  IF IsNaN(v) THEN 0
  ELSE IF Halves(v) > 2 * (MaxInt(W64) + 1) THEN MaxInt(W64)
  ELSE IF Halves(v) < 2 * MinInt(W64) THEN MinInt(W64)
  ELSE ToInt64(Halves(v))

\* The elements from skip on, before limit; MakeArray and Get panic on negative numbers.
Elements(arr, skip, limit) ==
  IF limit < 0 \/ (skip < 0 /\ skip < limit) THEN Failure(arr, "panic")
  ELSE Result(Array(SubSeq(arr.e, skip + 1, limit)))

projectionSliceSingleArg(arr, arg) ==
  LET len == Len(arr.e)
      take(n) == IF (IF n < 0 THEN Wrap(-n, W64) ELSE n) >= len THEN Result(arr)
                 ELSE Elements(arr, IF n < 0 THEN len + n ELSE 0, IF n < 0 THEN len ELSE n)
  IN  take(SliceInt(arg))

\* The second argument, the limit, and the place where the elements begin.
projectionSliceMultiArgs(arr, args) ==
  LET len == Len(arr.e)
      skip(n) == IF n >= 0 THEN n ELSE IF Wrap(-n, W64) >= len THEN 0 ELSE len + n
      end(sum) == IF sum >= len THEN len ELSE sum
      take(from, limit) ==
        IF limit < 0 THEN Failure(arr, "SliceFirstArg")
        ELSE IF from > len THEN Result(Array(<<>>))
        ELSE Elements(arr, from, end(Wrap(limit + from, W64)))
  IN  IF args.e[1] = Null THEN Result(Null)
      ELSE IF ~IsNumber(args.e[1]) THEN Failure(arr, "SliceFirstArg")
      ELSE IF args.e[2] = Null THEN Result(Null)
      ELSE IF ~IsNumber(args.e[2]) THEN Failure(arr, "SliceFirstArg")
      ELSE take(skip(SliceInt(args.e[1])), SliceInt(args.e[2]))

filterFieldArraySlice(arr, value) ==
  CASE value.t = "array" ->
         IF Len(value.e) \notin {2, 3} THEN Failure(arr, "InvalidArg")
         ELSE IF Len(value.e) = 3 THEN Failure(arr, "SliceFirstArg")
         ELSE projectionSliceMultiArgs(arr, value)
    [] IsNumber(value) -> projectionSliceSingleArg(arr, value)
    [] OTHER -> Failure(arr, "InvalidArg")

\* The document with what $elemMatch and $slice made of the field.
WithMatch(doc, key, match) == Result(IF match.found THEN Set(doc, key, match.arr) ELSE RemoveKey(doc, key))

WithSlice(doc, key, slice) ==
  IF slice.err # "none" THEN Failure(doc, slice.err)
  ELSE [v |-> Set(doc, key, slice.v), err |-> IF slice.v = Null THEN "done" ELSE "none"]

\* One operator p of a field.
ApplyOperator(key, doc, p) ==
  LET field == Get(doc, key)
  IN  IF p[1] \notin {"$elemMatch", "$slice"} THEN Failure(doc, "CommandNotFound")
      ELSE IF field = Absent THEN Failure(doc, "InternalError")
      ELSE IF p[1] = "$slice"
      THEN IF field.t # "array" THEN Failure(doc, "done")
           ELSE WithSlice(doc, key, filterFieldArraySlice(field, p[2]))
      ELSE IF field.t # "array" THEN Failure(RemoveKey(doc, key), "done")
      ELSE IF p[2].t # "document" \/ \E i \in DOMAIN p[2].d : p[2].d[i][2].t = "array" THEN Failure(doc, "panic")
      ELSE WithMatch(doc, key, filterFieldArrayElemMatch(field, p[2]))

\* The operators of one field, one after another; some end the loop early.
applyComplexProjection(key, doc, operators) ==
  LET done(s) == IF s.err = "done" THEN Result(s.v) ELSE s
  IN  done(FoldLeft(LAMBDA s, p : Then(s, LAMBDA d : ApplyOperator(key, d, p)), Result(doc), operators.d))

\* Faulty variant: _id is removed unless the projection names it.
FaultyprojectDocument(inclusion, doc, projection) ==
  Result(Document(SelectSeq(doc.d, LAMBDA p : Has(projection, p[1]))))

\* A field that the projection does not name stays unless it includes others; _id stays.
ProjectField(inclusion, doc, key, v) ==
  LET by(mode) == CASE mode = "operator" -> applyComplexProjection(key, doc, v)
                    [] mode = "exclude" -> Result(RemoveKey(doc, key))
                    [] mode = "include" -> Result(doc)
                    [] OTHER -> Failure(doc, "InternalError")
  IN  IF v = Absent THEN Result(IF inclusion /\ key # "_id" THEN RemoveKey(doc, key) ELSE doc) ELSE by(Mode(v))

projectDocument(inclusion, doc, projection) ==
  FoldLeft(LAMBDA s, key : Then(s, LAMBDA d : ProjectField(inclusion, d, key, Get(projection, key))),
           Result(doc), Keys(doc))

\* The values of the results, or the first error.
AllValues(results, docs) ==
  LET wrong == SelectSeq(results, LAMBDA r : r.err # "none")
  IN  IF wrong # <<>> THEN Failure(docs, wrong[1].err) ELSE Result([i \in DOMAIN docs |-> results[i].v])

ProjectAll(docs, projection, mode) ==
  IF mode.err # "none" THEN Failure(docs, mode.err)
  ELSE AllValues([i \in DOMAIN docs |-> projectDocument(mode.inclusion, docs[i], projection)], docs)

ProjectDocuments(docs, projection) ==
  IF projection.d = <<>> THEN Result(docs) ELSE ProjectAll(docs, projection, isProjectionInclusion(projection))

=============================================================================
