------------------------------- MODULE Values -------------------------------
(***************************************************************************)
(* BSON values and the operations of package types on them.               *)
(*                                                                         *)
(* A scalar is a record of its type t and its place n in the order of its  *)
(* type: a string, date, ObjectID or timestamp is only compared.  A double *)
(* counts halves and has a class c; a binary has a length l and a subtype  *)
(* s; a regular expression has its pattern n and its options o.            *)
(* Integers have W32 and W64 bits.  A document is the sequence of its      *)
(* key/value pairs, which is what keys and m of the code are together.     *)
(***************************************************************************)
EXTENDS Integers, Sequences, FiniteSets, SequencesExt

CONSTANTS W32, W64,  \* bits of an int32 and of an int64
          Dotted,    \* the path of each key with dots in it
          Operators, \* the keys that begin with $
          BadPatterns  \* the patterns that are not regular expressions

ASSUME ValuesAssumption ==
  /\ W32 \in Nat \ {0} /\ W64 \in Nat /\ W64 > W32
  /\ \A k \in DOMAIN Dotted : Len(Dotted[k]) > 1

MinInt(w) == 0 - 2 ^ (w - 1)
MaxInt(w) == 2 ^ (w - 1) - 1

\* Two's complement arithmetic on w bits.
Wrap(n, w) == ((n + 2 ^ (w - 1)) % 2 ^ w) - 2 ^ (w - 1)

\* More halves than a number has.
Infinity == 2 ^ (W64 + 2)

Scalar(t, n) == [t |-> t, n |-> n]
Int32(n) == Scalar("int32", n)
Int64(n) == Scalar("int64", n)
String(n) == Scalar("string", n)
Bool(b) == Scalar("bool", IF b THEN 1 ELSE 0)
Date(n) == Scalar("date", n)
ObjectID(n) == Scalar("objectID", n)
Timestamp(n) == Scalar("timestamp", n)
Null == Scalar("null", 0)
Double(n) == [t |-> "double", n |-> n, c |-> "finite"]
NegativeZero == [t |-> "double", n |-> 0, c |-> "-0"]
NaN == [t |-> "double", n |-> 0, c |-> "nan"]
Inf(sign) == [t |-> "double", n |-> sign * Infinity, c |-> "inf"]
Binary(l, s, n) == [t |-> "binary", n |-> n, l |-> l, s |-> s]
Regex(n, o) == [t |-> "regex", n |-> n, o |-> o]
Array(s) == [t |-> "array", e |-> s]
Document(s) == [t |-> "document", d |-> s]

\* The error of a lookup, and a Go panic.
Absent == [t |-> "absent"]
Panic == [t |-> "panic"]

Numbers == {"double", "int32", "int64"}

IsNumber(v) == v.t \in Numbers
IsNaN(v) == v.t = "double" /\ v.c = "nan"
IsInf(v) == v.t = "double" /\ v.c = "inf"

\* A number, counted in halves.
Halves(v) == IF v.t = "double" THEN v.n ELSE 2 * v.n

\* Integer division rounds towards zero.
Quotient(a, b) == LET q == (IF a < 0 THEN -a ELSE a) \div (IF b < 0 THEN -b ELSE b)
                  IN  IF (a < 0) = (b < 0) THEN q ELSE -q

-----------------------------------------------------------------------------
(* Documents and arrays.  Array indexes start at 0.                        *)

IsValidKey(key) == key \notin {"", "$", "$k", "$o", "$f", "$d", "$b", "$r", "$t", "$l"}

Keys(doc) == [i \in DOMAIN doc.d |-> doc.d[i][1]]

Has(doc, key) == \E i \in DOMAIN doc.d : doc.d[i][1] = key

Get(doc, key) ==
  IF Has(doc, key) THEN doc.d[CHOOSE i \in DOMAIN doc.d : doc.d[i][1] = key][2] ELSE Absent

Command(doc) == IF doc.d = <<>> THEN "" ELSE doc.d[1][1]

\* Faulty variant: _id stays where it was or is appended like any key.
FaultySet(doc, key, value) ==
  IF Has(doc, key)
  THEN Document([i \in DOMAIN doc.d |-> IF doc.d[i][1] = key THEN <<key, value>> ELSE doc.d[i]])
  ELSE Document(Append(doc.d, <<key, value>>))

\* _id becomes the first key; any other key stays where it was or is appended.
Set(doc, key, value) ==
  CASE key = "_id" ->
         Document(<< <<key, value>> >> \o SelectSeq(doc.d, LAMBDA p : p[1] # key))
    [] key # "_id" /\ Has(doc, key) ->
         Document([i \in DOMAIN doc.d |-> IF doc.d[i][1] = key THEN <<key, value>> ELSE doc.d[i]])
    [] OTHER -> Document(Append(doc.d, <<key, value>>))

RemoveKey(doc, key) == Document(SelectSeq(doc.d, LAMBDA p : p[1] # key))

\* validate, together with validateValue for the values that are documents.
RECURSIVE Valid(_)
Valid(doc) ==
  /\ \A i \in DOMAIN doc.d : IsValidKey(doc.d[i][1])
  /\ \A i, j \in DOMAIN doc.d : doc.d[i][1] = doc.d[j][1] => i = j
  /\ \A i \in DOMAIN doc.d : doc.d[i][2].t = "document" => Valid(doc.d[i][2])

GetIndex(arr, i) == IF 0 <= i /\ i < Len(arr.e) THEN arr.e[i + 1] ELSE Absent

SetIndex(arr, i, value) == Array([arr.e EXCEPT ![i + 1] = value])

RemoveIndex(arr, i) == Array(SubSeq(arr.e, 1, i) \o SubSeq(arr.e, i + 2, Len(arr.e)))

-----------------------------------------------------------------------------
(* Paths.                                                                  *)

\* strconv.Atoi on the keys that are numbers.
Index == [k \in {"0", "1", "2"} |-> CASE k = "0" -> 0 [] k = "1" -> 1 [] k = "2" -> 2]

IsIndex(key) == key \in DOMAIN Index

\* NewPathFromString.
Path(key) == IF key \in DOMAIN Dotted THEN Dotted[key] ELSE <<key>>

\* One element of a path.
Descend(v, p) ==
  CASE v.t = "document" -> Get(v, p)
    [] v.t = "array" /\ IsIndex(p) -> GetIndex(v, Index[p])
    [] OTHER -> Absent

GetByPath(v, path) == FoldLeft(Descend, v, path)

HasByPath(doc, path) == GetByPath(doc, path) # Absent

\* v with its member p replaced.
Put(v, p, w) == IF v.t = "document" THEN Set(v, p, w) ELSE SetIndex(v, Index[p], w)

RECURSIVE PutByPath(_, _, _)
PutByPath(v, path, w) ==
  IF path = <<>> THEN w
  ELSE Put(v, path[1], PutByPath(Descend(v, path[1]), Tail(path), w))

\* insertByPath goes down path from the part of doc found at the prefix done and creates
\* documents where doc has none.  A key below an array is an error; an index beyond an
\* array or a key below a scalar panics.
RECURSIVE InsertByPath(_, _, _)
InsertByPath(doc, done, path) ==
  LET at == GetByPath(doc, done)
      to == Append(done, path[1])
  IN  IF path = <<>> THEN doc
      ELSE IF GetByPath(doc, to) # Absent THEN InsertByPath(doc, to, Tail(path))
      ELSE IF at.t = "document" /\ IsValidKey(path[1]) THEN
             InsertByPath(PutByPath(doc, done, Set(at, path[1], Document(<<>>))), to, Tail(path))
      ELSE IF at.t = "array" /\ ~IsIndex(path[1]) THEN Absent
      ELSE Panic

\* inner, found at the path parent of doc, takes the value under key.
StoreAt(doc, parent, inner, key, value) ==
  IF inner.t = "document" /\ ~IsValidKey(key) THEN Absent
  ELSE IF inner.t = "array" /\ ~(IsIndex(key) /\ Index[key] < Len(inner.e)) THEN Absent
  ELSE IF inner.t \in {"document", "array"} THEN PutByPath(doc, parent, Put(inner, key, value))
  ELSE Panic

\* SetByPath; Absent stands for its errors.
SetByPath(doc, path, value) ==
  LET parent == Front(path)
      store(made) == IF made \in {Absent, Panic} THEN made
                     ELSE StoreAt(made, parent, GetByPath(made, parent), Last(path), value)
  IN  store(IF HasByPath(doc, parent) THEN doc ELSE InsertByPath(doc, <<>>, parent))

\* RemoveByPath does nothing where the path ends before its last element.
RemoveByPath(v, path) ==
  LET parent == Front(path)
      inner == GetByPath(v, parent)
  IN  CASE inner.t = "document" -> PutByPath(v, parent, RemoveKey(inner, Last(path)))
        [] inner.t = "array" /\ IsIndex(Last(path)) /\ Index[Last(path)] < Len(inner.e) ->
             PutByPath(v, parent, RemoveIndex(inner, Index[Last(path)]))
        [] OTHER -> v

-----------------------------------------------------------------------------
(* Compare: what filters use.                                              *)

compareOrdered(a, b) == IF a = b THEN "Equal" ELSE IF a < b THEN "Less" ELSE "Greater"

IsScalar(v) == v.t \notin {"document", "array", "absent", "panic"}

\* compareNumbers and compareInvert: exact, whatever the types of the numbers; NaN
\* equals NaN only.
compareNumbers(a, b) ==
  CASE IsNaN(a) /\ IsNaN(b) -> "Equal"
    [] IsNaN(a) # IsNaN(b) -> "Incomparable"
    [] OTHER -> compareOrdered(Halves(a), Halves(b))

\* The error of Regex.Compile: an option that is not implemented or an invalid pattern.
CompileError(r) ==
  IF r.o = "x" THEN "NotImplemented" ELSE IF r.n \in BadPatterns THEN "RegexMissingParen" ELSE "none"

\* The text of the compiled expression begins with its options, which sort before letters.
CompiledOrder(r) == IF r.o = "" THEN r.n ELSE r.n - Infinity

compareScalars(a, b) ==
  IF IsNumber(a) /\ IsNumber(b) THEN compareNumbers(a, b)
  ELSE IF ~IsScalar(a) \/ ~IsScalar(b) \/ a.t # b.t THEN "Incomparable"
  ELSE CASE a.t = "binary" ->
              IF a.l # b.l THEN compareOrdered(a.l, b.l)
              ELSE IF a.s # b.s THEN compareOrdered(a.s, b.s) ELSE compareOrdered(a.n, b.n)
         [] a.t = "regex" ->
              IF CompileError(a) = "none" /\ CompileError(b) = "none"
              THEN compareOrdered(CompiledOrder(a), CompiledOrder(b)) ELSE "panic"
         [] OTHER -> compareOrdered(a.n, b.n)

\* detectDataType; a document has no place in the order.
DataTypes == <<"null", "nan", "number", "string", "document", "array", "binary", "objectID",
               "bool", "date", "timestamp", "regex">>

DataType(v) ==
  LET name == IF IsNaN(v) THEN "nan" ELSE IF IsNumber(v) THEN "number" ELSE v.t
  IN  CHOOSE i \in DOMAIN DataTypes : DataTypes[i] = name

\* detectNumberType.
NumberType(v) ==
  CASE v = NegativeZero -> 1 [] v.t = "double" /\ v # NegativeZero -> 2 [] v.t = "int32" -> 3 [] v.t = "int64" -> 4

compareNumberOrder(a, b, order) ==
  IF order = 1 THEN compareOrdered(NumberType(a), NumberType(b))
  ELSE compareOrdered(NumberType(b), NumberType(a))

\* deleteFromCompareResult: the last result takes the place of the deleted one.
DeleteResult(results, r) ==
  IF ~Contains(results, r) THEN results
  ELSE LET i == CHOOSE j \in DOMAIN results : results[j] = r /\ \A k \in 1..(j - 1) : results[k] # r
       IN  Front([results EXCEPT ![i] = Last(results)])

\* handleInconsistencyInResults for the results of a subarray or, alone, of a scalar.
Inconsistency(all, new, alone, sub) ==
  LET drop == Contains(all, "Equal") /\ (alone \/ ~Contains(new, "Equal"))
      both(kept) == \/ Contains(new, "Less") /\ Contains(kept, "Greater")
                    \/ Contains(new, "Greater") /\ Contains(kept, "Less")
      settle(kept) == IF (~alone \/ sub) /\ both(kept) THEN [all |-> <<"Greater", "Less">>, gtLt |-> TRUE]
                      ELSE [all |-> kept, gtLt |-> FALSE]
  IN  settle(IF drop THEN DeleteResult(all, "Equal") \o new ELSE all)

\* The local variables s of compareArrays with these results; and the results that a
\* turn of its loop returns.
Settled(s, r) == [s EXCEPT !.all = r.all, !.gtLt = r.gtLt]
Return(s, results) == [s EXCEPT !.return = results]

\* Element i of the document's array is an array v, and fv that of the filter's.  inner
\* compares v with fv if that is an array and with the filter's array otherwise; order
\* compares v and fv.
SubArray(s, i, v, fv, inner, order) ==
  LET found == [s EXCEPT !.sub = TRUE, !.subEqual = @ \/ Contains(inner, "Equal")]
  IN  IF fv.t = "array" THEN [s EXCEPT !.all = (IF i = 0 THEN inner ELSE @) \o <<"Less">>]
      ELSE IF v.e = <<>> THEN Return(s, <<"Greater", IF fv = Absent THEN "Equal" ELSE "Less">>)
      ELSE IF s.gtLt THEN found
      ELSE IF i = 0 /\ fv = Absent THEN Return(s, <<"Greater">>)
      ELSE Settled(found, Inconsistency(IF i = 0 THEN s.all \o inner \o <<order>> ELSE s.all, inner, FALSE, TRUE))

\* Element i is a scalar or a document that compares with fv as one.
Element(s, i, f, d, fv, one, order) ==
  IF s.gtLt THEN s
  ELSE IF fv = Absent /\ f.e = <<>> THEN Return(s, <<"Greater">>)
  ELSE IF fv = Absent
  THEN [s EXCEPT !.all = IF Contains(@, "Equal") /\ Len(d.e) > Len(f.e) THEN <<"Greater">> ELSE @]
  ELSE IF i = 0 THEN [s EXCEPT !.all = <<order>>]
  ELSE IF Contains(s.all, one) THEN s ELSE Settled(s, Inconsistency(s.all, <<one>>, TRUE, s.sub))

\* One turn of the loop of compareArrays.
Turn(s, i, f, d, v, fv, inner, order) ==
  IF v.t = "array" THEN SubArray(s, i, v, fv, inner, order) ELSE Element(s, i, f, d, fv, compareScalars(v, fv), order)

RECURSIVE Compare(_, _), CompareOrder(_, _, _), compareArrays(_, _), ArraysFrom(_, _, _, _)

\* The loop of compareArrays from element i on.
ArraysFrom(f, d, i, s) ==
  LET v == d.e[i + 1]
      fv == GetIndex(f, i)
  IN  IF s.return # <<>> THEN s.return
      ELSE IF i < Len(d.e) THEN 
        ArraysFrom(f, d, i + 1, Turn(s, i, f, d, v, fv, compareArrays(IF fv.t = "array" THEN fv ELSE f, v),
                                     CompareOrder(v, fv, 1)))
      ELSE IF Contains(s.all, "Equal") /\ Len(d.e) < Len(f.e) THEN <<"Less">>
      ELSE IF s.subEqual THEN Append(s.all, "Equal") ELSE s.all

compareArrays(f, d) ==
  CASE f.e = <<>> /\ d.e = <<>> -> <<"Equal">>
    [] f.e # <<>> /\ d.e = <<>> -> <<"Less">>
    [] OTHER -> ArraysFrom(f, d, 0, [all |-> <<>>, subEqual |-> FALSE, gtLt |-> FALSE, sub |-> FALSE, return |-> <<>>])

\* The first element of the document's array that compares with the filter's scalar
\* decides; documents compare with nothing.
Compare(v, f) ==
  LET first(results) == IF results = <<>> THEN <<"Incomparable">> ELSE <<results[1]>>
      scalars == IF v.t = "array" THEN v.e ELSE <<v>>
  IN  CASE v.t = "document" -> <<"Incomparable">>
        [] v.t = "array" /\ f.t = "array" -> compareArrays(f, v)
        [] OTHER -> first(SelectSeq([i \in DOMAIN scalars |-> compareScalars(scalars[i], f)],
                                    LAMBDA r : r # "Incomparable"))

\* The order of sorting: by type, then by value, then equal numbers by their type.
CompareOrder(a, b, order) ==
  LET decide(results) ==
        IF IsNumber(a) /\ ~IsNaN(a) /\ Contains(results, "Equal") THEN compareNumberOrder(a, b, order) ELSE results[1]
  IN  IF "document" \in {a.t, b.t} THEN "panic"
      ELSE IF DataType(a) # DataType(b) THEN compareOrdered(DataType(a), DataType(b))
      ELSE decide(Compare(a, b))

\* The least element of an array; of equal ones the first.
ArrayMin(arr) == FoldLeft(LAMBDA m, v : IF CompareOrder(m, v, 1) = "Greater" THEN v ELSE m, arr.e[1], Tail(arr.e))

ArrayMax(arr) == FoldLeft(LAMBDA m, v : IF CompareOrder(m, v, 1) = "Less" THEN v ELSE m, arr.e[1], Tail(arr.e))

\* Array.Contains and ContainsAll.
ArrayContains(arr, f) ==
  LET compared == <<arr>> \o arr.e
  IN  IF f.t \in {"document", "array"} THEN \E i \in DOMAIN compared : Compare(compared[i], f) = <<"Equal">>
      ELSE \E i \in DOMAIN arr.e : compareScalars(arr.e[i], f) = "Equal"

ContainsAll(arr, query) == \A i \in DOMAIN query.e : ArrayContains(arr, query.e[i])

=============================================================================
