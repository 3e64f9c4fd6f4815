------------------------------- MODULE Params -------------------------------
(***************************************************************************)
(* Parameters of commands and type codes (params.go, typecode.go,          *)
(* match.go).  The result of a function that may fail is a record of its   *)
(* value v and its error err; an error is its code, or the Go variable.    *)
(***************************************************************************)
EXTENDS Values

CONSTANTS Text  \* the text of the strings that are used as names: type aliases, regex options

Result(v) == [v |-> v, err |-> "none"]
Failure(v, e) == [v |-> v, err |-> e]

\* The function that is called with the value unless there is an error.
Then(r, Call(_)) == IF r.err # "none" THEN r ELSE Call(r.v)

\* GetRequiredParam and AssertType for the type t.
GetRequiredParam(doc, key, t) ==
  LET v == Get(doc, key) IN IF v.t = t THEN Result(v) ELSE Failure(Absent, "BadValue")

GetOptionalParam(doc, key, default) ==
  LET v == Get(doc, key)
  IN  IF v = Absent THEN Result(default)
      ELSE IF v.t = default.t THEN Result(v) ELSE Failure(default, "TypeMismatch")

GetBoolOptionalParam(doc, key) ==
  LET v == Get(doc, key)
  IN  CASE v.t \in {"absent", "null"} -> Result(FALSE)
        [] IsNumber(v) -> Result(IsNaN(v) \/ v.n # 0)
        [] v.t = "bool" -> Result(v.n = 1)
        [] OTHER -> Failure(FALSE, "TypeMismatch")

IsWholeNumber(v) == IsNumber(v) /\ ~IsNaN(v) /\ ~IsInf(v) /\ Halves(v) % 2 = 0

\* int64(f) of a number of halves; out of range it is the least int64 (amd64).
ToInt64(h) ==
  LET fit(q) == IF MinInt(W64) <= q /\ q <= MaxInt(W64) THEN q ELSE MinInt(W64) IN fit(Quotient(h, 2))

GetWholeNumberParam(v) ==
  CASE ~IsNumber(v) -> Failure(0, "errUnexpectedType")
    [] IsNumber(v) /\ ~IsWholeNumber(v) -> Failure(0, "errNotWholeNumber")
    [] OTHER -> Result(ToInt64(Halves(v)))

GetOptionalPositiveNumber(doc, key) ==
  LET v == Get(doc, key)
      n == GetWholeNumberParam(v)
  IN  IF v = Absent THEN Result(0)
      ELSE IF n.err # "none" \/ n.v < 0 \/ n.v > MaxInt(W32) THEN Failure(0, "BadValue")
      ELSE n

\* The bits of uint64(n).
Bits(n) == {i \in 0..(W64 - 1) : ((n % 2 ^ W64) \div 2 ^ i) % 2 = 1}

Capped(i) == IF i < W64 - 1 THEN i ELSE W64 - 1

\* getBinaryMaskParam: positions and the bytes of a binary beyond the last bit count as
\* the last bit.  The errors are those of formatBitwiseOperatorErr.
BinaryMask(mask) ==
  CASE mask.t = "array" ->
         IF \A i \in DOMAIN mask.e : mask.e[i].t = "int32" /\ mask.e[i].n >= 0
         THEN Result({Capped(mask.e[i].n) : i \in DOMAIN mask.e}) ELSE Failure({}, "BadValue")
    [] mask.t = "binary" -> Result({Capped(i) : i \in {j \in 0..(8 * mask.l) : (mask.n \div 2 ^ j) % 2 = 1}})
    [] IsNumber(mask) ->
         IF IsWholeNumber(mask) /\ mask.n >= 0 THEN Result(Bits(Halves(mask) \div 2))
         ELSE Failure({}, "FailedToParse")
    [] OTHER -> Failure({}, "BadValue")

\* addNumbers: the broader of the two types; integers wrap.
Sum(a, b) ==
  IF "double" \in {a.t, b.t}
  THEN IF IsNaN(a) \/ IsNaN(b) \/ (IsInf(a) /\ IsInf(b) /\ a # b) THEN NaN
       ELSE IF IsInf(a) THEN a ELSE IF IsInf(b) THEN b
       ELSE IF a = NegativeZero /\ b = NegativeZero THEN NegativeZero
       ELSE Double(Halves(a) + Halves(b))
  ELSE IF "int64" \in {a.t, b.t} THEN Int64(Wrap(a.n + b.n, W64)) ELSE Int32(Wrap(a.n + b.n, W32))

addNumbers(a, b) ==
  CASE ~IsNumber(a) -> Failure(Null, "errUnexpectedLeftOpType")
    [] IsNumber(a) /\ ~IsNumber(b) -> Failure(Null, "errUnexpectedRightOpType")
    [] OTHER -> Result(Sum(a, b))

-----------------------------------------------------------------------------
(* Type codes.                                                             *)

TypeCodes == <<"double", "string", "document", "array", "binary", "undefined", "objectID", "bool",
               "date", "null", "regex", "", "", "", "", "int32", "timestamp", "int64">>

\* newTypeCode: the type a code stands for.
TypeOfCode(code) ==
  CASE code \in DOMAIN TypeCodes /\ TypeCodes[code] \notin {"", "undefined"} -> Result(TypeCodes[code])
    [] code = -128 -> Result("number")
    [] code \in {19, -1, 127} -> Failure("", "NotImplemented")
    [] OTHER -> Failure("", "BadValue")

\* parseTypeCode: the type an alias stands for.
parseTypeCode(v) ==
  LET aliases == [int |-> "int32", long |-> "int64", number |-> "number", object |-> "document",
                  double |-> "double", string |-> "string", array |-> "array", null |-> "null"]
  IN  IF v.n \in DOMAIN Text /\ Text[v.n] \in DOMAIN aliases THEN Result(aliases[Text[v.n]])
      ELSE Failure("", "BadValue")

\* AliasFromType, except that all whole numbers are of one type.
hasSameTypeElements(arr) ==
  LET kind(v) == IF IsWholeNumber(v) THEN "number" ELSE v.t
  IN  \A i, j \in DOMAIN arr.e : kind(arr.e[i]) = kind(arr.e[j])

-----------------------------------------------------------------------------
\* matchDocuments (reflect.DeepEqual): documents with the same keys in the same order
\* and equal values; 0 equals -0 and no NaN equals another.
RECURSIVE DeepEqual(_, _)
DeepEqual(a, b) ==
  /\ a.t = b.t
  /\ CASE a.t = "document" ->
            Keys(a) = Keys(b) /\ \A i \in DOMAIN a.d : DeepEqual(a.d[i][2], b.d[i][2])
       [] a.t = "array" -> Len(a.e) = Len(b.e) /\ \A i \in DOMAIN a.e : DeepEqual(a.e[i], b.e[i])
       [] a.t = "double" -> ~IsNaN(a) /\ ~IsNaN(b) /\ a.n = b.n
       [] OTHER -> a = b

=============================================================================
