---------------------------- MODULE NumberSchemas ----------------------------
(***************************************************************************)
(* The primitive schemas (dsl/primitives.go).  A schema takes a number in  *)
(* by one of two routes: Parse gets the Go value that the any-path has     *)
(* decoded, or one the program gives it (a default); ParseFromSource takes *)
(* the token itself.  The two were written apart.                          *)
(*                                                                         *)
(* A number is a whole number, or that and a half.  What strconv makes of  *)
(* the text depends on how it is written: plain, with a point, or with an  *)
(* exponent.  "word" is a text that ParseFloat takes and JSON does not     *)
(* have, like NaN.                                                         *)
(***************************************************************************)
EXTENDS Integers

CONSTANTS
  MaxInt,    \* the largest number of the signed type of each width
  MaxUint,   \* of the unsigned type
  Exact,     \* up to here float64 has every number
  MaxFloat,  \* the largest float64
  ExpFrom,   \* from here on FormatFloat(f, 'g', -1, 64) writes an exponent
  Wholes     \* the whole parts of the numbers that are tried

Widths == {8, 16, 32, 64}

ASSUME NumbersAssumption ==
  /\ MaxInt \in [Widths -> Nat] /\ MaxUint \in [Widths -> Nat]
  /\ \A w \in Widths : MaxUint[w] = 2 * MaxInt[w] + 1
  /\ \A w \in {8, 16, 32} : MaxInt[w] < MaxInt[64]
  /\ Exact \in Nat /\ MaxFloat \in Nat /\ ExpFrom \in Nat
  /\ MaxFloat % 2 = 0 /\ MaxUint[64] <= MaxFloat
  /\ Wholes \subseteq Int

Signed   == {"Int8Of", "Int16Of", "Int32Of"}
Unsigned == {"Uint8Of", "Uint16Of", "Uint32Of", "UintOf"}
Integral == Signed \cup Unsigned \cup {"IntOf"}
Schemas  == Integral \cup {"FloatOf", "NumberJSON", "CoerceFromString", "String", "Bool"}

Width(schema) ==
  CASE schema \in {"Int8Of", "Uint8Of"}   -> 8
    [] schema \in {"Int16Of", "Uint16Of"} -> 16
    [] schema \in {"Int32Of", "Uint32Of"} -> 32
    [] OTHER                              -> 64

\* A text that denotes a number; "-0" is the one zero with a sign.
Text == [n : Int, half : BOOLEAN, form : {"plain", "point", "exp", "word"}, minus : BOOLEAN]

\* What a schema is given: a token of JSON, or a Go value (a default)
Tokens == {"number", "string", "bool", "null"}
Direct == {"int", "uint", "float64"}
Given  == [kind : Tokens \cup Direct, text : Text]

\* What a schema answers: a number in its text, or the code of an issue
Accept(x, form) == [code |-> "ok", n |-> x.n, half |-> x.half, form |-> form]
Refuse(code)    == [code |-> code, n |-> 0, half |-> FALSE, form |-> "plain"]
Pending         == Refuse("none")

-----------------------------------------------------------------------------
(* strconv *)

ParsesInt(t) == t.form = "plain" /\ -MaxInt[64] - 1 <= t.n /\ t.n <= MaxInt[64]

ParsesUint(t) == t.form = "plain" /\ ~t.minus /\ t.n <= MaxUint[64]

ParsesFloat(t) == -MaxFloat <= t.n /\ t.n <= MaxFloat

\* Beyond Exact the numbers of float64 are two apart (further up, more), and
\* a tie goes to the one with an even mantissa.
NearestWhole(x) ==
  IF x.n % 2 = 0 THEN x.n
  ELSE IF x.half \/ x.n % 4 = 3 THEN x.n + 1 ELSE x.n - 1

Nearest(x) ==
  IF -Exact <= x.n /\ x.n <= Exact THEN [n |-> x.n, half |-> x.half]
  ELSE [n |-> NearestWhole(x), half |-> FALSE]

\* strconvFormatFloat: an exponent for a large number, whole or not.
FormatFloat(t) ==
  IF t.form = "word" THEN t
  ELSE [n |-> t.n, half |-> t.half, minus |-> t.minus,
        form |-> IF t.n >= ExpFrom \/ t.n <= -ExpFrom THEN "exp"
                 ELSE IF t.half THEN "point" ELSE "plain"]

ParseFloat(t) ==
  IF t.form = "word" THEN t
  ELSE [n |-> Nearest(t).n, half |-> Nearest(t).half, form |-> t.form, minus |-> t.minus]

\* What int64(f) is for an f that int64 does not have depends on the machine.
Int64Of(x) ==
  IF -MaxInt[64] - 1 <= x.n /\ x.n <= MaxInt[64] THEN {x.n}
  ELSE {-MaxInt[64] - 1, IF x.n < 0 THEN -MaxInt[64] - 1 ELSE MaxInt[64]}

-----------------------------------------------------------------------------
(* numberJSONSchema: to a json.Number, or none.                            *)

NoText == [n |-> 0, half |-> FALSE, form |-> "none", minus |-> FALSE]

Coerced(schema, t) ==
  IF schema = "CoerceFromString" /\ ParsesFloat(t) THEN FormatFloat(ParseFloat(t)) ELSE NoText

\* The any-path: DecodeAnyFromSource, or ...AsFloat64, which may fail.
Decoded(x, mode) ==
  IF x.kind = "number" /\ mode = "Float64"
    THEN [kind |-> "float64", text |-> ParseFloat(x.text)] ELSE x

DecodeFails(x, mode) == x.kind = "number" /\ mode = "Float64" /\ ~ParsesFloat(x.text)

NumberValue(schema, v) ==
  CASE v.kind = "number"  -> v.text
    [] v.kind = "float64" -> FormatFloat(v.text)
    [] v.kind = "string"  -> Coerced(schema, v.text)
    [] OTHER              -> NoText

\* Mutant: the mode is not asked for.
NumberFromSourceRaw(schema, tok, mode) ==
  CASE tok.kind = "number" -> tok.text
    [] tok.kind = "string" -> Coerced(schema, tok.text)
    [] OTHER               -> NoText

\* A float64 that does not exist leaves the text as it is.
NumberFromSource(schema, tok, mode) ==
  CASE tok.kind = "number" ->
         IF mode = "Float64" /\ ParsesFloat(tok.text)
           THEN FormatFloat(ParseFloat(tok.text)) ELSE tok.text
    [] tok.kind = "string" -> Coerced(schema, tok.text)
    [] OTHER               -> NoText

NumberJSON(t) ==
  IF t = NoText THEN {Refuse("invalid_type")} ELSE {Accept(t, t.form)}

-----------------------------------------------------------------------------
(* The schemas of the Go types, over the text that is left of the number.  *)

InInt(n, w)  == -MaxInt[w] - 1 <= n /\ n <= MaxInt[w]
InUint(n, w) == 0 <= n /\ n <= MaxUint[w]

Whole(n)     == {Accept([n |-> n, half |-> FALSE], "plain")}
Fit(n, fits) == IF fits THEN Whole(n) ELSE {Refuse("overflow")}
Misfit       == {Refuse("invalid_type")}

\* int(t) of a uint64: modulo 2^64
Wrapped(n) == IF n <= MaxInt[64] THEN n ELSE n - MaxUint[64] - 1

IntText(t) == IF ParsesInt(t) THEN Whole(t.n) ELSE Misfit

IntOf(route, v, t) ==
  CASE route = "Parse" /\ v.kind = "int"  -> Whole(v.text.n)
    [] route = "Parse" /\ v.kind = "uint" -> Whole(Wrapped(v.text.n))
    [] OTHER                              -> IntText(t)

FloatOf(route, v, t) ==
  IF route = "Parse" /\ v.kind = "float64" THEN {Accept(v.text, "plain")}
  ELSE IF t # NoText /\ ParsesFloat(t) THEN {Accept(Nearest(t), "plain")} ELSE Misfit

UintOf(route, v, t) ==
  IF route = "Parse" /\ v.kind = "uint" THEN Whole(v.text.n)
  ELSE IF ParsesUint(t) THEN Whole(t.n) ELSE Misfit

\* Mutant: the range is not looked at when the number came by way of float64.
NarrowIntUnchecked(w, v, t) ==
  IF v.kind = "int" THEN Fit(v.text.n, InInt(v.text.n, w))
  ELSE IF ParsesInt(t) THEN Fit(t.n, InInt(t.n, w))
  ELSE IF t = NoText \/ ~ParsesFloat(t) \/ Nearest(t).half THEN Misfit
  ELSE UNION {Whole(i) : i \in Int64Of(Nearest(t))}

\* Parse falls back on float64 for a text that is no plain integer ...
NarrowInt(w, v, t) ==
  IF v.kind = "int" THEN Fit(v.text.n, InInt(v.text.n, w))
  ELSE IF ParsesInt(t) THEN Fit(t.n, InInt(t.n, w))
  ELSE IF t = NoText \/ ~ParsesFloat(t) \/ Nearest(t).half THEN Misfit
  ELSE UNION {Fit(i, InInt(i, w)) : i \in Int64Of(Nearest(t))}

\* ... and ParseFromSource does not.
NarrowIntFromSource(w, t) == IF ParsesInt(t) THEN Fit(t.n, InInt(t.n, w)) ELSE Misfit

NarrowUintText(w, t) == IF ParsesUint(t) THEN Fit(t.n, InUint(t.n, w)) ELSE Misfit

NarrowUint(w, v, t) ==
  IF v.kind = "uint" THEN Fit(v.text.n, InUint(v.text.n, w)) ELSE NarrowUintText(w, t)

\* Each width is a copy of its own.
Int32Of(route, v, t) ==
  IF route = "Parse" THEN NarrowInt(32, v, t) ELSE NarrowIntFromSource(32, t)

Uint32Of(route, v, t) ==
  IF route = "Parse" THEN NarrowUint(32, v, t) ELSE NarrowUintText(32, t)

Int16Of(route, v, t) ==
  IF route = "Parse" THEN NarrowInt(16, v, t) ELSE NarrowIntFromSource(16, t)

Uint16Of(route, v, t) ==
  IF route = "Parse" THEN NarrowUint(16, v, t) ELSE NarrowUintText(16, t)

Int8Of(route, v, t) ==
  IF route = "Parse" THEN NarrowInt(8, v, t) ELSE NarrowIntFromSource(8, t)

Uint8Of(route, v, t) ==
  IF route = "Parse" THEN NarrowUint(8, v, t) ELSE NarrowUintText(8, t)

String(v) == IF v.kind = "string" THEN {Accept(v.text, v.text.form)} ELSE Misfit

Bool(v) == IF v.kind = "bool" THEN {Accept(v.text, v.text.form)} ELSE Misfit

\* What a schema may make, by a route, of v, whose number has the text t
Outcomes(schema, route, v, t) ==
  CASE schema = "String"   -> String(v)
    [] schema = "Bool"     -> Bool(v)
    [] schema = "IntOf"    -> IntOf(route, v, t)
    [] schema = "FloatOf"  -> FloatOf(route, v, t)
    [] schema = "UintOf"   -> UintOf(route, v, t)
    [] schema = "Int32Of"  -> Int32Of(route, v, t)
    [] schema = "Uint32Of" -> Uint32Of(route, v, t)
    [] schema = "Int16Of"  -> Int16Of(route, v, t)
    [] schema = "Uint16Of" -> Uint16Of(route, v, t)
    [] schema = "Int8Of"   -> Int8Of(route, v, t)
    [] schema = "Uint8Of"  -> Uint8Of(route, v, t)
    [] OTHER               -> NumberJSON(t)

-----------------------------------------------------------------------------
VARIABLES
  pc,        \* "idle", "parse", "source" or "done"
  schema,    \* the schema that is called
  mode,      \* the NumberMode of the source
  given,     \* what it is given
  byParse,   \* what Parse has made of it
  bySource   \* what ParseFromSource has

call == <<schema, mode, given>>
vars == <<pc, call, byParse, bySource>>

Nothing == [kind |-> "null", text |-> NoText]

Init ==
  /\ pc = "idle" /\ schema = "String" /\ mode = "JSONNumber" /\ given = Nothing
  /\ byParse = Pending /\ bySource = Pending

\* JSON writes no word, a Go integer has no fraction, and the sign of a
\* text is that of its number.
WellFormed(x) ==
  LET t == x.text IN
  /\ t.n \in Wholes
  /\ t.n # 0 => (t.minus <=> t.n < 0)
  /\ t.form = "plain" => ~t.half
  /\ t.form = "word" => x.kind = "string" /\ t.n = 0 /\ ~t.half
  /\ x.kind \in {"int", "uint", "bool", "null"} => t.form = "plain" /\ ~(t.n = 0 /\ t.minus)
  /\ x.kind \in {"bool", "null"} => t.n = 0
  /\ x.kind = "int" => InInt(t.n, 64)
  /\ x.kind = "uint" => InUint(t.n, 64)
  /\ x.kind = "float64" => /\ ParsesFloat(t) /\ ParseFloat(t) = t
                          /\ t.form = IF t.half THEN "point" ELSE "plain"

Inputs ==
  {x \in [kind : Tokens \cup Direct,
          text : [n : Wholes, half : BOOLEAN, form : {"plain", "point", "exp", "word"},
                  minus : BOOLEAN]] : WellFormed(x)}

Call ==
  /\ pc = "idle" /\ pc' = "parse"
  /\ schema' \in Schemas /\ mode' \in {"JSONNumber", "Float64"} /\ given' \in Inputs
  /\ given'.kind \in Direct => mode' = "JSONNumber"
  /\ UNCHANGED <<byParse, bySource>>

AfterParse == IF given.kind \in Tokens THEN "source" ELSE "done"

DecodeError ==
  /\ pc = "parse" /\ DecodeFails(given, mode)
  /\ byParse' = Refuse("parse_error")
  /\ pc' = AfterParse
  /\ UNCHANGED <<call, bySource>>

Parse ==
  /\ pc = "parse" /\ ~DecodeFails(given, mode)
  /\ LET v == Decoded(given, mode) IN
     byParse' \in Outcomes(schema, "Parse", v, NumberValue(schema, v))
  /\ pc' = AfterParse
  /\ UNCHANGED <<call, bySource>>

ParseFromSource ==
  /\ pc = "source"
  /\ bySource' \in Outcomes(schema, "ParseFromSource", given,
                            NumberFromSource(schema, given, mode))
  /\ pc' = "done"
  /\ UNCHANGED <<call, byParse>>

Return ==
  /\ pc = "done" /\ pc' = "idle"
  /\ schema' = "String" /\ mode' = "JSONNumber" /\ given' = Nothing
  /\ byParse' = Pending /\ bySource' = Pending

Next == Call \/ DecodeError \/ Parse \/ ParseFromSource \/ Return

Spec == Init /\ [][Next]_vars

-----------------------------------------------------------------------------
Answers == {o \in {byParse, bySource} : o.code = "ok"}

Denotes(o, x) == o.n = x.n /\ o.half = x.half

\* A number may be rounded where it passes through a float64.
ByFloat ==
  \/ mode = "Float64" /\ given.kind = "number"
  \/ schema \in {"FloatOf", "CoerceFromString"} \cup Signed

\* primitives.go:397: the one conversion that nothing checks
Wraps == schema = "IntOf" /\ given.kind = "uint" /\ given.text.n > MaxInt[64]

Kept(o) ==
  /\ Denotes(o, given.text) \/ (ByFloat /\ Denotes(o, Nearest(given.text))) \/ Wraps
  /\ schema \in Integral => ~o.half
  /\ schema \in Signed \cup {"IntOf"} => InInt(o.n, Width(schema))
  /\ schema \in Unsigned => InUint(o.n, Width(schema))

(***************************************************************************)
(* A number that is accepted is the number that was given, or the nearest  *)
(* float64, and an integer schema takes no other than a whole number of    *)
(* its type.  The one exception is an unsigned Go value beyond int.        *)
(***************************************************************************)
NumbersAreKept == \A o \in Answers : Kept(o)

Accepted(o) == o.code = "ok"

(***************************************************************************)
(* The two routes give the same answer, with two exceptions.  Only Parse   *)
(* falls back on float64, so only Parse takes 1.0, or in Float64 mode a    *)
(* million, for an int32.  And a number that float64 has not is an error   *)
(* of the any-path, and a mere text to ParseFromSource.                    *)
(***************************************************************************)
RoutesAgree ==
  pc = "done" /\ given.kind \in Tokens =>
    \/ byParse = bySource
    \/ ~Accepted(byParse) /\ ~Accepted(bySource)
    \/ /\ Accepted(byParse) /\ schema \in Signed
       /\ ~ParsesInt(NumberFromSource(schema, given, mode))
    \/ DecodeFails(given, mode) /\ schema \in {"NumberJSON", "CoerceFromString"}

(***************************************************************************)
(* "It accepts JSON number on the wire and converts to int with            *)
(* integer-only semantics" (primitives.go:373): an integer that int has,   *)
(* written without point or exponent, is accepted in either mode.          *)
(***************************************************************************)
IntegersAccepted ==
  pc = "done" /\ schema = "IntOf" /\ given.kind = "number" /\ given.text.form = "plain"
    /\ InInt(given.text.n, 64) =>
  Accepted(byParse) /\ Accepted(bySource)
=============================================================================
