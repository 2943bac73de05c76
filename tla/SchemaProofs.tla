----------------------------- MODULE SchemaProofs -----------------------------
(***************************************************************************)
(* Proofs about schemas: those of numbers; the import's expansion of a     *)
(* schema's references; what the import makes of the schema's keywords,    *)
(* against what they mean; and the server that answers with it.            *)
(***************************************************************************)
EXTENDS NumberSchemas, AdmissionWebhook, SequenceTheorems, FiniteSetTheorems,
        WellFoundedInduction, TLAPS

-----------------------------------------------------------------------------
(***************************************************************************)
(* Numbers.  No schema lets a number in that is not of its type, or other  *)
(* than it was given, and the two routes agree, whatever the widths and    *)
(* the limits are.                                                         *)
(***************************************************************************)

NumberType == [n : Int, half : BOOLEAN]

\* What a text can be made of on the way from what was given
Derived(t) ==
  \/ t = NoText
  \/ /\ t.n \in Int /\ t.half \in BOOLEAN
     /\ t.form = "plain" => ~t.half
     /\ ~t.minus => t.n >= 0
     /\ \/ t.n = given.text.n /\ t.half = given.text.half
        \/ /\ t.n = Nearest(given.text).n /\ t.half = Nearest(given.text).half
           /\ \/ mode = "Float64" /\ given.kind = "number"
              \/ schema = "CoerceFromString"

WellGiven ==
  /\ schema \in Schemas
  /\ given.text.n \in Int /\ given.text.half \in BOOLEAN /\ given.text.minus \in BOOLEAN
  /\ given.text.form = "plain" => ~given.text.half
  /\ ~given.text.minus => given.text.n >= 0
  /\ given.text.form = "word" => given.kind = "string"
  /\ given.kind \in {"int", "uint"} => given.text.form = "plain"
  /\ given.kind = "int" => InInt(given.text.n, 64)
  /\ given.kind = "uint" => InUint(given.text.n, 64)

\* The nearest float64 is a number, and its own nearest.
LEMMA NearestType ==
  ASSUME NEW x, x.n \in Int, x.half \in BOOLEAN
  PROVE  /\ Nearest(x) \in NumberType
         /\ Nearest(Nearest(x)) = Nearest(x)
<1> USE NumbersAssumption
<1>1. CASE -Exact <= x.n /\ x.n <= Exact
  BY <1>1 DEF Nearest, NumberType
<1>2. CASE ~(-Exact <= x.n /\ x.n <= Exact)
  <2>1. /\ NearestWhole(x) \in Int /\ NearestWhole(x) % 2 = 0
        /\ ~(-Exact < NearestWhole(x) /\ NearestWhole(x) < Exact)
    BY <1>2 DEF NearestWhole
  <2>2. Nearest(x) = [n |-> NearestWhole(x), half |-> FALSE]
    BY <1>2 DEF Nearest
  <2>3. NearestWhole(Nearest(x)) = NearestWhole(x)
    BY <2>1, <2>2 DEF NearestWhole
  <2> QED BY <2>1, <2>2, <2>3 DEF Nearest, NumberType
<1> QED BY <1>1, <1>2

-----------------------------------------------------------------------------
(* Outcomes *)

LEMMA WholeFacts ==
  ASSUME NEW n, NEW o \in Whole(n)
  PROVE  o.n = n /\ o.half = FALSE
BY DEF Whole, Accept

LEMMA FitFacts ==
  ASSUME NEW n, NEW fits, NEW o \in Fit(n, fits), o.code = "ok"
  PROVE  fits /\ o.n = n /\ o.half = FALSE
<1>1. CASE fits
  BY <1>1, WholeFacts, Zenon DEF Fit
<1>2. CASE ~fits
  <2>1. o = Refuse("overflow")
    BY <1>2, Zenon DEF Fit
  <2> QED BY <2>1 DEF Refuse
<1> QED BY <1>1, <1>2

LEMMA MisfitFacts ==
  ASSUME NEW o \in Misfit
  PROVE  o.code # "ok"
BY DEF Misfit, Refuse

\* The number of a text that is derived from a whole number
LEMMA DerivedFacts ==
  ASSUME WellGiven, NEW t, Derived(t), t # NoText
  PROVE  /\ t.n \in Int /\ t.half \in BOOLEAN /\ (t.form = "plain" => ~t.half)
         /\ \/ Denotes(t, given.text)
            \/ ByFloat /\ Denotes(t, Nearest(given.text))
         /\ Denotes(Nearest(t), Nearest(given.text))
<1>1. given.text.n \in Int /\ given.text.half \in BOOLEAN
  BY DEF WellGiven
<1>2. Nearest(given.text) \in NumberType
      /\ Nearest(Nearest(given.text)) = Nearest(given.text)
  BY <1>1, NearestType
<1>3. CASE t.n = given.text.n /\ t.half = given.text.half
  <2>1. Nearest(t) = Nearest(given.text)
    BY <1>3 DEF Nearest, NearestWhole
  <2> QED BY <1>3, <2>1 DEF Derived, Denotes
<1>4. CASE /\ t.n = Nearest(given.text).n /\ t.half = Nearest(given.text).half
           /\ \/ mode = "Float64" /\ given.kind = "number"
              \/ schema = "CoerceFromString"
  <2>1. Nearest(t) = Nearest(Nearest(given.text))
    BY <1>4 DEF Nearest, NearestWhole
  <2> QED BY <1>2, <1>4, <2>1 DEF Derived, Denotes, ByFloat
<1> QED BY <1>3, <1>4 DEF Derived

\* NoText is no text of a number.
LEMMA NoTextFacts == ~ParsesInt(NoText) /\ ~ParsesUint(NoText)
  BY DEF NoText, ParsesInt, ParsesUint

-----------------------------------------------------------------------------
(* What each schema accepts is kept.  The text t comes from the value v,   *)
(* or from the token; v is what was given, or the float64 made of it.      *)

FromGiven(v) ==
  \/ v.kind = given.kind /\ v.text = given.text
  \/ /\ mode = "Float64" /\ given.kind = "number" /\ v.kind = "float64"
     /\ v.text.n = Nearest(given.text).n /\ v.text.half = Nearest(given.text).half

LEMMA PlainInt ==
  ASSUME WellGiven, NEW t, Derived(t), ParsesInt(t)
  PROVE  /\ t.n \in Int /\ InInt(t.n, 64)
         /\ \A o : o.n = t.n /\ o.half = FALSE =>
              Denotes(o, given.text) \/ (ByFloat /\ Denotes(o, Nearest(given.text)))
<1>1. t # NoText /\ t.form = "plain"
  BY NoTextFacts DEF ParsesInt
<1> QED BY <1>1, DerivedFacts DEF ParsesInt, InInt, Denotes

LEMMA PlainUint ==
  ASSUME WellGiven, NEW t, Derived(t), ParsesUint(t)
  PROVE  /\ t.n \in Int /\ t.n <= MaxUint[64]
         /\ \A o : o.n = t.n /\ o.half = FALSE =>
              Denotes(o, given.text) \/ (ByFloat /\ Denotes(o, Nearest(given.text)))
<1>1. t # NoText /\ t.form = "plain"
  BY NoTextFacts DEF ParsesUint
<1> QED BY <1>1, DerivedFacts DEF ParsesUint, Denotes

LEMMA DirectInt ==
  ASSUME WellGiven, NEW v, FromGiven(v), v.kind \in {"int", "uint"}
  PROVE  /\ v.kind = given.kind /\ v.text.n = given.text.n /\ v.text.n \in Int
         /\ \A o : o.n = v.text.n /\ o.half = FALSE => Denotes(o, given.text)
BY DEF WellGiven, FromGiven, Denotes

LEMMA IntKept ==
  ASSUME WellGiven, schema = "IntOf", NEW route, NEW v, FromGiven(v), NEW t, Derived(t),
         NEW o \in IntOf(route, v, t), o.code = "ok"
  PROVE  Kept(o)
<1>w. Width(schema) = 64 /\ schema \notin Unsigned
  BY DEF Width, Unsigned
<1>1. CASE route = "Parse" /\ v.kind = "int"
  <2>1. o.n = v.text.n /\ o.half = FALSE
    BY <1>1, WholeFacts DEF IntOf
  <2>2. Denotes(o, given.text) /\ InInt(o.n, 64)
    BY <1>1, <2>1, DirectInt DEF WellGiven
  <2> QED BY <1>w, <2>1, <2>2 DEF Kept
<1>2. CASE route = "Parse" /\ v.kind = "uint"
  <2>1. o.n = Wrapped(v.text.n) /\ o.half = FALSE
    BY <1>2, WholeFacts DEF IntOf
  <2>2. /\ v.text.n = given.text.n /\ v.text.n \in Int /\ given.kind = "uint"
        /\ InUint(v.text.n, 64) /\ MaxInt[64] \in Nat /\ MaxUint[64] = 2 * MaxInt[64] + 1
    BY <1>2, DirectInt, NumbersAssumption DEF WellGiven, Widths
  <2>3. Denotes(o, given.text) \/ Wraps
    <3>1. CASE v.text.n <= MaxInt[64]
      <4>1. o.n = v.text.n /\ o.half = FALSE
        BY <2>1, <3>1 DEF Wrapped
      <4> QED BY <1>2, <4>1, DirectInt
    <3>2. CASE ~(v.text.n <= MaxInt[64])
      BY <2>2, <3>2 DEF Wraps
    <3> QED BY <3>1, <3>2
  <2>4. InInt(o.n, 64)
    BY <2>1, <2>2 DEF Wrapped, InUint, InInt
  <2> QED BY <1>w, <2>1, <2>3, <2>4 DEF Kept
<1>3. CASE ~(route = "Parse" /\ v.kind \in {"int", "uint"})
  <2>1. o \in IntText(t)
    BY <1>3 DEF IntOf
  <2>2. ParsesInt(t)
    BY <2>1, MisfitFacts DEF IntText
  <2>3. o.n = t.n /\ o.half = FALSE
    BY <2>1, <2>2, WholeFacts DEF IntText
  <2>4. Denotes(o, given.text) \/ (ByFloat /\ Denotes(o, Nearest(given.text)))
    BY <2>2, <2>3, PlainInt, Zenon
  <2>5. InInt(o.n, 64)
    BY <2>2, <2>3, PlainInt, Zenon
  <2> QED BY <1>w, <2>3, <2>4, <2>5, Zenon DEF Kept
<1> QED BY <1>1, <1>2, <1>3

LEMMA UintKept ==
  ASSUME WellGiven, schema = "UintOf", NEW route, NEW v, FromGiven(v), NEW t, Derived(t),
         NEW o \in UintOf(route, v, t), o.code = "ok"
  PROVE  Kept(o)
<1>w. Width(schema) = 64 /\ schema \notin Signed \cup {"IntOf"}
  BY DEF Width, Signed
<1>1. CASE route = "Parse" /\ v.kind = "uint"
  <2>1. o.n = v.text.n /\ o.half = FALSE
    BY <1>1, WholeFacts DEF UintOf
  <2>2. Denotes(o, given.text) /\ InUint(o.n, 64)
    BY <1>1, <2>1, DirectInt DEF WellGiven
  <2> QED BY <1>w, <2>1, <2>2 DEF Kept
<1>2. CASE ~(route = "Parse" /\ v.kind = "uint")
  <2>1. ParsesUint(t)
    BY <1>2, MisfitFacts DEF UintOf
  <2>2. o.n = t.n /\ o.half = FALSE
    BY <1>2, <2>1, WholeFacts DEF UintOf
  <2>3. InUint(t.n, 64)
    BY <2>1, PlainUint, NoTextFacts DEF InUint, ParsesUint, Derived
  <2> QED BY <1>w, <2>1, <2>2, <2>3, PlainUint DEF Kept
<1> QED BY <1>1, <1>2

\* The narrow types, signed: by the plain text, or by way of float64
LEMMA NarrowKept ==
  ASSUME WellGiven, schema \in Signed, NEW w \in {8, 16, 32}, w = Width(schema),
         NEW v, FromGiven(v), NEW t, Derived(t),
         NEW o \in NarrowInt(w, v, t) \cup NarrowIntFromSource(w, t), o.code = "ok"
  PROVE  Kept(o)
<1>w. schema \notin Unsigned /\ ByFloat
  BY DEF Unsigned, Signed, ByFloat
<1> SUFFICES /\ Denotes(o, given.text) \/ Denotes(o, Nearest(given.text))
             /\ o.half = FALSE /\ InInt(o.n, w)
  BY <1>w DEF Kept
<1>1. CASE o \in Fit(v.text.n, InInt(v.text.n, w)) /\ v.kind = "int"
  <2>1. InInt(v.text.n, w) /\ o.n = v.text.n /\ o.half = FALSE
    <3> DEFINE n == v.text.n
    <3>1. o \in Fit(n, InInt(n, w))
      BY <1>1
    <3> HIDE DEF n
    <3>2. InInt(n, w) /\ o.n = n /\ o.half = FALSE
      BY <3>1, FitFacts, Zenon
    <3> QED BY <3>2 DEF n
  <2>2. Denotes(o, given.text)
    BY <1>1, <2>1, DirectInt
  <2> QED BY <2>1, <2>2, Zenon
<1>2. CASE o \in Fit(t.n, InInt(t.n, w)) /\ ParsesInt(t)
  <2>1. InInt(t.n, w) /\ o.n = t.n /\ o.half = FALSE
    <3> DEFINE n == t.n
    <3>1. o \in Fit(n, InInt(n, w))
      BY <1>2
    <3> HIDE DEF n
    <3>2. InInt(n, w) /\ o.n = n /\ o.half = FALSE
      BY <3>1, FitFacts, Zenon
    <3> QED BY <3>2 DEF n
  <2>2. Denotes(o, given.text) \/ (ByFloat /\ Denotes(o, Nearest(given.text)))
    BY <1>2, <2>1, PlainInt
  <2> QED BY <2>1, <2>2, Zenon
<1>3. CASE t # NoText /\ ~Nearest(t).half
           /\ o \in UNION {Fit(i, InInt(i, w)) : i \in Int64Of(Nearest(t))}
  <2>1. PICK i \in Int64Of(Nearest(t)) : o \in Fit(i, InInt(i, w))
    BY <1>3
  <2>2. InInt(i, w) /\ o.n = i /\ o.half = FALSE
    BY <2>1, FitFacts, Zenon
  <2>3. MaxInt[w] \in Nat /\ MaxInt[64] \in Nat /\ MaxInt[w] < MaxInt[64]
    BY NumbersAssumption DEF Widths
  <2>4. Nearest(t).n \in Int /\ Nearest(t).half = FALSE
    BY <1>3, DerivedFacts, NearestType DEF NumberType
  <2>5. i = Nearest(t).n
    BY <2>1, <2>2, <2>3, <2>4 DEF Int64Of, InInt
  <2>6. Denotes(Nearest(t), Nearest(given.text))
    BY <1>3, DerivedFacts
  <2> QED BY <2>2, <2>4, <2>5, <2>6 DEF Denotes
<1>4. CASE o \in Misfit
  BY <1>4, MisfitFacts
<1>5. \/ o \in Fit(v.text.n, InInt(v.text.n, w)) /\ v.kind = "int"
      \/ o \in Fit(t.n, InInt(t.n, w)) /\ ParsesInt(t)
      \/ /\ t # NoText /\ ~Nearest(t).half
         /\ o \in UNION {Fit(i, InInt(i, w)) : i \in Int64Of(Nearest(t))}
      \/ o \in Misfit
  BY Zenon DEF NarrowInt, NarrowIntFromSource
<1> QED BY <1>1, <1>2, <1>3, <1>4, <1>5

LEMMA NarrowUintKept ==
  ASSUME WellGiven, schema \in Unsigned \ {"UintOf"}, NEW w \in {8, 16, 32}, w = Width(schema),
         NEW v, FromGiven(v), NEW t, Derived(t),
         NEW o \in NarrowUint(w, v, t) \cup NarrowUintText(w, t), o.code = "ok"
  PROVE  Kept(o)
<1>w. schema \notin Signed \cup {"IntOf"}
  BY DEF Unsigned, Signed
<1>1. CASE o \in Fit(v.text.n, InUint(v.text.n, w)) /\ v.kind = "uint"
  <2>1. InUint(v.text.n, w) /\ o.n = v.text.n /\ o.half = FALSE
    <3> DEFINE n == v.text.n
    <3>1. o \in Fit(n, InUint(n, w))
      BY <1>1
    <3> HIDE DEF n
    <3>2. InUint(n, w) /\ o.n = n /\ o.half = FALSE
      BY <3>1, FitFacts, Zenon
    <3> QED BY <3>2 DEF n
  <2>2. Denotes(o, given.text) /\ InUint(o.n, w)
    BY <1>1, <2>1, DirectInt
  <2> QED BY <1>w, <2>1, <2>2 DEF Kept
<1>2. CASE o \in Fit(t.n, InUint(t.n, w)) /\ ParsesUint(t)
  <2>1. InUint(t.n, w) /\ o.n = t.n /\ o.half = FALSE
    <3> DEFINE n == t.n
    <3>1. o \in Fit(n, InUint(n, w))
      BY <1>2
    <3> HIDE DEF n
    <3>2. InUint(n, w) /\ o.n = n /\ o.half = FALSE
      BY <3>1, FitFacts, Zenon
    <3> QED BY <3>2 DEF n
  <2>2. InUint(o.n, w)
    BY <2>1, Zenon
  <2>3. Denotes(o, given.text) \/ (ByFloat /\ Denotes(o, Nearest(given.text)))
    BY <1>2, <2>1, PlainUint
  <2> QED BY <1>w, <2>1, <2>2, <2>3 DEF Kept
<1>3. CASE o \in Misfit
  BY <1>3, MisfitFacts
<1>4. \/ o \in Fit(v.text.n, InUint(v.text.n, w)) /\ v.kind = "uint"
      \/ o \in Fit(t.n, InUint(t.n, w)) /\ ParsesUint(t)
      \/ o \in Misfit
  BY Zenon DEF NarrowUint, NarrowUintText
<1> QED BY <1>1, <1>2, <1>3, <1>4

\* The schemas whose value is not an integer of Go
LEMMA OtherKept ==
  ASSUME WellGiven, schema \in {"FloatOf", "NumberJSON", "CoerceFromString", "String", "Bool"},
         NEW route, NEW v, FromGiven(v), NEW t, Derived(t),
         NEW o, o.code = "ok",
         \/ schema = "FloatOf" /\ o \in FloatOf(route, v, t)
         \/ o \in NumberJSON(t) \cup String(v) \cup Bool(v)
  PROVE  Kept(o)
<1>w. schema \notin Integral \cup Signed \cup Unsigned \cup {"IntOf"}
  BY DEF Integral, Signed, Unsigned
<1> SUFFICES \/ Denotes(o, given.text)
             \/ ByFloat /\ Denotes(o, Nearest(given.text))
  BY <1>w DEF Kept
<1>1. CASE o = Accept(v.text, v.text.form) \/ o = Accept(v.text, "plain")
  <2>1. o.n = v.text.n /\ o.half = v.text.half
    BY <1>1 DEF Accept
  <2> QED BY <2>1 DEF FromGiven, Denotes, ByFloat
<1>2. CASE t # NoText /\ o = Accept(t, t.form)
  <2>1. o.n = t.n /\ o.half = t.half
    BY <1>2 DEF Accept
  <2> QED BY <1>2, <2>1, DerivedFacts DEF Denotes
<1>3. CASE t # NoText /\ o = Accept(Nearest(t), "plain") /\ schema = "FloatOf"
  <2>1. o.n = Nearest(t).n /\ o.half = Nearest(t).half
    BY <1>3 DEF Accept
  <2> QED BY <1>3, <2>1, DerivedFacts DEF Denotes, ByFloat
<1>4. CASE o \in Misfit
  BY <1>4, MisfitFacts
<1>5. CASE schema = "FloatOf" /\ o \in FloatOf(route, v, t)
  BY <1>1, <1>3, <1>4, <1>5 DEF FloatOf
<1>6. CASE o \in NumberJSON(t)
  BY <1>2, <1>4, <1>6 DEF NumberJSON, Misfit
<1>7. CASE o \in String(v) \cup Bool(v)
  BY <1>1, <1>4, <1>7 DEF String, Bool
<1> QED BY <1>5, <1>6, <1>7

LEMMA NarrowSchemaKept ==
  ASSUME WellGiven, NEW route \in {"Parse", "ParseFromSource"}, NEW v, FromGiven(v),
         NEW t, Derived(t), NEW o, o.code = "ok",
         \/ schema = "Int32Of" /\ o \in Int32Of(route, v, t)
         \/ schema = "Int16Of" /\ o \in Int16Of(route, v, t)
         \/ schema = "Int8Of" /\ o \in Int8Of(route, v, t)
         \/ schema = "Uint32Of" /\ o \in Uint32Of(route, v, t)
         \/ schema = "Uint16Of" /\ o \in Uint16Of(route, v, t)
         \/ schema = "Uint8Of" /\ o \in Uint8Of(route, v, t)
  PROVE  Kept(o)
<1>1. CASE schema = "Int32Of" /\ o \in Int32Of(route, v, t)
  <2>1. schema \in Signed /\ Width(schema) = 32
    BY <1>1 DEF Signed, Width
  <2>2. o \in NarrowInt(32, v, t) \cup NarrowIntFromSource(32, t)
    BY <1>1, Zenon DEF Int32Of
  <2> QED BY <2>1, <2>2, NarrowKept
<1>2. CASE schema = "Int16Of" /\ o \in Int16Of(route, v, t)
  <2>1. schema \in Signed /\ Width(schema) = 16
    BY <1>2 DEF Signed, Width
  <2>2. o \in NarrowInt(16, v, t) \cup NarrowIntFromSource(16, t)
    BY <1>2, Zenon DEF Int16Of
  <2> QED BY <2>1, <2>2, NarrowKept
<1>3. CASE schema = "Int8Of" /\ o \in Int8Of(route, v, t)
  <2>1. schema \in Signed /\ Width(schema) = 8
    BY <1>3 DEF Signed, Width
  <2>2. o \in NarrowInt(8, v, t) \cup NarrowIntFromSource(8, t)
    BY <1>3, Zenon DEF Int8Of
  <2> QED BY <2>1, <2>2, NarrowKept
<1>4. CASE schema = "Uint32Of" /\ o \in Uint32Of(route, v, t)
  <2>1. schema \in Unsigned \ {"UintOf"} /\ Width(schema) = 32
    BY <1>4 DEF Unsigned, Width
  <2>2. o \in NarrowUint(32, v, t) \cup NarrowUintText(32, t)
    BY <1>4, Zenon DEF Uint32Of
  <2> QED BY <2>1, <2>2, NarrowUintKept
<1>5. CASE schema = "Uint16Of" /\ o \in Uint16Of(route, v, t)
  <2>1. schema \in Unsigned \ {"UintOf"} /\ Width(schema) = 16
    BY <1>5 DEF Unsigned, Width
  <2>2. o \in NarrowUint(16, v, t) \cup NarrowUintText(16, t)
    BY <1>5, Zenon DEF Uint16Of
  <2> QED BY <2>1, <2>2, NarrowUintKept
<1>6. CASE schema = "Uint8Of" /\ o \in Uint8Of(route, v, t)
  <2>1. schema \in Unsigned \ {"UintOf"} /\ Width(schema) = 8
    BY <1>6 DEF Unsigned, Width
  <2>2. o \in NarrowUint(8, v, t) \cup NarrowUintText(8, t)
    BY <1>6, Zenon DEF Uint8Of
  <2> QED BY <2>1, <2>2, NarrowUintKept
<1> QED BY <1>1, <1>2, <1>3, <1>4, <1>5, <1>6, Zenon

LEMMA OutcomesKept ==
  ASSUME WellGiven, NEW route \in {"Parse", "ParseFromSource"}, NEW v, FromGiven(v),
         NEW t, Derived(t), NEW o \in Outcomes(schema, route, v, t), o.code = "ok"
  PROVE  Kept(o)
<1>1. CASE schema = "IntOf"
  <2>1. o \in IntOf(route, v, t)
    BY <1>1 DEF Outcomes
  <2> QED BY <1>1, <2>1, IntKept
<1>2. CASE schema = "UintOf"
  <2>1. o \in UintOf(route, v, t)
    BY <1>2 DEF Outcomes
  <2> QED BY <1>2, <2>1, UintKept
<1>3. CASE schema \in {"FloatOf", "NumberJSON", "CoerceFromString", "String", "Bool"}
  <2>1. \/ schema = "FloatOf" /\ o \in FloatOf(route, v, t)
        \/ o \in NumberJSON(t) \cup String(v) \cup Bool(v)
    BY <1>3 DEF Outcomes
  <2> QED BY <1>3, <2>1, OtherKept
<1>4. CASE schema \in {"Int32Of", "Int16Of", "Int8Of", "Uint32Of", "Uint16Of", "Uint8Of"}
  <2>1. \/ schema = "Int32Of" /\ o \in Int32Of(route, v, t)
        \/ schema = "Int16Of" /\ o \in Int16Of(route, v, t)
        \/ schema = "Int8Of" /\ o \in Int8Of(route, v, t)
        \/ schema = "Uint32Of" /\ o \in Uint32Of(route, v, t)
        \/ schema = "Uint16Of" /\ o \in Uint16Of(route, v, t)
        \/ schema = "Uint8Of" /\ o \in Uint8Of(route, v, t)
    BY <1>4 DEF Outcomes
  <2> QED BY <2>1, NarrowSchemaKept, Zenon
<1> QED BY <1>1, <1>2, <1>3, <1>4 DEF WellGiven, Schemas, Integral, Signed, Unsigned

-----------------------------------------------------------------------------
(* The texts that reach the schemas are derived from what was given.       *)

\* Rounding keeps the side of zero a number is on.
LEMMA NearestSide ==
  ASSUME NEW x, x.n \in Int, x.half \in BOOLEAN, x.n >= 0
  PROVE  Nearest(x).n >= 0
BY NumbersAssumption DEF Nearest, NearestWhole

\* What is left of the text after a float64
LEMMA FloatText ==
  ASSUME WellGiven, NEW x, x = ParseFloat(given.text), NEW t, t = FormatFloat(x)
  PROVE  /\ t.n \in Int /\ t.half \in BOOLEAN
         /\ t.form = "plain" => ~t.half
         /\ ~t.minus => t.n >= 0
         /\ \/ t.n = given.text.n /\ t.half = given.text.half
            \/ t.n = Nearest(given.text).n /\ t.half = Nearest(given.text).half
<1>1. CASE given.text.form = "word"
  <2>1. t = given.text
    BY <1>1 DEF ParseFloat, FormatFloat
  <2> QED BY <2>1 DEF WellGiven
<1>2. CASE given.text.form # "word"
  <2>1. /\ x.n = Nearest(given.text).n /\ x.half = Nearest(given.text).half
        /\ x.form # "word" /\ x.minus = given.text.minus
    BY <1>2 DEF ParseFloat
  <2>2. /\ t.n = x.n /\ t.half = x.half /\ t.minus = x.minus
        /\ t.form = "plain" => ~t.half
    BY <2>1 DEF FormatFloat
  <2>3. Nearest(given.text).n \in Int /\ Nearest(given.text).half \in BOOLEAN
    BY NearestType DEF WellGiven, NumberType
  <2>4. ~t.minus => t.n >= 0
    BY <2>1, <2>2, NearestSide DEF WellGiven
  <2> QED BY <2>1, <2>2, <2>3, <2>4
<1> QED BY <1>1, <1>2

LEMMA CoercedDerived ==
  ASSUME WellGiven, given.kind = "string"
  PROVE  Derived(Coerced(schema, given.text))
<1>1. CASE schema = "CoerceFromString" /\ ParsesFloat(given.text)
  <2>1. Coerced(schema, given.text) = FormatFloat(ParseFloat(given.text))
    BY <1>1 DEF Coerced
  <2> QED BY <1>1, <2>1, FloatText DEF Derived
<1>2. CASE ~(schema = "CoerceFromString" /\ ParsesFloat(given.text))
  BY <1>2 DEF Coerced, Derived
<1> QED BY <1>1, <1>2

LEMMA GivenDerived ==
  ASSUME WellGiven
  PROVE  Derived(given.text)
BY DEF WellGiven, Derived

LEMMA SourceDerived ==
  ASSUME WellGiven
  PROVE  FromGiven(given) /\ Derived(NumberFromSource(schema, given, mode))
<1>1. FromGiven(given)
  BY DEF FromGiven
<1>2. CASE given.kind = "number" /\ mode = "Float64" /\ ParsesFloat(given.text)
  <2>1. NumberFromSource(schema, given, mode) = FormatFloat(ParseFloat(given.text))
    BY <1>2 DEF NumberFromSource
  <2> QED BY <1>1, <1>2, <2>1, FloatText DEF Derived
<1>3. CASE given.kind = "number" /\ ~(mode = "Float64" /\ ParsesFloat(given.text))
  <2>1. NumberFromSource(schema, given, mode) = given.text
    BY <1>3 DEF NumberFromSource
  <2> QED BY <1>1, <2>1, GivenDerived
<1>4. CASE given.kind = "string"
  <2>1. NumberFromSource(schema, given, mode) = Coerced(schema, given.text)
    BY <1>4 DEF NumberFromSource
  <2> QED BY <1>1, <1>4, <2>1, CoercedDerived
<1>5. CASE given.kind \notin {"number", "string"}
  <2>1. NumberFromSource(schema, given, mode) = NoText
    BY <1>5 DEF NumberFromSource
  <2> QED BY <1>1, <2>1 DEF Derived
<1> QED BY <1>2, <1>3, <1>4, <1>5

LEMMA ParseDerived ==
  ASSUME WellGiven, NEW v, v = Decoded(given, mode)
  PROVE  FromGiven(v) /\ Derived(NumberValue(schema, v))
<1>1. CASE given.kind = "number" /\ mode = "Float64"
  <2>1. v.kind = "float64" /\ v.text = ParseFloat(given.text)
    BY <1>1 DEF Decoded
  <2>2. NumberValue(schema, v) = FormatFloat(v.text)
    BY <2>1 DEF NumberValue
  <2>3. Derived(NumberValue(schema, v))
    BY <1>1, <2>1, <2>2, FloatText DEF Derived
  <2>4. FromGiven(v)
    BY <1>1, <2>1 DEF FromGiven, ParseFloat, WellGiven
  <2> QED BY <2>3, <2>4
<1>2. CASE ~(given.kind = "number" /\ mode = "Float64")
  <2>1. v = given
    BY <1>2 DEF Decoded
  <2>2. FromGiven(v)
    BY <2>1 DEF FromGiven
  <2>3. CASE v.kind = "number"
    BY <2>1, <2>2, <2>3, GivenDerived DEF NumberValue
  <2>4. CASE v.kind = "float64"
    <3>1. /\ FormatFloat(given.text).n = given.text.n
          /\ FormatFloat(given.text).half = given.text.half
          /\ FormatFloat(given.text).minus = given.text.minus
          /\ FormatFloat(given.text).form = "plain" => ~given.text.half
      BY DEF FormatFloat, WellGiven
    <3>2. NumberValue(schema, v) = FormatFloat(given.text)
      BY <2>1, <2>4 DEF NumberValue
    <3> QED BY <2>2, <3>1, <3>2 DEF Derived, WellGiven
  <2>5. CASE v.kind = "string"
    BY <2>1, <2>2, <2>5, CoercedDerived DEF NumberValue
  <2>6. CASE v.kind \notin {"number", "float64", "string"}
    <3>1. NumberValue(schema, v) = NoText
      BY <2>6 DEF NumberValue
    <3> QED BY <2>2, <3>1 DEF Derived
  <2> QED BY <2>3, <2>4, <2>5, <2>6
<1> QED BY <1>1, <1>2

-----------------------------------------------------------------------------
(* The invariant *)

NumberInv ==
  /\ pc \in {"idle", "parse", "source", "done"}
  /\ pc # "idle" => WellGiven
  /\ pc \in {"idle", "parse"} => byParse.code # "ok"
  /\ pc # "done" => bySource.code # "ok"
  /\ NumbersAreKept

LEMMA InputsWellGiven ==
  ASSUME given' \in Inputs, schema' \in Schemas
  PROVE  WellGiven'
<1>1. /\ given'.text.n \in Int /\ given'.text.half \in BOOLEAN
      /\ given'.text.minus \in BOOLEAN /\ WellFormed(given')
  BY NumbersAssumption DEF Inputs
<1> QED BY <1>1 DEF WellFormed, WellGiven, InInt, InUint

LEMMA NumberInvInit == Init => NumberInv
<1> SUFFICES ASSUME Init PROVE NumberInv
  OBVIOUS
<1>1. pc = "idle" /\ byParse.code # "ok" /\ bySource.code # "ok"
  BY DEF Init, Pending, Refuse
<1> QED BY <1>1 DEF NumberInv, NumbersAreKept, Answers

LEMMA NumberInvStep ==
  ASSUME NumberInv, [Next]_vars
  PROVE  NumberInv'
<1> USE DEF NumberInv
<1>1. CASE Call
  <2>1. WellGiven'
    BY <1>1, InputsWellGiven DEF Call
  <2>2. /\ pc' = "parse" /\ byParse' = byParse /\ bySource' = bySource
        /\ byParse.code # "ok" /\ bySource.code # "ok"
    BY <1>1 DEF Call
  <2>3. NumbersAreKept'
    BY <2>2, Zenon DEF NumbersAreKept, Answers
  <2> QED BY <2>1, <2>2, <2>3
<1>2. CASE DecodeError
  <2>1. /\ pc' \in {"source", "done"} /\ UNCHANGED <<schema, mode, given, bySource>>
        /\ byParse'.code # "ok" /\ bySource.code # "ok" /\ WellGiven
    BY <1>2 DEF DecodeError, AfterParse, Refuse, call
  <2>2. NumbersAreKept' /\ WellGiven'
    BY <2>1, Zenon DEF NumbersAreKept, Answers, WellGiven
  <2> QED BY <2>1, <2>2
<1>3. CASE Parse
  <2> DEFINE v == Decoded(given, mode)
  <2>1. /\ pc' \in {"source", "done"} /\ UNCHANGED <<schema, mode, given, bySource>>
        /\ bySource.code # "ok" /\ WellGiven
        /\ byParse' \in Outcomes(schema, "Parse", v, NumberValue(schema, v))
    BY <1>3 DEF Parse, AfterParse, call
  <2>2. FromGiven(v) /\ Derived(NumberValue(schema, v))
    BY <2>1, ParseDerived
  <2> HIDE DEF v
  <2>3. byParse'.code = "ok" => Kept(byParse')
    BY <2>1, <2>2, OutcomesKept, Zenon
  <2>4. \A o : Kept(o) => Kept(o)'
    BY <2>1, Zenon DEF Kept, ByFloat, Wraps
  <2>5. NumbersAreKept' /\ WellGiven'
    BY <2>1, <2>3, <2>4, Zenon DEF NumbersAreKept, Answers, WellGiven
  <2> QED BY <2>1, <2>5
<1>4. CASE ParseFromSource
  <2>1. /\ pc' = "done" /\ UNCHANGED <<schema, mode, given, byParse>>
        /\ WellGiven /\ NumbersAreKept
        /\ bySource' \in Outcomes(schema, "ParseFromSource", given,
                                   NumberFromSource(schema, given, mode))
    BY <1>4 DEF ParseFromSource, call
  <2>2. bySource'.code = "ok" => Kept(bySource')
    BY <2>1, SourceDerived, OutcomesKept, Zenon
  <2>3. \A o : Kept(o) => Kept(o)'
    BY <2>1, Zenon DEF Kept, ByFloat, Wraps
  <2>4. NumbersAreKept' /\ WellGiven'
    BY <2>1, <2>2, <2>3, Zenon DEF NumbersAreKept, Answers, WellGiven
  <2> QED BY <2>1, <2>4
<1>5. CASE Return
  <2>1. pc' = "idle" /\ byParse'.code # "ok" /\ bySource'.code # "ok"
    BY <1>5 DEF Return, Pending, Refuse
  <2>2. NumbersAreKept'
    BY <2>1, Zenon DEF NumbersAreKept, Answers
  <2> QED BY <2>1, <2>2
<1>6. CASE UNCHANGED vars
  <2>1. UNCHANGED <<pc, schema, mode, given, byParse, bySource>>
    BY <1>6 DEF vars, call
  <2> QED BY <2>1, Zenon DEF NumbersAreKept, Answers, Kept, ByFloat, Wraps, WellGiven
<1> QED BY <1>1, <1>2, <1>3, <1>4, <1>5, <1>6 DEF Next

(***************************************************************************)
(* A number that a primitive schema accepts is the one it was given, or    *)
(* the nearest float64, and one of the Go type: none of the parses and     *)
(* conversions of primitives.go wraps or truncates it, IntOf's of a large  *)
(* unsigned value excepted.                                                *)
(***************************************************************************)
THEOREM NumbersKept == Spec => []NumbersAreKept
<1>1. Init => NumberInv
  BY NumberInvInit
<1>2. NumberInv /\ [Next]_vars => NumberInv'
  BY NumberInvStep
<1>3. NumberInv => NumbersAreKept
  BY DEF NumberInv
<1> QED BY <1>1, <1>2, <1>3, PTL DEF Spec

-----------------------------------------------------------------------------
(* The two routes *)

\* A float64 is within the range of float64, and so is its text.
LEMMA FloatParses ==
  ASSUME NEW x, x.n \in Int, x.half \in BOOLEAN, ParsesFloat(x), NEW t, t.n = Nearest(x).n
  PROVE  ParsesFloat(t)
<1>1. NearestWhole(x) \in {x.n, x.n - 1, x.n + 1} /\ (NearestWhole(x) # x.n => x.n % 2 = 1)
  BY DEF NearestWhole
<1>2. -MaxFloat <= NearestWhole(x) /\ NearestWhole(x) <= MaxFloat
  BY <1>1, NumbersAssumption DEF ParsesFloat
<1> QED BY <1>2 DEF Nearest, ParsesFloat

\* Both routes come to the same text, unless Parse does not come so far.
LEMMA SameText ==
  ASSUME given.kind \in Tokens, ~DecodeFails(given, mode)
  PROVE  NumberValue(schema, Decoded(given, mode)) = NumberFromSource(schema, given, mode)
<1>1. CASE given.kind = "number" /\ mode = "Float64"
  BY <1>1 DEF DecodeFails, Decoded, NumberValue, NumberFromSource
<1>2. CASE ~(given.kind = "number" /\ mode = "Float64")
  BY <1>2 DEF Decoded, NumberValue, NumberFromSource, Tokens
<1> QED BY <1>1, <1>2

Agree(o, p) ==
  \/ o = p
  \/ ~Accepted(o) /\ ~Accepted(p)
  \/ /\ Accepted(o) /\ schema \in Signed
     /\ ~ParsesInt(NumberFromSource(schema, given, mode))

\* A schema of a signed width: where ParseFromSource takes the text, it is
\* what Parse takes too.
LEMMA NarrowAgree ==
  ASSUME schema \in Signed, NEW w, NEW v, v.kind # "int",
         NEW t, t = NumberFromSource(schema, given, mode),
         NEW o \in NarrowInt(w, v, t), NEW p \in NarrowIntFromSource(w, t)
  PROVE  Agree(o, p)
<1>1. CASE ParsesInt(t)
  <2>1. o \in Fit(t.n, InInt(t.n, w)) /\ p \in Fit(t.n, InInt(t.n, w))
    BY <1>1 DEF NarrowInt, NarrowIntFromSource
  <2>2. o = p
    BY <2>1 DEF Fit, Whole
  <2> QED BY <2>2 DEF Agree
<1>2. CASE ~ParsesInt(t)
  <2>1. ~Accepted(p)
    BY <1>2, MisfitFacts DEF NarrowIntFromSource, Accepted
  <2> QED BY <1>2, <2>1 DEF Agree
<1> QED BY <1>1, <1>2

LEMMA NarrowUintAgree ==
  ASSUME NEW w, NEW v, v.kind # "uint", NEW t,
         NEW o \in NarrowUint(w, v, t), NEW p \in NarrowUintText(w, t)
  PROVE  o = p
<1>1. o \in NarrowUintText(w, t)
  BY DEF NarrowUint
<1> QED BY <1>1 DEF NarrowUintText, Fit, Whole, Misfit

\* A number that Parse is given as a float64 is the one that ParseFromSource
\* reads from its text.
LEMMA FloatAgree ==
  ASSUME WellGiven, schema = "FloatOf", given.kind \in Tokens, ~DecodeFails(given, mode),
         NEW v, v = Decoded(given, mode), NEW t, t = NumberFromSource(schema, given, mode),
         NEW o \in FloatOf("Parse", v, t), NEW p \in FloatOf("ParseFromSource", given, t)
  PROVE  o = p
<1>1. CASE given.kind = "number" /\ mode = "Float64"
  <2> DEFINE x == given.text
  <2>1. /\ x.n \in Int /\ x.half \in BOOLEAN /\ x.form # "word" /\ ParsesFloat(x)
    BY <1>1 DEF WellGiven, DecodeFails
  <2>2. /\ v.kind = "float64" /\ v.text.n = Nearest(x).n /\ v.text.half = Nearest(x).half
        /\ v.text = ParseFloat(x) /\ v.text.form # "word"
    BY <1>1, <2>1 DEF Decoded, ParseFloat
  <2>3. t = FormatFloat(v.text)
    BY <1>1, <2>1, <2>2 DEF NumberFromSource
  <2>4. t.n = Nearest(x).n /\ t.half = Nearest(x).half /\ t.form # "none"
    BY <2>2, <2>3 DEF FormatFloat
  <2>5. t # NoText /\ ParsesFloat(t)
    BY <2>1, <2>4, FloatParses DEF NoText
  <2>6. Nearest(t).n = Nearest(x).n /\ Nearest(t).half = Nearest(x).half
    <3>1. Nearest(t) = Nearest(Nearest(x))
      BY <2>4 DEF Nearest, NearestWhole
    <3> QED BY <2>1, <3>1, NearestType
  <2>7. o = Accept(v.text, "plain")
    BY <2>2 DEF FloatOf
  <2>8. p = Accept(Nearest(t), "plain")
    BY <2>5 DEF FloatOf
  <2> QED BY <2>2, <2>6, <2>7, <2>8 DEF Accept
<1>2. CASE ~(given.kind = "number" /\ mode = "Float64")
  <2>1. v = given /\ v.kind # "float64"
    BY <1>2 DEF Decoded, Tokens
  <2> QED BY <2>1 DEF FloatOf, Misfit
<1> QED BY <1>1, <1>2

LEMMA OutcomesAgree ==
  ASSUME WellGiven, given.kind \in Tokens, ~DecodeFails(given, mode),
         NEW v, v = Decoded(given, mode), NEW t, t = NumberFromSource(schema, given, mode),
         NEW o \in Outcomes(schema, "Parse", v, t),
         NEW p \in Outcomes(schema, "ParseFromSource", given, t)
  PROVE  Agree(o, p)
<1>1. /\ v.kind \in Tokens \cup {"float64"} /\ v.kind \notin {"int", "uint"}
      /\ given.kind \notin {"int", "uint"}
      /\ v.kind = "string" \/ given.kind = "string" => v = given
      /\ v.kind = "bool" \/ given.kind = "bool" => v = given
  BY DEF Decoded, Tokens
<1>2. CASE schema = "String"
  BY <1>1, <1>2 DEF Outcomes, String, Misfit, Agree
<1>3. CASE schema = "Bool"
  BY <1>1, <1>3 DEF Outcomes, Bool, Misfit, Agree
<1>4. CASE schema = "IntOf"
  BY <1>1, <1>4 DEF Outcomes, IntOf, IntText, Whole, Misfit, Agree
<1>5. CASE schema = "FloatOf"
  <2>1. o \in FloatOf("Parse", v, t) /\ p \in FloatOf("ParseFromSource", given, t)
    BY <1>5 DEF Outcomes
  <2> QED BY <1>5, <2>1, FloatAgree DEF Agree
<1>6. CASE schema = "UintOf"
  BY <1>1, <1>6 DEF Outcomes, UintOf, Whole, Misfit, Agree
<1>7. CASE schema \in Signed
  <2>1. PICK w \in Widths : o \in NarrowInt(w, v, t) /\ p \in NarrowIntFromSource(w, t)
    BY <1>7 DEF Signed, Widths, Outcomes, Int8Of, Int16Of, Int32Of
  <2> QED BY <1>1, <1>7, <2>1, NarrowAgree
<1>8. CASE schema \in Unsigned \ {"UintOf"}
  <2>1. PICK w \in Widths : o \in NarrowUint(w, v, t) /\ p \in NarrowUintText(w, t)
    <3>1. CASE schema = "Uint8Of"
      <4>1. o \in NarrowUint(8, v, t) /\ p \in NarrowUintText(8, t)
        BY <3>1 DEF Outcomes, Uint8Of
      <4> QED BY <4>1 DEF Widths
    <3>2. CASE schema = "Uint16Of"
      <4>1. o \in NarrowUint(16, v, t) /\ p \in NarrowUintText(16, t)
        BY <3>2 DEF Outcomes, Uint16Of
      <4> QED BY <4>1 DEF Widths
    <3>3. CASE schema = "Uint32Of"
      <4>1. o \in NarrowUint(32, v, t) /\ p \in NarrowUintText(32, t)
        BY <3>3 DEF Outcomes, Uint32Of
      <4> QED BY <4>1 DEF Widths
    <3> QED BY <1>8, <3>1, <3>2, <3>3 DEF Unsigned
  <2> QED BY <1>1, <2>1, NarrowUintAgree DEF Agree
<1>9. CASE schema \in {"NumberJSON", "CoerceFromString"}
  BY <1>9 DEF Outcomes, NumberJSON, Agree
<1> QED BY <1>2, <1>3, <1>4, <1>5, <1>6, <1>7, <1>8, <1>9
        DEF WellGiven, Schemas, Integral

\* A text that float64 has not is refused by the source route as well, except
\* where the text itself is the answer.
LEMMA SourceRefuses ==
  ASSUME WellGiven, DecodeFails(given, mode), schema \notin {"NumberJSON", "CoerceFromString"},
         NEW p \in Outcomes(schema, "ParseFromSource", given, NumberFromSource(schema, given, mode))
  PROVE  ~Accepted(p)
<1> DEFINE t == NumberFromSource(schema, given, mode)
<1>1. given.kind = "number" /\ ~ParsesFloat(given.text)
  BY DEF DecodeFails
<1>2. t = given.text /\ t.n \in Int
  BY <1>1 DEF NumberFromSource, WellGiven
<1>3. ~ParsesFloat(t) /\ ~ParsesInt(t) /\ ~ParsesUint(t)
  <2>1. ~(-MaxFloat <= t.n /\ t.n <= MaxFloat)
    BY <1>1, <1>2 DEF ParsesFloat
  <2>2. /\ MaxInt[64] \in Nat /\ MaxUint[64] = 2 * MaxInt[64] + 1
        /\ MaxUint[64] <= MaxFloat /\ MaxFloat \in Nat
    BY NumbersAssumption DEF Widths
  <2>3. ParsesUint(t) => 0 <= t.n
    BY <1>2 DEF ParsesUint, WellGiven
  <2> HIDE DEF t
  <2> QED BY <1>1, <1>2, <2>1, <2>2, <2>3 DEF ParsesFloat, ParsesInt, ParsesUint
<1>4. p \in Misfit
  <2> HIDE DEF t
  <2>1. p \in Outcomes(schema, "ParseFromSource", given, t)
    BY DEF t
  <2>2. CASE schema \in {"String", "Bool"}
    BY <1>1, <2>1, <2>2 DEF Outcomes, String, Bool
  <2>3. CASE schema \in {"IntOf", "FloatOf", "UintOf"}
    BY <1>1, <1>3, <2>1, <2>3 DEF Outcomes, IntOf, IntText, FloatOf, UintOf
  <2>4. CASE schema \in Signed
    BY <1>1, <1>3, <2>1, <2>4
       DEF Signed, Outcomes, Int8Of, Int16Of, Int32Of, NarrowIntFromSource
  <2>5. CASE schema \in Unsigned \ {"UintOf"}
    BY <1>1, <1>3, <2>1, <2>5
       DEF Unsigned, Outcomes, Uint8Of, Uint16Of, Uint32Of, NarrowUintText
  <2> QED BY <2>2, <2>3, <2>4, <2>5 DEF WellGiven, Schemas, Integral
<1> QED BY <1>4, MisfitFacts DEF Accepted

\* What the two routes have answered so far
FromParse(o) ==
  IF DecodeFails(given, mode) THEN ~Accepted(o)
  ELSE o \in Outcomes(schema, "Parse", Decoded(given, mode),
                      NumberValue(schema, Decoded(given, mode)))

FromSource(o) ==
  o \in Outcomes(schema, "ParseFromSource", given, NumberFromSource(schema, given, mode))

RouteInv ==
  /\ pc \in {"source", "done"} => FromParse(byParse)
  /\ pc = "done" /\ given.kind \in Tokens => FromSource(bySource)

LEMMA RouteInvStep ==
  ASSUME RouteInv, [Next]_vars
  PROVE  RouteInv'
<1> USE DEF RouteInv
<1>1. CASE Call
  <2>1. pc' = "parse"
    BY <1>1 DEF Call
  <2> QED BY <2>1
<1>2. CASE DecodeError
  <2>1. /\ UNCHANGED <<schema, mode, given>> /\ DecodeFails(given, mode) /\ ~Accepted(byParse')
        /\ pc' = IF given.kind \in Tokens THEN "source" ELSE "done"
    BY <1>2 DEF DecodeError, AfterParse, Refuse, Accepted, call
  <2> QED BY <2>1, Zenon DEF FromParse
<1>3. CASE Parse
  <2>1. /\ UNCHANGED <<schema, mode, given>> /\ ~DecodeFails(given, mode)
        /\ byParse' \in Outcomes(schema, "Parse", Decoded(given, mode),
                                 NumberValue(schema, Decoded(given, mode)))
        /\ pc' = IF given.kind \in Tokens THEN "source" ELSE "done"
    BY <1>3 DEF Parse, AfterParse, call
  <2>2. FromParse(byParse)'
    BY <2>1, Zenon DEF FromParse
  <2>3. pc' = "done" => given'.kind \notin Tokens
    BY <2>1
  <2> QED BY <2>2, <2>3
<1>4. CASE ParseFromSource
  <2>1. /\ UNCHANGED <<schema, mode, given, byParse>> /\ pc = "source"
        /\ FromSource(bySource')
    BY <1>4 DEF ParseFromSource, call, FromSource
  <2> QED BY <2>1, Zenon DEF FromParse, FromSource
<1>5. CASE Return
  <2>1. pc' = "idle"
    BY <1>5 DEF Return
  <2> QED BY <2>1
<1>6. CASE UNCHANGED vars
  <2>1. UNCHANGED <<pc, schema, mode, given, byParse, bySource>>
    BY <1>6 DEF vars, call
  <2> QED BY <2>1, Zenon DEF FromParse, FromSource
<1> QED BY <1>1, <1>2, <1>3, <1>4, <1>5, <1>6 DEF Next

(***************************************************************************)
(* Parse and ParseFromSource, written apart for every width, give the same *)
(* answer to the same token, with the two exceptions that RoutesAgree      *)
(* names, whatever the widths and the limits are.                          *)
(***************************************************************************)
THEOREM RoutesMeet == Spec => []RoutesAgree
<1>1. Init => RouteInv
  BY DEF Init, RouteInv
<1>2. RouteInv /\ [Next]_vars => RouteInv'
  BY RouteInvStep
<1>3. NumberInv /\ RouteInv => RoutesAgree
  <2> SUFFICES ASSUME NumberInv, RouteInv, pc = "done", given.kind \in Tokens
               PROVE  \/ Agree(byParse, bySource)
                      \/ DecodeFails(given, mode) /\ schema \in {"NumberJSON", "CoerceFromString"}
    BY DEF RoutesAgree, Agree
  <2>1. WellGiven /\ FromParse(byParse) /\ FromSource(bySource)
    BY DEF NumberInv, RouteInv
  <2>2. CASE DecodeFails(given, mode)
    BY <2>1, <2>2, SourceRefuses DEF FromParse, FromSource, Agree
  <2>3. CASE ~DecodeFails(given, mode)
    <3>1. /\ byParse \in Outcomes(schema, "Parse", Decoded(given, mode),
                                  NumberFromSource(schema, given, mode))
          /\ bySource \in Outcomes(schema, "ParseFromSource", given,
                                   NumberFromSource(schema, given, mode))
      BY <2>1, <2>3, SameText DEF FromParse, FromSource
    <3> QED BY <2>1, <2>3, <3>1, OutcomesAgree, Zenon
  <2> QED BY <2>2, <2>3
<1>4. Spec => []NumberInv
  <2>1. Init => NumberInv
    BY NumberInvInit
  <2>2. NumberInv /\ [Next]_vars => NumberInv'
    BY NumberInvStep
  <2> QED BY <2>1, <2>2, PTL DEF Spec
<1> QED BY <1>1, <1>2, <1>3, <1>4, PTL DEF Spec

-----------------------------------------------------------------------------
(***************************************************************************)
(* References.  Whatever schema is walked, and whatever cycles its         *)
(* references form, the keys being expanded are those that visited holds,  *)
(* none of them twice.                                                     *)
(*                                                                         *)
(* The property needs more to be inductive: that the stack is a sequence   *)
(* of frames, and that the references that are expanded name definitions,  *)
(* so that none of them is NoKey.                                          *)
(***************************************************************************)

IsFrame(f) == DOMAIN f = {"at", "todo", "key", "into"}

IsStack(s) == \E S : s \in Seq(S)

Framed == IsStack(stack) /\ \A i \in 1..Len(stack) : IsFrame(stack[i])

KnownKeys == DOMAIN defs \subseteq DefKeys

IInv == Framed /\ KnownKeys /\ ExpansionsAreNested

-----------------------------------------------------------------------------
(***************************************************************************)
(* The two ways in which a stack changes: its top is replaced or taken     *)
(* away, and a frame is put upon it.                                       *)
(***************************************************************************)
LEMMA Pushing ==
  ASSUME NEW s, IsStack(s), NEW f
  PROVE  /\ IsStack(Append(s, f))
         /\ Len(Append(s, f)) = Len(s) + 1 /\ Len(s) \in Nat
         /\ \A i \in 1..Len(s) : Append(s, f)[i] = s[i]
         /\ Append(s, f)[Len(s) + 1] = f
<1>1. PICK S : s \in Seq(S) BY DEF IsStack
<1>2. s \in Seq(S \cup {f}) /\ f \in S \cup {f} BY <1>1
<1>3. Append(s, f) \in Seq(S \cup {f}) BY <1>2
<1>4. IsStack(Append(s, f)) BY <1>3 DEF IsStack
<1> QED BY <1>2, <1>4

LEMMA Popping ==
  ASSUME IsStack(stack), stack # <<>>
  PROVE  /\ IsStack(Outer)
         /\ Len(stack) \in Nat \ {0} /\ Len(Outer) = Len(stack) - 1
         /\ \A i \in 1..(Len(stack) - 1) : Outer[i] = stack[i]
         /\ Top = stack[Len(stack)]
<1>1. PICK S : stack \in Seq(S) BY DEF IsStack
<1>2. Len(stack) \in Nat \ {0} BY <1>1
<1>3. Outer \in Seq(S) BY <1>1, <1>2 DEF Outer
<1>4. IsStack(Outer) BY <1>3 DEF IsStack
<1>5. /\ Len(SubSeq(stack, 1, Len(stack) - 1)) = Len(stack) - 1
      /\ \A i \in 1..(Len(stack) - 1) : SubSeq(stack, 1, Len(stack) - 1)[i] = stack[i]
  <2> DEFINE n == Len(stack) - 1
  <2>1. n \in Nat /\ n <= Len(stack) /\ stack \in Seq(S) BY <1>1, <1>2
  <2>2. \A i \in 1..n : stack[i] \in S BY <2>1
  <2> HIDE DEF n
  <2>3. /\ Len(SubSeq(stack, 1, n)) = IF 1 <= n THEN n - 1 + 1 ELSE 0
        /\ \A i \in 1..(n - 1 + 1) : SubSeq(stack, 1, n)[i] = stack[1 + i - 1]
    BY <2>1, <2>2, SubSeqProperties
  <2>4. Len(SubSeq(stack, 1, n)) = n BY <2>1, <2>3
  <2>5. \A i \in 1..n : i \in 1..(n - 1 + 1) /\ 1 + i - 1 = i BY <2>1
  <2> QED BY <2>3, <2>4, <2>5 DEF n
<1>6. Top = stack[Len(stack)] BY DEF Top
<1> QED BY <1>2, <1>4, <1>5, <1>6 DEF Outer

\* A stack of which the top is walked has the same keys.
LEMMA Walking ==
  ASSUME Framed, stack # <<>>, NEW slot
  PROVE  /\ IsStack(Walked(slot)) /\ Len(Walked(slot)) = Len(stack)
         /\ \A i \in 1..Len(stack) :
              IsFrame(Walked(slot)[i]) /\ Walked(slot)[i].key = stack[i].key
<1> DEFINE f == [Top EXCEPT !.todo = @ \ {slot}]
<1>1. IsStack(stack) BY DEF Framed
<1>2. /\ IsStack(Outer) /\ Len(stack) \in Nat \ {0} /\ Len(Outer) = Len(stack) - 1
      /\ \A i \in 1..(Len(stack) - 1) : Outer[i] = stack[i]
      /\ Top = stack[Len(stack)]
  BY <1>1, Popping
<1>3. IsFrame(Top) BY <1>2 DEF Framed
<1>4. IsFrame(f) /\ f.key = Top.key BY <1>3 DEF IsFrame
<1> HIDE DEF f
<1>5. /\ IsStack(Append(Outer, f)) /\ Len(Append(Outer, f)) = Len(stack)
      /\ \A i \in 1..(Len(stack) - 1) : Append(Outer, f)[i] = Outer[i]
      /\ Append(Outer, f)[Len(stack)] = f
  BY <1>2, Pushing
<1>6. Walked(slot) = Append(Outer, f) BY DEF Walked, f
<1>7. ASSUME NEW i \in 1..Len(stack)
      PROVE  IsFrame(Walked(slot)[i]) /\ Walked(slot)[i].key = stack[i].key
  <2>1. CASE i = Len(stack) BY <2>1, <1>2, <1>4, <1>5, <1>6
  <2>2. CASE i # Len(stack)
    <3>1. i \in 1..(Len(stack) - 1) BY <2>2, <1>2
    <3> QED BY <3>1, <1>2, <1>5, <1>6 DEF Framed
  <2> QED BY <2>1, <2>2
<1> QED BY <1>5, <1>6, <1>7

-----------------------------------------------------------------------------
\* Where the keys of the stack stay, the property does.
LEMMA SameKeys ==
  ASSUME Framed, ExpansionsAreNested, UNCHANGED visited,
         IsStack(stack'), Len(stack') = Len(stack),
         \A i \in 1..Len(stack) : IsFrame(stack'[i]) /\ stack'[i].key = stack[i].key
  PROVE  Framed' /\ ExpansionsAreNested'
<1>1. DOMAIN stack = 1..Len(stack) /\ DOMAIN stack' = 1..Len(stack)
  BY DEF Framed, IsStack
<1>2. Expanding' = Expanding BY <1>1 DEF Expanding
<1>3. \A i \in Expanding : stack'[i].key = stack[i].key BY <1>1 DEF Expanding
<1>4. ExpansionsAreNested' BY <1>2, <1>3 DEF ExpansionsAreNested
<1> QED BY <1>4 DEF Framed

\* A key that is not visited is put on the stack.
LEMMA OneMore ==
  ASSUME Framed, ExpansionsAreNested, NEW s, NEW f, NEW key,
         key \notin visited, key # NoKey, visited' = visited \cup {key},
         IsStack(s), Len(s) = Len(stack),
         \A i \in 1..Len(stack) : IsFrame(s[i]) /\ s[i].key = stack[i].key,
         IsFrame(f), f.key = key, stack' = Append(s, f)
  PROVE  Framed' /\ ExpansionsAreNested'
<1> DEFINE n == Len(stack)
<1>1. n \in Nat /\ DOMAIN stack = 1..n BY DEF Framed, IsStack
<1>2. /\ IsStack(stack') /\ Len(stack') = n + 1
      /\ \A i \in 1..n : stack'[i] = s[i]
      /\ stack'[n + 1] = f
  BY Pushing
<1>3. DOMAIN stack' = 1..(n + 1) BY <1>2 DEF IsStack
<1>4. \A i \in 1..n : IsFrame(stack'[i]) /\ stack'[i].key = stack[i].key
  BY <1>2
<1> HIDE DEF n
<1>5. Framed'
  <2>1. \A i \in 1..(n + 1) : i \in 1..n \/ i = n + 1 BY <1>1
  <2> QED BY <2>1, <1>2, <1>4 DEF Framed
<1>6. Expanding' = Expanding \cup {n + 1} /\ n + 1 \notin Expanding
  <2>1. \A i : i \in 1..(n + 1) <=> i \in 1..n \/ i = n + 1 BY <1>1
  <2>2. n + 1 \notin 1..n BY <1>1
  <2> QED BY <2>1, <2>2, <1>1, <1>2, <1>3, <1>4 DEF Expanding
<1>7. /\ \A i \in Expanding : stack'[i].key = stack[i].key
      /\ stack'[n + 1].key = key
  BY <1>1, <1>2, <1>4 DEF Expanding
<1>8. visited = {stack[i].key : i \in Expanding} BY DEF ExpansionsAreNested
<1>9. \A i \in Expanding : stack[i].key # key BY <1>8
<1>10. visited' = {stack'[i].key : i \in Expanding'}
  <2>1. {stack'[i].key : i \in Expanding'} =
          {stack'[i].key : i \in Expanding} \cup {stack'[n + 1].key}
    BY <1>6, Zenon
  <2>2. {stack'[i].key : i \in Expanding} = {stack[i].key : i \in Expanding}
    BY <1>7
  <2>3. stack'[n + 1].key = key BY <1>7
  <2>4. visited' = {stack[i].key : i \in Expanding} \cup {key} BY <1>8
  <2> QED BY <2>1, <2>2, <2>3, <2>4, Zenon
<1>11. ASSUME NEW i \in Expanding', NEW j \in Expanding', stack'[i].key = stack'[j].key
       PROVE  i = j
  <2>1. \A k, l \in Expanding : stack[k].key = stack[l].key => k = l
    BY DEF ExpansionsAreNested
  <2>2. CASE i \in Expanding /\ j \in Expanding BY <2>1, <2>2, <1>7, <1>11
  <2>3. CASE ~(i \in Expanding /\ j \in Expanding) BY <2>3, <1>6, <1>7, <1>9, <1>11
  <2> QED BY <2>2, <2>3
<1>12. ExpansionsAreNested' BY <1>10, <1>11 DEF ExpansionsAreNested
<1> QED BY <1>5, <1>12

\* A schema that is no definition is put on the stack.
LEMMA OnePlain ==
  ASSUME Framed, ExpansionsAreNested, NEW s, NEW f, UNCHANGED visited,
         IsStack(s), Len(s) = Len(stack),
         \A i \in 1..Len(stack) : IsFrame(s[i]) /\ s[i].key = stack[i].key,
         IsFrame(f), f.key = NoKey, stack' = Append(s, f)
  PROVE  Framed' /\ ExpansionsAreNested'
<1> DEFINE n == Len(stack)
<1>1. n \in Nat /\ DOMAIN stack = 1..n BY DEF Framed, IsStack
<1>2. /\ IsStack(stack') /\ Len(stack') = n + 1
      /\ \A i \in 1..n : stack'[i] = s[i]
      /\ stack'[n + 1] = f
  BY Pushing
<1>3. DOMAIN stack' = 1..(n + 1) BY <1>2 DEF IsStack
<1>4. \A i \in 1..n : IsFrame(stack'[i]) /\ stack'[i].key = stack[i].key
  BY <1>2
<1> HIDE DEF n
<1>5. \A i : i \in 1..(n + 1) <=> i \in 1..n \/ i = n + 1 BY <1>1
<1>6. Framed' BY <1>2, <1>4, <1>5 DEF Framed
<1>7. Expanding' = Expanding BY <1>1, <1>2, <1>3, <1>4, <1>5 DEF Expanding
<1>8. \A i \in Expanding : stack'[i].key = stack[i].key BY <1>1, <1>4 DEF Expanding
<1>9. {stack'[i].key : i \in Expanding'} = {stack[i].key : i \in Expanding}
  BY <1>7, <1>8
<1>10. visited' = {stack'[i].key : i \in Expanding'}
  <2>1. visited = {stack[i].key : i \in Expanding} BY DEF ExpansionsAreNested
  <2> QED BY <2>1, <1>9, Zenon
<1>11. ASSUME NEW i \in Expanding', NEW j \in Expanding', stack'[i].key = stack'[j].key
       PROVE  i = j
  <2>1. \A k, l \in Expanding : stack[k].key = stack[l].key => k = l
    BY DEF ExpansionsAreNested
  <2>2. i \in Expanding /\ j \in Expanding BY <1>7
  <2> QED BY <2>1, <2>2, <1>8, <1>11
<1>12. ExpansionsAreNested' BY <1>10, <1>11 DEF ExpansionsAreNested
<1> QED BY <1>6, <1>12

\* The top of the stack is taken away, and its key with it.
LEMMA OneLess ==
  ASSUME Framed, ExpansionsAreNested, stack # <<>>, stack' = Outer,
         visited' = IF Top.key = NoKey THEN visited ELSE visited \ {Top.key}
  PROVE  Framed' /\ ExpansionsAreNested'
<1> DEFINE n == Len(stack)
<1>1. /\ n \in Nat \ {0} /\ IsStack(stack') /\ Len(stack') = n - 1
      /\ \A i \in 1..(n - 1) : stack'[i] = stack[i]
      /\ Top = stack[n]
  BY Popping DEF Framed
<1>2. DOMAIN stack = 1..n /\ DOMAIN stack' = 1..(n - 1)
  BY <1>1 DEF IsStack, Framed
<1> HIDE DEF n
<1>3. \A i : i \in 1..n <=> i \in 1..(n - 1) \/ i = n BY <1>1
<1>4. Framed'
  <2>1. Len(stack) = n BY DEF n
  <2> QED BY <2>1, <1>1, <1>3 DEF Framed
<1>5. n \notin 1..(n - 1) BY <1>1
<1>6. Expanding' = Expanding \ {n} BY <1>1, <1>2, <1>3, <1>5 DEF Expanding
<1>7. \A i \in Expanding' : stack'[i].key = stack[i].key
  BY <1>1, <1>2 DEF Expanding
<1>8. visited = {stack[i].key : i \in Expanding} BY DEF ExpansionsAreNested
<1>9. \A i, j \in Expanding : stack[i].key = stack[j].key => i = j
  BY DEF ExpansionsAreNested
<1>10. n \in Expanding <=> Top.key # NoKey BY <1>1, <1>2, <1>3 DEF Expanding
<1>11. visited' = {stack[i].key : i \in Expanding \ {n}}
  <2>1. CASE Top.key = NoKey BY <2>1, <1>8, <1>10
  <2>2. CASE Top.key # NoKey
    <3>1. n \in Expanding /\ visited' = visited \ {stack[n].key} BY <2>2, <1>1, <1>10
    <3> QED BY <3>1, <1>8, <1>9
  <2> QED BY <2>1, <2>2
<1>12. visited' = {stack'[i].key : i \in Expanding'} BY <1>6, <1>7, <1>11
<1>13. ExpansionsAreNested' BY <1>6, <1>7, <1>9, <1>12 DEF ExpansionsAreNested
<1> QED BY <1>4, <1>13

-----------------------------------------------------------------------------
LEMMA Beginning == RefInit => IInv
<1> SUFFICES ASSUME RefInit PROVE IInv OBVIOUS
<1>1. PICK table \in Tables : RefStart(table) BY DEF RefInit
<1>2. KnownKeys BY <1>1, KeysAssumption DEF KnownKeys, defs, RefStart
<1> DEFINE f == Frame(1, table.nodes[1], NoKey, 0)
<1>3. IsFrame(f) /\ f.key = NoKey BY DEF Frame, IsFrame
<1> HIDE DEF f
<1>4. stack = <<>> \/ stack = <<f>> BY <1>1 DEF RefStart, f
<1>5. Framed
  <2>1. <<>> \in Seq({f}) /\ <<f>> \in Seq({f}) OBVIOUS
  <2>2. IsStack(stack) BY <2>1, <1>4 DEF IsStack
  <2> QED BY <2>2, <1>3, <1>4 DEF Framed
<1>6. Expanding = {} BY <1>3, <1>4 DEF Expanding
<1>7. ExpansionsAreNested BY <1>6 DEF ExpansionsAreNested, RefInit
<1> QED BY <1>2, <1>5, <1>7 DEF IInv

LEMMA Keeping == IInv /\ [Resolve]_refVars => IInv'
<1> SUFFICES ASSUME IInv, [Resolve]_refVars PROVE IInv' OBVIOUS
<1> USE DEF IInv
<1>1. CASE UNCHANGED refVars
  BY <1>1 DEF refVars, Framed, KnownKeys, defs, ExpansionsAreNested, Expanding
<1>2. CASE Finish
  <2>1. KnownKeys' BY <1>2 DEF Finish, KnownKeys, defs
  <2>2. /\ stack # <<>> /\ stack' = Outer
        /\ visited' = IF Top.key = NoKey THEN visited ELSE visited \ {Top.key}
    BY <1>2 DEF Finish
  <2> QED BY <2>1, <2>2, OneLess
<1>3. ASSUME NEW slot \in Top.todo, Leave(slot) \/ Expand(slot) \/ Descend(slot)
      PROVE  IInv'
  <2>1. KnownKeys' BY <1>3 DEF Leave, Expand, Descend, KnownKeys, defs
  <2>2. stack # <<>> BY DEF Top, NoFrame
  <2>3. /\ IsStack(Walked(slot)) /\ Len(Walked(slot)) = Len(stack)
        /\ \A i \in 1..Len(stack) :
             IsFrame(Walked(slot)[i]) /\ Walked(slot)[i].key = stack[i].key
    BY <2>2, Walking
  <2>4. CASE Leave(slot)
    <3>1. stack' = Walked(slot) /\ UNCHANGED visited BY <2>4 DEF Leave
    <3> QED BY <2>1, <2>3, <3>1, SameKeys
  <2>5. CASE Expand(slot)
    <3> DEFINE key == heap[Child(slot)].ref
    <3>1. PICK at, node : /\ visited' = visited \cup {key}
                          /\ stack' = Append(Walked(slot), Frame(at, node, key, Child(slot)))
      BY <2>5 DEF Expand
    <3>2. Objection(key) = "none" BY <2>5 DEF Expand
    <3>3. key \notin visited /\ key \in DefKeys BY <3>2 DEF Objection, KnownKeys
    <3>4. key # NoKey BY <3>3, KeysAssumption
    <3> DEFINE f == Frame(at, node, key, Child(slot))
    <3>5. IsFrame(f) /\ f.key = key BY DEF Frame, IsFrame
    <3>6. stack' = Append(Walked(slot), f) BY <3>1
    <3> HIDE DEF f, key
    <3>7. Framed' /\ ExpansionsAreNested'
      BY <2>3, <3>1, <3>3, <3>4, <3>5, <3>6, OneMore
    <3> QED BY <2>1, <3>7
  <2>6. CASE Descend(slot)
    <3> DEFINE f == Frame(Child(slot), heap[Child(slot)], NoKey, 0)
    <3>1. stack' = Append(Walked(slot), f) /\ UNCHANGED visited BY <2>6 DEF Descend
    <3>2. IsFrame(f) /\ f.key = NoKey BY DEF Frame, IsFrame
    <3> HIDE DEF f
    <3>3. Framed' /\ ExpansionsAreNested' BY <2>3, <3>1, <3>2, OnePlain
    <3> QED BY <2>1, <3>3
  <2> QED BY <1>3, <2>4, <2>5, <2>6
<1> QED BY <1>1, <1>2, <1>3 DEF Resolve

(***************************************************************************)
(* The walk of resolveRefsInPlace: visited is true of the stack of calls,  *)
(* whatever the schema (kubeopenapi/refs.go).                              *)
(***************************************************************************)
THEOREM NestedExpansions == RefSpec => []ExpansionsAreNested
<1>1. IInv => ExpansionsAreNested BY DEF IInv
<1> QED BY Beginning, Keeping, <1>1, PTL DEF RefSpec

-----------------------------------------------------------------------------
(***************************************************************************)
(* Tables.  A copy holds, under other numbers, what its original holds,    *)
(* and a merge holds nothing but what its two nodes did.                   *)
(***************************************************************************)

\* Node a is node b, of a table that n others have been put before.
SameAs(a, b, n) ==
  /\ HeldBy(a) = {n + c : c \in HeldBy(b)}
  /\ Has(a, "ref") <=> Has(b, "ref")
  /\ Has(b, "ref") => a.ref = b.ref

LEMMA TableFacts ==
  ASSUME NEW t, IsTable(t)
  PROVE  /\ Len(t) \in Nat \ {0} /\ DOMAIN t = 1..Len(t) /\ 1 \in DOMAIN t
         /\ IsStack(t)
         /\ \A i \in DOMAIN t : HeldBy(t[i]) \subseteq DOMAIN t
<1>1. t \in Seq({t[i] : i \in DOMAIN t}) /\ t # <<>> BY DEF IsTable
<1>2. IsStack(t) BY <1>1 DEF IsStack
<1> DEFINE S == {t[i] : i \in DOMAIN t}
<1>3. t \in Seq(S) BY <1>1
<1> HIDE DEF S
<1>4. Len(t) \in Nat \ {0} /\ DOMAIN t = 1..Len(t) BY <1>1, <1>3
<1> QED BY <1>2, <1>4 DEF IsTable

LEMMA IntoTable ==
  ASSUME NEW t, IsStack(t), Len(t) # 0,
         \A i \in DOMAIN t : HeldBy(t[i]) \subseteq DOMAIN t
  PROVE  IsTable(t)
<1>1. PICK S : t \in Seq(S) BY DEF IsStack
<1>2. t \in [1..Len(t) -> S] /\ Len(t) \in Nat /\ DOMAIN t = 1..Len(t) BY <1>1
<1>3. t \in [1..Len(t) -> {t[i] : i \in DOMAIN t}] BY <1>2
<1>4. t \in Seq({t[i] : i \in DOMAIN t}) BY <1>2, <1>3
<1>5. t # <<>> BY <1>1
<1> QED BY <1>4, <1>5 DEF IsTable

LEMMA CopyFacts ==
  ASSUME NEW t, IsTable(t), NEW n \in Nat
  PROVE  /\ DOMAIN Copied(t, n) = DOMAIN t
         /\ \A i \in DOMAIN t : SameAs(Copied(t, n)[i], t[i], n)
<1> DEFINE moved(node) ==
             [w \in DOMAIN node |->
                CASE w = "props" -> [p \in DOMAIN node.props |-> node.props[p] + n]
                  [] w = "items" -> node.items + n
                  [] OTHER       -> node[w]]
<1>1. Copied(t, n) = [i \in DOMAIN t |-> moved(t[i])] BY DEF Copied
<1>2. ASSUME NEW b, HeldBy(b) \subseteq Nat
      PROVE  SameAs(moved(b), b, n)
  <2> DEFINE a == moved(b)
  <2>1. DOMAIN a = DOMAIN b OBVIOUS
  <2>2. Has(b, "items") => a["items"] = b["items"] + n BY DEF Has
  <2>3. Has(b, "props") => a["props"] = [p \in DOMAIN b["props"] |-> b["props"][p] + n]
    BY DEF Has
  <2>4. Has(b, "ref") => a["ref"] = b["ref"] BY DEF Has
  <2>5. \A w : Has(a, w) <=> Has(b, w) BY <2>1 DEF Has
  <2> HIDE DEF a
  <2>6. Slots(a) = Slots(b) BY <2>3, <2>5 DEF Slots
  <2>7. ASSUME NEW slot \in Slots(b) PROVE Held(a, slot) = n + Held(b, slot)
    <3>1. Held(b, slot) \in Nat BY <1>2 DEF HeldBy
    <3>2. CASE Has(b, "items") /\ slot = <<"items", "">>
      <4>1. slot[1] = "items" BY <3>2
      <4>2. Held(b, slot) = b.items /\ Held(a, slot) = a.items BY <4>1 DEF Held
      <4>3. b.items \in Nat /\ a.items = b.items + n BY <3>1, <3>2, <4>2, <2>2
      <4> QED BY <4>2, <4>3
    <3>3. CASE Has(b, "props") /\ slot \in {"props"} \X DOMAIN b.props
      <4>1. PICK p \in DOMAIN b.props : slot = <<"props", p>> BY <3>3
      <4>2. slot[1] = "props" /\ slot[2] = p BY <4>1
      <4>3. Held(b, slot) = b.props[p] /\ Held(a, slot) = a.props[p]
        BY <4>2 DEF Held
      <4>4. a.props[p] = b.props[p] + n BY <4>1, <3>3, <2>3
      <4>5. b.props[p] \in Nat BY <3>1, <4>3
      <4> QED BY <4>3, <4>4, <4>5
    <3> QED BY <3>2, <3>3 DEF Slots
  <2>8. HeldBy(a) = {n + c : c \in HeldBy(b)} BY <2>6, <2>7 DEF HeldBy
  <2> QED BY <2>4, <2>5, <2>8 DEF SameAs, a
<1> HIDE DEF moved
<1>3. ASSUME NEW i \in DOMAIN t PROVE SameAs(Copied(t, n)[i], t[i], n)
  <2>1. HeldBy(t[i]) \subseteq Nat BY TableFacts
  <2> QED BY <2>1, <1>1, <1>2
<1> QED BY <1>1, <1>3

LEMMA MergeFacts ==
  ASSUME NEW s, NEW c
  PROVE  /\ Slots(s) \subseteq Slots(MergedInto(s, c))
         /\ \A slot \in Slots(s) : Held(MergedInto(s, c), slot) = Held(s, slot)
         /\ HeldBy(MergedInto(s, c)) \subseteq HeldBy(s) \cup HeldBy(c)
         /\ Has(MergedInto(s, c), "ref") <=> Has(c, "ref")
         /\ Has(c, "ref") => MergedInto(s, c).ref = c.ref
<1> DEFINE m == MergedInto(s, c)
           kept == DOMAIN s \ {"ref"}
<1>1. m = [w \in kept \cup DOMAIN c |-> IF w \in kept THEN s[w] ELSE c[w]]
  BY DEF MergedInto
<1>2. \A w : Has(m, w) <=> w \in kept \/ Has(c, w) BY <1>1 DEF Has
<1>3. \A w : Has(m, w) => m[w] = IF w \in kept THEN s[w] ELSE c[w] BY <1>1, <1>2 DEF Has
<1>4. \A w : w # "ref" => (w \in kept <=> Has(s, w)) BY DEF Has
<1>5. "ref" \notin kept OBVIOUS
<1> HIDE DEF m, kept
<1>6. (Has(m, "ref") <=> Has(c, "ref")) /\ (Has(c, "ref") => m["ref"] = c["ref"])
  BY <1>2, <1>3, <1>5
<1>7. Has(s, "props") => Has(m, "props") /\ m["props"] = s["props"] BY <1>2, <1>3, <1>4
<1>8. Has(s, "items") => Has(m, "items") /\ m["items"] = s["items"] BY <1>2, <1>3, <1>4
<1>9. Slots(s) \subseteq Slots(m) BY <1>7, <1>8 DEF Slots
<1>10. ASSUME NEW slot \in Slots(s) PROVE Held(m, slot) = Held(s, slot)
  <2>1. CASE Has(s, "items") /\ slot = <<"items", "">>
    BY <2>1, <1>8 DEF Held
  <2>2. CASE Has(s, "props") /\ slot \in {"props"} \X DOMAIN s.props
    <3>1. slot[1] = "props" BY <2>2
    <3> QED BY <2>2, <3>1, <1>7 DEF Held
  <2> QED BY <2>1, <2>2 DEF Slots
<1>11. ASSUME NEW slot \in Slots(m)
       PROVE  \/ slot \in Slots(s) /\ Held(m, slot) = Held(s, slot)
              \/ slot \in Slots(c) /\ Held(m, slot) = Held(c, slot)
  <2>1. CASE Has(m, "items") /\ slot = <<"items", "">>
    <3>1. Has(s, "items") \/ (Has(c, "items") /\ m["items"] = c["items"])
      BY <2>1, <1>2, <1>3, <1>4
    <3> QED BY <2>1, <3>1, <1>8 DEF Slots, Held
  <2>2. CASE Has(m, "props") /\ slot \in {"props"} \X DOMAIN m.props
    <3>1. Has(s, "props") \/ (Has(c, "props") /\ m["props"] = c["props"])
      BY <2>2, <1>2, <1>3, <1>4
    <3> QED BY <2>2, <3>1, <1>7 DEF Slots, Held
  <2> QED BY <2>1, <2>2 DEF Slots
<1>12. HeldBy(m) \subseteq HeldBy(s) \cup HeldBy(c) BY <1>11 DEF HeldBy
<1> QED BY <1>6, <1>9, <1>10, <1>12 DEF m

-----------------------------------------------------------------------------
(***************************************************************************)
(* The walk.  A step leaves what a node holds where it is, and may put     *)
(* more beside it.                                                         *)
(***************************************************************************)
Grows(h, g) ==
  /\ DOMAIN h \subseteq DOMAIN g
  /\ \A j \in DOMAIN h : \A s \in Slots(h[j]) :
       s \in Slots(g[j]) /\ Held(g[j], s) = Held(h[j], s)

FrameFits(h, d, f) ==
  /\ f.at \in DOMAIN h /\ f.todo \subseteq Slots(h[f.at])
  /\ f.key # NoKey => f.into \in DOMAIN h /\ f.key \in DOMAIN d

Walkable ==
  /\ document \in Tables /\ IsTable(heap)
  /\ \A i \in 1..Len(stack) : FrameFits(heap, defs, stack[i])

LEMMA FitsStill ==
  ASSUME NEW h, NEW g, NEW d, NEW f, Grows(h, g), FrameFits(h, d, f)
  PROVE  FrameFits(g, d, f)
BY DEF Grows, FrameFits

\* The definitions are tables.
LEMMA DefTables ==
  ASSUME document \in Tables
  PROVE  IsTable(document.nodes) /\ \A k \in DOMAIN defs : IsTable(defs[k])
BY TablesAssumption DEF defs

LEMMA Turning ==
  ASSUME Framed, NEW slot, Turns(slot)
  PROVE  /\ Len(stack) \in Nat \ {0} /\ stack # <<>> /\ DOMAIN stack = 1..Len(stack)
         /\ Top = stack[Len(stack)] /\ slot \in stack[Len(stack)].todo
         /\ IsStack(Walked(slot)) /\ Len(Walked(slot)) = Len(stack)
         /\ DOMAIN Walked(slot) = 1..Len(stack)
         /\ \A i \in 1..Len(stack) :
              /\ Walked(slot)[i].at = stack[i].at /\ Walked(slot)[i].key = stack[i].key
              /\ Walked(slot)[i].into = stack[i].into
              /\ Walked(slot)[i].todo =
                   IF i = Len(stack) THEN stack[i].todo \ {slot} ELSE stack[i].todo
<1>1. stack # <<>> /\ slot \in Top.todo BY DEF Turns, Top, NoFrame
<1>2. IsStack(stack) BY DEF Framed
<1>3. /\ IsStack(Outer) /\ Len(stack) \in Nat \ {0} /\ Len(Outer) = Len(stack) - 1
      /\ \A i \in 1..(Len(stack) - 1) : Outer[i] = stack[i]
      /\ Top = stack[Len(stack)]
  BY <1>1, <1>2, Popping
<1> DEFINE f == [Top EXCEPT !.todo = @ \ {slot}]
<1>4. IsFrame(Top) BY <1>3 DEF Framed
<1>5. f.key = Top.key /\ f.at = Top.at /\ f.into = Top.into /\ f.todo = Top.todo \ {slot}
  BY <1>4 DEF IsFrame
<1>6. Walked(slot) = Append(Outer, f) BY DEF Walked
<1> HIDE DEF f
<1>7. /\ IsStack(Append(Outer, f)) /\ Len(Append(Outer, f)) = Len(stack)
      /\ \A i \in 1..(Len(stack) - 1) : Append(Outer, f)[i] = Outer[i]
      /\ Append(Outer, f)[Len(stack)] = f
  BY <1>3, Pushing
<1>8. \A i \in 1..Len(stack) : i = Len(stack) \/ i \in 1..(Len(stack) - 1) BY <1>3
<1>9. DOMAIN stack = 1..Len(stack) BY <1>2 DEF IsStack
<1>10. Len(stack) \notin 1..(Len(stack) - 1) BY <1>3
<1>11. DOMAIN Walked(slot) = 1..Len(stack) BY <1>6, <1>7 DEF IsStack
<1> QED BY <1>1, <1>3, <1>5, <1>6, <1>7, <1>8, <1>9, <1>10, <1>11

LEMMA ChildFits ==
  ASSUME Framed, Walkable, NEW slot, Turns(slot)
  PROVE  /\ Top.at \in DOMAIN heap /\ slot \in Slots(heap[Top.at])
         /\ Child(slot) \in HeldBy(heap[Top.at]) /\ Child(slot) \in DOMAIN heap
<1>1. Top = stack[Len(stack)] /\ Len(stack) \in 1..Len(stack) /\ slot \in Top.todo
  BY Turning
<1>2. FrameFits(heap, defs, Top) BY <1>1 DEF Walkable
<1>3. Top.at \in DOMAIN heap /\ slot \in Slots(heap[Top.at]) BY <1>1, <1>2 DEF FrameFits
<1>4. Child(slot) \in HeldBy(heap[Top.at]) BY <1>3 DEF Child, HeldBy
<1>5. HeldBy(heap[Top.at]) \subseteq DOMAIN heap BY <1>3, TableFacts DEF Walkable
<1> QED BY <1>3, <1>4, <1>5

\* A step that pushes a frame for a child.
LEMMA Entering ==
  ASSUME Framed, NEW slot, Turns(slot), NEW f, stack' = Append(Walked(slot), f)
  PROVE  /\ Len(stack') = Len(stack) + 1 /\ stack'[Len(stack) + 1] = f
         /\ DOMAIN stack' = 1..(Len(stack) + 1)
         /\ \A i \in 1..Len(stack) : stack'[i] = Walked(slot)[i]
<1>1. IsStack(Walked(slot)) /\ Len(Walked(slot)) = Len(stack) BY Turning
<1>2. /\ IsStack(stack') /\ Len(stack') = Len(stack) + 1
      /\ \A i \in 1..Len(stack) : stack'[i] = Walked(slot)[i]
      /\ stack'[Len(stack) + 1] = f
  BY <1>1, Pushing
<1> QED BY <1>2 DEF IsStack

LEMMA Expanded ==
  ASSUME Framed, Walkable, NEW slot, Expand(slot), NEW k, k = heap[Child(slot)].ref
  PROVE  /\ k \in DOMAIN defs /\ k \notin visited /\ IsTable(defs[k])
         /\ IsTable(heap') /\ Len(heap') = Len(heap) + Len(defs[k])
         /\ \A i \in DOMAIN heap : heap'[i] = heap[i]
         /\ \A x \in DOMAIN defs[k] :
              /\ SameAs(heap'[Len(heap) + x], defs[k][x], Len(heap))
              /\ heap'[Len(heap) + x] = Copied(defs[k], Len(heap))[x]
         /\ \A i \in DOMAIN heap' : i \in DOMAIN heap \/ \E x \in DOMAIN defs[k] : i = Len(heap) + x
         /\ stack' = Append(Walked(slot),
                            Frame(Len(heap) + 1, heap'[Len(heap) + 1], k, Child(slot)))
<1> DEFINE t == defs[k]
           copy == Copied(t, Len(heap))
<1>1. Objection(k) = "none" /\ heap' = heap \o copy
  BY DEF Expand
<1>2. k \in DOMAIN defs /\ k \notin visited BY <1>1 DEF Objection
<1>3. IsTable(t) BY <1>2, DefTables DEF Walkable
<1>4. /\ Len(heap) \in Nat \ {0} /\ DOMAIN heap = 1..Len(heap) /\ IsStack(heap)
      /\ \A i \in DOMAIN heap : HeldBy(heap[i]) \subseteq DOMAIN heap
  BY TableFacts DEF Walkable
<1>5. /\ Len(t) \in Nat \ {0} /\ DOMAIN t = 1..Len(t) /\ IsStack(t) /\ 1 \in DOMAIN t
      /\ \A i \in DOMAIN t : HeldBy(t[i]) \subseteq DOMAIN t
  BY <1>3, TableFacts
<1>6. DOMAIN copy = DOMAIN t /\ \A i \in DOMAIN t : SameAs(copy[i], t[i], Len(heap))
  BY <1>3, <1>4, CopyFacts
<1>7. /\ IsStack(copy) /\ Len(copy) = Len(t)
  <2>1. copy = [i \in 1..Len(t) |-> copy[i]] BY <1>5, <1>6 DEF Copied
  <2> HIDE DEF copy, t
  <2>2. copy \in [1..Len(t) -> {copy[i] : i \in 1..Len(t)}] BY <2>1
  <2>3. copy \in Seq({copy[i] : i \in 1..Len(t)}) BY <2>2, <1>5
  <2>4. Len(copy) = Len(t) BY <2>2, <1>5, <2>3
  <2> QED BY <2>3, <2>4 DEF IsStack
<1> HIDE DEF copy, t
<1>8. /\ IsStack(heap') /\ Len(heap') = Len(heap) + Len(t)
      /\ \A i \in DOMAIN heap : heap'[i] = heap[i]
      /\ \A x \in DOMAIN t : heap'[Len(heap) + x] = copy[x]
  <2>1. PICK S1 : heap \in Seq(S1) BY <1>4 DEF IsStack
  <2>2. PICK S2 : copy \in Seq(S2) BY <1>7 DEF IsStack
  <2>3. heap \in Seq(S1 \cup S2) /\ copy \in Seq(S1 \cup S2) BY <2>1, <2>2
  <2>4. heap \o copy \in Seq(S1 \cup S2) BY <2>3
  <2>5. Len(heap \o copy) = Len(heap) + Len(copy) BY <2>3
  <2>6. \A i \in 1..Len(heap) : (heap \o copy)[i] = heap[i] BY <2>3, <1>4, <1>7, <1>5
  <2>7. \A x \in 1..Len(copy) : (heap \o copy)[Len(heap) + x] = copy[x]
    BY <2>3, <1>4, <1>7, <1>5
  <2> QED BY <2>4, <2>5, <2>6, <2>7, <1>1, <1>4, <1>5, <1>7 DEF IsStack
<1>9. \A x \in DOMAIN t : SameAs(heap'[Len(heap) + x], t[x], Len(heap)) BY <1>6, <1>8
<1>10. DOMAIN heap' = 1..(Len(heap) + Len(t)) BY <1>8 DEF IsStack
<1>11. \A i \in DOMAIN heap' : i \in DOMAIN heap \/ \E x \in DOMAIN t : i = Len(heap) + x
  <2>1. ASSUME NEW i \in DOMAIN heap', i \notin DOMAIN heap
        PROVE  \E x \in DOMAIN t : i = Len(heap) + x
    <3>1. i - Len(heap) \in DOMAIN t /\ i = Len(heap) + (i - Len(heap))
      BY <2>1, <1>4, <1>5, <1>10
    <3> QED BY <3>1
  <2> QED BY <2>1
<1>12. ASSUME NEW i \in DOMAIN heap' PROVE HeldBy(heap'[i]) \subseteq DOMAIN heap'
  <2>1. CASE i \in DOMAIN heap BY <2>1, <1>4, <1>5, <1>8, <1>10
  <2>2. ASSUME NEW x \in DOMAIN t, i = Len(heap) + x
        PROVE  HeldBy(heap'[i]) \subseteq DOMAIN heap'
    <3>1. HeldBy(heap'[i]) = {Len(heap) + c : c \in HeldBy(t[x])}
      BY <2>2, <1>9 DEF SameAs
    <3>2. \A c \in HeldBy(t[x]) : Len(heap) + c \in DOMAIN heap' BY <1>4, <1>5, <1>10
    <3> QED BY <3>1, <3>2
  <2> QED BY <2>1, <2>2, <1>11
<1>13. IsTable(heap') BY <1>8, <1>4, <1>5, <1>12, IntoTable
<1>14. stack' = Append(Walked(slot),
                       Frame(Len(heap) + 1, heap'[Len(heap) + 1], k, Child(slot)))
  <2>1. heap'[Len(heap) + 1] = copy[1] BY <1>5, <1>8
  <2> QED BY <2>1 DEF Expand, copy, t
<1>15. \A x \in DOMAIN t : heap'[Len(heap) + x] = Copied(t, Len(heap))[x] BY <1>8 DEF copy
<1> QED BY <1>2, <1>3, <1>8, <1>9, <1>11, <1>13, <1>14, <1>15 DEF t

LEMMA Finished ==
  ASSUME Framed, Walkable, Finish
  PROVE  /\ Len(stack) \in Nat \ {0} /\ Top = stack[Len(stack)] /\ Top.todo = {}
         /\ stack # <<>> /\ stack' = Outer /\ FrameFits(heap, defs, Top)
         /\ Len(stack') = Len(stack) - 1 /\ DOMAIN stack' = 1..(Len(stack) - 1)
         /\ \A i \in 1..(Len(stack) - 1) : stack'[i] = stack[i]
         /\ DOMAIN heap' = DOMAIN heap /\ IsTable(heap')
         /\ Top.key = NoKey => heap' = heap
         /\ Top.key # NoKey =>
              \A j \in DOMAIN heap :
                heap'[j] = IF j = Top.into THEN MergedInto(heap[j], heap[Top.at]) ELSE heap[j]
<1>1. stack # <<>> /\ Top.todo = {} /\ stack' = Outer BY DEF Finish
<1>2. /\ IsStack(Outer) /\ Len(stack) \in Nat \ {0} /\ Len(Outer) = Len(stack) - 1
      /\ \A i \in 1..(Len(stack) - 1) : Outer[i] = stack[i]
      /\ Top = stack[Len(stack)]
  BY <1>1, Popping DEF Framed
<1>3. DOMAIN stack' = 1..(Len(stack) - 1) BY <1>1, <1>2 DEF IsStack
<1>4. FrameFits(heap, defs, Top) BY <1>2 DEF Walkable
<1>5. CASE Top.key = NoKey BY <1>1, <1>2, <1>3, <1>4, <1>5 DEF Finish, Walkable
<1>6. CASE Top.key # NoKey
  <2>1. heap' = [heap EXCEPT ![Top.into] = MergedInto(@, heap[Top.at])] BY <1>6 DEF Finish
  <2>2. /\ Len(heap) \in Nat \ {0} /\ DOMAIN heap = 1..Len(heap) /\ IsStack(heap)
        /\ \A i \in DOMAIN heap : HeldBy(heap[i]) \subseteq DOMAIN heap
    BY TableFacts DEF Walkable
  <2> DEFINE m == MergedInto(heap[Top.into], heap[Top.at])
  <2>3. heap' = [heap EXCEPT ![Top.into] = m] BY <2>1
  <2> HIDE DEF m
  <2>4. /\ DOMAIN heap' = DOMAIN heap
        /\ \A j \in DOMAIN heap : heap'[j] = IF j = Top.into THEN m ELSE heap[j]
    BY <2>3
  <2>5. IsStack(heap') /\ Len(heap') = Len(heap)
    <3>1. PICK S : heap \in Seq(S) BY <2>2 DEF IsStack
    <3>2. heap \in Seq(S \cup {m}) BY <3>1
    <3>3. heap \in [1..Len(heap) -> S \cup {m}] BY <3>2
    <3>4. heap' \in [1..Len(heap) -> S \cup {m}] BY <3>3, <2>3
    <3>5. heap' \in Seq(S \cup {m}) /\ Len(heap') = Len(heap) BY <3>4, <2>2
    <3> QED BY <3>5 DEF IsStack
  <2>6. HeldBy(m) \subseteq DOMAIN heap
    BY <1>4, <1>6, <2>2, MergeFacts DEF m, FrameFits
  <2>7. \A j \in DOMAIN heap' : HeldBy(heap'[j]) \subseteq DOMAIN heap'
    BY <2>2, <2>4, <2>6
  <2>8. IsTable(heap') BY <2>2, <2>5, <2>7, IntoTable
  <2>9. \A j \in DOMAIN heap :
          heap'[j] = IF j = Top.into THEN MergedInto(heap[j], heap[Top.at]) ELSE heap[j]
    BY <2>4 DEF m
  <2> QED BY <1>1, <1>2, <1>3, <1>4, <1>6, <2>4, <2>8, <2>9
<1> QED BY <1>5, <1>6

LEMMA WalkStart == RefInit => Walkable
<1> SUFFICES ASSUME RefInit PROVE Walkable OBVIOUS
<1>1. PICK table \in Tables : RefStart(table) BY DEF RefInit
<1>2. document \in Tables /\ IsTable(heap) BY <1>1, TablesAssumption DEF RefStart
<1> DEFINE f == Frame(1, table.nodes[1], NoKey, 0)
<1>3. f.at = 1 /\ f.todo = Slots(table.nodes[1]) /\ f.key = NoKey BY DEF Frame
<1>4. heap = table.nodes BY <1>1 DEF RefStart
<1>5. FrameFits(heap, defs, f) BY <1>2, <1>3, <1>4, TableFacts DEF FrameFits
<1> HIDE DEF f
<1>6. stack = <<>> \/ stack = <<f>> BY <1>1 DEF RefStart, f
<1> QED BY <1>2, <1>5, <1>6 DEF Walkable

LEMMA SameGrows == ASSUME UNCHANGED heap PROVE Grows(heap, heap')
BY DEF Grows

LEMMA StepGrows ==
  ASSUME Framed, Walkable, Resolve
  PROVE  Grows(heap, heap')
<1>1. CASE Finish
  <2>1. /\ DOMAIN heap' = DOMAIN heap /\ (Top.key = NoKey => heap' = heap)
        /\ Top.key # NoKey =>
             \A j \in DOMAIN heap :
               heap'[j] = IF j = Top.into THEN MergedInto(heap[j], heap[Top.at]) ELSE heap[j]
    BY <1>1, Finished
  <2>2. CASE Top.key = NoKey BY <2>1, <2>2, SameGrows
  <2>3. CASE Top.key # NoKey
    <3>1. \A j \in DOMAIN heap : \A s \in Slots(heap[j]) :
            s \in Slots(heap'[j]) /\ Held(heap'[j], s) = Held(heap[j], s)
      BY <2>1, <2>3, MergeFacts
    <3> QED BY <2>1, <3>1 DEF Grows
  <2> QED BY <2>2, <2>3
<1>2. ASSUME NEW slot, Leave(slot) \/ Descend(slot) PROVE Grows(heap, heap')
  BY <1>2, SameGrows DEF Leave, Descend
<1>3. ASSUME NEW slot, Expand(slot) PROVE Grows(heap, heap')
  <2> DEFINE k == heap[Child(slot)].ref
  <2>1. /\ IsTable(heap') /\ Len(heap') = Len(heap) + Len(defs[k]) /\ IsTable(defs[k])
        /\ \A i \in DOMAIN heap : heap'[i] = heap[i]
    BY <1>3, Expanded
  <2> HIDE DEF k
  <2>2. DOMAIN heap \subseteq DOMAIN heap' BY <2>1, TableFacts DEF Walkable
  <2> QED BY <2>1, <2>2 DEF Grows
<1> QED BY <1>1, <1>2, <1>3 DEF Resolve

LEMMA WalkGoesOn ==
  ASSUME IInv, Walkable, [Resolve]_refVars
  PROVE  Walkable'
<1>0. Framed BY DEF IInv
<1>1. CASE UNCHANGED refVars BY <1>1 DEF refVars, Walkable, defs
<1>2. CASE Resolve
  <2>1. UNCHANGED document /\ defs' = defs
    BY <1>2 DEF Resolve, Finish, Leave, Expand, Descend, defs
  <2>2. \A f : FrameFits(heap, defs, f) => FrameFits(heap', defs, f)
    BY <1>0, <1>2, StepGrows, FitsStill
  <2>3. ASSUME IsTable(heap'), \A i \in 1..Len(stack') : FrameFits(heap', defs, stack'[i])
        PROVE  Walkable'
    BY <2>1, <2>3 DEF Walkable
  <2>4. CASE Finish
    <3>1. /\ IsTable(heap') /\ Len(stack) \in Nat \ {0} /\ Len(stack') = Len(stack) - 1
          /\ \A i \in 1..(Len(stack) - 1) : stack'[i] = stack[i]
      BY <1>0, <2>4, Finished
    <3>2. \A i \in 1..Len(stack') : i \in 1..Len(stack) /\ stack'[i] = stack[i] BY <3>1
    <3> QED BY <2>2, <2>3, <3>1, <3>2 DEF Walkable
  <2>5. ASSUME NEW slot \in Top.todo, Turns(slot)
        PROVE  \A i \in 1..Len(stack) : FrameFits(heap', defs, Walked(slot)[i])
    <3> SUFFICES ASSUME NEW i \in 1..Len(stack) PROVE FrameFits(heap', defs, Walked(slot)[i])
      OBVIOUS
    <3>1. FrameFits(heap', defs, stack[i]) BY <2>2 DEF Walkable
    <3>2. /\ Walked(slot)[i].at = stack[i].at /\ Walked(slot)[i].key = stack[i].key
          /\ Walked(slot)[i].into = stack[i].into
          /\ Walked(slot)[i].todo \subseteq stack[i].todo
      BY <2>5, <1>0, Turning
    <3> QED BY <3>1, <3>2 DEF FrameFits
  <2>6. ASSUME NEW slot \in Top.todo, Leave(slot) PROVE Walkable'
    <3>1. Turns(slot) /\ stack' = Walked(slot) /\ heap' = heap BY <2>6 DEF Leave
    <3>2. Len(stack') = Len(stack) BY <3>1, <1>0, Turning
    <3> QED BY <2>3, <2>5, <3>1, <3>2 DEF Walkable
  <2>7. ASSUME NEW slot \in Top.todo, Turns(slot), NEW f, stack' = Append(Walked(slot), f),
               FrameFits(heap', defs, f), IsTable(heap')
        PROVE  Walkable'
    <3>1. /\ Len(stack') = Len(stack) + 1 /\ stack'[Len(stack) + 1] = f
          /\ \A i \in 1..Len(stack) : stack'[i] = Walked(slot)[i]
          /\ Len(stack) \in Nat
      BY <2>7, <1>0, Entering, Turning
    <3>2. \A i \in 1..Len(stack') : i \in 1..Len(stack) \/ i = Len(stack) + 1 BY <3>1
    <3> QED BY <2>3, <2>5, <2>7, <3>1, <3>2
  <2>8. ASSUME NEW slot \in Top.todo, Expand(slot) PROVE Walkable'
    <3> DEFINE k == heap[Child(slot)].ref
               f == Frame(Len(heap) + 1, heap'[Len(heap) + 1], k, Child(slot))
    <3>1. /\ k \in DOMAIN defs /\ IsTable(defs[k]) /\ IsTable(heap')
          /\ Len(heap') = Len(heap) + Len(defs[k])
          /\ stack' = Append(Walked(slot), f)
      BY <2>8, <1>0, Expanded
    <3>2. Turns(slot) BY <2>8 DEF Expand
    <3>3. Child(slot) \in DOMAIN heap BY <3>2, <1>0, ChildFits
    <3>4. /\ f.at = Len(heap) + 1 /\ f.todo = Slots(heap'[Len(heap) + 1])
          /\ f.key = k /\ f.into = Child(slot)
      BY DEF Frame
    <3> HIDE DEF f, k
    <3>5. Len(heap) + 1 \in DOMAIN heap' /\ DOMAIN heap \subseteq DOMAIN heap'
      BY <3>1, TableFacts DEF Walkable
    <3>6. FrameFits(heap', defs, f) BY <3>1, <3>3, <3>4, <3>5 DEF FrameFits
    <3> QED BY <2>7, <3>1, <3>2, <3>6
  <2>9. ASSUME NEW slot \in Top.todo, Descend(slot) PROVE Walkable'
    <3> DEFINE f == Frame(Child(slot), heap[Child(slot)], NoKey, 0)
    <3>1. Turns(slot) /\ stack' = Append(Walked(slot), f) /\ heap' = heap BY <2>9 DEF Descend
    <3>2. Child(slot) \in DOMAIN heap BY <3>1, <1>0, ChildFits
    <3>3. f.at = Child(slot) /\ f.todo = Slots(heap[Child(slot)]) /\ f.key = NoKey
      BY DEF Frame
    <3> HIDE DEF f
    <3>4. FrameFits(heap', defs, f) BY <3>1, <3>2, <3>3 DEF FrameFits
    <3>5. IsTable(heap') BY <3>1 DEF Walkable
    <3> QED BY <2>7, <3>1, <3>4, <3>5
  <2> QED BY <1>2, <2>4, <2>6, <2>8, <2>9 DEF Resolve
<1> QED BY <1>1, <1>2

-----------------------------------------------------------------------------
(***************************************************************************)
(* Cycles.  While a definition is expanded, every reference that the walk  *)
(* can come across is one that its key leads to.                           *)
(***************************************************************************)
\* NamedBy and the paths of LeadsBack, of any definitions d
NamedIn(d, k) == {n.ref : n \in {m \in {d[k][i] : i \in DOMAIN d[k]} : Has(m, "ref")}}

LeadsTo(d, k, j) ==
  \A S \in SUBSET DOMAIN d :
    /\ NamedIn(d, k) \cap DOMAIN d \subseteq S
    /\ \A i \in S : NamedIn(d, i) \cap DOMAIN d \subseteq S
    => j \in S

LEMMA LeadsFirst ==
  ASSUME NEW d, NEW k, NEW j \in DOMAIN d, j \in NamedIn(d, k)
  PROVE  LeadsTo(d, k, j)
BY DEF LeadsTo

LEMMA LeadsOn ==
  ASSUME NEW d, NEW k, NEW j, NEW l, LeadsTo(d, k, j), LeadsTo(d, j, l)
  PROVE  LeadsTo(d, k, l)
BY DEF LeadsTo

LEMMA LeadsHome ==
  ASSUME NEW k, LeadsTo(defs, k, k)
  PROVE  LeadsBack(k)
BY DEF LeadsTo, LeadsBack, NamedIn, NamedBy

\* The nodes of R hold one another only, and k leads to what they refer to.
Confined(h, d, R, k) ==
  /\ R \subseteq DOMAIN h
  /\ \A j \in R : HeldBy(h[j]) \subseteq R
  /\ \A j \in R : Has(h[j], "ref") /\ h[j].ref \in DOMAIN d => LeadsTo(d, k, h[j].ref)

Under(h, d, at, k) == \E R : Confined(h, d, R, k) /\ at \in R

\* All the walk can reach from inside an expansion is under its key.
Traced ==
  \A e \in Expanding : \A i \in e..Len(stack) :
    Under(heap, defs, stack[i].at, stack[e].key)

CycleInv == Traced /\ CyclesAreReal

LEMMA UnderMore ==
  ASSUME NEW h, NEW g, NEW d, NEW at, NEW k, Under(h, d, at, k),
         DOMAIN h \subseteq DOMAIN g, \A i \in DOMAIN h : g[i] = h[i]
  PROVE  Under(g, d, at, k)
<1>1. PICK R : Confined(h, d, R, k) /\ at \in R BY DEF Under
<1>2. \A j \in R : j \in DOMAIN h /\ g[j] = h[j] BY <1>1 DEF Confined
<1>3. Confined(g, d, R, k) BY <1>1, <1>2 DEF Confined
<1> QED BY <1>1, <1>3 DEF Under

\* What the node from has is merged into another.
Merged(h, g, from, into) ==
  /\ DOMAIN g = DOMAIN h
  /\ \A j \in DOMAIN h : g[j] = IF j = into THEN MergedInto(h[j], h[from]) ELSE h[j]

LEMMA UnderMerge ==
  ASSUME NEW h, NEW g, NEW d, NEW at, NEW from, NEW into, NEW k,
         Under(h, d, at, k), Under(h, d, from, k), Merged(h, g, from, into)
  PROVE  Under(g, d, at, k)
<1>1. PICK R : Confined(h, d, R, k) /\ at \in R BY DEF Under
<1>2. PICK Q : Confined(h, d, Q, k) /\ from \in Q BY DEF Under
<1> DEFINE S == R \cup Q
<1>3. S \subseteq DOMAIN g BY <1>1, <1>2 DEF Confined, Merged
<1>4. ASSUME NEW j \in S
      PROVE  /\ HeldBy(g[j]) \subseteq S
             /\ Has(g[j], "ref") /\ g[j].ref \in DOMAIN d => LeadsTo(d, k, g[j].ref)
  <2>1. /\ j \in DOMAIN h /\ HeldBy(h[j]) \subseteq S
        /\ Has(h[j], "ref") /\ h[j].ref \in DOMAIN d => LeadsTo(d, k, h[j].ref)
    BY <1>1, <1>2 DEF Confined
  <2>2. /\ HeldBy(h[from]) \subseteq S
        /\ Has(h[from], "ref") /\ h[from].ref \in DOMAIN d => LeadsTo(d, k, h[from].ref)
    BY <1>2 DEF Confined
  <2>3. CASE j # into
    <3>1. g[j] = h[j] BY <2>1, <2>3 DEF Merged
    <3> QED BY <2>1, <3>1
  <2>4. CASE j = into
    <3>1. g[j] = MergedInto(h[j], h[from]) BY <2>1, <2>4 DEF Merged
    <3>2. /\ HeldBy(g[j]) \subseteq HeldBy(h[j]) \cup HeldBy(h[from])
          /\ Has(g[j], "ref") <=> Has(h[from], "ref")
          /\ Has(h[from], "ref") => g[j].ref = h[from].ref
      BY <3>1, MergeFacts
    <3> QED BY <2>1, <2>2, <3>2
  <2> QED BY <2>3, <2>4
<1>5. Confined(g, d, S, k) BY <1>3, <1>4 DEF Confined
<1> QED BY <1>1, <1>5 DEF Under

\* What has been copied has the references of its definition.
LEMMA UnderCopy ==
  ASSUME NEW h, NEW d, NEW k, NEW j \in DOMAIN d, IsTable(d[j]), NEW n \in Nat,
         DOMAIN h = 1..(n + Len(d[j])), k = j \/ LeadsTo(d, k, j),
         \A x \in DOMAIN d[j] : SameAs(h[n + x], d[j][x], n)
  PROVE  Under(h, d, n + 1, k)
<1> DEFINE t == d[j]
           R == {n + x : x \in DOMAIN t}
<1>1. /\ Len(t) \in Nat \ {0} /\ DOMAIN t = 1..Len(t) /\ 1 \in DOMAIN t
      /\ \A i \in DOMAIN t : HeldBy(t[i]) \subseteq DOMAIN t
  BY TableFacts
<1>2. R \subseteq DOMAIN h BY <1>1
<1>3. ASSUME NEW x \in DOMAIN t
      PROVE  /\ HeldBy(h[n + x]) \subseteq R
             /\ Has(h[n + x], "ref") /\ h[n + x].ref \in DOMAIN d => LeadsTo(d, k, h[n + x].ref)
  <2>1. SameAs(h[n + x], t[x], n) OBVIOUS
  <2>2. HeldBy(h[n + x]) = {n + c : c \in HeldBy(t[x])} BY <2>1 DEF SameAs
  <2>3. HeldBy(h[n + x]) \subseteq R BY <1>1, <2>2
  <2>4. ASSUME Has(h[n + x], "ref"), h[n + x].ref \in DOMAIN d
        PROVE  LeadsTo(d, k, h[n + x].ref)
    <3>1. Has(t[x], "ref") /\ t[x].ref = h[n + x].ref BY <2>1, <2>4 DEF SameAs
    <3>2. h[n + x].ref \in NamedIn(d, j) BY <3>1 DEF NamedIn
    <3>3. LeadsTo(d, j, h[n + x].ref) BY <3>2, <2>4, LeadsFirst
    <3> QED BY <3>3, LeadsOn
  <2> QED BY <2>3, <2>4
<1>4. Confined(h, d, R, k) BY <1>2, <1>3 DEF Confined
<1>5. n + 1 \in R BY <1>1
<1> QED BY <1>4, <1>5 DEF Under

LEMMA TracedStart == RefInit => CycleInv
<1> SUFFICES ASSUME RefInit PROVE CycleInv OBVIOUS
<1>1. PICK table \in Tables : RefStart(table) BY DEF RefInit
<1> DEFINE f == Frame(1, table.nodes[1], NoKey, 0)
<1>2. f.key = NoKey BY DEF Frame
<1> HIDE DEF f
<1>3. stack = <<>> \/ stack = <<f>> BY <1>1 DEF RefStart, f
<1>4. Expanding = {} BY <1>2, <1>3 DEF Expanding
<1>5. CyclesAreReal BY DEF RefInit, CyclesAreReal
<1> QED BY <1>4, <1>5 DEF CycleInv, Traced

\* The child that the walk turns to is as far from the keys as the top is.
LEMMA ChildTraced ==
  ASSUME Framed, Walkable, Traced, NEW slot, Turns(slot), NEW e \in Expanding
  PROVE  /\ Under(heap, defs, Child(slot), stack[e].key)
         /\ Has(heap[Child(slot)], "ref") /\ heap[Child(slot)].ref \in DOMAIN defs =>
              LeadsTo(defs, stack[e].key, heap[Child(slot)].ref)
<1>1. /\ Len(stack) \in Nat \ {0} /\ DOMAIN stack = 1..Len(stack)
      /\ Top = stack[Len(stack)]
  BY Turning
<1>2. Len(stack) \in e..Len(stack) BY <1>1 DEF Expanding
<1>3. Under(heap, defs, Top.at, stack[e].key) BY <1>1, <1>2 DEF Traced
<1>4. PICK R : Confined(heap, defs, R, stack[e].key) /\ Top.at \in R BY <1>3 DEF Under
<1>5. Child(slot) \in HeldBy(heap[Top.at]) BY ChildFits
<1>6. Child(slot) \in R BY <1>4, <1>5 DEF Confined
<1> QED BY <1>4, <1>6 DEF Confined, Under

LEMMA TracedOn ==
  ASSUME IInv, Walkable, Traced, [Resolve]_refVars
  PROVE  Traced'
<1>0. Framed BY DEF IInv
<1>1. CASE UNCHANGED refVars BY <1>1 DEF refVars, Traced, Expanding, defs
<1>2. CASE Resolve
  <2>1. defs' = defs
    BY <1>2 DEF Resolve, Finish, Leave, Expand, Descend, defs
  <2>2. CASE Finish
    <3>1. /\ Len(stack) \in Nat \ {0} /\ Top = stack[Len(stack)]
          /\ FrameFits(heap, defs, Top)
          /\ Len(stack') = Len(stack) - 1 /\ DOMAIN stack' = 1..(Len(stack) - 1)
          /\ \A i \in 1..(Len(stack) - 1) : stack'[i] = stack[i]
          /\ DOMAIN heap' = DOMAIN heap
          /\ Top.key = NoKey => heap' = heap
          /\ Top.key # NoKey =>
               \A j \in DOMAIN heap :
                 heap'[j] = IF j = Top.into THEN MergedInto(heap[j], heap[Top.at]) ELSE heap[j]
      BY <1>0, <2>2, Finished
    <3>2. ASSUME NEW e \in Expanding', NEW i \in e..Len(stack')
          PROVE  Under(heap', defs', stack'[i].at, stack'[e].key)
      <4>1. e \in 1..(Len(stack) - 1) /\ i \in 1..(Len(stack) - 1) BY <3>1 DEF Expanding
      <4>2. stack'[e] = stack[e] /\ stack'[i] = stack[i] BY <3>1, <4>1
      <4>3. e \in Expanding
        <5>1. e \in DOMAIN stack /\ stack'[e].key # NoKey BY <1>0, <4>1, <3>1 DEF Expanding, Framed, IsStack
        <5> QED BY <5>1, <4>2 DEF Expanding
      <4>4. i \in e..Len(stack) /\ Len(stack) \in e..Len(stack) BY <3>1, <4>1
      <4>5. /\ Under(heap, defs, stack[i].at, stack[e].key)
            /\ Under(heap, defs, Top.at, stack[e].key)
        BY <3>1, <4>3, <4>4 DEF Traced
      <4>6. Under(heap', defs, stack[i].at, stack[e].key)
        <5>1. CASE Top.key = NoKey BY <5>1, <3>1, <4>5
        <5>2. CASE Top.key # NoKey
          <6>1. Merged(heap, heap', Top.at, Top.into) BY <5>2, <3>1 DEF Merged
          <6> QED BY <6>1, <4>5, UnderMerge
        <5> QED BY <5>1, <5>2
      <4> QED BY <2>1, <4>2, <4>6
    <3> QED BY <3>2 DEF Traced
  <2>3. ASSUME NEW slot \in Top.todo, Leave(slot) PROVE Traced'
    <3>1. Turns(slot) /\ stack' = Walked(slot) /\ heap' = heap BY <2>3 DEF Leave
    <3>2. /\ Len(stack) \in Nat \ {0} /\ DOMAIN stack = 1..Len(stack) /\ Len(stack') = Len(stack)
          /\ DOMAIN stack' = 1..Len(stack')
          /\ \A i \in 1..Len(stack) :
               stack'[i].at = stack[i].at /\ stack'[i].key = stack[i].key
      <4>1. /\ Len(stack) \in Nat \ {0} /\ DOMAIN stack = 1..Len(stack)
            /\ DOMAIN Walked(slot) = 1..Len(stack) /\ Len(Walked(slot)) = Len(stack)
            /\ \A i \in 1..Len(stack) :
                 Walked(slot)[i].at = stack[i].at /\ Walked(slot)[i].key = stack[i].key
        BY <1>0, <3>1, Turning
      <4> QED BY <3>1, <4>1
    <3>3. Expanding' = Expanding BY <3>2 DEF Expanding
    <3>4. ASSUME NEW e \in Expanding, NEW i \in e..Len(stack)
          PROVE  Under(heap', defs', stack'[i].at, stack'[e].key)
      <4>1. e \in 1..Len(stack) /\ i \in 1..Len(stack) BY <3>2 DEF Expanding
      <4>2. Under(heap, defs, stack[i].at, stack[e].key) BY DEF Traced
      <4> QED BY <2>1, <3>1, <3>2, <4>1, <4>2
    <3> QED BY <3>2, <3>3, <3>4 DEF Traced
  \* The step pushes the frame f.
  <2>4. ASSUME NEW slot \in Top.todo, Turns(slot), NEW f, stack' = Append(Walked(slot), f),
               DOMAIN heap \subseteq DOMAIN heap', \A j \in DOMAIN heap : heap'[j] = heap[j],
               \A e \in Expanding : Under(heap', defs, f.at, stack[e].key),
               f.key # NoKey => Under(heap', defs, f.at, f.key)
        PROVE  Traced'
    <3>1. /\ Len(stack) \in Nat \ {0} /\ DOMAIN stack = 1..Len(stack)
          /\ Len(stack') = Len(stack) + 1 /\ stack'[Len(stack) + 1] = f
          /\ DOMAIN stack' = 1..(Len(stack) + 1)
          /\ \A i \in 1..Len(stack) :
               stack'[i].at = stack[i].at /\ stack'[i].key = stack[i].key
      <4>1. /\ Len(stack) \in Nat \ {0} /\ DOMAIN stack = 1..Len(stack)
            /\ \A i \in 1..Len(stack) :
                 Walked(slot)[i].at = stack[i].at /\ Walked(slot)[i].key = stack[i].key
        BY <1>0, <2>4, Turning
      <4>2. /\ Len(stack') = Len(stack) + 1 /\ stack'[Len(stack) + 1] = f
            /\ DOMAIN stack' = 1..(Len(stack) + 1)
            /\ \A i \in 1..Len(stack) : stack'[i] = Walked(slot)[i]
        BY <1>0, <2>4, Entering
      <4> QED BY <4>1, <4>2
    <3>2. ASSUME NEW e \in Expanding', NEW i \in e..Len(stack')
          PROVE  Under(heap', defs', stack'[i].at, stack'[e].key)
      <4>1. e \in 1..(Len(stack) + 1) /\ stack'[e].key # NoKey BY <3>1 DEF Expanding
      <4>2. CASE e = Len(stack) + 1
        <5>1. i = e BY <4>2, <3>1
        <5> QED BY <2>1, <2>4, <3>1, <4>1, <4>2, <5>1
      <4>3. CASE e # Len(stack) + 1
        <5>1. e \in 1..Len(stack) BY <4>1, <4>3, <3>1
        <5>2. e \in Expanding /\ stack'[e].key = stack[e].key BY <5>1, <3>1, <4>1 DEF Expanding
        <5>3. CASE i = Len(stack) + 1 BY <2>1, <2>4, <3>1, <5>2, <5>3
        <5>4. CASE i # Len(stack) + 1
          <6>1. i \in e..Len(stack) /\ i \in 1..Len(stack) BY <5>1, <5>4, <3>1
          <6>2. Under(heap, defs, stack[i].at, stack[e].key) BY <5>2, <6>1 DEF Traced
          <6>3. Under(heap', defs, stack[i].at, stack[e].key) BY <2>4, <6>2, UnderMore
          <6> QED BY <2>1, <3>1, <5>2, <6>1, <6>3
        <5> QED BY <5>3, <5>4
      <4> QED BY <4>2, <4>3
    <3> QED BY <3>2 DEF Traced
  <2>5. ASSUME NEW slot \in Top.todo, Expand(slot) PROVE Traced'
    <3> DEFINE k == heap[Child(slot)].ref
               f == Frame(Len(heap) + 1, heap'[Len(heap) + 1], k, Child(slot))
    <3>1. /\ k \in DOMAIN defs /\ IsTable(defs[k]) /\ IsTable(heap')
          /\ Len(heap') = Len(heap) + Len(defs[k])
          /\ \A i \in DOMAIN heap : heap'[i] = heap[i]
          /\ \A x \in DOMAIN defs[k] : SameAs(heap'[Len(heap) + x], defs[k][x], Len(heap))
          /\ stack' = Append(Walked(slot), f)
      BY <1>0, <2>5, Expanded
    <3>2. Turns(slot) /\ Has(heap[Child(slot)], "ref") BY <2>5 DEF Expand
    <3>3. f.at = Len(heap) + 1 /\ f.key = k BY DEF Frame
    <3>4. \A e \in Expanding : LeadsTo(defs, stack[e].key, k) BY <1>0, <3>1, <3>2, ChildTraced
    <3> HIDE DEF f, k
    <3>5. Len(heap) \in Nat /\ DOMAIN heap' = 1..(Len(heap) + Len(defs[k]))
          /\ DOMAIN heap \subseteq DOMAIN heap'
      BY <3>1, TableFacts DEF Walkable
    <3>6. \A key : key = k \/ LeadsTo(defs, key, k) => Under(heap', defs, Len(heap) + 1, key)
      BY <3>1, <3>5, UnderCopy
    <3> QED BY <2>4, <3>1, <3>2, <3>3, <3>4, <3>5, <3>6
  <2>6. ASSUME NEW slot \in Top.todo, Descend(slot) PROVE Traced'
    <3> DEFINE f == Frame(Child(slot), heap[Child(slot)], NoKey, 0)
    <3>1. Turns(slot) /\ stack' = Append(Walked(slot), f) /\ heap' = heap BY <2>6 DEF Descend
    <3>2. f.at = Child(slot) /\ f.key = NoKey BY DEF Frame
    <3> HIDE DEF f
    <3>3. \A e \in Expanding : Under(heap, defs, Child(slot), stack[e].key)
      BY <1>0, <3>1, ChildTraced
    <3> QED BY <2>4, <3>1, <3>2, <3>3
  <2> QED BY <1>2, <2>2, <2>3, <2>5, <2>6 DEF Resolve
<1> QED BY <1>1, <1>2

LEMMA CyclesOn ==
  ASSUME IInv, Walkable, CycleInv, [Resolve]_refVars
  PROVE  CycleInv'
<1>0. Framed /\ Traced /\ CyclesAreReal /\ ExpansionsAreNested BY DEF IInv, CycleInv
<1>1. Traced' BY <1>0, TracedOn
<1>2. defs' = defs
  BY DEF Resolve, Finish, Leave, Expand, Descend, defs, refVars
<1>3. \A k : LeadsBack(k)' <=> LeadsBack(k) BY <1>2 DEF LeadsBack, NamedBy
<1>4. ASSUME UNCHANGED warned PROVE CyclesAreReal'
  BY <1>0, <1>3, <1>4 DEF CyclesAreReal
<1>5. ASSUME NEW slot \in Top.todo, Leave(slot) PROVE CyclesAreReal'
  <2> DEFINE r == heap[Child(slot)].ref
  <2>1. /\ Turns(slot) /\ Has(heap[Child(slot)], "ref")
        /\ warned' = warned \cup {<<Objection(r), r>>}
    BY <1>5 DEF Leave
  <2>2. ASSUME Objection(r) = "cyclic" PROVE LeadsBack(r)
    <3>1. r \in DOMAIN defs /\ r \in visited BY <2>2 DEF Objection
    <3>2. PICK e \in Expanding : r = stack[e].key BY <1>0, <3>1 DEF ExpansionsAreNested
    <3>3. LeadsTo(defs, stack[e].key, r) BY <1>0, <2>1, <3>1, ChildTraced
    <3> QED BY <3>2, <3>3, LeadsHome
  <2> HIDE DEF r
  <2>3. ASSUME NEW k \in DefKeys, <<"cyclic", k>> \in warned' PROVE LeadsBack(k)
    <3>1. CASE <<"cyclic", k>> \in warned BY <3>1, <1>0 DEF CyclesAreReal
    <3>2. CASE <<"cyclic", k>> = <<Objection(r), r>> BY <3>2, <2>2
    <3> QED BY <2>1, <2>3, <3>1, <3>2
  <2> QED BY <1>3, <2>3 DEF CyclesAreReal
<1>6. CyclesAreReal'
  <2>1. CASE UNCHANGED refVars BY <2>1, <1>4 DEF refVars
  <2>2. CASE Finish BY <2>2, <1>4 DEF Finish
  <2>3. ASSUME NEW slot \in Top.todo, Expand(slot) \/ Descend(slot) PROVE CyclesAreReal'
    BY <2>3, <1>4 DEF Expand, Descend
  <2> QED BY <1>5, <2>1, <2>2, <2>3 DEF Resolve
<1> QED BY <1>1, <1>6 DEF CycleInv

-----------------------------------------------------------------------------
(***************************************************************************)
(* Leftovers.  At any time there is a set of nodes, that of the whole      *)
(* schema among them, that the walk has dealt with: what they hold is in   *)
(* the set or still to be turned to, and their references are warned of,   *)
(* excused or being expanded.  A node outside is as it was copied.         *)
(***************************************************************************)
Excused == {w[2] : w \in warned} \cup Aliases \cup HeldBesideARef

\* A frame of the stack st has still to turn to the node c.
Awaits(h, st, c) == \E i \in DOMAIN st : \E s \in st[i].todo : c = Held(h[st[i].at], s)

\* The reference r of the node j is of A, or is being expanded into it.
Explained(st, A, j, r) ==
  r \in A \/ \E i \in DOMAIN st : st[i].key # NoKey /\ st[i].into = j /\ st[i].key = r

\* The table t has been put behind n nodes; outside D it is as it was.
Block(h, D, t, n) ==
  n \in Nat /\ \A y \in DOMAIN t : n + y \in DOMAIN h /\ (n + y \in D \/ SameAs(h[n + y], t[y], n))

Untouched(h, D, O, j) == \E t \in O : \E n \in Nat : \E x \in DOMAIN t : j = n + x /\ Block(h, D, t, n)

\* A copy whose root is a reference leaves that of an alias, which is of B.
FrameDealt(h, D, B, f) ==
  /\ f.at \in D
  /\ f.key # NoKey => f.into \in D /\ (Has(h[f.at], "ref") => h[f.at].ref \in B)

Dealt(h, st, A, B, O, D) ==
  /\ D \subseteq DOMAIN h /\ 1 \in D
  /\ \A i \in DOMAIN st : FrameDealt(h, D, B, st[i])
  /\ \A j \in D : \A c \in HeldBy(h[j]) : c \in D \/ Awaits(h, st, c)
  /\ \A j \in D \ {1} : Has(h[j], "ref") => Explained(st, A, j, h[j].ref)
  /\ \A j \in DOMAIN h \ D : Untouched(h, D, O, j)

LeftInv ==
  document.hasDefs => \E D : Dealt(heap, stack, Excused, Aliases, Originals, D)

LEMMA BelowFacts ==
  ASSUME NEW t, IsTable(t), NEW i \in DOMAIN t
  PROVE  /\ i \in Below(t, i) /\ Below(t, i) \subseteq DOMAIN t
         /\ \A j \in Below(t, i) : HeldBy(t[j]) \subseteq Below(t, i)
<1> DEFINE whole == {S \in SUBSET DOMAIN t : i \in S /\ \A j \in S : HeldBy(t[j]) \subseteq S}
<1>1. Below(t, i) = {j \in DOMAIN t : \A S \in whole : j \in S} BY DEF Below
<1>2. \A j \in DOMAIN t : HeldBy(t[j]) \subseteq DOMAIN t BY TableFacts
<1>3. ASSUME NEW j \in Below(t, i), NEW c \in HeldBy(t[j]) PROVE c \in Below(t, i)
  <2>1. j \in DOMAIN t /\ c \in DOMAIN t BY <1>1, <1>2, <1>3
  <2>2. \A S \in whole : c \in S BY <1>1, <1>3
  <2> QED BY <1>1, <2>1, <2>2
<1> QED BY <1>1, <1>3

LEMMA BelowWithin ==
  ASSUME NEW t, NEW i, NEW D, D \subseteq DOMAIN t, i \in D,
         \A j \in D : HeldBy(t[j]) \subseteq D
  PROVE  Below(t, i) \subseteq D
BY DEF Below

LEMMA NoneHeld ==
  ASSUME NEW b, Slots(b) = {}
  PROVE  HeldBy(b) = {}
BY DEF HeldBy

\* The nodes that are dealt with when a node with a reference is: those below
\* it, which the walk does not come to, and which it has had from the first.
Closing(h, D, H, c, E) ==
  /\ c \in E /\ E \subseteq DOMAIN h
  /\ \A j \in E \ D : HeldBy(h[j]) \subseteq E
  /\ \A j \in E \ D : j # c /\ Has(h[j], "ref") => h[j].ref \in H

LEMMA BesideARef ==
  ASSUME NEW t \in Originals, NEW x \in DOMAIN t, Has(t[x], "ref"), Slots(t[x]) # {},
         NEW y \in Below(t, x), y # x, Has(t[y], "ref")
  PROVE  t[y].ref \in HeldBesideARef
<1>1. t[y].ref \in RefsBelow(t, x) BY DEF RefsBelow
<1>2. x \in {j \in DOMAIN t : Has(t[j], "ref") /\ Slots(t[j]) # {}} OBVIOUS
<1> QED BY <1>1, <1>2 DEF HeldBesideARef

LEMMA Closes ==
  ASSUME NEW h, NEW D, D \subseteq DOMAIN h, NEW c \in DOMAIN h, Has(h[c], "ref"),
         \A t \in Originals : IsTable(t),
         \A j \in DOMAIN h \ D : Untouched(h, D, Originals, j)
  PROVE  \E E : Closing(h, D, HeldBesideARef, c, E)
<1>1. CASE c \in D
  <2>1. Closing(h, D, HeldBesideARef, c, {c}) BY <1>1 DEF Closing
  <2> QED BY <2>1
<1>2. CASE c \notin D
  <2>1. Untouched(h, D, Originals, c) BY <1>2
  <2>2. PICK t \in Originals : \E n \in Nat : \E x \in DOMAIN t : c = n + x /\ Block(h, D, t, n)
    BY <2>1 DEF Untouched
  <2>3. PICK n \in Nat : \E x \in DOMAIN t : c = n + x /\ Block(h, D, t, n) BY <2>2
  <2>4. PICK x \in DOMAIN t : c = n + x /\ Block(h, D, t, n) BY <2>3
  <2>5. IsTable(t) BY <2>4
  <2> DEFINE E == {n + y : y \in Below(t, x)}
  <2>6. /\ x \in Below(t, x) /\ Below(t, x) \subseteq DOMAIN t
        /\ \A j \in Below(t, x) : HeldBy(t[j]) \subseteq Below(t, x)
    BY <2>4, <2>5, BelowFacts
  <2>7. c \in E /\ E \subseteq DOMAIN h BY <2>4, <2>6 DEF Block
  <2>8. SameAs(h[c], t[x], n) BY <1>2, <2>4 DEF Block
  <2>9. Has(t[x], "ref") BY <2>8 DEF SameAs
  <2>10. ASSUME NEW y \in Below(t, x), n + y \notin D
        PROVE  /\ HeldBy(h[n + y]) \subseteq E
               /\ n + y # c /\ Has(h[n + y], "ref") => h[n + y].ref \in HeldBesideARef
    <3>1. y \in DOMAIN t BY <2>6
    <3>2. SameAs(h[n + y], t[y], n) BY <3>1, <2>4, <2>10 DEF Block
    <3>3. HeldBy(h[n + y]) \subseteq E BY <3>2, <2>6 DEF SameAs
    <3>4. ASSUME n + y # c, Has(h[n + y], "ref") PROVE h[n + y].ref \in HeldBesideARef
      <4>1. y # x BY <3>4, <2>4
      <4>2. Has(t[y], "ref") /\ h[n + y].ref = t[y].ref BY <3>2, <3>4 DEF SameAs
      <4>3. Slots(t[x]) # {}
        <5> SUFFICES ASSUME Slots(t[x]) = {} PROVE FALSE OBVIOUS
        <5>1. HeldBy(t[x]) = {} BY NoneHeld
        <5>2. Below(t, x) \subseteq {x}
          <6> DEFINE X == {x}
          <6>1. X \subseteq DOMAIN t /\ x \in X /\ \A j \in X : HeldBy(t[j]) \subseteq X
            BY <5>1
          <6> HIDE DEF X
          <6>2. Below(t, x) \subseteq X BY <6>1, BelowWithin
          <6> QED BY <6>2 DEF X
        <5> QED BY <5>2, <4>1
      <4> QED BY <4>1, <4>2, <4>3, <2>9, BesideARef
    <3> QED BY <3>3, <3>4
  <2>11. Closing(h, D, HeldBesideARef, c, E) BY <2>7, <2>10 DEF Closing
  <2> QED BY <2>11
<1> QED BY <1>1, <1>2

LEMMA BlockStays ==
  ASSUME NEW h, NEW g, NEW D, NEW N, NEW O, NEW j, Untouched(h, D, O, j),
         D \subseteq N, DOMAIN h \subseteq DOMAIN g,
         \A i \in DOMAIN h : i \notin D => g[i] = h[i]
  PROVE  Untouched(g, N, O, j)
<1>1. PICK t \in O : \E n \in Nat : \E x \in DOMAIN t : j = n + x /\ Block(h, D, t, n)
  BY DEF Untouched
<1>2. PICK n \in Nat : \E x \in DOMAIN t : j = n + x /\ Block(h, D, t, n) BY <1>1
<1>3. Block(g, N, t, n) BY <1>2 DEF Block
<1> QED BY <1>2, <1>3 DEF Untouched

\* What waits for the walk still does after a step, or it is the child it turns to.
LEMMA AwaitsWalked ==
  ASSUME Framed, NEW slot, Turns(slot), NEW c, Awaits(heap, stack, c)
  PROVE  c = Child(slot) \/ Awaits(heap, Walked(slot), c)
<1>0. PICK i \in DOMAIN stack : \E s \in stack[i].todo : c = Held(heap[stack[i].at], s)
  BY DEF Awaits
<1>1. PICK s \in stack[i].todo : c = Held(heap[stack[i].at], s) BY <1>0
<1>2. /\ Len(stack) \in Nat \ {0} /\ DOMAIN stack = 1..Len(stack)
      /\ Top = stack[Len(stack)]
      /\ DOMAIN Walked(slot) = 1..Len(stack)
      /\ Walked(slot)[i].at = stack[i].at
      /\ Walked(slot)[i].todo = IF i = Len(stack) THEN stack[i].todo \ {slot} ELSE stack[i].todo
  <2>1. DOMAIN stack = 1..Len(stack) BY Turning
  <2>2. i \in 1..Len(stack) BY <1>0, <2>1
  <2> QED BY <2>1, <2>2, Turning
<1>3. i \in DOMAIN Walked(slot) BY <1>0, <1>2
<1>4. CASE i = Len(stack) /\ s = slot
  BY <1>1, <1>2, <1>4 DEF Child
<1>5. CASE ~(i = Len(stack) /\ s = slot)
  <2>1. s \in Walked(slot)[i].todo BY <1>1, <1>2, <1>5
  <2> QED BY <2>1, <1>1, <1>2, <1>3 DEF Awaits
<1> QED BY <1>4, <1>5

LEMMA AwaitsGrown ==
  ASSUME NEW h, NEW g, NEW d, NEW st, NEW c, Grows(h, g), Awaits(h, st, c),
         \A i \in DOMAIN st : FrameFits(h, d, st[i])
  PROVE  Awaits(g, st, c)
<1>0. PICK i \in DOMAIN st : \E s \in st[i].todo : c = Held(h[st[i].at], s) BY DEF Awaits
<1>1. PICK s \in st[i].todo : c = Held(h[st[i].at], s) BY <1>0
<1>2. Held(g[st[i].at], s) = Held(h[st[i].at], s) BY <1>1 DEF FrameFits, Grows
<1> QED BY <1>1, <1>2 DEF Awaits

LEMMA AwaitsPushed ==
  ASSUME NEW h, NEW s, NEW st, NEW c, Awaits(h, s, c), DOMAIN s \subseteq DOMAIN st,
         \A i \in DOMAIN s : st[i] = s[i]
  PROVE  Awaits(h, st, c)
BY DEF Awaits

LEMMA LeftStart == RefInit => LeftInv
<1> SUFFICES ASSUME RefInit, document.hasDefs PROVE LeftInv BY DEF LeftInv
<1>1. PICK table \in Tables : RefStart(table) BY DEF RefInit
<1> DEFINE f == Frame(1, table.nodes[1], NoKey, 0)
<1>2. /\ IsTable(table.nodes) /\ heap = table.nodes /\ document = table
      /\ stack = <<f>>
  BY <1>1, TablesAssumption DEF RefStart
<1>3. f.at = 1 /\ f.todo = Slots(table.nodes[1]) /\ f.key = NoKey BY DEF Frame
<1> HIDE DEF f
<1>4. DOMAIN stack = {1} /\ stack[1] = f BY <1>2
<1>5. 1 \in DOMAIN heap /\ DOMAIN heap \subseteq Nat
      /\ \A j \in DOMAIN heap : HeldBy(heap[j]) \subseteq DOMAIN heap
  BY <1>2, TableFacts
<1>6. \A c \in HeldBy(heap[1]) : Awaits(heap, stack, c)
  BY <1>2, <1>3, <1>4 DEF Awaits, HeldBy
<1>7. ASSUME NEW y \in DOMAIN heap PROVE SameAs(heap[0 + y], heap[y], 0)
  <2>1. heap[0 + y] = heap[y] BY <1>5
  <2>2. HeldBy(heap[y]) \subseteq Nat BY <1>5
  <2>3. HeldBy(heap[y]) = {0 + c : c \in HeldBy(heap[y])} BY <2>2
  <2> QED BY <2>1, <2>3 DEF SameAs
<1>8. ASSUME NEW j \in DOMAIN heap PROVE Untouched(heap, {1}, Originals, j)
  <2>1. \A y \in DOMAIN heap : 0 + y \in DOMAIN heap BY <1>5
  <2>2. Block(heap, {1}, heap, 0) BY <1>7, <2>1 DEF Block
  <2>3. j = 0 + j /\ heap \in Originals BY <1>2, <1>5 DEF Originals
  <2> QED BY <2>2, <2>3 DEF Untouched
<1>9. Dealt(heap, stack, Excused, Aliases, Originals, {1})
  BY <1>3, <1>4, <1>5, <1>6, <1>8 DEF Dealt, FrameDealt
<1> QED BY <1>9 DEF LeftInv

\* A step that turns to a slot: what the nodes of D hold stays dealt with.
LEMMA LeaveDeals ==
  ASSUME Framed, Walkable, NEW slot, Leave(slot), NEW D,
         Dealt(heap, stack, Excused, Aliases, Originals, D)
  PROVE  \E N : Dealt(heap', stack', Excused', Aliases', Originals', N)
<1> DEFINE c == Child(slot)
           r == heap[c].ref
<1>1. /\ Turns(slot) /\ Has(heap[c], "ref") /\ stack' = Walked(slot)
      /\ heap' = heap /\ document' = document
      /\ warned' = warned \cup {<<Objection(r), r>>}
  BY DEF Leave
<1>2. /\ Aliases' = Aliases /\ Originals' = Originals /\ HeldBesideARef' = HeldBesideARef
  BY <1>1 DEF Aliases, Originals, HeldBesideARef, defs
<1>3. Excused \subseteq Excused' /\ r \in Excused' /\ HeldBesideARef \subseteq Excused'
  <2>1. <<Objection(r), r>> \in warned' /\ <<Objection(r), r>>[2] = r BY <1>1
  <2>2. r \in {w[2] : w \in warned'} BY <2>1
  <2> HIDE DEF r
  <2>3. warned \subseteq warned' BY <1>1
  <2> QED BY <2>2, <2>3, <1>2 DEF Excused
<1>4. c \in DOMAIN heap BY <1>1, ChildFits
<1>5. \A t \in Originals : IsTable(t) BY DefTables DEF Walkable, Originals
<1>6. /\ D \subseteq DOMAIN heap /\ 1 \in D
      /\ \A i \in DOMAIN stack : FrameDealt(heap, D, Aliases, stack[i])
      /\ \A j \in D : \A d \in HeldBy(heap[j]) : d \in D \/ Awaits(heap, stack, d)
      /\ \A j \in D \ {1} : Has(heap[j], "ref") => Explained(stack, Excused, j, heap[j].ref)
      /\ \A j \in DOMAIN heap \ D : Untouched(heap, D, Originals, j)
  BY DEF Dealt
<1>7. PICK E : Closing(heap, D, HeldBesideARef, c, E) BY <1>1, <1>4, <1>5, <1>6, Closes
<1>8. PICK N : N = D \cup E OBVIOUS
<1>9. N \subseteq DOMAIN heap /\ 1 \in N /\ D \subseteq N /\ c \in N
  BY <1>6, <1>7, <1>8 DEF Closing
<1>10. /\ DOMAIN stack' = DOMAIN stack
       /\ \A i \in DOMAIN stack : /\ stack'[i].at = stack[i].at /\ stack'[i].key = stack[i].key
                                  /\ stack'[i].into = stack[i].into
  <2>1. /\ DOMAIN stack = 1..Len(stack) /\ DOMAIN Walked(slot) = 1..Len(stack)
        /\ \A i \in 1..Len(stack) :
             /\ Walked(slot)[i].at = stack[i].at /\ Walked(slot)[i].key = stack[i].key
             /\ Walked(slot)[i].into = stack[i].into
    BY <1>1, Turning
  <2> QED BY <2>1, <1>1
<1> HIDE DEF c, r
<1>11. ASSUME NEW i \in DOMAIN stack' PROVE FrameDealt(heap, N, Aliases, stack'[i])
  BY <1>6, <1>9, <1>10 DEF FrameDealt
<1>12. ASSUME NEW j \in N, NEW d \in HeldBy(heap[j]) PROVE d \in N \/ Awaits(heap, stack', d)
  <2>1. CASE j \in D
    <3>1. CASE d \in D BY <3>1, <1>9
    <3>2. CASE Awaits(heap, stack, d)
      <4>1. d = Child(slot) \/ Awaits(heap, Walked(slot), d) BY <3>2, <1>1, AwaitsWalked
      <4> QED BY <4>1, <1>1, <1>9 DEF c
    <3> QED BY <2>1, <3>1, <3>2, <1>6
  <2>2. CASE j \in E \ D BY <2>2, <1>7, <1>8 DEF Closing
  <2> QED BY <2>1, <2>2, <1>8
<1>13. ASSUME NEW j \in N \ {1}, Has(heap[j], "ref")
       PROVE  Explained(stack', Excused', j, heap[j].ref)
  <2>1. CASE j \in D
    <3>1. Explained(stack, Excused, j, heap[j].ref) BY <2>1, <1>6, <1>13
    <3> QED BY <3>1, <1>3, <1>10 DEF Explained
  <2>2. CASE j = c
    <3>1. heap[j].ref = r BY <2>2 DEF r
    <3> QED BY <3>1, <1>3 DEF Explained
  <2>3. CASE j \in E \ D /\ j # c
    <3>1. heap[j].ref \in HeldBesideARef BY <2>3, <1>7, <1>13 DEF Closing
    <3> QED BY <3>1, <1>3 DEF Explained
  <2> QED BY <2>1, <2>2, <2>3, <1>8
<1>14. ASSUME NEW j \in DOMAIN heap \ N PROVE Untouched(heap, N, Originals, j)
  <2>1. Untouched(heap, D, Originals, j) BY <1>6, <1>9
  <2> QED BY <2>1, <1>9, BlockStays
<1>15. Dealt(heap, stack', Excused', Aliases, Originals, N)
  BY <1>9, <1>11, <1>12, <1>13, <1>14 DEF Dealt
<1> QED BY <1>1, <1>2, <1>15

LEMMA DescendDeals ==
  ASSUME Framed, Walkable, NEW slot, Descend(slot), NEW D,
         Dealt(heap, stack, Excused, Aliases, Originals, D)
  PROVE  \E N : Dealt(heap', stack', Excused', Aliases', Originals', N)
<1> DEFINE c == Child(slot)
           f == Frame(c, heap[c], NoKey, 0)
           n == Len(stack)
<1>1. /\ Turns(slot) /\ ~Has(heap[c], "ref") /\ stack' = Append(Walked(slot), f)
      /\ heap' = heap /\ document' = document /\ warned' = warned
  BY DEF Descend
<1>2. /\ Aliases' = Aliases /\ Originals' = Originals /\ Excused' = Excused
  BY <1>1 DEF Aliases, Originals, HeldBesideARef, defs, Excused
<1>3. f.at = c /\ f.todo = Slots(heap[c]) /\ f.key = NoKey BY DEF Frame
<1>4. c \in DOMAIN heap BY <1>1, ChildFits
<1> HIDE DEF c, f
<1>5. /\ D \subseteq DOMAIN heap /\ 1 \in D
      /\ \A i \in DOMAIN stack : FrameDealt(heap, D, Aliases, stack[i])
      /\ \A j \in D : \A d \in HeldBy(heap[j]) : d \in D \/ Awaits(heap, stack, d)
      /\ \A j \in D \ {1} : Has(heap[j], "ref") => Explained(stack, Excused, j, heap[j].ref)
      /\ \A j \in DOMAIN heap \ D : Untouched(heap, D, Originals, j)
  BY DEF Dealt
<1>6. PICK N : N = D \cup {c} OBVIOUS
<1>7. N \subseteq DOMAIN heap /\ 1 \in N /\ D \subseteq N /\ c \in N BY <1>4, <1>5, <1>6
<1>8. /\ n \in Nat /\ DOMAIN stack = 1..n /\ DOMAIN Walked(slot) = 1..n
      /\ DOMAIN stack' = 1..(n + 1) /\ stack'[n + 1] = f
      /\ \A i \in 1..n : stack'[i] = Walked(slot)[i]
  BY <1>1, Turning, Entering
<1>9. \A i \in 1..n : /\ stack'[i].at = stack[i].at /\ stack'[i].key = stack[i].key
                      /\ stack'[i].into = stack[i].into
  <2>1. \A i \in 1..n :
          /\ Walked(slot)[i].at = stack[i].at /\ Walked(slot)[i].key = stack[i].key
          /\ Walked(slot)[i].into = stack[i].into
    BY <1>1, Turning
  <2> QED BY <2>1, <1>8
<1> HIDE DEF n
<1>10. \A i \in DOMAIN stack' : i \in DOMAIN stack \/ i = n + 1 BY <1>8
<1>11. DOMAIN stack \subseteq DOMAIN stack' BY <1>8
<1>12. ASSUME NEW i \in DOMAIN stack' PROVE FrameDealt(heap, N, Aliases, stack'[i])
  <2>1. CASE i \in DOMAIN stack BY <2>1, <1>5, <1>7, <1>8, <1>9 DEF FrameDealt
  <2>2. CASE i = n + 1 BY <2>2, <1>3, <1>7, <1>8 DEF FrameDealt
  <2> QED BY <2>1, <2>2, <1>10
<1>13. ASSUME NEW j \in N, NEW d \in HeldBy(heap[j]) PROVE d \in N \/ Awaits(heap, stack', d)
  <2>1. CASE j \in D
    <3>1. CASE d \in D BY <3>1, <1>7
    <3>2. CASE Awaits(heap, stack, d)
      <4>1. d = Child(slot) \/ Awaits(heap, Walked(slot), d) BY <3>2, <1>1, AwaitsWalked
      <4>2. CASE Awaits(heap, Walked(slot), d)
        <5>1. DOMAIN Walked(slot) \subseteq DOMAIN stack' BY <1>8
        <5> QED BY <4>2, <5>1, <1>8, AwaitsPushed
      <4> QED BY <4>1, <4>2, <1>7 DEF c
    <3> QED BY <2>1, <3>1, <3>2, <1>5
  <2>2. CASE j = c
    <3>1. PICK s \in Slots(heap[c]) : d = Held(heap[c], s) BY <2>2, <1>13 DEF HeldBy
    <3>2. n + 1 \in DOMAIN stack' BY <1>8
    <3> QED BY <3>1, <3>2, <1>3, <1>8 DEF Awaits
  <2> QED BY <2>1, <2>2, <1>6
<1>14. ASSUME NEW j \in N \ {1}, Has(heap[j], "ref")
       PROVE  Explained(stack', Excused, j, heap[j].ref)
  <2>1. j \in D BY <1>1, <1>6, <1>14 DEF c
  <2>2. Explained(stack, Excused, j, heap[j].ref) BY <2>1, <1>5, <1>14
  <2> QED BY <2>2, <1>8, <1>9, <1>11 DEF Explained
<1>15. ASSUME NEW j \in DOMAIN heap \ N PROVE Untouched(heap, N, Originals, j)
  <2>1. Untouched(heap, D, Originals, j) BY <1>5, <1>7
  <2> QED BY <2>1, <1>7, BlockStays
<1>16. Dealt(heap, stack', Excused, Aliases, Originals, N)
  BY <1>7, <1>12, <1>13, <1>14, <1>15 DEF Dealt
<1> QED BY <1>1, <1>2, <1>16

LEMMA ExpandDeals ==
  ASSUME Framed, Walkable, NEW slot, Expand(slot), NEW D,
         Dealt(heap, stack, Excused, Aliases, Originals, D)
  PROVE  \E N : Dealt(heap', stack', Excused', Aliases', Originals', N)
<1> DEFINE c == Child(slot)
           k == heap[c].ref
           m == Len(heap)
           t == defs[k]
           f == Frame(m + 1, heap'[m + 1], k, c)
           n == Len(stack)
<1>1. /\ Turns(slot) /\ Has(heap[c], "ref") /\ document' = document /\ warned' = warned
  BY DEF Expand
<1>2. /\ Aliases' = Aliases /\ Originals' = Originals /\ Excused' = Excused
  BY <1>1 DEF Aliases, Originals, HeldBesideARef, defs, Excused
<1>3. f.at = m + 1 /\ f.todo = Slots(heap'[m + 1]) /\ f.key = k /\ f.into = c BY DEF Frame
<1>4. c \in DOMAIN heap BY <1>1, ChildFits
<1>5. \A s \in Originals : IsTable(s) BY DefTables DEF Walkable, Originals
<1>6. /\ k \in DOMAIN defs /\ IsTable(t) /\ IsTable(heap') /\ Len(heap') = m + Len(t)
      /\ \A i \in DOMAIN heap : heap'[i] = heap[i]
      /\ \A x \in DOMAIN t : SameAs(heap'[m + x], t[x], m)
      /\ stack' = Append(Walked(slot), f)
  BY Expanded
<1>7. /\ m \in Nat /\ DOMAIN heap = 1..m
      /\ Len(t) \in Nat \ {0} /\ DOMAIN t = 1..Len(t) /\ 1 \in DOMAIN t
      /\ DOMAIN heap' = 1..(m + Len(t))
  BY <1>6, TableFacts DEF Walkable
<1>8. t \in Originals /\ (Has(t[1], "ref") => t[1].ref \in Aliases)
  BY <1>6 DEF Originals, Aliases
<1>9. Grows(heap, heap') BY <1>6, <1>7 DEF Grows
<1>10. \A i \in DOMAIN stack : FrameFits(heap, defs, stack[i])
  BY <1>1, Turning DEF Walkable
<1>11. /\ n \in Nat /\ DOMAIN stack = 1..n /\ DOMAIN Walked(slot) = 1..n
       /\ DOMAIN stack' = 1..(n + 1) /\ stack'[n + 1] = f
       /\ \A i \in 1..n : stack'[i] = Walked(slot)[i]
  BY <1>1, <1>6, Turning, Entering
<1>12. \A i \in 1..n : /\ stack'[i].at = stack[i].at /\ stack'[i].key = stack[i].key
                       /\ stack'[i].into = stack[i].into
  <2>1. \A i \in 1..n :
          /\ Walked(slot)[i].at = stack[i].at /\ Walked(slot)[i].key = stack[i].key
          /\ Walked(slot)[i].into = stack[i].into
    BY <1>1, Turning
  <2> QED BY <2>1, <1>11
<1> HIDE DEF c, f, k, m, n, t
<1>13. /\ D \subseteq DOMAIN heap /\ 1 \in D
       /\ \A i \in DOMAIN stack : FrameDealt(heap, D, Aliases, stack[i])
       /\ \A j \in D : \A d \in HeldBy(heap[j]) : d \in D \/ Awaits(heap, stack, d)
       /\ \A j \in D \ {1} : Has(heap[j], "ref") => Explained(stack, Excused, j, heap[j].ref)
       /\ \A j \in DOMAIN heap \ D : Untouched(heap, D, Originals, j)
  BY DEF Dealt
<1>14. PICK E : Closing(heap, D, HeldBesideARef, c, E)
  BY <1>1, <1>4, <1>5, <1>13, Closes
<1>15. PICK root : root = m + 1 OBVIOUS
<1>16. PICK N : N = D \cup E \cup {root} OBVIOUS
<1>17. /\ E \subseteq DOMAIN heap /\ c \in E
       /\ \A j \in E \ D : HeldBy(heap[j]) \subseteq E
       /\ \A j \in E \ D : j # c /\ Has(heap[j], "ref") => heap[j].ref \in HeldBesideARef
  BY <1>14 DEF Closing
<1>18. /\ DOMAIN heap \subseteq DOMAIN heap' /\ root \in DOMAIN heap' /\ root \notin DOMAIN heap
       /\ SameAs(heap'[root], t[1], m)
  BY <1>6, <1>7, <1>15
<1>19. N \subseteq DOMAIN heap' /\ 1 \in N /\ D \subseteq N /\ c \in N /\ root \in N
  BY <1>13, <1>16, <1>17, <1>18
<1>20. Has(heap'[root], "ref") => heap'[root].ref \in Aliases
  BY <1>8, <1>18 DEF SameAs
<1>21. \A i \in DOMAIN stack' : i \in DOMAIN stack \/ i = n + 1 BY <1>11
<1>22. n + 1 \in DOMAIN stack' /\ DOMAIN stack \subseteq DOMAIN stack' BY <1>11
<1>23. ASSUME NEW i \in DOMAIN stack' PROVE FrameDealt(heap', N, Aliases, stack'[i])
  <2>1. CASE i \in DOMAIN stack
    <3>1. FrameDealt(heap, D, Aliases, stack[i]) /\ FrameFits(heap, defs, stack[i])
      BY <2>1, <1>10, <1>13
    <3>2. heap'[stack[i].at] = heap[stack[i].at] BY <3>1, <1>6 DEF FrameFits
    <3>3. /\ stack'[i].at = stack[i].at /\ stack'[i].key = stack[i].key
          /\ stack'[i].into = stack[i].into
      BY <2>1, <1>11, <1>12
    <3> QED BY <3>1, <3>2, <3>3, <1>19 DEF FrameDealt
  <2>2. CASE i = n + 1
    <3>1. /\ stack'[i].at = root /\ stack'[i].into = c
      BY <2>2, <1>3, <1>11, <1>15
    <3> QED BY <3>1, <1>19, <1>20 DEF FrameDealt
  <2> QED BY <2>1, <2>2, <1>21
<1>24. ASSUME NEW j \in N, NEW d \in HeldBy(heap'[j]) PROVE d \in N \/ Awaits(heap', stack', d)
  <2>1. CASE j \in D
    <3>1. heap'[j] = heap[j] BY <2>1, <1>6, <1>13
    <3>2. d \in D \/ Awaits(heap, stack, d) BY <2>1, <3>1, <1>13, <1>24
    <3>3. CASE d \in D BY <3>3, <1>19
    <3>4. CASE Awaits(heap, stack, d)
      <4>1. d = Child(slot) \/ Awaits(heap, Walked(slot), d) BY <3>4, <1>1, AwaitsWalked
      <4>2. CASE Awaits(heap, Walked(slot), d)
        <5>1. DOMAIN Walked(slot) \subseteq DOMAIN stack' BY <1>11
        <5>2. Awaits(heap, stack', d) BY <4>2, <5>1, <1>11, AwaitsPushed
        <5>3. ASSUME NEW i \in DOMAIN Walked(slot) PROVE FrameFits(heap, defs, Walked(slot)[i])
          <6>1. i \in 1..Len(stack) /\ i \in DOMAIN stack BY <1>11 DEF n
          <6>2. /\ Walked(slot)[i].at = stack[i].at /\ Walked(slot)[i].key = stack[i].key
                /\ Walked(slot)[i].into = stack[i].into
                /\ Walked(slot)[i].todo \subseteq stack[i].todo
            BY <6>1, <1>1, Turning
          <6>3. FrameFits(heap, defs, stack[i]) BY <6>1, <1>10
          <6> QED BY <6>2, <6>3 DEF FrameFits
        <5>4. Awaits(heap', Walked(slot), d) BY <4>2, <5>3, <1>9, AwaitsGrown
        <5> QED BY <5>1, <5>4, <1>11, AwaitsPushed
      <4> QED BY <4>1, <4>2, <1>19 DEF c
    <3> QED BY <3>2, <3>3, <3>4
  <2>2. CASE j \in E \ D
    <3>1. heap'[j] = heap[j] BY <2>2, <1>6, <1>17
    <3> QED BY <2>2, <3>1, <1>16, <1>17
  <2>3. CASE j = root
    <3>1. PICK s \in Slots(heap'[root]) : d = Held(heap'[root], s)
      BY <2>3, <1>24 DEF HeldBy
    <3>2. stack'[n + 1].at = root /\ s \in stack'[n + 1].todo BY <3>1, <1>3, <1>11, <1>15
    <3> QED BY <3>1, <3>2, <1>22 DEF Awaits
  <2> QED BY <2>1, <2>2, <2>3, <1>16
<1>25. ASSUME NEW j \in N \ {1}, Has(heap'[j], "ref")
       PROVE  Explained(stack', Excused, j, heap'[j].ref)
  <2>1. CASE j \in D
    <3>1. heap'[j] = heap[j] BY <2>1, <1>6, <1>13
    <3>2. Explained(stack, Excused, j, heap[j].ref) BY <2>1, <3>1, <1>13, <1>25
    <3> QED BY <3>1, <3>2, <1>11, <1>12, <1>22 DEF Explained
  <2>2. CASE j = c
    <3>1. heap'[j].ref = k BY <2>2, <1>4, <1>6 DEF k
    <3>2. stack'[n + 1].key = k /\ stack'[n + 1].into = c BY <1>3, <1>11
    <3>3. k # NoKey BY <1>6, KeysAssumption DEF Walkable, defs
    <3> QED BY <2>2, <3>1, <3>2, <3>3, <1>22 DEF Explained
  <2>3. CASE j \in E \ D /\ j # c
    <3>1. heap'[j] = heap[j] BY <2>3, <1>6, <1>17
    <3>2. heap[j].ref \in HeldBesideARef BY <2>3, <3>1, <1>17, <1>25
    <3> QED BY <3>1, <3>2 DEF Explained, Excused
  <2>4. CASE j = root BY <2>4, <1>20, <1>25 DEF Explained, Excused
  <2> QED BY <2>1, <2>2, <2>3, <2>4, <1>16
<1>26. ASSUME NEW j \in DOMAIN heap' \ N PROVE Untouched(heap', N, Originals, j)
  <2>1. CASE j \in DOMAIN heap
    <3>1. Untouched(heap, D, Originals, j) BY <2>1, <1>13, <1>19, <1>26
    <3> QED BY <3>1, <1>6, <1>18, <1>19, BlockStays
  <2>2. CASE j \notin DOMAIN heap
    <3>1. j - m \in DOMAIN t /\ j = m + (j - m) BY <2>2, <1>7, <1>26
    <3>2. \A y \in DOMAIN t : m + y \in DOMAIN heap' BY <1>7
    <3>3. Block(heap', N, t, m) BY <1>6, <1>7, <3>2 DEF Block
    <3> QED BY <3>1, <3>3, <1>7, <1>8 DEF Untouched
  <2> QED BY <2>1, <2>2
<1>27. Dealt(heap', stack', Excused, Aliases, Originals, N)
  BY <1>19, <1>23, <1>24, <1>25, <1>26 DEF Dealt
<1> QED BY <1>2, <1>27

LEMMA FinishDeals ==
  ASSUME Framed, Walkable, Finish, NEW D,
         Dealt(heap, stack, Excused, Aliases, Originals, D)
  PROVE  Dealt(heap', stack', Excused', Aliases', Originals', D)
<1> DEFINE n == Len(stack)
<1>1. /\ Aliases' = Aliases /\ Originals' = Originals /\ Excused' = Excused
  BY DEF Finish, Aliases, Originals, HeldBesideARef, defs, Excused
<1>2. /\ n \in Nat \ {0} /\ Top = stack[n] /\ Top.todo = {}
      /\ FrameFits(heap, defs, Top)
      /\ DOMAIN stack' = 1..(n - 1)
      /\ \A i \in 1..(n - 1) : stack'[i] = stack[i]
      /\ DOMAIN heap' = DOMAIN heap
      /\ Top.key = NoKey => heap' = heap
      /\ Top.key # NoKey =>
           \A j \in DOMAIN heap :
             heap'[j] = IF j = Top.into THEN MergedInto(heap[j], heap[Top.at]) ELSE heap[j]
  BY Finished
<1>3. DOMAIN stack = 1..n BY DEF Framed, IsStack
<1>4. Grows(heap, heap')
  BY StepGrows DEF Resolve
<1>5. \A i \in DOMAIN stack : FrameFits(heap, defs, stack[i]) BY <1>3 DEF Walkable
<1>6. /\ D \subseteq DOMAIN heap /\ 1 \in D
      /\ \A i \in DOMAIN stack : FrameDealt(heap, D, Aliases, stack[i])
      /\ \A j \in D : \A d \in HeldBy(heap[j]) : d \in D \/ Awaits(heap, stack, d)
      /\ \A j \in D \ {1} : Has(heap[j], "ref") => Explained(stack, Excused, j, heap[j].ref)
      /\ \A j \in DOMAIN heap \ D : Untouched(heap, D, Originals, j)
  BY DEF Dealt
<1> HIDE DEF n
<1>7. /\ \A i \in DOMAIN stack : i \in DOMAIN stack' \/ i = n
      /\ \A i \in DOMAIN stack' : i \in DOMAIN stack /\ i # n /\ stack'[i] = stack[i]
  BY <1>2, <1>3
<1>8. FrameDealt(heap, D, Aliases, Top) BY <1>2, <1>3, <1>6
\* What a node has after the step
<1>9. ASSUME NEW j \in DOMAIN heap
      PROVE  \/ heap'[j] = heap[j] /\ (Top.key # NoKey => j # Top.into)
             \/ /\ Top.key # NoKey /\ j = Top.into /\ Top.at \in D /\ j \in D
                /\ HeldBy(heap'[j]) \subseteq HeldBy(heap[j]) \cup HeldBy(heap[Top.at])
                /\ Has(heap'[j], "ref") => heap'[j].ref \in Aliases
  <2>1. CASE Top.key = NoKey BY <2>1, <1>2
  <2>2. CASE Top.key # NoKey /\ j # Top.into BY <2>2, <1>2
  <2>3. CASE Top.key # NoKey /\ j = Top.into
    <3>1. heap'[j] = MergedInto(heap[j], heap[Top.at]) BY <2>3, <1>2
    <3>2. /\ HeldBy(heap'[j]) \subseteq HeldBy(heap[j]) \cup HeldBy(heap[Top.at])
          /\ Has(heap'[j], "ref") <=> Has(heap[Top.at], "ref")
          /\ Has(heap[Top.at], "ref") => heap'[j].ref = heap[Top.at].ref
      BY <3>1, MergeFacts
    <3> QED BY <2>3, <3>2, <1>8 DEF FrameDealt
  <2> QED BY <2>1, <2>2, <2>3
<1>10. ASSUME NEW i \in DOMAIN stack' PROVE FrameDealt(heap', D, Aliases, stack'[i])
  <2>1. i \in DOMAIN stack /\ stack'[i] = stack[i] BY <1>7
  <2>2. FrameDealt(heap, D, Aliases, stack[i]) BY <2>1, <1>6
  <2>3. stack[i].at \in DOMAIN heap BY <2>2, <1>6 DEF FrameDealt
  <2>4. \/ heap'[stack[i].at] = heap[stack[i].at]
        \/ Has(heap'[stack[i].at], "ref") => heap'[stack[i].at].ref \in Aliases
    BY <2>3, <1>9
  <2> QED BY <2>1, <2>2, <2>4 DEF FrameDealt
<1>11. ASSUME NEW d, Awaits(heap, stack, d) PROVE Awaits(heap', stack', d)
  <2>1. Awaits(heap', stack, d) BY <1>11, <1>4, <1>5, AwaitsGrown
  <2>2. PICK i \in DOMAIN stack : \E s \in stack[i].todo : d = Held(heap'[stack[i].at], s)
    BY <2>1 DEF Awaits
  <2>3. i # n BY <2>2, <1>2
  <2>4. i \in DOMAIN stack' /\ stack'[i] = stack[i] BY <2>3, <1>7
  <2> QED BY <2>2, <2>4 DEF Awaits
<1>12. ASSUME NEW j \in D, NEW d \in HeldBy(heap'[j]) PROVE d \in D \/ Awaits(heap', stack', d)
  <2>1. d \in HeldBy(heap[j]) \/ (Top.at \in D /\ d \in HeldBy(heap[Top.at]))
    BY <1>6, <1>9, <1>12
  <2>2. d \in D \/ Awaits(heap, stack, d) BY <2>1, <1>6
  <2> QED BY <2>2, <1>11
<1>13. ASSUME NEW j \in D \ {1}, Has(heap'[j], "ref")
       PROVE  Explained(stack', Excused, j, heap'[j].ref)
  <2>1. j \in DOMAIN heap BY <1>6
  <2>2. CASE heap'[j].ref \in Aliases BY <2>2 DEF Explained, Excused
  <2>3. CASE heap'[j] = heap[j] /\ (Top.key # NoKey => j # Top.into)
    <3>1. Explained(stack, Excused, j, heap[j].ref) BY <2>3, <1>6, <1>13
    <3>2. ASSUME NEW i \in DOMAIN stack, stack[i].key # NoKey, stack[i].into = j,
                 stack[i].key = heap[j].ref
          PROVE  Explained(stack', Excused, j, heap'[j].ref)
      <4>1. i # n BY <3>2, <2>3, <1>2
      <4>2. i \in DOMAIN stack' /\ stack'[i] = stack[i] BY <4>1, <1>7
      <4> QED BY <3>2, <4>2, <2>3 DEF Explained
    <3> QED BY <3>1, <3>2, <2>3 DEF Explained
  <2> QED BY <2>1, <2>2, <2>3, <1>9, <1>13
<1>14. ASSUME NEW j \in DOMAIN heap' \ D PROVE Untouched(heap', D, Originals, j)
  <2>1. Untouched(heap, D, Originals, j) BY <1>2, <1>6
  <2>2. \A i \in DOMAIN heap : i \notin D => heap'[i] = heap[i] BY <1>9
  <2> QED BY <2>1, <2>2, <1>2, BlockStays
<1>15. Dealt(heap', stack', Excused, Aliases, Originals, D)
  BY <1>2, <1>6, <1>10, <1>12, <1>13, <1>14 DEF Dealt
<1> QED BY <1>1, <1>15

LEMMA LeftOn ==
  ASSUME IInv, Walkable, LeftInv, [Resolve]_refVars
  PROVE  LeftInv'
<1>0. Framed BY DEF IInv
<1> SUFFICES ASSUME document'.hasDefs
             PROVE  \E N : Dealt(heap', stack', Excused', Aliases', Originals', N)
  BY DEF LeftInv
<1>1. document' = document
  BY DEF Resolve, Finish, Leave, Expand, Descend, refVars
<1>2. PICK D : Dealt(heap, stack, Excused, Aliases, Originals, D) BY <1>1 DEF LeftInv
<1>3. CASE UNCHANGED refVars
  <2>1. /\ Aliases' = Aliases /\ Originals' = Originals /\ Excused' = Excused
        /\ heap' = heap /\ stack' = stack
    BY <1>3 DEF Aliases, Originals, HeldBesideARef, defs, Excused, refVars
  <2> QED BY <1>2, <2>1
<1>4. CASE Resolve
  BY <1>0, <1>2, <1>4, LeaveDeals, ExpandDeals, DescendDeals, FinishDeals DEF Resolve
<1> QED BY <1>3, <1>4

LEMMA Reported ==
  ASSUME Walkable, LeftInv
  PROVE  LeftoversAreReported
<1> SUFFICES ASSUME stack = <<>>, document.hasDefs
             PROVE  RefsBelow(heap, 1) \subseteq Excused
  BY DEF LeftoversAreReported, Excused
<1>1. PICK D : Dealt(heap, stack, Excused, Aliases, Originals, D) BY DEF LeftInv
<1>2. DOMAIN stack = {} OBVIOUS
<1>3. \A j \in D : HeldBy(heap[j]) \subseteq D BY <1>1, <1>2 DEF Dealt, Awaits
<1>4. D \subseteq DOMAIN heap /\ 1 \in D BY <1>1 DEF Dealt
<1>5. Below(heap, 1) \subseteq D BY <1>3, <1>4, BelowWithin
<1>6. \A j \in D \ {1} : Has(heap[j], "ref") => heap[j].ref \in Excused
  BY <1>1, <1>2 DEF Dealt, Explained
<1> QED BY <1>5, <1>6 DEF RefsBelow

(***************************************************************************)
(* Whatever the definitions refer to, a warning of a cycle is of one, and  *)
(* the walk leaves no reference without a warning but the two kinds that   *)
(* the merge leaves (kubeopenapi/refs.go).                                 *)
(***************************************************************************)
THEOREM WarningsTrue == RefSpec => []WarningsAreTrue
<1> DEFINE Inv == IInv /\ Walkable /\ CycleInv /\ LeftInv
<1>1. RefInit => Inv BY Beginning, WalkStart, TracedStart, LeftStart
<1>2. Inv /\ [Resolve]_refVars => Inv' BY Keeping, WalkGoesOn, CyclesOn, LeftOn
<1>3. Inv => WarningsAreTrue BY Reported DEF CycleInv, WarningsAreTrue
<1> QED BY <1>1, <1>2, <1>3, PTL DEF RefSpec

-----------------------------------------------------------------------------
(***************************************************************************)
(* Places.  The node of a place is that of its parent, one step further;   *)
(* so are the places that are reached, and those that are returned.        *)
(***************************************************************************)

LEMMA Least ==
  ASSUME NEW S \in SUBSET Nat, S # {}
  PROVE  \E n \in S : \A m \in S : n <= m
<1>1. PICK n \in S : \A m \in S : ~(<<m, n>> \in OpToRel(<, Nat))
  BY NatLessThanWellFounded, WFMin
<1>2. \A m \in S : ~(m < n)
  <2>1. \A m \in S : <<m, n>> \in Nat \X Nat OBVIOUS
  <2> QED BY <1>1, <2>1 DEF OpToRel
<1> QED BY <1>2

\* What At's recursive function is
IsChain(f, d, q, n) ==
  f = [i \in 0..n |-> IF i = 0 THEN 1 ELSE IF f[i - 1] = 0 THEN 0 ELSE Inner(d[f[i - 1]], q[i])]

LEMMA ChainsAgree ==
  ASSUME NEW d, NEW q, NEW p, NEW n \in Nat, NEW m \in Nat, n <= m,
         NEW f, NEW g, IsChain(f, d, q, n), IsChain(g, d, p, m),
         \A i \in 1..n : p[i] = q[i]
  PROVE  \A i \in 0..n : f[i] = g[i]
<1> DEFINE S == {i \in 0..n : f[i] # g[i]}
<1> SUFFICES ASSUME S # {} PROVE FALSE OBVIOUS
<1>1. PICK i \in S : \A j \in S : i <= j
  <2>1. S \subseteq Nat OBVIOUS
  <2> HIDE DEF S
  <2> QED BY <2>1, Least
<1>2. \A j \in 0..n :
        /\ f[j] = IF j = 0 THEN 1 ELSE IF f[j - 1] = 0 THEN 0 ELSE Inner(d[f[j - 1]], q[j])
        /\ g[j] = IF j = 0 THEN 1 ELSE IF g[j - 1] = 0 THEN 0 ELSE Inner(d[g[j - 1]], p[j])
  BY DEF IsChain
<1>3. i # 0 BY <1>2
<1>4. i - 1 \in 0..n /\ i \in 1..n /\ i - 1 \notin S BY <1>1, <1>3
<1>5. f[i - 1] = g[i - 1] /\ p[i] = q[i] BY <1>4
<1> QED BY <1>2, <1>3, <1>5

LEMMA ChainExists ==
  ASSUME NEW d, NEW q, NEW n \in Nat
  PROVE  \E f : IsChain(f, d, q, n)
<1> DEFINE S == {m \in Nat : ~ \E f : IsChain(f, d, q, m)}
<1> SUFFICES ASSUME S # {} PROVE FALSE OBVIOUS
<1>1. PICK m \in S : \A j \in S : m <= j
  <2>1. S \subseteq Nat OBVIOUS
  <2> HIDE DEF S
  <2> QED BY <2>1, Least
<1>2. m # 0
  <2> DEFINE f == [i \in 0..0 |-> 1]
  <2>1. IsChain(f, d, q, 0) BY DEF IsChain
  <2> QED BY <2>1
<1>3. m - 1 \in Nat /\ m - 1 \notin S BY <1>1, <1>2
<1>4. PICK f : IsChain(f, d, q, m - 1) BY <1>3
<1> DEFINE last == IF f[m - 1] = 0 THEN 0 ELSE Inner(d[f[m - 1]], q[m])
           g == [i \in 0..m |-> IF i = m THEN last ELSE f[i]]
<1>5. ASSUME NEW i \in 0..m
      PROVE  g[i] = IF i = 0 THEN 1 ELSE IF g[i - 1] = 0 THEN 0 ELSE Inner(d[g[i - 1]], q[i])
  <2>1. CASE i = m BY <2>1, <1>2
  <2>2. CASE i # m
    <3>1. i \in 0..(m - 1) /\ g[i] = f[i] /\ (i # 0 => i - 1 \in 0..m /\ g[i - 1] = f[i - 1])
      BY <2>2
    <3> QED BY <1>4, <3>1 DEF IsChain
  <2> QED BY <2>1, <2>2
<1>6. IsChain(g, d, q, m)
  <2> HIDE DEF last
  <2>1. \A i \in 0..m : g[i] = IF i = 0 THEN 1 ELSE IF g[i - 1] = 0 THEN 0 ELSE Inner(d[g[i - 1]], q[i])
    BY <1>5
  <2>2. g = [i \in 0..m |-> g[i]] OBVIOUS
  <2> HIDE DEF g
  <2> QED BY <2>1, <2>2 DEF IsChain
<1> QED BY <1>6

LEMMA AtIs ==
  ASSUME NEW d, NEW q, Len(q) \in Nat
  PROVE  \E f : IsChain(f, d, q, Len(q)) /\ At(d, q) = f[Len(q)]
<1> DEFINE f == CHOOSE f : IsChain(f, d, q, Len(q))
<1>1. IsChain(f, d, q, Len(q)) BY ChainExists
<1>2. At(d, q) = f[Len(q)] BY DEF At, IsChain
<1> QED BY <1>1, <1>2

IsPlace(q) == q \in Seq({q[i] : i \in DOMAIN q})

\* p is inside q: one step more.
Holds(q, p) == IsPlace(p) /\ p # <<>> /\ Parent(p) = q

LEMMA PlaceFacts ==
  ASSUME NEW p, NEW q, Holds(q, p)
  PROVE  /\ Len(q) \in Nat /\ Len(p) = Len(q) + 1 /\ p = Append(q, p[Len(p)])
         /\ IsPlace(q) /\ To(p, Len(q)) = q /\ To(q, Len(q)) = q /\ To(p, Len(p)) = p
         /\ \A i \in 1..Len(q) : p[i] = q[i]
         /\ \A i \in 0..Len(q) : To(p, i) = To(q, i)
<1> DEFINE S == {p[i] : i \in DOMAIN p}
<1>1. p \in Seq(S) /\ p # <<>> BY DEF Holds, IsPlace
<1> HIDE DEF S
<1>2. Len(p) \in Nat \ {0} BY <1>1
<1>3. q = SubSeq(p, 1, Len(p) - 1) BY DEF Holds, Parent
<1>4. \A i \in 1..(Len(p) - 1) : p[i] \in S BY <1>1
<1>5. /\ q \in Seq(S) /\ Len(q) = Len(p) - 1 /\ \A i \in 1..Len(q) : q[i] = p[i]
  <2> DEFINE n == Len(p) - 1
  <2>1. n \in Nat /\ \A i \in 1..n : p[i] \in S BY <1>2, <1>4
  <2> HIDE DEF n
  <2>2. /\ SubSeq(p, 1, n) \in Seq(S)
        /\ Len(SubSeq(p, 1, n)) = IF 1 <= n THEN n - 1 + 1 ELSE 0
        /\ \A i \in 1..(n - 1 + 1) : SubSeq(p, 1, n)[i] = p[1 + i - 1]
    BY <1>1, <2>1, SubSeqProperties
  <2>3. Len(SubSeq(p, 1, n)) = n BY <2>1, <2>2
  <2>4. \A i \in 1..n : i \in 1..(n - 1 + 1) /\ 1 + i - 1 = i BY <2>1
  <2> QED BY <1>3, <2>2, <2>3, <2>4 DEF n
<1>6. p = Append(q, p[Len(p)]) BY <1>1, <1>2, <1>5
<1>7. \A i \in 0..Len(q) : SubSeq(p, 1, i) = SubSeq(q, 1, i)
  BY <1>1, <1>2, <1>5
<1>8. SubSeq(q, 1, Len(q)) = q /\ SubSeq(p, 1, Len(p)) = p /\ SubSeq(p, 1, Len(q)) = q
  BY <1>1, <1>2, <1>5, <1>3
<1>9. IsPlace(q)
  <2>1. q \in [1..Len(q) -> {q[i] : i \in DOMAIN q}] /\ Len(q) \in Nat BY <1>5
  <2> QED BY <2>1 DEF IsPlace
<1> QED BY <1>2, <1>5, <1>6, <1>7, <1>8, <1>9 DEF To

LEMMA AtRoot == ASSUME NEW d PROVE At(d, <<>>) = 1
<1>1. PICK f : IsChain(f, d, <<>>, Len(<<>>)) /\ At(d, <<>>) = f[Len(<<>>)] BY AtIs
<1> QED BY <1>1 DEF IsChain

LEMMA AtStep ==
  ASSUME NEW d, NEW q, NEW p, Holds(q, p)
  PROVE  At(d, p) = IF At(d, q) = 0 THEN 0 ELSE Inner(NodeAt(d, q), p[Len(p)])
<1>1. /\ Len(q) \in Nat /\ Len(p) = Len(q) + 1 /\ \A i \in 1..Len(q) : p[i] = q[i]
  BY PlaceFacts
<1>2. PICK f : IsChain(f, d, q, Len(q)) /\ At(d, q) = f[Len(q)] BY <1>1, AtIs
<1>3. PICK g : IsChain(g, d, p, Len(p)) /\ At(d, p) = g[Len(p)] BY <1>1, AtIs
<1>4. g[Len(q)] = f[Len(q)]
  <2>1. Len(p) \in Nat /\ Len(q) <= Len(p) BY <1>1
  <2> DEFINE n == Len(q)
             m == Len(p)
  <2>2. n \in Nat /\ m \in Nat /\ n <= m /\ IsChain(f, d, q, n) /\ IsChain(g, d, p, m)
    BY <1>1, <1>2, <1>3, <2>1
  <2>3. \A i \in 1..n : p[i] = q[i] BY <1>1
  <2> HIDE DEF n, m
  <2>4. \A i \in 0..n : f[i] = g[i] BY <2>2, <2>3, ChainsAgree
  <2> QED BY <1>1, <2>4 DEF n
<1>5. g[Len(p)] = IF g[Len(q)] = 0 THEN 0 ELSE Inner(d[g[Len(q)]], p[Len(p)])
  BY <1>1, <1>3 DEF IsChain
<1> QED BY <1>2, <1>3, <1>4, <1>5 DEF NodeAt

LEMMA ReachedRoot == ASSUME NEW d PROVE Reached(d, <<>>) /\ Retained(d, <<>>)
BY AtRoot DEF Reached, Retained

LEMMA ReachedStep ==
  ASSUME NEW d, NEW q, NEW p, Holds(q, p)
  PROVE  Reached(d, p) <=> At(d, p) # 0 /\ Opens(d, q) /\ Reached(d, q)
<1>1. /\ Len(q) \in Nat /\ Len(p) = Len(q) + 1 /\ To(q, Len(q)) = q
      /\ \A i \in 0..Len(q) : To(p, i) = To(q, i)
  BY PlaceFacts
<1>2. At(d, p) # 0 => At(d, q) # 0 BY AtStep
<1>3. (\A i \in 0..(Len(p) - 1) : Opens(d, To(p, i)))
        <=> Opens(d, q) /\ \A i \in 0..(Len(q) - 1) : Opens(d, To(q, i))
  <2>1. \A i : i \in 0..(Len(p) - 1) <=> i = Len(q) \/ i \in 0..(Len(q) - 1) BY <1>1
  <2>2. \A i \in 0..(Len(p) - 1) : To(p, i) = To(q, i) BY <1>1
  <2>3. To(p, Len(q)) = q BY <1>1
  <2> QED BY <2>1, <2>2, <2>3
<1> QED BY <1>2, <1>3 DEF Reached

LEMMA RetainedStep ==
  ASSUME NEW d, NEW q, NEW p, Holds(q, p)
  PROVE  Retained(d, p) <=>
           /\ Retained(d, q)
           /\ q # <<>> /\ Reached(d, q) /\ Nests(NodeAt(d, q)) => At(d, p) # 0
<1> DEFINE Ok(s, i) == Reached(d, To(s, i)) /\ Nests(NodeAt(d, To(s, i))) => At(d, To(s, i + 1)) # 0
<1>1. /\ Len(q) \in Nat /\ Len(p) = Len(q) + 1 /\ To(q, Len(q)) = q /\ To(p, Len(p)) = p
      /\ \A i \in 0..Len(q) : To(p, i) = To(q, i)
      /\ IsPlace(q)
  BY PlaceFacts
<1>2. Retained(d, p) <=> \A i \in 1..Len(q) : Ok(p, i) BY <1>1 DEF Retained
<1>3. Retained(d, q) <=> \A i \in 1..(Len(q) - 1) : Ok(q, i) BY DEF Retained
<1>4. \A i \in 1..(Len(q) - 1) : Ok(p, i) <=> Ok(q, i) BY <1>1
<1>5. Len(q) # 0 => (Ok(p, Len(q)) <=>
                       (Reached(d, q) /\ Nests(NodeAt(d, q)) => At(d, p) # 0))
  BY <1>1
<1>6. Len(q) = 0 <=> q = <<>> BY <1>1 DEF IsPlace
<1>7. \A i : i \in 1..Len(q) <=> (Len(q) # 0 /\ i = Len(q)) \/ i \in 1..(Len(q) - 1) BY <1>1
<1> HIDE DEF Ok
<1> QED BY <1>2, <1>3, <1>4, <1>5, <1>6, <1>7

-----------------------------------------------------------------------------
(***************************************************************************)
(* Values.                                                                 *)
(***************************************************************************)
LEMMA JsonFacts ==
  ASSUME NEW v, IsJson(v), NEW q \in DOMAIN v
  PROVE  /\ v[q] = [kind |-> v[q].kind, text |-> v[q].text] /\ v[q].kind \in Kinds
         /\ q # <<>> =>
              /\ Parent(q) \in DOMAIN v /\ Holds(Parent(q), q)
              /\ \/ /\ q[Len(q)] = <<"props", KeyOf(q)>> /\ v[Parent(q)].kind = "object"
                    /\ ~IsItem(q) /\ q \in Members(v, Parent(q))
                 \/ /\ q[Len(q)] = <<"items", KeyOf(q)>> /\ v[Parent(q)].kind = "array"
                    /\ IsItem(q) /\ q \in Elements(v, Parent(q))
<1>1. v[q] = [kind |-> v[q].kind, text |-> v[q].text] /\ v[q].kind \in Kinds BY DEF IsJson
<1>2. ASSUME q # <<>>
      PROVE  /\ Parent(q) \in DOMAIN v /\ Holds(Parent(q), q)
             /\ \/ /\ q[Len(q)] = <<"props", KeyOf(q)>> /\ v[Parent(q)].kind = "object"
                   /\ ~IsItem(q) /\ q \in Members(v, Parent(q))
                \/ /\ q[Len(q)] = <<"items", KeyOf(q)>> /\ v[Parent(q)].kind = "array"
                   /\ IsItem(q) /\ q \in Elements(v, Parent(q))
  <2>1. /\ q \in Seq({q[i] : i \in DOMAIN q}) /\ Parent(q) \in DOMAIN v
        /\ \/ q[Len(q)] = <<"props", KeyOf(q)>> /\ v[Parent(q)].kind = "object"
           \/ q[Len(q)] = <<"items", KeyOf(q)>> /\ v[Parent(q)].kind = "array"
    BY <1>2 DEF IsJson
  <2>2. Holds(Parent(q), q) BY <1>2, <2>1 DEF Holds, IsPlace
  <2>3. q \in Inside(v, Parent(q)) BY <1>2 DEF Inside
  <2>4. CASE q[Len(q)] = <<"props", KeyOf(q)>> /\ v[Parent(q)].kind = "object"
    <3>1. q[Len(q)][1] = "props" BY <2>4
    <3>2. ~IsItem(q) BY <3>1 DEF IsItem
    <3> QED BY <2>1, <2>2, <2>3, <2>4, <3>2 DEF Members
  <2>5. CASE q[Len(q)] = <<"items", KeyOf(q)>> /\ v[Parent(q)].kind = "array"
    <3>1. q[Len(q)][1] = "items" BY <2>5
    <3>2. IsItem(q) BY <3>1 DEF IsItem
    <3> QED BY <2>1, <2>2, <2>3, <2>5, <3>2 DEF Elements
  <2> QED BY <2>1, <2>4, <2>5
<1> QED BY <1>1, <1>2

LEMMA InsideFacts ==
  ASSUME NEW v, IsJson(v), NEW q, NEW p \in Inside(v, q)
  PROVE  /\ p \in DOMAIN v /\ q \in DOMAIN v /\ p # <<>> /\ Parent(p) = q /\ Holds(q, p)
BY JsonFacts DEF Inside

\* What holds of the whole, and of what is inside where it holds, holds.
LEMMA PlaceInduction ==
  ASSUME NEW v, IsJson(v), NEW S,
         <<>> \in S, \A q \in DOMAIN v \ {<<>>} : Parent(q) \in S => q \in S
  PROVE  DOMAIN v \subseteq S
<1> SUFFICES ASSUME NEW p \in DOMAIN v, p \notin S PROVE FALSE OBVIOUS
<1>1. \A q \in DOMAIN v : Len(q) \in Nat /\ (q # <<>> => Parent(q) \in DOMAIN v /\ Len(q) = Len(Parent(q)) + 1)
  <2> SUFFICES ASSUME NEW q \in DOMAIN v
               PROVE  Len(q) \in Nat /\ (q # <<>> => Parent(q) \in DOMAIN v /\ Len(q) = Len(Parent(q)) + 1)
    OBVIOUS
  <2>1. CASE q = <<>> BY <2>1
  <2>2. CASE q # <<>>
    <3>1. Parent(q) \in DOMAIN v /\ Holds(Parent(q), q) BY <2>2, JsonFacts
    <3> QED BY <2>2, <3>1, PlaceFacts
  <2> QED BY <2>1, <2>2
<1> DEFINE L == {Len(q) : q \in DOMAIN v \ S}
<1>2. L \in SUBSET Nat /\ L # {}
  <2>1. \A q \in DOMAIN v \ S : Len(q) \in Nat BY <1>1
  <2>2. Len(p) \in L OBVIOUS
  <2>3. ASSUME NEW m \in L PROVE m \in Nat
    <3>1. PICK q \in DOMAIN v \ S : m = Len(q) OBVIOUS
    <3> QED BY <2>1, <3>1
  <2> HIDE DEF L
  <2> QED BY <2>2, <2>3
<1>3. PICK n \in L : \A m \in L : n <= m
  <2> HIDE DEF L
  <2> QED BY <1>2, Least
<1>4. PICK q \in DOMAIN v \ S : n = Len(q) BY <1>3
<1>5. q # <<>> OBVIOUS
<1>6. Parent(q) \in DOMAIN v \ S BY <1>4, <1>5, <1>1
<1>7. Len(Parent(q)) \in L BY <1>6
<1>8. Len(Parent(q)) \in Nat /\ Len(q) = Len(Parent(q)) + 1 BY <1>1, <1>5, <1>6
<1> QED BY <1>3, <1>4, <1>7, <1>8

\* A member is what its key says.
LEMMA MemberFacts ==
  ASSUME NEW v, IsJson(v), NEW q
  PROVE  /\ \A p \in Members(v, q) : p = Member(q, KeyOf(p)) /\ p \in Inside(v, q) /\ p[Len(p)] = <<"props", KeyOf(p)>>
         /\ \A k \in Keys(v, q) : Member(q, k) \in Members(v, q) /\ KeyOf(Member(q, k)) = k
<1>1. ASSUME NEW p \in Members(v, q)
      PROVE  p = Member(q, KeyOf(p)) /\ p \in Inside(v, q) /\ p[Len(p)] = <<"props", KeyOf(p)>>
  <2>1. p \in Inside(v, q) /\ ~IsItem(p) BY DEF Members
  <2>2. p \in DOMAIN v /\ p # <<>> /\ Holds(q, p) BY <2>1, InsideFacts
  <2>3. p[Len(p)] = <<"props", KeyOf(p)>> BY <2>1, <2>2, JsonFacts
  <2>4. p = Append(q, p[Len(p)]) BY <2>2, PlaceFacts
  <2> QED BY <2>1, <2>3, <2>4 DEF Member
<1>2. ASSUME NEW k \in Keys(v, q)
      PROVE  Member(q, k) \in Members(v, q) /\ KeyOf(Member(q, k)) = k
  <2>1. PICK p \in Members(v, q) : k = KeyOf(p) BY DEF Keys
  <2> QED BY <1>1, <2>1
<1> QED BY <1>1, <1>2

LEMMA ElementFacts ==
  ASSUME NEW v, IsJson(v), NEW q, NEW e \in Elements(v, q)
  PROVE  /\ e \in Inside(v, q) /\ IsItem(e) /\ v[q].kind = "array" /\ e[Len(e)] = <<"items", KeyOf(e)>>
<1>1. e \in Inside(v, q) /\ IsItem(e) BY DEF Elements
<1> QED BY <1>1, InsideFacts, JsonFacts

-----------------------------------------------------------------------------
(***************************************************************************)
(* Nodes, and what the adapters return.                                    *)
(***************************************************************************)
Fits(d) == IsTable(d) /\ \A i \in DOMAIN d : IsNode(d[i])

LEMMA NodeFacts ==
  ASSUME NEW d, Fits(d)
  PROVE  /\ 1 \in DOMAIN d /\ 0 \notin DOMAIN d
         /\ \A a \in DOMAIN d :
              /\ IsNode(d[a])
              /\ \A k \in DOMAIN Props(d[a]) : Props(d[a])[k] \in DOMAIN d
              /\ Says(d[a], "items") => d[a].items \in DOMAIN d
<1>1. IsTable(d) /\ \A a \in DOMAIN d : IsNode(d[a]) BY DEF Fits
<1>2. 1 \in DOMAIN d /\ 0 \notin DOMAIN d BY <1>1, TableFacts
<1>3. ASSUME NEW a \in DOMAIN d
      PROVE  /\ \A k \in DOMAIN Props(d[a]) : Props(d[a])[k] \in DOMAIN d
             /\ Says(d[a], "items") => d[a].items \in DOMAIN d
  <2>1. HeldBy(d[a]) \subseteq DOMAIN d BY <1>1, TableFacts
  <2>2. ASSUME Says(d[a], "items") PROVE d[a].items \in DOMAIN d
    <3>1. <<"items", "">> \in Slots(d[a]) BY <2>2 DEF Says, Slots, Has
    <3>2. Held(d[a], <<"items", "">>) = d[a].items BY DEF Held
    <3> QED BY <2>1, <3>1, <3>2 DEF HeldBy
  <2>3. ASSUME NEW k \in DOMAIN Props(d[a]) PROVE Props(d[a])[k] \in DOMAIN d
    <3>1. Says(d[a], "props") /\ Props(d[a]) = d[a].props BY DEF Props, Keyword, NoFields
    <3>2. <<"props", k>> \in {"props"} \X DOMAIN d[a].props BY <2>3, <3>1
    <3>3. <<"props", k>> \in Slots(d[a]) BY <3>1, <3>2 DEF Says, Slots, Has
    <3>4. Held(d[a], <<"props", k>>) = d[a].props[k] BY DEF Held
    <3> QED BY <2>1, <3>1, <3>3, <3>4 DEF HeldBy
  <2> QED BY <2>2, <2>3
<1> QED BY <1>1, <1>2, <1>3

LEMMA InnerFacts ==
  ASSUME NEW d, Fits(d), NEW n, n \in {d[a] : a \in DOMAIN d}, NEW k
  PROVE  /\ Inner(n, <<"items", k>>) = IF Says(n, "items") THEN n.items ELSE 0
         /\ Inner(n, <<"props", k>>) = IF k \in DOMAIN Props(n) THEN Props(n)[k] ELSE 0
<1>1. Inner(n, <<"items", k>>) = IF Says(n, "items") THEN n.items ELSE 0
  BY DEF Inner, Keyword
<1>2. k \in DOMAIN Props(n) => Props(n) = n.props BY DEF Props, Keyword, NoFields
<1>3. Inner(n, <<"props", k>>) = IF k \in DOMAIN Props(n) THEN n.props[k] ELSE 0
  BY DEF Inner
<1> QED BY <1>1, <1>2, <1>3

LEMMA AtTyped ==
  ASSUME NEW d, Fits(d), NEW v, IsJson(v), NEW q \in DOMAIN v
  PROVE  At(d, q) # 0 => At(d, q) \in DOMAIN d /\ NodeAt(d, q) \in {d[a] : a \in DOMAIN d}
<1> DEFINE S == {p \in DOMAIN v : At(d, p) # 0 => At(d, p) \in DOMAIN d}
<1>1. <<>> \in S BY AtRoot, NodeFacts DEF IsJson
<1>2. ASSUME NEW p \in DOMAIN v \ {<<>>}, Parent(p) \in S PROVE p \in S
  <2> DEFINE o == Parent(p)
             n == NodeAt(d, o)
  <2>1. Holds(o, p) /\ o \in S /\ \E k : p[Len(p)] = <<"props", k>> \/ p[Len(p)] = <<"items", k>>
    BY <1>2, JsonFacts
  <2>2. At(d, p) = IF At(d, o) = 0 THEN 0 ELSE Inner(n, p[Len(p)]) BY <2>1, AtStep
  <2>3. CASE At(d, o) # 0
    <3>1. At(d, o) \in DOMAIN d /\ n = d[At(d, o)] BY <2>1, <2>3 DEF NodeAt
    <3>2. n \in {d[a] : a \in DOMAIN d} BY <3>1
    <3>3. PICK k : p[Len(p)] = <<"props", k>> \/ p[Len(p)] = <<"items", k>> BY <2>1
    <3>4. At(d, p) = 0 \/ (Says(n, "items") /\ At(d, p) = n.items)
            \/ (k \in DOMAIN Props(n) /\ At(d, p) = Props(n)[k])
      <4> HIDE DEF n, o
      <4> QED BY <2>2, <2>3, <3>2, <3>3, InnerFacts
    <3>5. At(d, p) = 0 \/ At(d, p) \in DOMAIN d BY <3>1, <3>4, NodeFacts
    <3> QED BY <3>5
  <2>4. CASE At(d, o) = 0 BY <2>2, <2>4
  <2> QED BY <2>3, <2>4
<1>3. DOMAIN v \subseteq S
  <2> HIDE DEF S
  <2> QED BY <1>1, <1>2, PlaceInduction
<1>4. At(d, q) # 0 => At(d, q) \in DOMAIN d BY <1>3
<1> QED BY <1>4 DEF NodeAt

\* The node of what is inside a place, by the node of the place.
LEMMA AtInside ==
  ASSUME NEW d, Fits(d), NEW v, IsJson(v), NEW q \in DOMAIN v, At(d, q) # 0,
         NEW n, n = NodeAt(d, q)
  PROVE  /\ \A m \in Members(v, q) :
              /\ At(d, m) # 0 <=> KeyOf(m) \in DOMAIN Props(n)
              /\ KeyOf(m) \in DOMAIN Props(n) => NodeAt(d, m) = d[Props(n)[KeyOf(m)]]
         /\ \A e \in Elements(v, q) :
              /\ At(d, e) # 0 <=> Says(n, "items")
              /\ Says(n, "items") => NodeAt(d, e) = Item(d, n)
<1>1. n \in {d[a] : a \in DOMAIN d} BY AtTyped
<1>2. ASSUME NEW p \in Inside(v, q) PROVE At(d, p) = Inner(n, p[Len(p)])
  BY <1>2, InsideFacts, AtStep
<1>3. ASSUME NEW m \in Members(v, q)
      PROVE  /\ At(d, m) # 0 <=> KeyOf(m) \in DOMAIN Props(n)
             /\ KeyOf(m) \in DOMAIN Props(n) => NodeAt(d, m) = d[Props(n)[KeyOf(m)]]
  <2>1. m \in Inside(v, q) /\ m[Len(m)] = <<"props", KeyOf(m)>> BY MemberFacts
  <2>2. At(d, m) = IF KeyOf(m) \in DOMAIN Props(n) THEN Props(n)[KeyOf(m)] ELSE 0
    BY <1>1, <1>2, <2>1, InnerFacts
  <2>3. KeyOf(m) \in DOMAIN Props(n) => Props(n)[KeyOf(m)] # 0 BY <1>1, NodeFacts
  <2> QED BY <2>2, <2>3 DEF NodeAt
<1>4. ASSUME NEW e \in Elements(v, q)
      PROVE  /\ At(d, e) # 0 <=> Says(n, "items")
             /\ Says(n, "items") => NodeAt(d, e) = Item(d, n)
  <2>1. e \in Inside(v, q) /\ e[Len(e)] = <<"items", KeyOf(e)>> BY ElementFacts
  <2>2. At(d, e) = IF Says(n, "items") THEN n.items ELSE 0 BY <1>1, <1>2, <2>1, InnerFacts
  <2>3. Says(n, "items") => n.items # 0 BY <1>1, NodeFacts
  <2> QED BY <2>2, <2>3 DEF NodeAt, Item
<1> QED BY <1>3, <1>4

LEMMA ReturnedFacts ==
  ASSUME NEW d, NEW v, IsJson(v), NEW r, r = Returned(d, v)
  PROVE  /\ \A p : p \in DOMAIN r <=> p \in DOMAIN v /\ Retained(d, p)
         /\ \A p \in DOMAIN r :
              /\ r[p].text = v[p].text
              /\ r[p] = v[p] \/ (/\ v[p].kind = "string" /\ r[p].kind = "number"
                                 /\ Reached(d, p) /\ IntOrString(NodeAt(d, p)))
              /\ v[p].kind = "string" /\ Reached(d, p) /\ IntOrString(NodeAt(d, p)) => r[p].kind = "number"
<1>1. \A p : p \in DOMAIN r <=> p \in DOMAIN v /\ Retained(d, p) BY DEF Returned
<1>2. ASSUME NEW p \in DOMAIN r
      PROVE  /\ r[p].text = v[p].text
             /\ r[p] = v[p] \/ (/\ v[p].kind = "string" /\ r[p].kind = "number"
                                /\ Reached(d, p) /\ IntOrString(NodeAt(d, p)))
             /\ v[p].kind = "string" /\ Reached(d, p) /\ IntOrString(NodeAt(d, p)) => r[p].kind = "number"
  <2>1. r[p] = IF v[p].kind = "string" /\ Reached(d, p) /\ IntOrString(NodeAt(d, p))
               THEN [v[p] EXCEPT !.kind = "number"] ELSE v[p]
    BY <1>1 DEF Returned
  <2>2. v[p] = [kind |-> v[p].kind, text |-> v[p].text] BY <1>1, JsonFacts
  <2>3. [v[p] EXCEPT !.kind = "number"] = [kind |-> "number", text |-> v[p].text] BY <2>2
  <2> QED BY <2>1, <2>3
<1> QED BY <1>1, <1>2

LEMMA NodesRetained ==
  ASSUME NEW d, NEW v, IsJson(v), NEW q \in DOMAIN v, At(d, q) # 0
  PROVE  Retained(d, q)
<1> DEFINE S == {p \in DOMAIN v : At(d, p) # 0 => Retained(d, p)}
<1>1. <<>> \in S BY ReachedRoot DEF IsJson
<1>2. ASSUME NEW p \in DOMAIN v \ {<<>>}, Parent(p) \in S PROVE p \in S
  <2>1. Holds(Parent(p), p) BY <1>2, JsonFacts
  <2>2. At(d, p) # 0 => At(d, Parent(p)) # 0 BY <2>1, AtStep
  <2> QED BY <1>2, <2>1, <2>2, RetainedStep
<1>3. DOMAIN v \subseteq S
  <2> HIDE DEF S
  <2> QED BY <1>1, <1>2, PlaceInduction
<1> QED BY <1>3

\* The place is an object's whose adapter drops the members it does not know.
Drops(d, q) == q # <<>> /\ Reached(d, q) /\ Nests(NodeAt(d, q))

LEMMA ReturnedInside ==
  ASSUME NEW d, Fits(d), NEW v, IsJson(v), NEW r, r = Returned(d, v), NEW q \in DOMAIN r
  PROVE  /\ \A p \in Inside(v, q) : p \in DOMAIN r <=> ~Drops(d, q) \/ At(d, p) # 0
         /\ Members(r, q) = Members(v, q) \cap DOMAIN r
         /\ Elements(r, q) \subseteq Elements(v, q)
         /\ ~Drops(d, q) => Members(r, q) = Members(v, q) /\ Elements(r, q) = Elements(v, q)
         /\ Keys(r, q) = IF Drops(d, q) THEN Keys(v, q) \cap DOMAIN Props(NodeAt(d, q)) ELSE Keys(v, q)
         /\ \A k \in Keys(r, q) :
              k \in Keys(v, q) /\ Member(q, k) \in Members(r, q) /\ Member(q, k) \in Members(v, q)
<1>1. \A p : p \in DOMAIN r <=> p \in DOMAIN v /\ Retained(d, p) BY ReturnedFacts
<1>2. ASSUME NEW p \in Inside(v, q) PROVE p \in DOMAIN r <=> ~Drops(d, q) \/ At(d, p) # 0
  <2>1. p \in DOMAIN v /\ Holds(q, p) BY InsideFacts
  <2>2. Retained(d, q) BY <1>1
  <2> QED BY <1>1, <2>1, <2>2, RetainedStep DEF Drops
<1>3. Inside(r, q) = Inside(v, q) \cap DOMAIN r BY <1>1 DEF Inside
<1>4. Members(r, q) = Members(v, q) \cap DOMAIN r /\ Elements(r, q) = Elements(v, q) \cap DOMAIN r
  BY <1>3 DEF Members, Elements
<1>5. Members(v, q) \subseteq Inside(v, q) /\ Elements(v, q) \subseteq Inside(v, q)
  BY DEF Members, Elements
<1>6. ~Drops(d, q) => Members(r, q) = Members(v, q) /\ Elements(r, q) = Elements(v, q)
  BY <1>2, <1>4, <1>5
<1>7. Keys(r, q) = IF Drops(d, q) THEN Keys(v, q) \cap DOMAIN Props(NodeAt(d, q)) ELSE Keys(v, q)
  <2>1. CASE ~Drops(d, q) BY <2>1, <1>6 DEF Keys
  <2>2. CASE Drops(d, q)
    <3>1. At(d, q) # 0 /\ q \in DOMAIN v BY <2>2, <1>1 DEF Drops, Reached
    <3>2. \A m \in Members(v, q) : At(d, m) # 0 <=> KeyOf(m) \in DOMAIN Props(NodeAt(d, q))
      BY <3>1, AtInside
    <3>3. \A m \in Members(v, q) : m \in Members(r, q) <=> KeyOf(m) \in DOMAIN Props(NodeAt(d, q))
      BY <2>2, <3>2, <1>2, <1>4, <1>5
    <3> QED BY <2>2, <3>3, <1>4 DEF Keys
  <2> QED BY <2>1, <2>2
<1>8. ASSUME NEW k \in Keys(r, q)
      PROVE  k \in Keys(v, q) /\ Member(q, k) \in Members(r, q) /\ Member(q, k) \in Members(v, q)
  <2>1. PICK m \in Members(r, q) : k = KeyOf(m) BY DEF Keys
  <2>2. m \in Members(v, q) BY <2>1, <1>4
  <2> QED BY <2>1, <2>2, MemberFacts DEF Keys
<1> QED BY <1>2, <1>4, <1>6, <1>7, <1>8

-----------------------------------------------------------------------------
(***************************************************************************)
(* Types: how the checks read them, the adapters, and the keywords' sense. *)
(***************************************************************************)
KnownTypes == AnyOfTypes \cup {""}

LEMMA Familiar ==
  ASSUME NEW n, ~StrangeType(n)
  PROVE  /\ Type(n) \in KnownTypes /\ PatternTypes(n) \subseteq KnownTypes
         /\ BranchTypes(n) \subseteq KnownTypes
         /\ HasAdditionalSchema(n) => AdditionalType(n) \in KnownTypes
         /\ Says(n, "contains") => n.contains.type \in KnownTypes
BY DEF StrangeType, CheckedTypes, KnownTypes

\* A number is what it is read as, where its type is asked for.
ReadRight(t, x) == t \in {"number", "integer"} /\ x.kind = "number" => ~Inexact(x)

LEMMA AllReadRight ==
  ASSUME NEW n, NEW v, NEW q, ~ReadsInexactly(n, v, q)
  PROVE  /\ \A t \in CheckedTypes(n) : ReadRight(t, v[q])
         /\ \A t \in CheckedTypes(n), p \in Members(v, q) \cup Elements(v, q) : ReadRight(t, v[p])
BY DEF ReadsInexactly, ReadRight, Members, Elements

LEMMA Matching ==
  ASSUME NEW t \in KnownTypes, NEW x, ReadRight(t, x)
  PROVE  /\ MeansType(t, x) => MatchesType(x, t)
         /\ t # "array" /\ MatchesType(x, t) => MeansType(t, x)
         /\ t \in {"string", "boolean", "number", "integer"} /\ MeansType(t, x) =>
              x.kind \in {"string", "boolean", "number"}
BY TextsAssumption
   DEF KnownTypes, AnyOfTypes, MeansType, MatchesType, IsNumber, ReadRight, Inexact

LEMMA Taking ==
  ASSUME NEW t, NEW x
  PROVE  /\ OfType(t, x) => x.kind \in {"string", "boolean", "number", "object"}
         /\ t \in {"", "object", "array"} => (OfType(t, x) <=> x.kind = "object")
         /\ t \in KnownTypes \ {"array", "integer"} /\ OfType(t, x) => MeansType(t, x)
         /\ t = "integer" /\ OfType(t, x) /\ x.text \in WholeTexts => MeansType(t, x)
         /\ t \in KnownTypes \ {"array", ""} /\ MeansType(t, x) => OfType(t, x)
<1>1. OfType(t, x) => x.kind \in {"string", "boolean", "number", "object"} BY DEF OfType
<1>2. t \in {"", "object", "array"} => (OfType(t, x) <=> x.kind = "object") BY DEF OfType
<1>3. t \in KnownTypes \ {"array", "integer"} /\ OfType(t, x) => MeansType(t, x)
  BY DEF OfType, MeansType, KnownTypes, AnyOfTypes
<1>4. t = "integer" /\ OfType(t, x) /\ x.text \in WholeTexts => MeansType(t, x)
  BY DEF OfType, MeansType
<1>5. t \in KnownTypes \ {"array", ""} /\ MeansType(t, x) => OfType(t, x)
  BY DEF OfType, MeansType, KnownTypes, AnyOfTypes
<1> QED BY <1>1, <1>2, <1>3, <1>4, <1>5

LEMMA PartFacts ==
  ASSUME NEW v, NEW q \in DOMAIN v, IsPlace(q)
  PROVE  <<>> \in DOMAIN Part(v, q) /\ Part(v, q)[<<>>] = v[q]
<1>1. Len(q) \in Nat /\ To(q, Len(q)) = q /\ q \o <<>> = q BY DEF IsPlace, To
<1>2. SubSeq(q, Len(q) + 1, Len(q)) = <<>> BY <1>1 DEF IsPlace
<1>3. q \in {s \in DOMAIN v : Len(s) >= Len(q) /\ To(s, Len(q)) = q} BY <1>1
<1>4. <<>> \in {SubSeq(s, Len(q) + 1, Len(s)) : s \in {s \in DOMAIN v : Len(s) >= Len(q) /\ To(s, Len(q)) = q}}
  BY <1>2, <1>3
<1> QED BY <1>1, <1>4 DEF Part

-----------------------------------------------------------------------------
(***************************************************************************)
(* Checks see in what is returned what the keywords mean of what was       *)
(* given.                                                                  *)
(***************************************************************************)

\* What is not given as a text is returned as it is.
LEMMA SameReturned ==
  ASSUME NEW d, NEW v, IsJson(v), NEW r, r = Returned(d, v), NEW p \in DOMAIN r,
         v[p].kind # "string" \/ ~Reached(d, p) \/ ~IntOrString(NodeAt(d, p))
  PROVE  r[p] = v[p]
BY ReturnedFacts

LEMMA ElementsReturned ==
  ASSUME NEW d, Fits(d), NEW v, IsJson(v), NEW r, r = Returned(d, v),
         NEW q \in DOMAIN r, ~Drops(d, q)
  PROVE  /\ Elements(r, q) = Elements(v, q)
         /\ \A e \in Elements(v, q) : e \in DOMAIN r /\ e \in DOMAIN v /\ e # <<>> /\ Holds(q, e)
<1>1. Elements(r, q) = Elements(v, q) BY ReturnedInside
<1>2. ASSUME NEW e \in Elements(v, q)
      PROVE  e \in DOMAIN r /\ e \in DOMAIN v /\ e # <<>> /\ Holds(q, e)
  <2>1. e \in Inside(v, q) BY DEF Elements
  <2> QED BY <2>1, ReturnedInside, InsideFacts
<1> QED BY <1>1, <1>2

\* The type of an element, by what its adapter takes.
LEMMA ItemTaken ==
  ASSUME NEW d, NEW v, NEW e, IsItem(e), Takes(d, v, e), NEW n, n = NodeAt(d, e)
  PROVE  /\ v[e].kind # "array" /\ v[e].kind # "null"
         /\ ~IntOrString(n) /\ Type(n) = "string" => v[e].kind = "string"
         /\ ~IntOrString(n) /\ Type(n) \in {"", "object"} => v[e].kind = "object"
<1>1. \/ IntOrString(n) /\ IsNumeric(v[e])
      \/ ~IntOrString(n) /\ Nests(n) /\ Nested(d, v, e)
      \/ ~IntOrString(n) /\ ~Nests(n) /\ OfType(Type(n), v[e])
  BY DEF Takes, Nests
<1>2. Nested(d, v, e) => v[e].kind = "object" BY DEF Nested
<1>3. IsNumeric(v[e]) => v[e].kind \in {"number", "string"} BY DEF IsNumeric, IsNumber
<1>4. Nests(n) => Type(n) = "object" BY DEF Nests
<1>5. OfType("string", v[e]) => v[e].kind = "string" BY DEF OfType
<1> QED BY <1>1, <1>2, <1>3, <1>4, <1>5, Taking

LEMMA SetMeant ==
  ASSUME NEW d, Fits(d), NEW v, IsJson(v), NEW r, r = Returned(d, v),
         NEW q \in DOMAIN r, ~Drops(d, q), SetHolds(r, q),
         \A e \in Elements(v, q) : r[e] = v[e] /\ v[e].kind = "string",
         NEW e \in Elements(v, q), NEW f \in Elements(v, q), Part(v, e) = Part(v, f)
  PROVE  e = f
<1>1. /\ Elements(r, q) = Elements(v, q)
      /\ \A g \in Elements(v, q) : g \in DOMAIN r /\ g \in DOMAIN v /\ Holds(q, g)
  BY ElementsReturned
<1>2. \A g, h \in Elements(r, q) : r[g].text = r[h].text => g = h BY <1>1 DEF SetHolds
<1>3. IsPlace(e) /\ IsPlace(f) BY <1>1 DEF Holds
<1>4. v[e] = v[f] BY <1>1, <1>3, PartFacts
<1> QED BY <1>1, <1>2, <1>4

\* Elements of which the keys are alike have the same composite key.
LEMMA AlikeKeys ==
  ASSUME NEW d, Fits(d), NEW v, IsJson(v), NEW r, r = Returned(d, v), NEW keys,
         NEW e \in DOMAIN r, NEW f \in DOMAIN r, Alike(keys, v, e, f),
         \A i \in DOMAIN keys : keys[i] \in Keys(r, e) /\ keys[i] \in Keys(r, f)
  PROVE  CompositeKey(keys, r, e) = CompositeKey(keys, r, f)
<1> DEFINE K == {keys[i] : i \in DOMAIN keys}
<1>1. K \cap Keys(r, e) = K /\ K \cap Keys(r, f) = K OBVIOUS
<1>2. ASSUME NEW k \in K PROVE r[Member(e, k)].text = r[Member(f, k)].text
  <2>1. PICK i \in DOMAIN keys : k = keys[i] OBVIOUS
  <2>2. /\ Member(e, k) \in Members(r, e) /\ Member(e, k) \in Members(v, e)
        /\ Member(f, k) \in Members(r, f) /\ Member(f, k) \in Members(v, f)
    BY <2>1, ReturnedInside
  <2>3. /\ Member(e, k) \in DOMAIN r /\ Member(e, k) \in Inside(v, e)
        /\ Member(f, k) \in DOMAIN r /\ Member(f, k) \in Inside(v, f)
    BY <2>2 DEF Members, Inside
  <2>4. /\ Member(e, k) \in DOMAIN v /\ IsPlace(Member(e, k))
        /\ Member(f, k) \in DOMAIN v /\ IsPlace(Member(f, k))
    BY <2>3, InsideFacts DEF Holds
  <2>5. Part(v, Member(e, k)) = Part(v, Member(f, k)) BY <2>1 DEF Alike
  <2>6. v[Member(e, k)] = v[Member(f, k)] BY <2>4, <2>5, PartFacts
  <2> QED BY <2>3, <2>6, ReturnedFacts
<1>3. [k \in K |-> r[Member(e, k)].text] = [k \in K |-> r[Member(f, k)].text] BY <1>2
<1> HIDE DEF K
<1>4. /\ CompositeKey(keys, r, e) = Joined(keys, [k \in K \cap Keys(r, e) |-> r[Member(e, k)].text])
      /\ CompositeKey(keys, r, f) = Joined(keys, [k \in K \cap Keys(r, f) |-> r[Member(f, k)].text])
  BY DEF CompositeKey, K
<1> QED BY <1>1, <1>3, <1>4

LEMMA MapMeant ==
  ASSUME NEW d, Fits(d), NEW v, IsJson(v), NEW r, r = Returned(d, v), NEW keys,
         NEW q \in DOMAIN r, ~Drops(d, q), ListMapHolds(keys, r, q),
         \A e \in Elements(v, q) : v[e].kind = "object"
  PROVE  Keyed(keys, v, q)
<1>1. /\ Elements(r, q) = Elements(v, q)
      /\ \A g \in Elements(v, q) : g \in DOMAIN r /\ g \in DOMAIN v /\ Holds(q, g)
  BY ElementsReturned
<1>2. \A e \in Elements(r, q) : r[e].kind = "object"
  <2>1. \A e \in Elements(r, q) : r[e] = v[e] BY <1>1, SameReturned
  <2> QED BY <1>1, <2>1
<1>3. \A e \in Elements(v, q), i \in DOMAIN keys : keys[i] \in Keys(r, e)
  BY <1>1, <1>2 DEF ListMapHolds
<1>4. \A e \in Elements(v, q), i \in DOMAIN keys : keys[i] \in Keys(v, e)
  BY <1>1, <1>3, ReturnedInside
<1>5. ASSUME keys # <<>>, NEW e \in Elements(v, q), NEW f \in Elements(v, q), Alike(keys, v, e, f)
      PROVE  e = f
  <2>1. CompositeKey(keys, r, e) = CompositeKey(keys, r, f) BY <1>1, <1>3, <1>5, AlikeKeys
  <2> QED BY <1>1, <1>2, <1>5, <2>1 DEF ListMapHolds
<1> QED BY <1>4, <1>5 DEF Keyed

\* The elements that count for contains are the same.
LEMMA SameHits ==
  ASSUME NEW d, Fits(d), NEW v, IsJson(v), NEW r, r = Returned(d, v),
         NEW q \in DOMAIN r, ~Drops(d, q), At(d, q) # 0, NEW n, n = NodeAt(d, q),
         Says(n, "contains"), ~CountsOtherwise(d, n), ~StrangeType(n), ~ReadsInexactly(n, v, q)
  PROVE  {e \in Elements(r, q) : ContainsMatch(n.contains, r, e)} = Hits(n.contains, v, q)
<1> DEFINE c == n.contains
<1>1. /\ c.type \in KnownTypes \ {"array"}
      /\ c.type = "" => c.required = {}
      /\ Says(n, "items") =>
           /\ ~IntOrString(Item(d, n))
           /\ HasProps(Item(d, n)) => c.required \subseteq DOMAIN Props(Item(d, n))
  BY Familiar DEF CountsOtherwise
<1>2. /\ Elements(r, q) = Elements(v, q)
      /\ \A e \in Elements(v, q) : e \in DOMAIN r /\ e \in DOMAIN v /\ e # <<>> /\ Holds(q, e)
  BY ElementsReturned
<1>3. q \in DOMAIN v BY ReturnedFacts
<1>5. \A e \in Elements(v, q) : ReadRight(c.type, v[e]) BY AllReadRight DEF CheckedTypes
<1> HIDE DEF c
<1>4. ASSUME NEW e \in Elements(v, q)
      PROVE  ContainsMatch(c, r, e)
               <=> MeansType(c.type, v[e]) /\ (v[e].kind = "object" => c.required \subseteq Keys(v, e))
  <2>1. /\ At(d, e) # 0 => Says(n, "items")
        /\ Says(n, "items") => NodeAt(d, e) = Item(d, n)
    BY <1>3, AtInside
  <2>2. r[e] = v[e]
    <3>1. ~Reached(d, e) \/ ~IntOrString(NodeAt(d, e)) BY <1>1, <2>1 DEF Reached
    <3> QED BY <1>2, <3>1, SameReturned
  <2>3. MatchesType(r[e], c.type) <=> MeansType(c.type, v[e]) BY <1>1, <1>5, <2>2, Matching
  <2>4. c.required \subseteq Keys(r, e) <=> c.required \subseteq Keys(v, e)
    <3>1. CASE ~Drops(d, e) BY <3>1, <1>2, ReturnedInside
    <3>2. CASE Drops(d, e)
      <4>1. Keys(r, e) = Keys(v, e) \cap DOMAIN Props(NodeAt(d, e)) BY <1>2, <3>2, ReturnedInside
      <4>2. HasProps(NodeAt(d, e)) /\ At(d, e) # 0 BY <3>2 DEF Drops, Nests, HasProps, Reached
      <4> QED BY <4>1, <4>2, <1>1, <2>1
    <3> QED BY <3>1, <3>2
  <2>5. c.type \notin {"object", ""} /\ MeansType(c.type, v[e]) => v[e].kind # "object"
    BY <1>1, <1>5, Matching DEF KnownTypes, AnyOfTypes
  <2>6. c.type = "object" /\ MeansType(c.type, v[e]) => v[e].kind = "object" BY DEF MeansType
  <2> QED BY <1>1, <2>3, <2>4, <2>5, <2>6 DEF ContainsMatch
<1> QED BY <1>2, <1>4 DEF Hits, c

\* The branches that hold are those that are meant.
LEMMA SameBranches ==
  ASSUME NEW n, NEW v, NEW r, NEW q, r[q] = v[q], Keys(r, q) = Keys(v, q),
         ~ReadsBranches(n), ~StrangeType(n), ~ReadsInexactly(n, v, q),
         "array" \in BranchTypes(n) => v[q].kind = "array",
         BranchTypes(n) \cup {Type(n)} \subseteq {"", "object"} => v[q].kind = "object"
  PROVE  \A i \in DOMAIN Branches(n) :
           BranchHolds(Branches(n)[i], r, q) <=> MeansBranch(Branches(n)[i], v, q)
<1>1. ASSUME NEW i \in DOMAIN Branches(n), NEW b, b = Branches(n)[i]
      PROVE  BranchHolds(b, r, q) <=> MeansBranch(b, v, q)
  <2>1. b.type \in BranchTypes(n) /\ b.type \in KnownTypes BY <1>1, Familiar DEF BranchTypes
  <2>2. b.required # {} => b.type = "" /\ v[q].kind = "object" BY <1>1 DEF ReadsBranches
  <2>3. b.type = "array" => v[q].kind = "array" BY <2>1
  <2>4. b.type # "" => (MatchesType(r[q], b.type) <=> MeansType(b.type, v[q]))
    <3>1. CASE b.type = "array" BY <3>1, <2>3 DEF MatchesType, MeansType
    <3>2. CASE b.type # "array"
      <4>1. ReadRight(b.type, v[q]) BY <2>1, AllReadRight DEF CheckedTypes
      <4> QED BY <3>2, <2>1, <4>1, Matching
    <3> QED BY <3>1, <3>2
  <2>5. MeansType("", v[q]) BY DEF MeansType
  <2>6. CASE b.type # "" BY <2>6, <2>2, <2>4 DEF BranchHolds, MeansBranch
  <2>7. CASE b.type = "" BY <2>7, <2>2, <2>5 DEF BranchHolds, MeansBranch
  <2> QED BY <2>6, <2>7
<1> QED BY <1>1

-----------------------------------------------------------------------------
(***************************************************************************)
(* What is accepted conforms, but for what AcceptsMore lists.              *)
(***************************************************************************)
LEMMA WayFacts ==
  ASSUME NEW n
  PROVE  /\ Way(n) = "number" <=> IntOrString(n)
         /\ Way(n) = "nested" <=> Nests(n)
         /\ Way(n) = "patterns" <=>
              ~IntOrString(n) /\ Container(n) /\ ~HasProps(n) /\ HasPatterns(n)
         /\ Way(n) = "map" <=>
              /\ ~IntOrString(n) /\ Container(n) /\ ~HasProps(n) /\ ~HasPatterns(n)
              /\ HasAdditionalSchema(n)
         /\ Way(n) = "names" <=>
              /\ ~IntOrString(n) /\ Container(n) /\ ~HasProps(n) /\ ~HasPatterns(n)
              /\ ~HasAdditionalSchema(n) /\ HasNames(n)
         /\ Way(n) \in {"number", "nested", "patterns", "map", "names", "minimal"}
         /\ HasBranch(n) => Way(n) = "minimal" /\ FirstTyped(Branches(n)) # {}
BY DEF Way, Nests, Container, HasProps, HasBranch

\* The first branch with a type, if there is one
LEMMA FirstBranch ==
  ASSUME NEW n, IsNode(n)
  PROVE  /\ FirstTyped(Branches(n)) # {} <=> BranchTypes(n) \cap AnyOfTypes # {}
         /\ \A i \in FirstTyped(Branches(n)) :
              i \in DOMAIN Branches(n) /\ Branches(n)[i].type \in BranchTypes(n) \cap AnyOfTypes
<1> DEFINE B == Branches(n)
           S == {i \in DOMAIN B : B[i].type \in AnyOfTypes}
<1>1. DOMAIN B \subseteq Nat
  <2> DEFINE T == {B[i] : i \in DOMAIN B}
  <2>1. B \in Seq(T) BY DEF IsNode
  <2> HIDE DEF T, B
  <2> QED BY <2>1
<1>2. \A i \in FirstTyped(B) : i \in DOMAIN B /\ B[i].type \in BranchTypes(n) \cap AnyOfTypes
  BY DEF FirstTyped, BranchTypes
<1>3. ASSUME BranchTypes(n) \cap AnyOfTypes # {} PROVE FirstTyped(B) # {}
  <2>1. S # {} BY <1>3 DEF BranchTypes
  <2>2. S \subseteq Nat BY <1>1
  <2>3. PICK i \in S : \A j \in S : i <= j
    <3> HIDE DEF S
    <3> QED BY <2>1, <2>2, Least
  <2>4. i \in Nat /\ i \in DOMAIN B BY <2>2
  <2>5. \A j \in 1..(i - 1) : B[j].type \notin AnyOfTypes
    <3>1. \A j \in 1..(i - 1) : j \in DOMAIN B
      <4>1. Branches(n) \in Seq({B[k] : k \in DOMAIN B}) BY DEF IsNode
      <4> DEFINE T == {B[k] : k \in DOMAIN B}
      <4>2. B \in Seq(T) BY <4>1
      <4> HIDE DEF T, B
      <4> QED BY <2>4, <4>2
    <3>2. \A j \in 1..(i - 1) : ~(i <= j) BY <2>4
    <3> QED BY <2>3, <3>1, <3>2
  <2> QED BY <2>3, <2>4, <2>5 DEF FirstTyped
<1> QED BY <1>2, <1>3

Admits(d, options, v) ==
  Fits(d) /\ IsJson(v) /\ Accepts(d, options, v) /\ ~AcceptsMore(d, v)

LEMMA FieldFacts ==
  ASSUME NEW v, IsJson(v), v[<<>>].kind = "object", NEW q \in DOMAIN v \ {<<>>}
  PROVE  /\ IsField(q) <=> Parent(q) = <<>>
         /\ IsField(q) => ~IsItem(q) /\ q[Len(q)][1] = "props"
         /\ Len(q) \in Nat \ {0} /\ Holds(Parent(q), q)
<1>1. Parent(q) \in DOMAIN v /\ Holds(Parent(q), q) BY JsonFacts
<1>2. Len(Parent(q)) \in Nat /\ Len(q) = Len(Parent(q)) + 1 /\ IsPlace(Parent(q))
  BY <1>1, PlaceFacts
<1>3. Len(Parent(q)) = 0 <=> Parent(q) = <<>> BY <1>2 DEF IsPlace
<1>4. IsField(q) <=> Parent(q) = <<>> BY <1>2, <1>3 DEF IsField
<1>5. IsField(q) => q[Len(q)] = <<"props", KeyOf(q)>> /\ ~IsItem(q)
  <2>1. Parent(q) = <<>> => v[Parent(q)].kind # "array" BY Zenon
  <2> QED BY <1>4, <2>1, JsonFacts
<1> QED BY <1>1, <1>2, <1>4, <1>5

LEMMA TakenKinds ==
  ASSUME NEW d, NEW v, NEW q, NEW n, n = NodeAt(d, q),
         \/ TakesField(d, v, q) /\ ~IsItem(q)
         \/ Takes(d, v, q)
  PROVE  /\ IntOrString(n) => v[q].kind \in {"null", "number", "string"}
         /\ Way(n) \in {"nested", "patterns", "map", "names"} => v[q].kind \in {"null", "object"}
         /\ v[q].kind = "null" => IsNullable(n)
         /\ v[q].kind = "array" =>
              /\ ~IntOrString(n) /\ ~IsItem(q) /\ Way(n) = "minimal"
              /\ \/ HasBranch(n)
                 \/ /\ Type(n) = "array"
                    /\ ~Says(n, "items") => \A e \in Elements(v, q) : v[e].kind = "object"
<1>1. ASSUME Takes(d, v, q), ~(v[q].kind = "null" /\ IsNullable(n) /\ ~IsItem(q))
      PROVE  \/ IntOrString(n) /\ v[q].kind \in {"number", "string"}
             \/ Nests(n) /\ v[q].kind = "object" /\ ~IntOrString(n)
             \/ /\ ~IntOrString(n) /\ ~Nests(n) /\ Type(n) = "array" /\ ~IsItem(q) /\ v[q].kind = "array"
                /\ ~Says(n, "items") => \A e \in Elements(v, q) : v[e].kind = "object"
             \/ /\ ~IntOrString(n) /\ ~Nests(n) /\ OfType(Type(n), v[q])
                /\ v[q].kind \in {"string", "boolean", "number", "object"}
                /\ Type(n) = "object" => v[q].kind = "object"
  BY <1>1, Taking DEF Takes, Nested, IsNumeric, IsNumber, Nests
<1>2. ASSUME TakesField(d, v, q), ~(v[q].kind = "null" /\ IsNullable(n))
      PROVE  \/ Way(n) \in {"patterns", "map", "names"} /\ v[q].kind = "object"
             \/ /\ Way(n) \notin {"patterns", "map", "names"}
                /\ \/ Takes(d, v, q)
                   \/ HasBranch(n) /\ v[q].kind \in {"string", "boolean", "number", "object", "array"}
  <2>1. CASE Way(n) \notin {"patterns", "map", "names"} /\ HasBranch(n)
    <3>1. PICK i \in FirstTyped(Branches(n)) : TakesBranch(Branches(n)[i].type, v, q)
      BY <1>2, <2>1 DEF TakesField, HasBranch
    <3> QED BY <2>1, <3>1, Taking DEF TakesBranch
  <2> QED BY <1>2, <2>1 DEF TakesField
<1> QED BY <1>1, <1>2, WayFacts DEF Container

\* What an accepting import says of a place with a node, if it is reached.
LEMMA PlaceAccepted ==
  ASSUME NEW d, NEW options, NEW v, Accepts(d, options, v), NEW q \in DOMAIN v \ {<<>>}, Reached(d, q)
  PROVE  /\ v[<<>>].kind = "object"
         /\ IsField(q) => FieldAccepts(d, options, v, q) /\ TakesField(d, v, q)
         /\ ~IsField(q) => DeeperAccepts(d, v, q) /\ Takes(d, v, q)
BY DEF Accepts, IsField, FieldAccepts, DeeperAccepts

\* Every place that has a node is reached.
LEMMA AllReached ==
  ASSUME NEW d, NEW options, NEW v, Admits(d, options, v), NEW q \in DOMAIN v, At(d, q) # 0
  PROVE  Reached(d, q)
<1> DEFINE S == {p \in DOMAIN v : At(d, p) # 0 => Reached(d, p)}
<1>1. Fits(d) /\ IsJson(v) /\ Accepts(d, options, v) /\ ~AcceptsMore(d, v) BY DEF Admits
<1>2. <<>> \in S BY <1>1, ReachedRoot DEF IsJson
<1>3. ASSUME NEW p \in DOMAIN v \ {<<>>}, Parent(p) \in S PROVE p \in S
  <2> SUFFICES ASSUME At(d, p) # 0 PROVE Reached(d, p) OBVIOUS
  <2> DEFINE o == Parent(p)
             n == NodeAt(d, o)
  <2>1. Holds(o, p) /\ o \in DOMAIN v BY <1>1, JsonFacts
  <2>2. At(d, o) # 0 /\ Reached(d, o) BY <1>3, <2>1, AtStep
  <2>3. Opens(d, o)
    <3>1. CASE o = <<>> BY <3>1 DEF Opens
    <3>2. CASE o # <<>>
      <4>1. ~TakesUnopened(n, o) BY <1>1, <2>1, <2>2, <3>2 DEF AcceptsMore, AcceptsMoreAt
      <4>2. /\ v[<<>>].kind = "object"
            /\ \/ IsField(o) /\ TakesField(d, v, o) /\ ~IsItem(o)
               \/ ~IsField(o) /\ Takes(d, v, o)
        BY <1>1, <2>1, <2>2, <3>2, PlaceAccepted, FieldFacts
      <4>3. CASE p \in Members(v, o) /\ v[o].kind = "object"
        <5>1. KeyOf(p) \in DOMAIN Props(n) BY <1>1, <2>1, <2>2, <4>3, AtInside
        <5>2. HasProps(n) /\ Container(n) BY <4>1, <5>1 DEF TakesUnopened, HasProps
        <5>3. ~IntOrString(n) BY <4>2, <4>3, TakenKinds
        <5> QED BY <5>2, <5>3 DEF Opens, Nests, HasProps, Container
      <4>4. CASE p \in Elements(v, o) /\ v[o].kind = "array"
        <5>1. Says(n, "items") BY <1>1, <2>1, <2>2, <4>4, AtInside
        <5>2. ~(IsField(o) /\ HasBranch(n)) BY <4>1, <5>1 DEF TakesUnopened
        <5>3. /\ ~IntOrString(n) /\ ~IsItem(o)
              /\ HasBranch(n) \/ Type(n) = "array"
          BY <4>2, <4>4, TakenKinds
        <5>4. Type(n) = "array"
          <6>1. CASE IsField(o) BY <6>1, <5>2, <5>3
          <6>2. CASE ~IsField(o)
            <7>1. Takes(d, v, o) BY <6>2, <4>2
            <7>2. ~(Nests(n) /\ Nested(d, v, o)) /\ ~OfType(Type(n), v[o]) BY <4>4, Taking DEF Nested
            <7> QED BY <7>1, <7>2, <4>4, <5>3 DEF Takes
          <6> QED BY <6>1, <6>2
        <5> QED BY <5>1, <5>2, <5>3, <5>4 DEF Opens, HasItems, IsField
      <4> QED BY <1>1, <2>1, <4>3, <4>4, JsonFacts
    <3> QED BY <3>1, <3>2
  <2> QED BY <2>1, <2>2, <2>3, ReachedStep
<1>4. DOMAIN v \subseteq S
  <2> HIDE DEF S
  <2> QED BY <1>1, <1>2, <1>3, PlaceInduction
<1> QED BY <1>4

LEMMA AdmitsFacts ==
  ASSUME NEW d, NEW options, NEW v, Admits(d, options, v),
         NEW q \in DOMAIN v \ {<<>>}, At(d, q) # 0, NEW n, n = NodeAt(d, q)
  PROVE  /\ Reached(d, q) /\ q \in DOMAIN Returned(d, v) /\ IsNode(n)
         /\ v[<<>>].kind = "object"
         /\ IsField(q) => FieldAccepts(d, options, v, q) /\ TakesField(d, v, q) /\ ~IsItem(q)
         /\ ~IsField(q) => DeeperAccepts(d, v, q) /\ Takes(d, v, q)
         /\ ~StrangeType(n) /\ ~TakesNoArrays(n, q) /\ ~TakesAnyNumber(n, v[q]) /\ ~TakesAnyList(d, n)
         /\ ~TakesAnyBranch(n) /\ ~TakesAnyKey(n) /\ ~TakesDeeper(d, q) /\ ~TakesUnopened(n, q)
         /\ ~ReadsInexactly(n, v, q)
<1>1. Fits(d) /\ IsJson(v) /\ Accepts(d, options, v) /\ ~AcceptsMore(d, v) BY DEF Admits
<1>2. Reached(d, q) BY AllReached
<1>3. q \in DOMAIN Returned(d, v) BY <1>1, NodesRetained, ReturnedFacts
<1>4. ~AcceptsMoreAt(d, v, q) BY <1>1 DEF AcceptsMore
<1>5. IsNode(n) BY <1>1, AtTyped, NodeFacts
<1> QED BY <1>1, <1>2, <1>3, <1>4, <1>5, PlaceAccepted, FieldFacts DEF AcceptsMoreAt

\* The elements of an array with items are taken by the adapter of the items.
LEMMA ElementsTaken ==
  ASSUME NEW d, NEW options, NEW v, Admits(d, options, v),
         NEW q \in DOMAIN v \ {<<>>}, At(d, q) # 0, NEW n, n = NodeAt(d, q), Says(n, "items"),
         NEW e \in Elements(v, q)
  PROVE  /\ e \in DOMAIN v \ {<<>>} /\ At(d, e) # 0 /\ NodeAt(d, e) = Item(d, n)
         /\ IsItem(e) /\ ~IsField(e) /\ Takes(d, v, e)
<1>1. Fits(d) /\ IsJson(v) BY DEF Admits
<1>2. At(d, e) # 0 /\ NodeAt(d, e) = Item(d, n) BY <1>1, AtInside
<1>3. e \in DOMAIN v \ {<<>>} /\ IsItem(e) BY <1>1, ElementFacts, InsideFacts
<1> QED BY <1>2, <1>3, AdmitsFacts

LEMMA ListMeant ==
  ASSUME NEW d, NEW options, NEW v, Admits(d, options, v),
         NEW q \in DOMAIN v \ {<<>>}, At(d, q) # 0, NEW n, n = NodeAt(d, q),
         v[q].kind = "array", NEW r, r = Returned(d, v), ListHolds(n, r, q),
         ~Says(n, "items") => \A e \in Elements(v, q) : v[e].kind = "object"
  PROVE  /\ ListType(n) = "set" => \A e, f \in Elements(v, q) : Part(v, e) = Part(v, f) => e = f
         /\ ListType(n) = "map" => Keyed(ListKeys(n), v, q)
<1>1. Fits(d) /\ IsJson(v) BY DEF Admits
<1>2. q \in DOMAIN r /\ ~TakesAnyList(d, n) BY AdmitsFacts
<1>3. r[q].kind = "array" BY <1>1, <1>2, SameReturned
<1>4. ~Drops(d, q)
  <2>1. Takes(d, v, q) \/ (TakesField(d, v, q) /\ ~IsItem(q)) BY AdmitsFacts
  <2>2. ~Nests(n) BY <2>1, TakenKinds, WayFacts
  <2> QED BY <2>2 DEF Drops
<1>5. ASSUME ListType(n) = "set", NEW e \in Elements(v, q), NEW f \in Elements(v, q), Part(v, e) = Part(v, f)
      PROVE  e = f
  <2>1. Says(n, "items") /\ Type(Item(d, n)) = "string" /\ ~IntOrString(Item(d, n))
    BY <1>2, <1>5 DEF TakesAnyList
  <2>2. ASSUME NEW g \in Elements(v, q) PROVE r[g] = v[g] /\ v[g].kind = "string"
    <3>1. IsItem(g) /\ Takes(d, v, g) /\ NodeAt(d, g) = Item(d, n) BY <2>1, ElementsTaken
    <3>2. v[g].kind = "string" BY <2>1, <3>1, ItemTaken
    <3>3. g \in DOMAIN r BY <1>1, <1>2, <1>4, ElementsReturned
    <3> QED BY <1>1, <2>1, <3>1, <3>2, <3>3, SameReturned
  <2>3. SetHolds(r, q) BY <1>3, <1>5 DEF ListHolds
  <2> QED BY <1>1, <1>2, <1>4, <1>5, <2>2, <2>3, SetMeant
<1>6. ASSUME ListType(n) = "map" PROVE Keyed(ListKeys(n), v, q)
  <2>1. ListMapHolds(ListKeys(n), r, q) BY <1>3, <1>6 DEF ListHolds
  <2>2. ASSUME NEW e \in Elements(v, q) PROVE v[e].kind = "object"
    <3>1. CASE ~Says(n, "items") BY <3>1
    <3>2. CASE Says(n, "items")
      <4>1. ~IntOrString(Item(d, n)) /\ Type(Item(d, n)) \in {"", "object"}
        BY <1>2, <1>6, <3>2 DEF TakesAnyList
      <4>2. IsItem(e) /\ Takes(d, v, e) /\ NodeAt(d, e) = Item(d, n) BY <3>2, ElementsTaken
      <4> QED BY <4>1, <4>2, ItemTaken
    <3> QED BY <3>1, <3>2
  <2> QED BY <1>1, <1>2, <1>4, <2>1, <2>2, MapMeant
<1> QED BY <1>5, <1>6

\* A resource is one in what is returned if it is one in what was given.
LEMMA ResourceMeant ==
  ASSUME NEW d, Fits(d), NEW v, IsJson(v), NEW r, r = Returned(d, v), NEW p \in DOMAIN r, IsResource(r, p)
  PROVE  IsResource(v, p)
<1>1. \A k \in Keys(r, p) : k \in Keys(v, p) /\ Member(p, k) \in DOMAIN r
  BY ReturnedInside DEF Members, Inside
<1>2. \A m \in DOMAIN r : r[m].kind \in {"string", "object"} => v[m].kind = r[m].kind
  BY ReturnedFacts
<1>3. {"apiVersion", "kind", "metadata"} \subseteq Keys(r, p) BY DEF IsResource
<1> QED BY <1>1, <1>2, <1>3 DEF IsResource

LEMMA FieldTypeMeant ==
  ASSUME NEW d, NEW options, NEW v, Admits(d, options, v),
         NEW q \in DOMAIN v \ {<<>>}, At(d, q) # 0, IsField(q), NEW n, n = NodeAt(d, q),
         ~(v[q].kind = "null" /\ IsNullable(n))
  PROVE  /\ v[q].kind # "null"
         /\ IF IntOrString(n) THEN v[q].kind \in {"number", "string"} /\ v[q].text \in WholeTexts
            ELSE MeansType(Type(n), v[q])
<1>1. /\ TakesField(d, v, q) /\ ~IsItem(q) /\ ~StrangeType(n) /\ ~TakesAnyNumber(n, v[q])
      /\ ~TakesAnyBranch(n) /\ IsNode(n)
  BY AdmitsFacts
<1>2. v[q].kind # "null" BY <1>1, TakenKinds
<1>3. Type(n) \in KnownTypes BY <1>1, Familiar
<1>4. CASE IntOrString(n)
  <2>1. Way(n) = "number" /\ ~HasBranch(n) BY <1>4, WayFacts
  <2>2. Takes(d, v, q) BY <1>1, <2>1, <1>2 DEF TakesField
  <2>3. IsNumeric(v[q]) BY <1>2, <1>4, <2>2 DEF Takes, Nests
  <2> QED BY <1>1, <1>2, <1>4, <2>3 DEF IsNumeric, IsNumber, TakesAnyNumber
<1>5. CASE ~IntOrString(n) /\ Way(n) # "minimal"
  <2>1. Way(n) \in {"nested", "patterns", "map", "names"} /\ Type(n) = "object"
    BY <1>5, WayFacts DEF Nests, Container
  <2>2. v[q].kind = "object" BY <1>1, <1>2, <2>1, TakenKinds
  <2> QED BY <1>2, <1>5, <2>1, <2>2 DEF MeansType
<1>6. CASE ~IntOrString(n) /\ Way(n) = "minimal"
  <2>1. Type(n) = "integer" => v[q].text \in WholeTexts BY <1>1 DEF TakesAnyNumber
  <2>2. CASE HasBranch(n)
    <3>1. PICK i \in FirstTyped(Branches(n)) : TakesBranch(Branches(n)[i].type, v, q)
      BY <1>1, <1>2, <1>6, <2>2, WayFacts DEF TakesField
    <3> DEFINE t == Branches(n)[i].type
    <3>2. t \in BranchTypes(n) \cap AnyOfTypes /\ i \in DOMAIN Branches(n) BY <1>1, FirstBranch
    <3>3. Type(n) = "" \/ Type(n) = t
      <4>1. Branches(n) # <<>> BY <3>2
      <4>2. Type(n) # "" => BranchTypes(n) \subseteq {"", Type(n)} BY <1>1, <4>1 DEF TakesAnyBranch
      <4> QED BY <3>2, <4>2 DEF AnyOfTypes
    <3>4. CASE Type(n) = "" BY <1>2, <1>6, <3>4 DEF MeansType
    <3>5. CASE Type(n) = t /\ t = "array" BY <1>2, <1>6, <3>1, <3>5 DEF TakesBranch, MeansType
    <3>6. CASE Type(n) = t /\ t # "array"
      <4>1. OfType(Type(n), v[q]) BY <3>1, <3>6 DEF TakesBranch
      <4> QED BY <1>2, <1>3, <1>6, <2>1, <3>6, <4>1, Taking
    <3> QED BY <3>3, <3>4, <3>5, <3>6
  <2>3. CASE ~HasBranch(n)
    <3>1. Takes(d, v, q) BY <1>1, <1>2, <1>6, <2>3 DEF TakesField
    <3>2. \/ Type(n) = "array" /\ v[q].kind = "array"
          \/ Type(n) # "array" /\ OfType(Type(n), v[q])
      BY <1>1, <1>2, <1>6, <3>1, WayFacts DEF Takes
    <3>3. CASE Type(n) = "array" BY <1>2, <1>6, <3>2, <3>3 DEF MeansType
    <3>4. CASE Type(n) # "array" BY <1>2, <1>3, <1>6, <2>1, <3>2, <3>4, Taking
    <3> QED BY <3>3, <3>4
  <2> QED BY <2>2, <2>3
<1> QED BY <1>4, <1>5, <1>6, <1>2

LEMMA DeeperTypeMeant ==
  ASSUME NEW d, NEW options, NEW v, Admits(d, options, v),
         NEW q \in DOMAIN v \ {<<>>}, At(d, q) # 0, ~IsField(q), NEW n, n = NodeAt(d, q),
         ~(v[q].kind = "null" /\ IsNullable(n))
  PROVE  /\ v[q].kind # "null"
         /\ IF IntOrString(n) THEN v[q].kind \in {"number", "string"} /\ v[q].text \in WholeTexts
            ELSE MeansType(Type(n), v[q])
<1>1. Takes(d, v, q) /\ ~StrangeType(n) /\ ~TakesAnyNumber(n, v[q]) /\ ~TakesNoArrays(n, q)
  BY AdmitsFacts
<1>2. v[q].kind # "null" BY <1>1, TakenKinds
<1>3. Type(n) \in KnownTypes BY <1>1, Familiar
<1>4. CASE IntOrString(n)
  <2>1. IsNumeric(v[q]) BY <1>1, <1>2, <1>4 DEF Takes, Nests
  <2> QED BY <1>1, <1>2, <1>4, <2>1 DEF IsNumeric, IsNumber, TakesAnyNumber
<1>5. CASE Nests(n)
  <2>1. v[q].kind = "object" BY <1>1, <1>2, <1>5 DEF Takes, Nested, Nests
  <2> QED BY <1>2, <1>5, <2>1 DEF MeansType, Nests
<1>6. CASE ~IntOrString(n) /\ ~Nests(n)
  <2>1. Type(n) = "integer" => v[q].text \in WholeTexts BY <1>1 DEF TakesAnyNumber
  <2>2. Type(n) = "array" => ~IsItem(q) BY <1>1 DEF TakesNoArrays
  <2>3. \/ Type(n) = "array" /\ v[q].kind = "array"
        \/ Type(n) # "array" /\ OfType(Type(n), v[q])
    BY <1>1, <1>2, <1>6, <2>2 DEF Takes
  <2>4. CASE Type(n) = "array" BY <1>2, <1>6, <2>3, <2>4 DEF MeansType
  <2>5. CASE Type(n) # "array" BY <1>2, <1>3, <1>6, <2>1, <2>3, <2>5, Taking
  <2> QED BY <2>4, <2>5
<1> QED BY <1>4, <1>5, <1>6

\* anyOf, which is looked at in a field only
LEMMA BranchesMeant ==
  ASSUME NEW d, NEW options, NEW v, Admits(d, options, v),
         NEW q \in DOMAIN v \ {<<>>}, At(d, q) # 0, NEW n, n = NodeAt(d, q),
         v[q].kind # "null", Branches(n) # <<>>
  PROVE  LET matched == Cardinality({i \in DOMAIN Branches(n) : MeansBranch(Branches(n)[i], v, q)}) IN
         IF options.ambiguity = "error" THEN matched = 1 ELSE matched > 0
<1> DEFINE r == Returned(d, v)
<1>1. /\ ~StrangeType(n) /\ ~TakesAnyBranch(n) /\ ~TakesDeeper(d, q) /\ IsNode(n)
      /\ ~ReadsInexactly(n, v, q)
      /\ q \in DOMAIN r /\ Fits(d) /\ IsJson(v)
  BY AdmitsFacts DEF Admits
<1>2. IsField(q) BY <1>1 DEF TakesDeeper
<1>3. TakesField(d, v, q) /\ FieldAccepts(d, options, v, q) /\ ~IsItem(q) BY <1>2, AdmitsFacts
<1>4. Way(n) = "minimal" /\ ~ReadsBranches(n) BY <1>1 DEF TakesAnyBranch
<1>5. ~IntOrString(n) /\ ~Nests(n) BY <1>4, WayFacts
<1>6. AnyOfHolds(Branches(n), options, r, q) BY <1>3, <1>4 DEF FieldAccepts, WayHolds
<1>7. r[q] = v[q] /\ Keys(r, q) = Keys(v, q)
  <2>1. ~Drops(d, q) BY <1>5 DEF Drops
  <2> HIDE DEF r
  <2> QED BY <1>1, <1>5, <2>1, SameReturned, ReturnedInside DEF r
<1>8. HasBranch(n) <=> BranchTypes(n) \cap AnyOfTypes # {} BY <1>1, <1>4, FirstBranch DEF HasBranch
<1>9. ASSUME HasBranch(n)
      PROVE  \E t \in BranchTypes(n) \cap AnyOfTypes : TakesBranch(t, v, q)
  <2>1. TakesBranch(Branches(n)[CHOOSE i : i \in FirstTyped(Branches(n))].type, v, q)
    BY <1>3, <1>4, <1>9 DEF TakesField, HasBranch
  <2> QED BY <1>1, <1>9, <2>1, FirstBranch DEF HasBranch
<1>10. "array" \in BranchTypes(n) => v[q].kind = "array"
  <2> SUFFICES ASSUME "array" \in BranchTypes(n) PROVE v[q].kind = "array" OBVIOUS
  <2>1. BranchTypes(n) = {"array"} BY <1>4 DEF ReadsBranches
  <2>2. TakesBranch("array", v, q) BY <2>1, <1>8, <1>9 DEF AnyOfTypes
  <2> QED BY <2>2 DEF TakesBranch
<1>11. ASSUME BranchTypes(n) \cup {Type(n)} \subseteq {"", "object"} PROVE v[q].kind = "object"
  <2>1. CASE HasBranch(n)
    <3>1. TakesBranch("object", v, q) BY <1>9, <1>11, <2>1 DEF AnyOfTypes
    <3> QED BY <3>1, Taking DEF TakesBranch
  <2>2. CASE ~HasBranch(n)
    <3>1. Takes(d, v, q) BY <1>3, <1>4, <2>2 DEF TakesField
    <3>2. OfType(Type(n), v[q]) BY <1>3, <1>5, <1>11, <3>1 DEF Takes
    <3> QED BY <1>11, <3>2, Taking
  <2> QED BY <2>1, <2>2
<1>12. {i \in DOMAIN Branches(n) : BranchHolds(Branches(n)[i], r, q)}
         = {i \in DOMAIN Branches(n) : MeansBranch(Branches(n)[i], v, q)}
  <2>1. BranchTypes(n) \cup {Type(n)} \subseteq {"", "object"} => v[q].kind = "object" BY <1>11
  <2>2. r[q] = v[q] /\ Keys(r, q) = Keys(v, q) BY <1>7
  <2> HIDE DEF r
  <2>3. \A i \in DOMAIN Branches(n) :
          BranchHolds(Branches(n)[i], r, q) <=> MeansBranch(Branches(n)[i], v, q)
    BY <1>1, <1>4, <1>10, <2>1, <2>2, SameBranches
  <2> QED BY <2>3
<1> QED BY <1>6, <1>12 DEF AnyOfHolds

LEMMA ArraysMeant ==
  ASSUME NEW d, NEW options, NEW v, Admits(d, options, v),
         NEW q \in DOMAIN v \ {<<>>}, At(d, q) # 0, NEW n, n = NodeAt(d, q),
         v[q].kind = "array"
  PROVE  MeansList(n, v, q)
<1> DEFINE r == Returned(d, v)
<1>1. /\ ~StrangeType(n) /\ ~TakesAnyBranch(n) /\ ~TakesAnyList(d, n) /\ ~TakesDeeper(d, q)
      /\ ~ReadsInexactly(n, v, q)
      /\ q \in DOMAIN r /\ Fits(d) /\ IsJson(v)
  BY AdmitsFacts DEF Admits
<1>2. Takes(d, v, q) \/ (TakesField(d, v, q) /\ ~IsItem(q)) BY AdmitsFacts
<1>3. /\ ~IntOrString(n) /\ ~IsItem(q) /\ Way(n) = "minimal"
      /\ \/ HasBranch(n)
         \/ /\ Type(n) = "array"
            /\ ~Says(n, "items") => \A e \in Elements(v, q) : v[e].kind = "object"
  BY <1>2, TakenKinds
<1>4. ~Nests(n) /\ ~Drops(d, q) BY <1>3, WayFacts DEF Drops
<1>5. ASSUME ListType(n) # ""
      PROVE  /\ ListHolds(n, r, q)
             /\ ~Says(n, "items") => \A e \in Elements(v, q) : v[e].kind = "object"
  <2>1. Branches(n) = <<>> BY <1>1, <1>5 DEF TakesAnyList
  <2>2. ~HasBranch(n) BY <2>1 DEF HasBranch, FirstTyped
  <2>3. CASE IsField(q)
    <3>1. FieldAccepts(d, options, v, q) BY <2>3, AdmitsFacts
    <3>2. ~HasWayCheck(n) BY <1>3, <2>1 DEF HasWayCheck
    <3> QED BY <1>3, <2>2, <3>1, <3>2 DEF FieldAccepts
  <2>4. CASE ~IsField(q)
    <3>1. DeeperAccepts(d, v, q) BY <2>4, AdmitsFacts
    <3> QED BY <1>3, <2>2, <3>1 DEF DeeperAccepts
  <2> QED BY <2>3, <2>4
<1>6. /\ ListType(n) = "set" => \A e, f \in Elements(v, q) : Part(v, e) = Part(v, f) => e = f
      /\ ListType(n) = "map" => Keyed(ListKeys(n), v, q)
  <2>1. CASE ListType(n) = "" BY <2>1
  <2>2. CASE ListType(n) # ""
    <3>1. ListHolds(n, r, q) BY <1>5, <2>2
    <3>2. ~Says(n, "items") => \A e \in Elements(v, q) : v[e].kind = "object" BY <1>5, <2>2
    <3> HIDE DEF r
    <3>3. r = Returned(d, v) BY DEF r
    <3> QED BY <3>1, <3>2, <3>3, ListMeant
  <2> QED BY <2>1, <2>2
<1>7. ASSUME Says(n, "contains")
      PROVE  /\ Keyword(n, "minContains", 1) <= Cardinality(Hits(n.contains, v, q))
             /\ Says(n, "maxContains") => Cardinality(Hits(n.contains, v, q)) <= n.maxContains
  <2>1. /\ Says(n, "minContains") /\ Type(n) = "array" /\ ~CountsOtherwise(d, n) /\ IsField(q)
    BY <1>1, <1>7 DEF TakesAnyList, TakesDeeper
  <2>2. FieldAccepts(d, options, v, q) BY <2>1, AdmitsFacts
  <2>3. ContainsHolds(n, r, q) BY <2>1, <2>2 DEF FieldAccepts
  <2> HIDE DEF r
  <2>4. r = Returned(d, v) BY DEF r
  <2>5. r[q].kind = "array" BY <1>1, <1>3, <2>4, SameReturned
  <2>6. {e \in Elements(r, q) : ContainsMatch(n.contains, r, e)} = Hits(n.contains, v, q)
    BY <1>1, <1>4, <1>7, <2>1, <2>4, SameHits
  <2>7. Keyword(n, "minContains", 1) = n.minContains BY <2>1 DEF Keyword
  <2> QED BY <1>7, <2>1, <2>3, <2>5, <2>6, <2>7 DEF ContainsHolds
<1> QED BY <1>6, <1>7 DEF MeansList

LEMMA ResourcesMeant ==
  ASSUME NEW d, NEW options, NEW v, Admits(d, options, v),
         NEW q \in DOMAIN v \ {<<>>}, At(d, q) # 0, NEW n, n = NodeAt(d, q),
         options.embedded, Keyword(n, "embedded", FALSE)
  PROVE  /\ v[q].kind = "object" => IsResource(v, q)
         /\ v[q].kind = "array" => \A e \in Elements(v, q) : v[e].kind = "object" => IsResource(v, e)
<1> DEFINE r == Returned(d, v)
<1>1. ~TakesDeeper(d, q) /\ q \in DOMAIN r /\ Fits(d) /\ IsJson(v)
  BY AdmitsFacts DEF Admits
<1>2. Says(n, "embedded") BY DEF Keyword
<1>3. IsField(q) \/ (Len(q) = 2 /\ IsItem(q)) BY <1>1, <1>2 DEF TakesDeeper
<1>4. CASE IsField(q)
  <2>1. FieldAccepts(d, options, v, q) BY <1>4, AdmitsFacts
  <2>2. v[q].kind # "null" => EmbeddedHolds(d, n, options, r, q) BY <2>1 DEF FieldAccepts
  <2>3. v[q].kind # "null" =>
          /\ r[q].kind = "object" => IsResource(r, q)
          /\ \A e \in Elements(r, q) : r[e].kind = "object" => IsResource(r, e)
    BY <2>2 DEF EmbeddedHolds
  <2> HIDE DEF r
  <2>4. r = Returned(d, v) BY DEF r
  <2>5. ASSUME v[q].kind = "object" PROVE IsResource(v, q)
    <3>1. r[q] = v[q] BY <1>1, <2>4, <2>5, SameReturned
    <3> QED BY <1>1, <2>3, <2>4, <2>5, <3>1, ResourceMeant
  <2>6. ASSUME v[q].kind = "array", NEW e \in Elements(v, q), v[e].kind = "object" PROVE IsResource(v, e)
    <3>1. Takes(d, v, q) \/ (TakesField(d, v, q) /\ ~IsItem(q)) BY AdmitsFacts
    <3>2. ~Nests(n) BY <2>6, <3>1, TakenKinds, WayFacts
    <3>3. ~Drops(d, q) BY <3>2 DEF Drops
    <3>4. Elements(r, q) = Elements(v, q) /\ e \in DOMAIN r BY <1>1, <2>4, <2>6, <3>3, ElementsReturned
    <3>5. r[e] = v[e] BY <1>1, <2>4, <2>6, <3>4, SameReturned
    <3> QED BY <1>1, <2>3, <2>4, <2>6, <3>4, <3>5, ResourceMeant
  <2> QED BY <2>5, <2>6
<1>5. CASE Len(q) = 2 /\ IsItem(q)
  <2> DEFINE f == Parent(q)
             m == NodeAt(d, f)
  <2>1. /\ f \in DOMAIN v /\ Holds(f, q) /\ q \in Elements(v, f) /\ v[f].kind = "array"
    BY <1>1, <1>5, JsonFacts
  <2>2. Len(f) \in Nat /\ Len(q) = Len(f) + 1 BY <2>1, PlaceFacts
  <2>3. f # <<>> /\ IsField(f)
    <3>1. \A i, j : i \in Nat /\ j = i + 1 /\ j = 2 => i = 1 OBVIOUS
    <3>3. Len(f) = 1 BY <1>5, <2>2, <3>1
    <3>2. Len(<<>>) = 0 OBVIOUS
    <3> QED BY <3>2, <3>3 DEF IsField
  <2>4. At(d, f) # 0 BY <2>1, AtStep
  <2>5. Says(m, "items") /\ n = Item(d, m) BY <1>1, <2>1, <2>4, AtInside
  <2>6. FieldAccepts(d, options, v, f) /\ TakesField(d, v, f) /\ ~IsItem(f) /\ f \in DOMAIN r
    BY <2>1, <2>3, <2>4, AdmitsFacts
  <2>7. EmbeddedHolds(d, m, options, r, f) BY <2>1, <2>6 DEF FieldAccepts
  <2>8. \A e \in Elements(r, f) : r[e].kind = "object" => IsResource(r, e)
    BY <2>5, <2>7 DEF EmbeddedHolds, Item
  <2>9. ~Nests(m) BY <2>1, <2>6, TakenKinds, WayFacts
  <2>10. ~Drops(d, f) BY <2>9 DEF Drops
  <2> HIDE DEF r, f
  <2>11. r = Returned(d, v) BY DEF r
  <2>12. Elements(r, f) = Elements(v, f) BY <1>1, <2>6, <2>10, <2>11, ElementsReturned
  <2>13. ASSUME v[q].kind = "object" PROVE IsResource(v, q)
    <3>1. r[q] = v[q] BY <1>1, <2>11, <2>13, SameReturned
    <3> QED BY <1>1, <2>1, <2>8, <2>11, <2>12, <2>13, <3>1, ResourceMeant
  <2>14. v[q].kind # "array"
    <3>1. Takes(d, v, q) \/ (TakesField(d, v, q) /\ ~IsItem(q)) BY AdmitsFacts
    <3> QED BY <1>5, <3>1, TakenKinds
  <2> QED BY <2>13, <2>14
<1> QED BY <1>3, <1>4, <1>5

\* The keys and the values of a field with patternProperties
LEMMA PatternsMeant ==
  ASSUME NEW n, NEW v, NEW q, NEW r, Members(r, q) = Members(v, q), Keys(r, q) = Keys(v, q),
         \A m \in Members(v, q) : r[m] = v[m],
         PatternsHold(n, r, q), ~StrangeType(n), ~TakesNoArrays(n, q), ~ReadsInexactly(n, v, q)
  PROVE  /\ \A m \in Members(v, q), p \in DOMAIN Patterns(n) :
              Matches(p, KeyOf(m)) => MeansType(Patterns(n)[p], v[m])
         /\ \A m \in Members(v, q) :
              (\A p \in DOMAIN Patterns(n) : ~Matches(p, KeyOf(m))) =>
                /\ Additional(n) \notin {"absent", "false"}
                /\ HasAdditionalSchema(n) => MeansType(AdditionalType(n), v[m])
<1> DEFINE T == TypedPatterns(n)
<1>1. /\ DOMAIN T = {p \in DOMAIN Patterns(n) : Patterns(n)[p] # ""}
      /\ \A p \in DOMAIN T : T[p] = Patterns(n)[p]
  BY DEF TypedPatterns
<1>2. /\ PatternTypes(n) \subseteq KnownTypes \ {"array"}
      /\ HasAdditionalSchema(n) => AdditionalType(n) \in KnownTypes \ {"array"}
  BY Familiar DEF TakesNoArrays, AdditionalType
<1>3. ValuesMatch(T, AdditionalType(n), r, q) BY DEF PatternsHold
<1> HIDE DEF T
<1>4. ASSUME NEW m \in Members(v, q), NEW p \in DOMAIN Patterns(n), Matches(p, KeyOf(m))
      PROVE  MeansType(Patterns(n)[p], v[m])
  <2>1. Patterns(n)[p] \in PatternTypes(n) BY DEF PatternTypes
  <2>2. CASE Patterns(n)[p] = "" BY <2>2 DEF MeansType
  <2>3. CASE Patterns(n)[p] # ""
    <3>1. p \in {s \in DOMAIN T : Matches(s, KeyOf(m))} BY <1>1, <1>4, <2>3
    <3>2. MatchesType(r[m], T[p]) BY <1>3, <3>1 DEF ValuesMatch
    <3>3. r[m] = v[m] /\ T[p] = Patterns(n)[p] BY <1>1, <3>1
    <3>4. ReadRight(Patterns(n)[p], v[m]) BY <2>1, AllReadRight DEF CheckedTypes
    <3> QED BY <1>2, <2>1, <3>2, <3>3, <3>4, Matching
  <2> QED BY <2>2, <2>3
<1>5. ASSUME NEW m \in Members(v, q), \A p \in DOMAIN Patterns(n) : ~Matches(p, KeyOf(m))
      PROVE  /\ Additional(n) \notin {"absent", "false"}
             /\ HasAdditionalSchema(n) => MeansType(AdditionalType(n), v[m])
  <2>1. KeyOf(m) \in Keys(r, q) BY DEF Keys
  <2>2. Additional(n) \notin {"absent", "false"} BY <1>5, <2>1 DEF PatternsHold, KeysMatch
  <2>3. ASSUME HasAdditionalSchema(n) PROVE MeansType(AdditionalType(n), v[m])
    <3>1. {s \in DOMAIN T : Matches(s, KeyOf(m))} = {} BY <1>1, <1>5
    <3>2. MatchesType(r[m], AdditionalType(n)) BY <1>3, <3>1 DEF ValuesMatch
    <3>3. r[m] = v[m] OBVIOUS
    <3>4. ReadRight(AdditionalType(n), v[m]) BY <2>3, AllReadRight DEF CheckedTypes
    <3> QED BY <1>2, <2>3, <3>2, <3>3, <3>4, Matching
  <2> QED BY <2>2, <2>3
<1> QED BY <1>4, <1>5

LEMMA FieldKeysMeant ==
  ASSUME NEW d, NEW options, NEW v, Admits(d, options, v),
         NEW q \in DOMAIN v \ {<<>>}, At(d, q) # 0, IsField(q), NEW n, n = NodeAt(d, q),
         v[q].kind = "object"
  PROVE  MeansKeys(n, v, q)
<1> DEFINE r == Returned(d, v)
           others == {m \in Members(v, q) :
                        KeyOf(m) \notin DOMAIN Props(n) /\ \A p \in DOMAIN Patterns(n) : ~Matches(p, KeyOf(m))}
<1>1. /\ Fits(d) /\ IsJson(v) /\ q \in DOMAIN r /\ Reached(d, q)
      /\ FieldAccepts(d, options, v, q) /\ TakesField(d, v, q) /\ ~IsItem(q)
      /\ ~StrangeType(n) /\ ~TakesNoArrays(n, q) /\ ~TakesAnyNumber(n, v[q])
      /\ ~TakesAnyKey(n) /\ ~TakesDeeper(d, q) /\ ~ReadsInexactly(n, v, q)
  BY AdmitsFacts DEF Admits
<1>2. ~IntOrString(n) BY <1>1, TakenKinds
<1>3. Required(n) = {}
  <2>1. \A i \in DOMAIN q : q[i][1] # "items"
    <3>1. IsPlace(q) /\ Len(q) = 1 BY <1>1, FieldFacts, AdmitsFacts DEF IsField, Holds
    <3>2. DOMAIN q = {1} BY <3>1 DEF IsPlace
    <3> QED BY <1>1, <3>1, <3>2 DEF IsItem
  <2>2. ~Demands(d, q) BY <2>1 DEF Demands
  <2> QED BY <1>1, <2>2 DEF TakesDeeper
<1>4. WayHolds(n, options, r, q) BY <1>1 DEF FieldAccepts
<1>5. ASSUME Says(n, "names"), Way(n) # "nested", Container(n)
      PROVE  \A k \in Keys(v, q) : Matches(n.names, k)
  <2>1. Way(n) \in {"patterns", "map", "names"} BY <1>2, <1>5, WayFacts DEF HasNames, Nests, HasProps, Container
  <2>2. NamesHold(n, r, q) BY <1>4, <2>1 DEF WayHolds
  <2>3. \A k \in Keys(r, q) : Matches(n.names, k) BY <1>5, <2>2 DEF NamesHold, HasNames, KeysMatch
  <2>4. ~Drops(d, q) BY <1>5, WayFacts DEF Drops
  <2> HIDE DEF r
  <2>5. Keys(r, q) = Keys(v, q) BY <1>1, <2>4, ReturnedInside DEF r
  <2> QED BY <2>3, <2>5
<1>6. CASE ~Container(n)
  <2>1. /\ ~HasNames(n) /\ DOMAIN Patterns(n) = {} /\ ~HasAdditionalSchema(n) /\ Additional(n) # "false"
    BY <1>1, <1>6 DEF TakesAnyKey, HasPatterns
  <2> QED BY <1>3, <2>1 DEF MeansKeys, HasNames
<1>7. CASE Container(n) /\ HasProps(n)
  <2>1. /\ ~HasNames(n) /\ DOMAIN Patterns(n) = {} /\ ~HasAdditionalSchema(n)
    BY <1>1, <1>7 DEF TakesAnyKey, HasPatterns
  <2>2. Nests(n) /\ ~HasBranch(n) /\ Way(n) = "nested"
    BY <1>2, <1>7, WayFacts DEF Nests, Container, HasProps
  <2>3. Takes(d, v, q) BY <1>1, <2>2 DEF TakesField
  <2>4. Nested(d, v, q) BY <1>2, <2>2, <2>3 DEF Takes
  <2>5. ASSUME Additional(n) = "false" PROVE others = {}
    <3>1. Keys(v, q) \subseteq DOMAIN Props(n) BY <2>4, <2>5 DEF Nested
    <3> QED BY <3>1 DEF Keys
  <2> QED BY <1>3, <2>1, <2>5 DEF MeansKeys, HasNames
<1>8. CASE Container(n) /\ ~HasProps(n) /\ HasPatterns(n)
  <2>1. Way(n) = "patterns" BY <1>2, <1>8, WayFacts
  <2>2. PatternsHold(n, r, q) BY <1>4, <2>1 DEF WayHolds
  <2>3. ~Drops(d, q) BY <2>1, WayFacts DEF Drops
  <2>4. /\ Members(r, q) = Members(v, q) /\ Keys(r, q) = Keys(v, q)
        /\ \A m \in Members(v, q) : r[m] = v[m]
    <3> HIDE DEF r
    <3>0. r = Returned(d, v) BY DEF r
    <3>1. Members(r, q) = Members(v, q) /\ Keys(r, q) = Keys(v, q)
      BY <1>1, <2>3, <3>0, ReturnedInside
    <3>2. ASSUME NEW m \in Members(v, q) PROVE r[m] = v[m]
      <4>1. m \in DOMAIN r BY <3>1, <3>2 DEF Members, Inside
      <4>2. At(d, m) = 0 BY <1>1, <1>8, AtInside DEF HasProps
      <4> QED BY <1>1, <3>0, <4>1, <4>2, SameReturned DEF Reached
    <3> QED BY <3>1, <3>2
  <2>5. /\ \A m \in Members(v, q), p \in DOMAIN Patterns(n) :
             Matches(p, KeyOf(m)) => MeansType(Patterns(n)[p], v[m])
        /\ \A m \in others :
             /\ Additional(n) \notin {"absent", "false"}
             /\ HasAdditionalSchema(n) => MeansType(AdditionalType(n), v[m])
    <3> HIDE DEF r
    <3> QED BY <1>1, <2>2, <2>4, PatternsMeant
  <2>6. Way(n) # "nested" BY <2>1
  <2> QED BY <1>3, <1>5, <1>8, <2>5, <2>6 DEF MeansKeys
<1>9. CASE Container(n) /\ ~HasProps(n) /\ ~HasPatterns(n)
  <2>1. Additional(n) # "false" /\ DOMAIN Patterns(n) = {} /\ Way(n) # "nested"
    BY <1>1, <1>9, WayFacts DEF TakesAnyKey, HasPatterns, Nests, HasProps
  <2>2. ASSUME HasAdditionalSchema(n), NEW m \in others PROVE MeansType(AdditionalType(n), v[m])
    <3>1. Way(n) = "map" BY <1>2, <1>9, <2>2, WayFacts
    <3>2. OfType(AdditionalType(n), v[m]) BY <1>1, <3>1 DEF TakesField
    <3>3. AdditionalType(n) \in KnownTypes /\ AdditionalType(n) \notin {"array", "integer"}
      BY <1>1, <1>9, <2>2, Familiar DEF TakesNoArrays, TakesAnyNumber, AdditionalType
    <3> QED BY <3>2, <3>3, Taking
  <2> QED BY <1>3, <1>5, <1>9, <2>1, <2>2 DEF MeansKeys
<1> QED BY <1>6, <1>7, <1>8, <1>9

LEMMA DeeperKeysMeant ==
  ASSUME NEW d, NEW options, NEW v, Admits(d, options, v),
         NEW q \in DOMAIN v \ {<<>>}, At(d, q) # 0, ~IsField(q), NEW n, n = NodeAt(d, q),
         v[q].kind = "object"
  PROVE  MeansKeys(n, v, q)
<1>1. /\ Takes(d, v, q) /\ ~TakesAnyKey(n) /\ ~TakesDeeper(d, q) BY AdmitsFacts
<1>2. /\ ~IntOrString(n) BY <1>1, TakenKinds
<1>3. /\ ~HasNames(n) /\ DOMAIN Patterns(n) = {} /\ ~HasAdditionalSchema(n)
      /\ Required(n) # {} => Demands(d, q) /\ Nests(n) /\ Required(n) \subseteq DOMAIN Props(n)
  BY <1>1 DEF TakesDeeper, HasPatterns
<1>4. Nests(n) => Nested(d, v, q) BY <1>1, <1>2 DEF Takes
<1>5. Required(n) \subseteq Keys(v, q) BY <1>3, <1>4 DEF Nested
<1>6. ASSUME Additional(n) = "false" PROVE Keys(v, q) \subseteq DOMAIN Props(n)
  <2>1. Nests(n) BY <1>1, <1>2, <1>3, <1>6 DEF TakesAnyKey, Nests, Container, HasProps, HasPatterns
  <2> QED BY <1>4, <1>6, <2>1 DEF Nested
<1> QED BY <1>3, <1>5, <1>6 DEF MeansKeys, HasNames, Keys

(***************************************************************************)
(* Whatever the schema and the value: what the adapters and checks of the  *)
(* import take (kubeopenapi/plan.go, adapters.go) conforms to the schema,  *)
(* unless there is a place in it at which AcceptsMore names a difference.  *)
(***************************************************************************)
THEOREM AdmittedMeets ==
  ASSUME NEW d, Fits(d), NEW options, NEW v, IsJson(v), Accepts(d, options, v)
  PROVE  MeetsSchema(d, options, v) \/ AcceptsMore(d, v)
<1> SUFFICES ASSUME ~AcceptsMore(d, v) PROVE MeetsSchema(d, options, v) OBVIOUS
<1>1. Admits(d, options, v) BY DEF Admits
<1>2. ASSUME NEW q \in DOMAIN v \ {<<>>}, At(d, q) # 0 PROVE ConformsAt(d, options, v, q)
  <2> DEFINE n == NodeAt(d, q)
  <2> SUFFICES ASSUME ~(v[q].kind = "null" /\ IsNullable(n)) PROVE ConformsAt(d, options, v, q)
    BY DEF ConformsAt
  <2>1. /\ v[q].kind # "null"
        /\ IF IntOrString(n) THEN v[q].kind \in {"number", "string"} /\ v[q].text \in WholeTexts
           ELSE MeansType(Type(n), v[q])
    BY <1>1, <1>2, FieldTypeMeant, DeeperTypeMeant
  <2>2. v[q].kind = "array" => MeansList(n, v, q) BY <1>1, <1>2, ArraysMeant
  <2>3. v[q].kind = "object" => MeansKeys(n, v, q)
    BY <1>1, <1>2, FieldKeysMeant, DeeperKeysMeant
  <2>4. options.embedded /\ Keyword(n, "embedded", FALSE) =>
          /\ v[q].kind = "object" => IsResource(v, q)
          /\ v[q].kind = "array" => \A e \in Elements(v, q) : v[e].kind = "object" => IsResource(v, e)
    BY <1>1, <1>2, ResourcesMeant
  <2>5. Branches(n) # <<>> =>
          LET matched == Cardinality({i \in DOMAIN Branches(n) : MeansBranch(Branches(n)[i], v, q)}) IN
          IF options.ambiguity = "error" THEN matched = 1 ELSE matched > 0
    BY <1>1, <1>2, <2>1, BranchesMeant
  <2> QED BY <2>1, <2>2, <2>3, <2>4, <2>5 DEF ConformsAt
<1>3. Required(d[1]) \subseteq Declared(d[1]) BY DEF AcceptsMore, Declared
<1>4. Required(d[1]) \subseteq Keys(v, << >>) BY <1>3 DEF Accepts
<1> QED BY <1>2, <1>4 DEF Accepts, MeetsSchema

-----------------------------------------------------------------------------
(***************************************************************************)
(* What conforms is accepted, but for what AcceptsLess lists.              *)
(***************************************************************************)
Meets(d, options, v) ==
  Fits(d) /\ IsJson(v) /\ MeetsSchema(d, options, v) /\ ~AcceptsLess(d, options, v)

LEMMA MeetsFacts ==
  ASSUME NEW d, NEW options, NEW v, Meets(d, options, v),
         NEW q \in DOMAIN v \ {<<>>}, At(d, q) # 0, NEW n, n = NodeAt(d, q)
  PROVE  /\ q \in DOMAIN Returned(d, v) /\ IsNode(n) /\ v[<<>>].kind = "object"
         /\ IsField(q) => ~IsItem(q)
         /\ ConformsAt(d, options, v, q)
         /\ ~StrangeType(n) /\ ~TakesNoArrays(n, q) /\ ~TakesObjectsOnly(n, v, q) /\ ~TakesOneType(n)
         /\ ~CountsOtherwise(d, n) /\ ~ComparesTexts(d, n, v, q) /\ ~AsksForMore(d, n, options)
         /\ ~RefusesMatched(n) /\ ~ReadsInexactly(n, v, q)
<1>1. Fits(d) /\ IsJson(v) /\ MeetsSchema(d, options, v) /\ ~AcceptsLess(d, options, v) BY DEF Meets
<1>2. q \in DOMAIN Returned(d, v) BY <1>1, NodesRetained, ReturnedFacts
<1>3. ~AcceptsLessAt(d, options, v, q) BY <1>1 DEF AcceptsLess
<1>4. v[<<>>].kind = "object" /\ ConformsAt(d, options, v, q) BY <1>1 DEF MeetsSchema
<1>5. IsNode(n) BY <1>1, AtTyped, NodeFacts
<1>6. IsField(q) => ~IsItem(q) BY <1>1, <1>4, FieldFacts
<1> QED BY <1>2, <1>3, <1>4, <1>5, <1>6 DEF AcceptsLessAt

\* The branches of anyOf that are meant
Meant(n, v, q) == {i \in DOMAIN Branches(n) : MeansBranch(Branches(n)[i], v, q)}

\* Where it is not null for a nullable
LEMMA MeetsHere ==
  ASSUME NEW d, NEW options, NEW v, NEW q, ConformsAt(d, options, v, q), NEW n, n = NodeAt(d, q),
         ~(v[q].kind = "null" /\ IsNullable(n))
  PROVE  /\ IntOrString(n) => v[q].kind \in {"number", "string"} /\ v[q].text \in WholeTexts
         /\ ~IntOrString(n) => MeansType(Type(n), v[q])
         /\ v[q].kind = "array" => MeansList(n, v, q)
         /\ v[q].kind = "object" => MeansKeys(n, v, q)
         /\ options.embedded /\ Keyword(n, "embedded", FALSE) =>
              /\ v[q].kind = "array" => \A e \in Elements(v, q) : v[e].kind = "object" => IsResource(v, e)
              /\ v[q].kind = "object" => IsResource(v, q)
         /\ Branches(n) # <<>> =>
              IF options.ambiguity = "error" THEN Cardinality(Meant(n, v, q)) = 1
              ELSE Cardinality(Meant(n, v, q)) > 0
BY DEF ConformsAt, Meant

\* The keys of an object by what speaks for them, one after the other
LEMMA KeysMeant ==
  ASSUME NEW n, NEW v, NEW q, MeansKeys(n, v, q)
  PROVE  /\ Required(n) \subseteq Keys(v, q)
         /\ Says(n, "names") => \A k \in Keys(v, q) : Matches(n.names, k)
         /\ \A m \in Members(v, q), p \in DOMAIN Patterns(n) :
              Matches(p, KeyOf(m)) => MeansType(Patterns(n)[p], v[m])
         /\ \A m \in Members(v, q) :
              KeyOf(m) \notin DOMAIN Props(n) /\ (\A p \in DOMAIN Patterns(n) : ~Matches(p, KeyOf(m))) =>
                /\ Additional(n) # "false"
                /\ HasAdditionalSchema(n) => MeansType(AdditionalType(n), v[m])
                /\ HasPatterns(n) => Additional(n) # "absent"
<1>1. Additional(n) = "false" => ~HasAdditionalSchema(n) BY DEF HasAdditionalSchema
<1>2. Additional(n) = "absent" => ~HasAdditionalSchema(n) BY DEF HasAdditionalSchema
<1> QED BY <1>1, <1>2 DEF MeansKeys, HasPatterns

\* An object with properties is taken.
LEMMA NestedTaken ==
  ASSUME NEW d, NEW v, NEW q, NEW n, n = NodeAt(d, q), v[q].kind = "object",
         MeansKeys(n, v, q), HasProps(n), ~RefusesMatched(n)
  PROVE  Nested(d, v, q)
<1>1. ASSUME Additional(n) = "false" PROVE Keys(v, q) \subseteq DOMAIN Props(n)
  <2>1. DOMAIN Patterns(n) = {} BY <1>1 DEF RefusesMatched, HasPatterns
  <2>2. \A m \in Members(v, q) : KeyOf(m) \in DOMAIN Props(n) BY <1>1, <2>1, KeysMeant
  <2> QED BY <2>2 DEF Keys
<1> QED BY <1>1, KeysMeant DEF Nested

\* What conforms is taken by the adapter of its type.
LEMMA MeantTaken ==
  ASSUME NEW d, NEW options, NEW v, Meets(d, options, v),
         NEW q \in DOMAIN v \ {<<>>}, At(d, q) # 0, NEW n, n = NodeAt(d, q),
         ~(IsField(q) /\ HasBranch(n))
  PROVE  Takes(d, v, q)
<1>1. /\ ConformsAt(d, options, v, q)
      /\ ~StrangeType(n) /\ ~TakesNoArrays(n, q) /\ ~TakesObjectsOnly(n, v, q) /\ ~RefusesMatched(n)
      /\ ~ReadsInexactly(n, v, q)
  BY MeetsFacts
<1>2. CASE v[q].kind = "null" /\ IsNullable(n) BY <1>1, <1>2 DEF Takes, TakesObjectsOnly
<1>3. CASE ~(v[q].kind = "null" /\ IsNullable(n))
  <2>1. /\ IntOrString(n) => v[q].kind \in {"number", "string"} /\ v[q].text \in WholeTexts
        /\ ~IntOrString(n) => MeansType(Type(n), v[q])
        /\ v[q].kind = "object" => MeansKeys(n, v, q)
    BY <1>1, <1>3, MeetsHere
  <2>2. CASE IntOrString(n)
    <3>1. IsNumeric(v[q]) BY <1>1, <2>1, <2>2 DEF IsNumeric, IsNumber, ReadsInexactly
    <3> QED BY <2>2, <3>1 DEF Takes, Nests
  <2>3. CASE Nests(n)
    <3>1. v[q].kind = "object" BY <2>1, <2>3 DEF Nests, MeansType
    <3>2. Nested(d, v, q) BY <1>1, <2>1, <2>3, <3>1, NestedTaken DEF Nests, HasProps
    <3> QED BY <2>3, <3>2 DEF Takes, Nests
  <2>4. CASE ~IntOrString(n) /\ ~Nests(n) /\ Type(n) = "array"
    <3>1. ~IsItem(q) BY <1>1, <2>4 DEF TakesNoArrays
    <3>2. v[q].kind = "array" BY <2>1, <2>4 DEF MeansType
    <3>3. ~Says(n, "items") => \A e \in Elements(v, q) : v[e].kind = "object"
      BY <1>1, <2>4 DEF TakesObjectsOnly
    <3> QED BY <2>4, <3>1, <3>2, <3>3 DEF Takes
  <2>5. CASE ~IntOrString(n) /\ ~Nests(n) /\ Type(n) # "array"
    <3>1. OfType(Type(n), v[q])
      <4>1. CASE Type(n) = ""
        <5>1. v[q].kind = "object" BY <1>1, <2>5, <4>1 DEF TakesObjectsOnly
        <5> QED BY <4>1, <5>1, Taking
      <4>2. CASE Type(n) # ""
        <5>1. Type(n) \in KnownTypes \ {"array", ""} BY <1>1, <2>5, <4>2, Familiar
        <5> QED BY <2>1, <2>5, <5>1, Taking
      <4> QED BY <4>1, <4>2
    <3> QED BY <2>5, <3>1 DEF Takes
  <2> QED BY <2>2, <2>3, <2>4, <2>5
<1> QED BY <1>2, <1>3

\* One of the branches holds, and all have the same type.
LEMMA BranchMeant ==
  ASSUME NEW d, NEW options, NEW v, Meets(d, options, v),
         NEW q \in DOMAIN v \ {<<>>}, At(d, q) # 0, NEW n, n = NodeAt(d, q),
         ~(v[q].kind = "null" /\ IsNullable(n)), Branches(n) # <<>>
  PROVE  \A t \in BranchTypes(n) : t # "array" /\ MeansType(t, v[q])
<1>1. ConformsAt(d, options, v, q) /\ ~TakesOneType(n) BY MeetsFacts
<1> DEFINE M == Meant(n, v, q)
<1>2. Cardinality(M) # 0
  <2>1. IF options.ambiguity = "error" THEN Cardinality(M) = 1 ELSE Cardinality(M) > 0
    BY <1>1, MeetsHere
  <2> HIDE DEF M
  <2>2. \A c : c = 1 \/ c > 0 => c # 0 OBVIOUS
  <2> QED BY <2>1, <2>2
<1>3. M # {}
  <2> HIDE DEF M
  <2> QED BY <1>2, FS_EmptySet
<1>4. PICK i \in DOMAIN Branches(n) : MeansBranch(Branches(n)[i], v, q) BY <1>3 DEF Meant
<1>5. Branches(n)[i].type \in BranchTypes(n) /\ MeansType(Branches(n)[i].type, v[q])
  BY <1>4 DEF BranchTypes, MeansBranch
<1>6. \A t, u \in BranchTypes(n) : t = u BY <1>1 DEF TakesOneType
<1> QED BY <1>1, <1>5, <1>6 DEF TakesOneType

\* The members of a field with patternProperties, and of a map
LEMMA MembersMeant ==
  ASSUME NEW n, NEW v, NEW q, MeansKeys(n, v, q), ~HasProps(n),
         ~StrangeType(n), ~TakesNoArrays(n, q), ~TakesObjectsOnly(n, v, q), ~TakesOneType(n),
         NEW m \in Members(v, q)
  PROVE  /\ HasPatterns(n) => TakesMember(n, v[m])
         /\ ~HasPatterns(n) /\ HasAdditionalSchema(n) => OfType(AdditionalType(n), v[m])
<1>1. /\ PatternTypes(n) \subseteq KnownTypes \ {"array"}
      /\ HasAdditionalSchema(n) => AdditionalType(n) \in KnownTypes \ {"array", ""}
  BY Familiar DEF TakesNoArrays, TakesObjectsOnly, AdditionalType
<1>2. /\ \A p \in DOMAIN Patterns(n) : Matches(p, KeyOf(m)) => MeansType(Patterns(n)[p], v[m])
      /\ (\A p \in DOMAIN Patterns(n) : ~Matches(p, KeyOf(m))) =>
           /\ Additional(n) # "false"
           /\ HasAdditionalSchema(n) => MeansType(AdditionalType(n), v[m])
           /\ HasPatterns(n) => Additional(n) # "absent"
  BY KeysMeant DEF HasProps
<1>3. ASSUME ~HasPatterns(n), HasAdditionalSchema(n) PROVE OfType(AdditionalType(n), v[m])
  <2>1. MeansType(AdditionalType(n), v[m]) BY <1>2, <1>3 DEF HasPatterns
  <2> QED BY <1>1, <1>3, <2>1, Taking
<1>4. ASSUME HasPatterns(n), NEW type \in PatternTypes(n) \ {""}, PatternTypes(n) = {type},
             HasAdditionalSchema(n) => AdditionalType(n) \in {"", type}
      PROVE  OfType(type, v[m])
  <2>1. MeansType(type, v[m])
    <3>1. CASE \E p \in DOMAIN Patterns(n) : Matches(p, KeyOf(m))
      <4>1. PICK p \in DOMAIN Patterns(n) : Matches(p, KeyOf(m)) BY <3>1
      <4>2. Patterns(n)[p] = type BY <1>4 DEF PatternTypes
      <4> QED BY <1>2, <4>1, <4>2
    <3>2. CASE \A p \in DOMAIN Patterns(n) : ~Matches(p, KeyOf(m))
      <4>1. HasAdditionalSchema(n) /\ MeansType(AdditionalType(n), v[m])
        BY <1>2, <1>4, <3>2 DEF TakesOneType, HasAdditionalSchema
      <4> QED BY <1>1, <1>4, <4>1
    <3> QED BY <3>1, <3>2
  <2> QED BY <1>1, <1>4, <2>1, Taking
<1>5. HasPatterns(n) => TakesMember(n, v[m]) BY <1>4 DEF TakesMember
<1> QED BY <1>3, <1>5

LEMMA MeantTakenField ==
  ASSUME NEW d, NEW options, NEW v, Meets(d, options, v),
         NEW q \in DOMAIN v \ {<<>>}, At(d, q) # 0, IsField(q), NEW n, n = NodeAt(d, q)
  PROVE  TakesField(d, v, q)
<1>1. /\ ConformsAt(d, options, v, q) /\ IsNode(n)
      /\ ~StrangeType(n) /\ ~TakesNoArrays(n, q) /\ ~TakesObjectsOnly(n, v, q) /\ ~TakesOneType(n)
  BY MeetsFacts
<1>2. CASE v[q].kind = "null" /\ IsNullable(n) BY <1>2 DEF TakesField
<1>3. CASE ~(v[q].kind = "null" /\ IsNullable(n)) /\ HasBranch(n)
  <2>1. Branches(n) # <<>> /\ Way(n) = "minimal" BY <1>3 DEF HasBranch, FirstTyped
  <2>2. ASSUME NEW i \in FirstTyped(Branches(n)) PROVE TakesBranch(Branches(n)[i].type, v, q)
    <3> DEFINE t == Branches(n)[i].type
    <3>1. t \in BranchTypes(n) /\ t \in AnyOfTypes BY <1>1, FirstBranch
    <3>2. t # "array" /\ MeansType(t, v[q]) BY <1>3, <2>1, <3>1, BranchMeant
    <3>3. t \in KnownTypes \ {"array", ""} BY <3>1, <3>2 DEF KnownTypes, AnyOfTypes
    <3>4. OfType(t, v[q]) BY <3>2, <3>3, Taking
    <3> QED BY <3>2, <3>4 DEF TakesBranch
  <2> QED BY <1>3, <2>1, <2>2 DEF TakesField
<1>4. CASE ~(v[q].kind = "null" /\ IsNullable(n)) /\ ~HasBranch(n)
  <2>1. Takes(d, v, q) BY <1>4, MeantTaken
  <2>2. CASE Way(n) \in {"patterns", "map", "names"}
    <3>1. ~IntOrString(n) /\ Type(n) = "object" /\ ~HasProps(n) BY <2>2, WayFacts DEF Container
    <3>2. MeansType("object", v[q]) BY <1>1, <1>4, <3>1, MeetsHere
    <3>3. v[q].kind = "object" BY <3>2 DEF MeansType
    <3>4. MeansKeys(n, v, q) BY <1>1, <1>4, <3>3, MeetsHere
    <3>5. \A m \in Members(v, q) :
            /\ HasPatterns(n) => TakesMember(n, v[m])
            /\ ~HasPatterns(n) /\ HasAdditionalSchema(n) => OfType(AdditionalType(n), v[m])
      BY <1>1, <3>1, <3>4, MembersMeant
    <3> QED BY <2>2, <3>3, <3>5, WayFacts DEF TakesField
  <2>3. CASE Way(n) \notin {"patterns", "map", "names"}
    BY <1>4, <2>1, <2>3 DEF TakesField
  <2> QED BY <2>2, <2>3
<1> QED BY <1>2, <1>3, <1>4

\* What is no object and no array is all there is of it.
LEMMA LeafPart ==
  ASSUME NEW v, IsJson(v), NEW e \in DOMAIN v, IsPlace(e), v[e].kind \notin {"object", "array"}
  PROVE  Part(v, e) = [p \in {<<>>} |-> v[e]]
<1>1. Len(e) \in Nat /\ To(e, Len(e)) = e /\ e \o <<>> = e /\ SubSeq(e, Len(e) + 1, Len(e)) = <<>>
  BY DEF IsPlace, To
<1> DEFINE S == {s \in DOMAIN v : Len(s) > Len(e) => To(s, Len(e)) # e}
<1>2. <<>> \in S BY <1>1 DEF IsJson
<1>3. ASSUME NEW s \in DOMAIN v \ {<<>>}, Parent(s) \in S PROVE s \in S
  <2> SUFFICES ASSUME Len(s) > Len(e), To(s, Len(e)) = e PROVE FALSE OBVIOUS
  <2>1. Holds(Parent(s), s) /\ v[Parent(s)].kind \in {"object", "array"} BY <1>3, JsonFacts
  <2>2. /\ Len(Parent(s)) \in Nat /\ Len(s) = Len(Parent(s)) + 1
        /\ To(Parent(s), Len(Parent(s))) = Parent(s)
        /\ \A i \in 0..Len(Parent(s)) : To(s, i) = To(Parent(s), i)
    BY <2>1, PlaceFacts
  <2> DEFINE a == Len(Parent(s))
             b == Len(e)
             c == Len(s)
  <2>3. a \in Nat /\ b \in Nat /\ c = a + 1 /\ c > b BY <1>1, <2>2
  <2>4. b \in 0..a /\ (a > b \/ a = b)
    <3> HIDE DEF a, b, c
    <3> QED BY <2>3
  <2>5. To(Parent(s), Len(e)) = e BY <2>2, <2>4
  <2>6. CASE a > b BY <1>3, <2>5, <2>6
  <2>7. CASE a = b BY <2>1, <2>2, <2>5, <2>7
  <2> QED BY <2>4, <2>6, <2>7
<1>4. DOMAIN v \subseteq S
  <2> HIDE DEF S
  <2> QED BY <1>2, <1>3, PlaceInduction
<1> DEFINE T == {s \in DOMAIN v : Len(s) >= Len(e) /\ To(s, Len(e)) = e}
<1>5. T = {e}
  <2>1. ASSUME NEW s \in T PROVE s = e
    <3>1. s \in DOMAIN v /\ Len(s) \in Nat /\ Len(s) >= Len(e) /\ ~(Len(s) > Len(e)) /\ To(s, Len(s)) = s
      <4>1. s \in DOMAIN v /\ Len(s) >= Len(e) /\ ~(Len(s) > Len(e)) BY <1>4
      <4>2. CASE s = <<>> BY <4>1, <4>2 DEF To
      <4>3. CASE s # <<>>
        <5>1. Holds(Parent(s), s) BY <4>1, <4>3, JsonFacts
        <5>2. Len(Parent(s)) \in Nat /\ Len(s) = Len(Parent(s)) + 1 /\ To(s, Len(s)) = s
          BY <5>1, PlaceFacts
        <5> QED BY <4>1, <5>2
      <4> QED BY <4>1, <4>2, <4>3
    <3>2. \A i, j \in Nat : i >= j /\ ~(i > j) => i = j OBVIOUS
    <3>3. Len(s) = Len(e) BY <1>1, <3>1, <3>2
    <3> QED BY <3>1, <3>3
  <2>2. e \in T BY <1>1
  <2> QED BY <2>1, <2>2
<1> DEFINE R == {SubSeq(s, Len(e) + 1, Len(s)) : s \in T}
<1>6. R = {<<>>}
  <2> HIDE DEF T
  <2> QED BY <1>1, <1>5
<1>7. Part(v, e) = [p \in R |-> v[e \o p]] BY DEF Part
<1> HIDE DEF R
<1> QED BY <1>1, <1>6, <1>7

LEMMA ResourceReturned ==
  ASSUME NEW d, Fits(d), NEW v, IsJson(v), NEW r, r = Returned(d, v), NEW p \in DOMAIN r, IsResource(v, p),
         NEW n, At(d, p) # 0 => n = NodeAt(d, p),
         At(d, p) # 0 => ~Loses(n, {"apiVersion", "kind", "metadata"}),
         At(d, p) # 0 => \A k \in {"apiVersion", "kind", "metadata"} \cap DOMAIN Props(n) :
                           ~IntOrString(d[Props(n)[k]])
  PROVE  IsResource(r, p)
<1> DEFINE parts == {"apiVersion", "kind", "metadata"}
<1>1. parts \subseteq Keys(v, p) BY DEF IsResource
<1>2. parts \subseteq Keys(r, p)
  <2>1. CASE ~Drops(d, p) BY <1>1, <2>1, ReturnedInside
  <2>2. CASE Drops(d, p)
    <3>1. At(d, p) # 0 /\ HasProps(n) BY <2>2 DEF Drops, Reached, Nests, HasProps
    <3>2. parts \subseteq DOMAIN Props(n) BY <3>1 DEF Loses
    <3> QED BY <1>1, <2>2, <3>1, <3>2, ReturnedInside
  <2> QED BY <2>1, <2>2
<1>3. ASSUME NEW k \in parts PROVE r[Member(p, k)] = v[Member(p, k)]
  <2>1. k \in Keys(r, p) /\ Member(p, k) \in Members(r, p) /\ Member(p, k) \in Members(v, p)
    BY <1>2, ReturnedInside
  <2>2. Member(p, k) \in DOMAIN r /\ Holds(p, Member(p, k)) BY <2>1, InsideFacts DEF Members, Inside
  <2>3. KeyOf(Member(p, k)) = k BY <2>1, MemberFacts, ReturnedInside
  <2>4. p \in DOMAIN v BY ReturnedFacts
  <2>5. ~Reached(d, Member(p, k)) \/ ~IntOrString(NodeAt(d, Member(p, k)))
    <3> SUFFICES ASSUME Reached(d, Member(p, k)) PROVE ~IntOrString(NodeAt(d, Member(p, k))) OBVIOUS
    <3>1. At(d, Member(p, k)) # 0 BY DEF Reached
    <3>2. At(d, p) # 0 BY <2>2, <3>1, AtStep
    <3>3. k \in DOMAIN Props(n) /\ NodeAt(d, Member(p, k)) = d[Props(n)[k]]
      BY <2>1, <2>3, <2>4, <3>1, <3>2, AtInside
    <3> QED BY <3>2, <3>3
  <2> QED BY <2>2, <2>5, SameReturned
<1> QED BY <1>2, <1>3 DEF IsResource

LEMMA SetReturned ==
  ASSUME NEW d, Fits(d), NEW v, IsJson(v), NEW r, r = Returned(d, v), NEW q \in DOMAIN r, ~Drops(d, q),
         \A e, f \in Elements(v, q) : Part(v, e) = Part(v, f) => e = f
  PROVE  SetHolds(r, q)
<1>1. /\ Elements(r, q) = Elements(v, q)
      /\ \A g \in Elements(v, q) : g \in DOMAIN r /\ g \in DOMAIN v /\ Holds(q, g)
  BY ElementsReturned
<1> SUFFICES ASSUME \A e \in Elements(v, q) : r[e].kind = "string",
                    NEW e \in Elements(v, q), NEW f \in Elements(v, q), r[e].text = r[f].text
             PROVE  e = f
  BY <1>1 DEF SetHolds
<1>2. v[e].kind = "string" /\ v[f].kind = "string" BY <1>1, ReturnedFacts
<1>3. v[e].text = v[f].text BY <1>1, ReturnedFacts
<1>4. v[e] = v[f]
  <2>1. /\ v[e] = [kind |-> v[e].kind, text |-> v[e].text]
        /\ v[f] = [kind |-> v[f].kind, text |-> v[f].text]
    BY <1>1, JsonFacts
  <2> QED BY <1>2, <1>3, <2>1
<1>5. Part(v, e) = [p \in {<<>>} |-> v[e]] /\ Part(v, f) = [p \in {<<>>} |-> v[f]]
  BY <1>1, <1>2, LeafPart DEF Holds
<1> QED BY <1>4, <1>5

\* The values of a list's keys are what their texts say.
LEMMA KeyMeant ==
  ASSUME NEW d, NEW options, NEW v, Meets(d, options, v),
         NEW m \in DOMAIN v \ {<<>>}, At(d, m) # 0, NEW o \in DOMAIN v \ {<<>>}, At(d, o) # 0,
         NodeAt(d, m) = NodeAt(d, o), PrintsKey(NodeAt(d, m)), v[m].text = v[o].text
  PROVE  Part(v, m) = Part(v, o)
<1> DEFINE n == NodeAt(d, m)
<1>1. Fits(d) /\ IsJson(v) BY DEF Meets
<1>2. /\ Type(n) \in {"string", "boolean", "number", "integer"} /\ ~IntOrString(n) /\ ~IsNullable(n)
  BY DEF PrintsKey
<1>3. MeansType(Type(n), v[m]) /\ MeansType(Type(n), v[o]) BY <1>2, MeetsFacts, MeetsHere
<1>4. v[m].kind = v[o].kind /\ v[m].kind \notin {"object", "array"} BY <1>2, <1>3 DEF MeansType
<1>5. v[m] = v[o]
  <2>1. /\ v[m] = [kind |-> v[m].kind, text |-> v[m].text]
        /\ v[o] = [kind |-> v[o].kind, text |-> v[o].text]
    BY <1>1, JsonFacts
  <2> QED BY <1>4, <2>1
<1>6. IsPlace(m) /\ IsPlace(o) BY <1>1, JsonFacts DEF Holds
<1>7. Part(v, m) = [p \in {<<>>} |-> v[m]] /\ Part(v, o) = [p \in {<<>>} |-> v[o]]
  BY <1>1, <1>4, <1>6, LeafPart
<1> QED BY <1>5, <1>7

LEMMA MapReturned ==
  ASSUME NEW d, NEW options, NEW v, Meets(d, options, v), NEW r, r = Returned(d, v),
         NEW q \in DOMAIN v \ {<<>>}, At(d, q) # 0, ~Drops(d, q), NEW n, n = NodeAt(d, q),
         ListType(n) = "map", NEW keys, keys = ListKeys(n), Keyed(keys, v, q)
  PROVE  ListMapHolds(keys, r, q)
<1> DEFINE K == {keys[i] : i \in DOMAIN keys}
<1>1. Fits(d) /\ IsJson(v) /\ q \in DOMAIN r /\ IsNode(n) /\ ~ComparesTexts(d, n, v, q)
  BY MeetsFacts DEF Meets
<1>2. /\ Elements(r, q) = Elements(v, q)
      /\ \A g \in Elements(v, q) : g \in DOMAIN r /\ g \in DOMAIN v /\ g # <<>> /\ Holds(q, g)
  BY <1>1, ElementsReturned
<1>3. K # {} =>
        /\ Says(n, "items") /\ HasProps(Item(d, n)) /\ K \subseteq DOMAIN Props(Item(d, n))
        /\ \A k \in K : PrintsKey(d[Props(Item(d, n))[k]])
        /\ \A e \in Elements(v, q), k \in K : k \in Keys(v, e) => v[Member(e, k)].text \in PlainTexts
  BY <1>1 DEF ComparesTexts, Loses
<1>4. \A e \in Elements(v, q) : K \subseteq Keys(v, e) BY DEF Keyed
<1>5. ASSUME NEW e \in Elements(v, q) PROVE K \subseteq Keys(r, e)
  <2>1. CASE ~Drops(d, e) BY <1>1, <1>2, <1>4, <2>1, ReturnedInside
  <2>2. CASE Drops(d, e) /\ K # {}
    <3>1. NodeAt(d, e) = Item(d, n) BY <1>1, <1>3, <2>2, AtInside
    <3>2. Keys(r, e) = Keys(v, e) \cap DOMAIN Props(NodeAt(d, e)) BY <1>1, <1>2, <2>2, ReturnedInside
    <3> HIDE DEF K
    <3> QED BY <1>3, <1>4, <2>2, <3>1, <3>2
  <2> QED BY <2>1, <2>2
<1>6. \A e \in Elements(v, q), i \in DOMAIN keys : keys[i] \in Keys(r, e) BY <1>5
<1>7. ASSUME keys # <<>>, NEW e \in Elements(v, q), NEW f \in Elements(v, q),
             CompositeKey(keys, r, e) = CompositeKey(keys, r, f)
      PROVE  e = f
  <2> DEFINE F(g) == [k \in K |-> r[Member(g, k)].text]
  <2>1. F(e) = F(f)
    <3>1. K \cap Keys(r, e) = K /\ K \cap Keys(r, f) = K BY <1>5
    <3>2. Joined(keys, F(e)) = Joined(keys, F(f))
      <4>1. /\ CompositeKey(keys, r, e) = Joined(keys, [k \in K \cap Keys(r, e) |-> r[Member(e, k)].text])
            /\ CompositeKey(keys, r, f) = Joined(keys, [k \in K \cap Keys(r, f) |-> r[Member(f, k)].text])
        BY DEF CompositeKey
      <4> HIDE DEF K
      <4> QED BY <1>7, <3>1, <4>1
    <3>3. ASSUME NEW g \in Elements(v, q), NEW k \in K PROVE r[Member(g, k)].text \in PlainTexts
      <4>1. k \in Keys(v, g) /\ k \in Keys(r, g) BY <1>4, <1>5
      <4>2. Member(g, k) \in DOMAIN r BY <1>1, <1>2, <4>1, ReturnedInside DEF Members, Inside
      <4>3. v[Member(g, k)].text \in PlainTexts BY <1>3, <4>1
      <4> QED BY <1>1, <4>2, <4>3, ReturnedFacts
    <3>4. F(e) \in [K -> PlainTexts] /\ F(f) \in [K -> PlainTexts]
      <4> HIDE DEF K
      <4> QED BY <3>3
    <3>5. JoinsApart(keys) BY <1>1 DEF IsNode
    <3>6. \A a, b \in [K -> PlainTexts] : Joined(keys, a) = Joined(keys, b) => a = b
      BY <3>5 DEF JoinsApart
    <3> HIDE DEF F, K
    <3> QED BY <3>2, <3>4, <3>6
  <2>2. ASSUME NEW i \in DOMAIN keys
        PROVE  Part(v, Member(e, keys[i])) = Part(v, Member(f, keys[i]))
    <3> DEFINE k == keys[i]
    <3>1. k \in K /\ F(e)[k] = F(f)[k] BY <2>1
    <3>2. r[Member(e, k)].text = r[Member(f, k)].text BY <3>1
    <3>3. ASSUME NEW g \in Elements(v, q)
          PROVE  /\ Member(g, k) \in DOMAIN r /\ Member(g, k) \in DOMAIN v \ {<<>>}
                 /\ At(d, Member(g, k)) # 0 /\ NodeAt(d, Member(g, k)) = d[Props(Item(d, n))[k]]
      <4>1. k \in Keys(v, g) /\ k \in Keys(r, g) BY <1>4, <1>5
      <4>2. /\ Member(g, k) \in Members(r, g) /\ Member(g, k) \in Members(v, g)
        BY <1>1, <1>2, <4>1, ReturnedInside
      <4>3. Member(g, k) \in DOMAIN r /\ Member(g, k) \in DOMAIN v \ {<<>>}
        BY <4>2 DEF Members, Inside
      <4>4. KeyOf(Member(g, k)) = k BY <1>1, <4>1, MemberFacts
      <4>5. At(d, g) # 0 /\ NodeAt(d, g) = Item(d, n) BY <1>1, <1>3, <3>1, AtInside
      <4>6. k \in DOMAIN Props(Item(d, n)) BY <1>3, <3>1
      <4> QED BY <1>1, <1>2, <4>2, <4>3, <4>4, <4>5, <4>6, AtInside
    <3>4. v[Member(e, k)].text = v[Member(f, k)].text BY <1>1, <3>2, <3>3, ReturnedFacts
    <3>5. PrintsKey(d[Props(Item(d, n))[k]]) BY <1>3, <3>1
    <3> HIDE DEF k
    <3>6. Part(v, Member(e, k)) = Part(v, Member(f, k)) BY <3>3, <3>4, <3>5, KeyMeant
    <3> QED BY <3>6 DEF k
  <2>3. Alike(keys, v, e, f) BY <2>2 DEF Alike
  <2> QED BY <1>7, <2>3 DEF Keyed
<1> QED BY <1>2, <1>6, <1>7 DEF ListMapHolds

\* An array that conforms has its list, and what it has to contain, returned.
LEMMA ArraysReturned ==
  ASSUME NEW d, NEW options, NEW v, Meets(d, options, v), NEW r, r = Returned(d, v),
         NEW q \in DOMAIN v \ {<<>>}, At(d, q) # 0, NEW n, n = NodeAt(d, q)
  PROVE  /\ ListHolds(n, r, q)
         /\ Type(n) = "array" => ContainsHolds(n, r, q)
<1>1. /\ Fits(d) /\ IsJson(v) /\ q \in DOMAIN r /\ ConformsAt(d, options, v, q)
      /\ ~StrangeType(n) /\ ~CountsOtherwise(d, n) /\ ~ReadsInexactly(n, v, q)
  BY MeetsFacts DEF Meets
<1> SUFFICES ASSUME r[q].kind = "array"
             PROVE  /\ ListHolds(n, r, q)
                    /\ Type(n) = "array" => ContainsHolds(n, r, q)
  BY DEF ListHolds, ContainsHolds
<1>2. v[q].kind = "array" BY <1>1, ReturnedFacts
<1>3. MeansList(n, v, q) BY <1>1, <1>2, MeetsHere
<1>4. ~Drops(d, q)
  <2>1. ~IntOrString(n) => MeansType(Type(n), v[q]) BY <1>1, <1>2, MeetsHere
  <2>2. ~Nests(n) BY <1>2, <2>1 DEF Nests, MeansType
  <2> QED BY <2>2 DEF Drops
<1>5. ListType(n) = "set" => SetHolds(r, q) BY <1>1, <1>3, <1>4, SetReturned DEF MeansList
<1>6. ListType(n) = "map" => ListMapHolds(ListKeys(n), r, q)
  BY <1>1, <1>3, <1>4, MapReturned DEF MeansList
<1>7. ListHolds(n, r, q) BY <1>5, <1>6 DEF ListHolds
<1>8. ContainsHolds(n, r, q)
  <2> SUFFICES ASSUME Says(n, "contains") PROVE ContainsHolds(n, r, q) BY DEF ContainsHolds
  <2>1. {e \in Elements(r, q) : ContainsMatch(n.contains, r, e)} = Hits(n.contains, v, q)
    BY <1>1, <1>4, SameHits, Z3T(30)
  <2>2. /\ Keyword(n, "minContains", 1) <= Cardinality(Hits(n.contains, v, q))
        /\ Says(n, "maxContains") => Cardinality(Hits(n.contains, v, q)) <= n.maxContains
    BY <1>3 DEF MeansList
  <2>3. Says(n, "minContains") => Keyword(n, "minContains", 1) = n.minContains BY DEF Keyword
  <2> QED BY <2>1, <2>2, <2>3 DEF ContainsHolds
<1> QED BY <1>7, <1>8

LEMMA BranchesReturned ==
  ASSUME NEW d, NEW options, NEW v, Meets(d, options, v), NEW r, r = Returned(d, v),
         NEW q \in DOMAIN v \ {<<>>}, At(d, q) # 0, NEW n, n = NodeAt(d, q),
         Way(n) = "minimal", Branches(n) # <<>>, ~(v[q].kind = "null" /\ IsNullable(n)), IsField(q)
  PROVE  AnyOfHolds(Branches(n), options, r, q)
<1>1. /\ Fits(d) /\ IsJson(v) /\ q \in DOMAIN r /\ ConformsAt(d, options, v, q) /\ IsNode(n)
      /\ ~StrangeType(n) /\ ~TakesOneType(n) /\ ~TakesObjectsOnly(n, v, q)
      /\ ~ReadsInexactly(n, v, q)
  BY MeetsFacts DEF Meets
<1>2. ~IntOrString(n) /\ ~Nests(n) BY WayFacts
<1>3. ~Drops(d, q) BY <1>2 DEF Drops
<1>4. r[q] = v[q] /\ Keys(r, q) = Keys(v, q) BY <1>1, <1>2, <1>3, SameReturned, ReturnedInside
<1>5. "array" \notin BranchTypes(n) /\ ~ReadsBranches(n) BY <1>1 DEF TakesOneType
<1>6. ASSUME BranchTypes(n) \cup {Type(n)} \subseteq {"", "object"} PROVE v[q].kind = "object"
  <2>1. CASE HasBranch(n)
    <3>1. PICK i \in FirstTyped(Branches(n)) : TRUE BY <2>1 DEF HasBranch
    <3>2. Branches(n)[i].type \in BranchTypes(n) \cap AnyOfTypes BY <1>1, FirstBranch
    <3>3. "object" \in BranchTypes(n) BY <1>6, <3>2 DEF AnyOfTypes
    <3>4. MeansType("object", v[q]) BY <3>3, BranchMeant
    <3> QED BY <3>4 DEF MeansType
  <2>2. CASE ~HasBranch(n)
    <3>1. MeansType(Type(n), v[q]) BY <1>1, <1>2, MeetsHere
    <3>2. CASE Type(n) = "" BY <1>1, <1>2, <2>2, <3>2 DEF TakesObjectsOnly
    <3>3. CASE Type(n) = "object" BY <3>1, <3>3 DEF MeansType
    <3> QED BY <1>6, <3>2, <3>3
  <2> QED BY <2>1, <2>2
<1>7. \A i \in DOMAIN Branches(n) :
        BranchHolds(Branches(n)[i], r, q) <=> MeansBranch(Branches(n)[i], v, q)
  BY <1>1, <1>4, <1>5, <1>6, SameBranches
<1>8. {i \in DOMAIN Branches(n) : BranchHolds(Branches(n)[i], r, q)} = Meant(n, v, q)
  BY <1>7 DEF Meant
<1>9. IF options.ambiguity = "error" THEN Cardinality(Meant(n, v, q)) = 1
      ELSE Cardinality(Meant(n, v, q)) > 0
  BY <1>1, MeetsHere
<1> QED BY <1>8, <1>9 DEF AnyOfHolds

\* No property of the object has a pattern that is none.
LEMMA FieldPatterns ==
  ASSUME NEW d, NEW options, NEW v, Meets(d, options, v),
         NEW q \in DOMAIN v \ {<<>>}, At(d, q) # 0, IsField(q), NEW n, n = NodeAt(d, q)
  PROVE  ({Keyword(n, "names", "")} \cup DOMAIN Patterns(n)) \cap Invalid = {}
<1>1. Fits(d) /\ IsJson(v) /\ v[<<>>].kind = "object" /\ ~AcceptsLess(d, options, v)
  BY MeetsFacts DEF Meets
<1>2. Parent(q) = <<>> /\ <<>> \in DOMAIN v BY <1>1, FieldFacts DEF IsJson
<1>3. q \in Members(v, <<>>) BY <1>1, <1>2, JsonFacts
<1>4. At(d, <<>>) # 0 /\ NodeAt(d, <<>>) = d[1] BY AtRoot DEF NodeAt
<1>5. KeyOf(q) \in DOMAIN Props(d[1]) /\ n = d[Props(d[1])[KeyOf(q)]]
  BY <1>1, <1>2, <1>3, <1>4, AtInside
<1> QED BY <1>1, <1>5 DEF AcceptsLess

LEMMA NamesReturned ==
  ASSUME NEW n, NEW v, NEW q, NEW r, Keys(r, q) \subseteq Keys(v, q), MeansKeys(n, v, q),
         {Keyword(n, "names", "")} \cap Invalid = {}
  PROVE  NamesHold(n, r, q)
<1>1. HasNames(n) => Keyword(n, "names", "") = n.names BY DEF HasNames, Keyword
<1> QED BY <1>1, KeysMeant DEF NamesHold, HasNames, KeysMatch

LEMMA PatternsReturned ==
  ASSUME NEW n, NEW v, NEW q, NEW r, Members(r, q) = Members(v, q), Keys(r, q) = Keys(v, q),
         \A m \in Members(v, q) : r[m] = v[m], MeansKeys(n, v, q), ~HasProps(n), HasPatterns(n),
         ~StrangeType(n), ~TakesOneType(n), DOMAIN Patterns(n) \cap Invalid = {},
         ~ReadsInexactly(n, v, q)
  PROVE  PatternsHold(n, r, q)
<1> DEFINE T == TypedPatterns(n)
<1>1. /\ DOMAIN T = {p \in DOMAIN Patterns(n) : Patterns(n)[p] # ""}
      /\ \A p \in DOMAIN T : T[p] = Patterns(n)[p]
  BY DEF TypedPatterns
<1>2. DOMAIN T = DOMAIN Patterns(n) BY <1>1 DEF TakesOneType, PatternTypes
<1>3. \A m \in Members(v, q) :
        (\A p \in DOMAIN Patterns(n) : ~Matches(p, KeyOf(m))) =>
          /\ Additional(n) \notin {"absent", "false"}
          /\ HasAdditionalSchema(n) /\ MeansType(AdditionalType(n), v[m])
  BY KeysMeant DEF HasProps, TakesOneType, HasAdditionalSchema
<1>4. Additional(n) \in {"absent", "false"} => KeysMatch(DOMAIN Patterns(n), r, q)
  BY <1>3 DEF KeysMatch, Keys
<1>5. ASSUME NEW m \in Members(r, q)
      PROVE  LET of == {p \in DOMAIN T : Matches(p, KeyOf(m))} IN
             IF of = {} THEN MatchesType(r[m], AdditionalType(n))
             ELSE \A p \in of : MatchesType(r[m], T[p])
  <2> DEFINE of == {p \in DOMAIN T : Matches(p, KeyOf(m))}
  <2>1. m \in Members(v, q) /\ r[m] = v[m] OBVIOUS
  <2>2. ASSUME of = {} PROVE MatchesType(r[m], AdditionalType(n))
    <3>1. \A p \in DOMAIN Patterns(n) : ~Matches(p, KeyOf(m)) BY <1>2, <2>2
    <3>2. HasAdditionalSchema(n) /\ MeansType(AdditionalType(n), v[m]) BY <1>3, <2>1, <3>1
    <3>3. ReadRight(AdditionalType(n), v[m]) BY <2>1, <3>2, AllReadRight DEF CheckedTypes
    <3> QED BY <2>1, <3>2, <3>3, Familiar, Matching
  <2>3. ASSUME NEW p \in of PROVE MatchesType(r[m], T[p])
    <3>1. p \in DOMAIN Patterns(n) /\ T[p] = Patterns(n)[p] /\ Matches(p, KeyOf(m)) BY <1>1
    <3>2. MeansType(T[p], v[m]) BY <2>1, <3>1, KeysMeant
    <3>3. T[p] \in KnownTypes BY <3>1, Familiar DEF PatternTypes
    <3>4. ReadRight(T[p], v[m])
      <4>1. T[p] \in CheckedTypes(n) BY <3>1 DEF PatternTypes, CheckedTypes
      <4> HIDE DEF T
      <4> QED BY <2>1, <4>1, AllReadRight
    <3> HIDE DEF T
    <3> QED BY <2>1, <3>2, <3>3, <3>4, Matching
  <2> QED BY <2>2, <2>3
<1>6. ValuesMatch(T, AdditionalType(n), r, q)
  <2> HIDE DEF T
  <2> QED BY <1>2, <1>5 DEF ValuesMatch
<1> QED BY <1>4, <1>6 DEF PatternsHold

LEMMA WayReturned ==
  ASSUME NEW d, NEW options, NEW v, Meets(d, options, v), NEW r, r = Returned(d, v),
         NEW q \in DOMAIN v \ {<<>>}, At(d, q) # 0, NEW n, n = NodeAt(d, q),
         v[q].kind # "null", IsField(q)
  PROVE  WayHolds(n, options, r, q)
<1>1. /\ Fits(d) /\ IsJson(v) /\ q \in DOMAIN r /\ q \in DOMAIN v /\ ConformsAt(d, options, v, q)
      /\ ~StrangeType(n) /\ ~TakesOneType(n) /\ ~ReadsInexactly(n, v, q)
  BY MeetsFacts DEF Meets
<1>2. ({Keyword(n, "names", "")} \cup DOMAIN Patterns(n)) \cap Invalid = {} BY FieldPatterns
<1>3. CASE Way(n) = "minimal" BY <1>3, BranchesReturned DEF WayHolds
<1>4. CASE Way(n) \in {"nested", "patterns", "map", "names"}
  <2>1. ~IntOrString(n) /\ Type(n) = "object" BY <1>4, WayFacts DEF Nests, Container
  <2>2. v[q].kind = "object"
    <3>1. MeansType("object", v[q]) BY <1>1, <2>1, MeetsHere
    <3> QED BY <3>1 DEF MeansType
  <2>3. MeansKeys(n, v, q) BY <1>1, <2>2, MeetsHere
  <2>4. Keys(r, q) \subseteq Keys(v, q) BY <1>1, ReturnedInside
  <2>5. NamesHold(n, r, q) BY <1>2, <2>3, <2>4, NamesReturned
  <2>6. ASSUME Way(n) = "patterns" PROVE PatternsHold(n, r, q)
    <3>1. ~HasProps(n) /\ HasPatterns(n) /\ ~Nests(n) BY <2>6, WayFacts
    <3>2. ~Drops(d, q) BY <3>1 DEF Drops
    <3>3. Members(r, q) = Members(v, q) /\ Keys(r, q) = Keys(v, q) BY <1>1, <3>2, ReturnedInside
    <3>4. ASSUME NEW m \in Members(v, q) PROVE r[m] = v[m]
      <4>1. m \in DOMAIN r BY <3>3, <3>4 DEF Members, Inside
      <4>2. At(d, m) = 0 BY <1>1, <3>1, AtInside DEF HasProps
      <4> QED BY <1>1, <4>1, <4>2, SameReturned DEF Reached
    <3> QED BY <1>1, <1>2, <2>3, <3>1, <3>3, <3>4, PatternsReturned
  <2> QED BY <1>4, <2>5, <2>6 DEF WayHolds
<1>5. CASE Way(n) = "number" BY <1>5 DEF WayHolds
<1> QED BY <1>3, <1>4, <1>5, WayFacts

LEMMA EmbeddedReturned ==
  ASSUME NEW d, NEW options, NEW v, Meets(d, options, v), NEW r, r = Returned(d, v),
         NEW q \in DOMAIN v \ {<<>>}, At(d, q) # 0, NEW n, n = NodeAt(d, q)
  PROVE  EmbeddedHolds(d, n, options, r, q)
<1> DEFINE parts == {"apiVersion", "kind", "metadata"}
           marked == Keyword(n, "embedded", FALSE)
           items == Says(n, "items") /\ Keyword(Item(d, n), "embedded", FALSE)
           lacks(m) == Loses(m, parts) \/ \E k \in parts \cap DOMAIN Props(m) : IntOrString(d[Props(m)[k]])
           item == IF Says(n, "items") THEN Item(d, n) ELSE NoFields
<1>1. /\ Fits(d) /\ IsJson(v) /\ q \in DOMAIN r /\ q \in DOMAIN v /\ ConformsAt(d, options, v, q)
      /\ ~AsksForMore(d, n, options)
  BY MeetsFacts DEF Meets
<1> SUFFICES ASSUME options.embedded, marked \/ items
             PROVE  /\ r[q].kind = "object" => IsResource(r, q)
                    /\ \A e \in Elements(r, q) : r[e].kind = "object" => IsResource(r, e)
  BY DEF EmbeddedHolds, Item
<1>2. /\ marked => ~lacks(n) /\ ~lacks(item)
      /\ items => Type(n) = "array" /\ ~lacks(item)
  BY <1>1 DEF AsksForMore
<1>3. ASSUME r[q].kind = "object" PROVE IsResource(r, q)
  <2>1. v[q].kind = "object" BY <1>1, <1>3, ReturnedFacts
  <2>2. marked
    <3> SUFFICES ASSUME ~marked PROVE FALSE OBVIOUS
    <3>1. Type(n) = "array" BY <1>2
    <3> QED BY <1>1, <2>1, <3>1, MeetsHere DEF MeansType
  <2>3. IsResource(v, q) BY <1>1, <2>1, <2>2, MeetsHere
  <2>4. ~lacks(n) BY <1>2, <2>2
  <2> QED BY <1>1, <2>3, <2>4, ResourceReturned
<1>4. ASSUME NEW e \in Elements(r, q), r[e].kind = "object" PROVE IsResource(r, e)
  <2>1. e \in Elements(v, q) /\ e \in DOMAIN r BY <1>1, ReturnedInside DEF Elements, Inside
  <2>2. v[e].kind = "object" BY <1>1, <1>4, <2>1, ReturnedFacts
  <2>3. e \in DOMAIN v \ {<<>>} /\ v[q].kind = "array"
    BY <1>1, <2>1, ElementFacts, InsideFacts
  <2>4. IsResource(v, e)
    <3>1. CASE marked BY <1>1, <2>1, <2>2, <2>3, <3>1, MeetsHere
    <3>2. CASE items
      <4>1. At(d, e) # 0 /\ NodeAt(d, e) = Item(d, n) BY <1>1, <2>1, <3>2, AtInside
      <4>2. ConformsAt(d, options, v, e) BY <2>3, <4>1, MeetsFacts
      <4> QED BY <2>2, <3>2, <4>1, <4>2, MeetsHere
    <3> QED BY <3>1, <3>2
  <2>5. ~lacks(item) BY <1>2
  <2>6. At(d, e) # 0 => item = NodeAt(d, e) BY <1>1, <2>1, AtInside
  <2> HIDE DEF item
  <2> QED BY <1>1, <2>1, <2>4, <2>5, <2>6, ResourceReturned
<1> QED BY <1>3, <1>4

(***************************************************************************)
(* And what conforms is taken, although the checks see the value that the  *)
(* adapters return and not the one that was sent, unless AcceptsLess names *)
(* a difference.                                                           *)
(***************************************************************************)
THEOREM MeetingAdmitted ==
  ASSUME NEW d, Fits(d), NEW options, NEW v, IsJson(v), MeetsSchema(d, options, v)
  PROVE  Accepts(d, options, v) \/ AcceptsLess(d, options, v)
<1> SUFFICES ASSUME ~AcceptsLess(d, options, v) PROVE Accepts(d, options, v) OBVIOUS
<1> DEFINE r == Returned(d, v)
<1>1. Meets(d, options, v) BY DEF Meets
<1>2. ASSUME NEW q \in DOMAIN v \ {<<>>}, At(d, q) # 0, IsField(q) PROVE FieldAccepts(d, options, v, q)
  <2> DEFINE n == NodeAt(d, q)
  <2>1. TakesField(d, v, q) BY <1>1, <1>2, MeantTakenField
  <2>2. v[q].kind # "null" => WayHolds(n, options, r, q) BY <1>1, <1>2, WayReturned
  <2>3. ListHolds(n, r, q) /\ (Type(n) = "array" => ContainsHolds(n, r, q))
    BY <1>1, <1>2, ArraysReturned
  <2>4. EmbeddedHolds(d, n, options, r, q) BY <1>1, <1>2, EmbeddedReturned
  <2> QED BY <2>1, <2>2, <2>3, <2>4 DEF FieldAccepts
<1>3. ASSUME NEW q \in DOMAIN v \ {<<>>}, At(d, q) # 0, ~IsField(q) PROVE DeeperAccepts(d, v, q)
  <2>1. Takes(d, v, q) BY <1>1, <1>3, MeantTaken
  <2>2. ListHolds(NodeAt(d, q), r, q) BY <1>1, <1>3, ArraysReturned
  <2> QED BY <2>1, <2>2 DEF DeeperAccepts
<1>4. ASSUME NEW p \in DOMAIN Props(d[1]) PROVE ~Refuses(d[d[1].props[p]])
  <2>1. d[1].props = Props(d[1]) BY <1>4 DEF Props, Keyword, NoFields
  <2> DEFINE n == d[Props(d[1])[p]]
  <2>2. ({Keyword(n, "names", "")} \cup DOMAIN Patterns(n)) \cap Invalid = {} BY DEF AcceptsLess
  <2>3. DOMAIN TypedPatterns(n) \subseteq DOMAIN Patterns(n) BY DEF TypedPatterns
  <2> HIDE DEF n
  <2>4. ~Refuses(n) BY <2>2, <2>3 DEF Refuses
  <2> QED BY <2>1, <2>4 DEF n
<1>5. Preserves(d[1]) /\ Reserved \in Keys(v, <<>>) => v[Member(<<>>, Reserved)].kind = "object"
  BY DEF AcceptsLess
<1> QED BY <1>2, <1>3, <1>4, <1>5 DEF Accepts, MeetsSchema, Reached, IsField

-----------------------------------------------------------------------------
(***************************************************************************)
(* The server.  What is true of the import holds from the moment the       *)
(* schema is loaded; so does that its nodes are well formed, which makes   *)
(* the two lemmas above apply to every review that is answered.            *)
(***************************************************************************)
NodesFit == \A i \in DOMAIN heap : IsNode(heap[i])

\* A copy has the other keywords of its original.
LEMMA NodeCopied ==
  ASSUME NEW t, NEW n, NEW i \in DOMAIN t, IsNode(t[i])
  PROVE  IsNode(Copied(t, n)[i])
<1> DEFINE b == t[i]
           a == Copied(t, n)[i]
<1>1. a = [w \in DOMAIN b |->
             CASE w = "props" -> [p \in DOMAIN b.props |-> b.props[p] + n]
               [] w = "items" -> b.items + n
               [] OTHER       -> b[w]]
  BY DEF Copied
<1>2. /\ Says(a, "anyOf") <=> Says(b, "anyOf")
      /\ Says(a, "listKeys") <=> Says(b, "listKeys")
  BY <1>1 DEF Says
<1>3. /\ Says(b, "anyOf") => a["anyOf"] = b["anyOf"]
      /\ Says(b, "listKeys") => a["listKeys"] = b["listKeys"]
  BY <1>1 DEF Says
<1>8. /\ Says(a, "props") <=> Says(b, "props")
      /\ Says(b, "props") => DOMAIN a["props"] = DOMAIN b["props"]
  BY <1>1 DEF Says
<1> HIDE DEF a
<1>4. Branches(a) = Branches(b) BY <1>2, <1>3 DEF Branches, Keyword
<1>5. ListKeys(a) = ListKeys(b) BY <1>2, <1>3 DEF ListKeys, Keyword
<1>7. DOMAIN Props(a) = DOMAIN Props(b)
  <2>1. Says(a, "props") <=> Says(b, "props") BY <1>8
  <2>2. Says(b, "props") => DOMAIN a["props"] = DOMAIN b["props"] BY <1>8
  <2> QED BY <2>1, <2>2 DEF Props, Keyword
<1>6. IsNode(a) BY <1>4, <1>5, <1>7 DEF IsNode
<1> QED BY <1>6 DEF a

\* A merge has each keyword from one of the two.
LEMMA NodeMerged ==
  ASSUME NEW s, NEW c, IsNode(s), IsNode(c)
  PROVE  IsNode(MergedInto(s, c))
<1> DEFINE m == MergedInto(s, c)
<1>1. m = [w \in (DOMAIN s \ {"ref"}) \cup DOMAIN c |-> IF w \in DOMAIN s \ {"ref"} THEN s[w] ELSE c[w]]
  BY DEF MergedInto
<1>2. /\ Says(m, "props") <=> Says(s, "props") \/ Says(c, "props")
      /\ Says(m, "anyOf") <=> Says(s, "anyOf") \/ Says(c, "anyOf")
      /\ Says(m, "listKeys") <=> Says(s, "listKeys") \/ Says(c, "listKeys")
  BY <1>1 DEF Says
<1>3. /\ Says(m, "props") => m["props"] = IF Says(s, "props") THEN s["props"] ELSE c["props"]
      /\ Says(m, "anyOf") => m["anyOf"] = IF Says(s, "anyOf") THEN s["anyOf"] ELSE c["anyOf"]
      /\ Says(m, "listKeys") => m["listKeys"] = IF Says(s, "listKeys") THEN s["listKeys"] ELSE c["listKeys"]
  BY <1>1 DEF Says
<1> HIDE DEF m
<1>4. Branches(m) = Branches(s) \/ Branches(m) = Branches(c)
  BY <1>2, <1>3 DEF Branches, Keyword
<1>5. ListKeys(m) = ListKeys(s) \/ ListKeys(m) = ListKeys(c)
  BY <1>2, <1>3 DEF ListKeys, Keyword
<1>7. Props(m) = Props(s) \/ Props(m) = Props(c) BY <1>2, <1>3 DEF Props, Keyword
<1>6. IsNode(m) BY <1>4, <1>5, <1>7 DEF IsNode
<1> QED BY <1>6 DEF m

LEMMA NodesStart == RefInit => NodesFit
BY NodesAssumption DEF RefInit, RefStart, NodesFit

LEMMA NodesOn ==
  ASSUME IInv, Walkable, NodesFit, [Resolve]_refVars
  PROVE  NodesFit'
<1>0. Framed BY DEF IInv
<1>1. CASE UNCHANGED heap BY <1>1 DEF NodesFit
<1>2. CASE Finish
  <2>1. /\ FrameFits(heap, defs, Top) /\ DOMAIN heap' = DOMAIN heap
        /\ Top.key = NoKey => heap' = heap
        /\ Top.key # NoKey =>
             \A j \in DOMAIN heap :
               heap'[j] = IF j = Top.into THEN MergedInto(heap[j], heap[Top.at]) ELSE heap[j]
    BY <1>0, <1>2, Finished
  <2>2. Top.at \in DOMAIN heap BY <2>1 DEF FrameFits
  <2> QED BY <1>1, <2>1, <2>2, NodeMerged DEF NodesFit
<1>3. ASSUME NEW slot, Expand(slot) PROVE NodesFit'
  <2> DEFINE k == heap[Child(slot)].ref
  <2>1. /\ k \in DOMAIN defs
        /\ \A i \in DOMAIN heap : heap'[i] = heap[i]
        /\ \A x \in DOMAIN defs[k] : heap'[Len(heap) + x] = Copied(defs[k], Len(heap))[x]
        /\ \A i \in DOMAIN heap' : i \in DOMAIN heap \/ \E x \in DOMAIN defs[k] : i = Len(heap) + x
    BY <1>0, <1>3, Expanded
  <2> HIDE DEF k
  <2>2. \A x \in DOMAIN defs[k] : IsNode(defs[k][x])
    BY <2>1, NodesAssumption DEF Walkable, defs
  <2>3. \A x \in DOMAIN defs[k] : IsNode(heap'[Len(heap) + x]) BY <2>1, <2>2, NodeCopied
  <2> QED BY <2>1, <2>3 DEF NodesFit
<1>4. ASSUME NEW slot, Leave(slot) \/ Descend(slot) PROVE NodesFit'
  BY <1>1, <1>4 DEF Leave, Descend
<1> QED BY <1>1, <1>2, <1>3, <1>4 DEF Resolve, refVars

\* All that is true of the import
Imported == IInv /\ Walkable /\ CycleInv /\ LeftInv /\ NodesFit

LEMMA ImportStarts == RefInit => Imported
BY Beginning, WalkStart, TracedStart, LeftStart, NodesStart DEF Imported

LEMMA ImportGoesOn == Imported /\ [Resolve]_refVars => Imported'
BY Keeping, WalkGoesOn, CyclesOn, LeftOn, NodesOn DEF Imported

LEMMA ImportStartsNext == RefInit' => Imported'
BY ImportStarts, PTL

\* The least of a set is in it.
LEMMA FirstFacts ==
  ASSUME NEW S \in SUBSET Nat, S # {}
  PROVE  FirstOf(S) \in S /\ \A i \in S : FirstOf(S) <= i
BY Least DEF FirstOf

NothingLoaded == heap = <<>> /\ document = NoDocument /\ stack = <<>> /\ visited = {} /\ warned = {}

TheSchema == Found # {} /\ document = Unwrapped(TheCRD)

Answered ==
  \/ review = NoReview /\ reply = NoReply
  \/ phase = "serving" /\ review \in Suites[case.suite] /\ reply = Answer(review)

WebhookInv ==
  /\ case \in Cases /\ phase \in {"starting", "resolving", "serving", "down"}
  /\ IF phase \in {"resolving", "serving"} THEN Imported /\ TheSchema ELSE NothingLoaded
  /\ phase = "serving" => stack = <<>> /\ gvr = DerivedGVR
  /\ Answered

LEMMA FoundFacts ==
  ASSUME case \in Cases, Found # {}
  PROVE  /\ Found \subseteq Nat /\ FirstOf(Found) \in Found
         /\ \A i \in Found : FirstOf(Found) <= i
         /\ IsCRD(TheCRD)
<1>1. DOMAIN bundle \subseteq Nat /\ \A i \in DOMAIN bundle : IsOf(bundle[i]) => IsCRD(bundle[i])
  BY BundlesAssumption DEF bundle
<1>2. Found \subseteq DOMAIN bundle /\ \A i \in Found : IsOf(bundle[i]) BY DEF Found, Readable
<1>3. FirstOf(Found) \in Found /\ \A i \in Found : FirstOf(Found) <= i
  <2>1. Found \in SUBSET Nat BY <1>1, <1>2
  <2> QED BY <2>1, FirstFacts
<1> QED BY <1>1, <1>2, <1>3 DEF TheCRD

\* The versions that satisfy something, and the first of them
LEMMA VersionFacts ==
  ASSUME NEW crd, IsCRD(crd), NEW S \in SUBSET DOMAIN crd.versions, S # {}
  PROVE  /\ FirstOf(S) \in S /\ FirstOf(S) \in DOMAIN crd.versions /\ FirstOf(S) \in Nat \ {0}
         /\ \A i \in S : i \in Nat \ {0} /\ FirstOf(S) <= i
<1>1. S \in SUBSET Nat /\ DOMAIN crd.versions \subseteq Nat \ {0} BY DEF IsCRD
<1>2. FirstOf(S) \in S /\ \A i \in S : FirstOf(S) <= i BY <1>1, FirstFacts
<1> QED BY <1>1, <1>2

LEMMA UnwrappedFacts ==
  ASSUME NEW crd, IsCRD(crd)
  PROVE  Unwrapped(crd) \in Tables
<1> DEFINE has == {i \in DOMAIN crd.versions : crd.versions[i].schema # <<>>}
           served == {i \in has : crd.versions[i].served}
<1>1. ASSUME NEW S \in SUBSET has, S # {} PROVE crd.versions[FirstOf(S)].schema[1] \in Tables
  <2>1. FirstOf(S) \in S BY <1>1, VersionFacts
  <2>2. /\ crd.versions[FirstOf(S)].schema \in AtMostOne(Tables)
        /\ crd.versions[FirstOf(S)].schema # <<>>
    BY <1>1, <2>1 DEF IsCRD
  <2> QED BY <2>2 DEF AtMostOne
<1>2. crd.validation # <<>> => crd.validation[1] \in Tables BY DEF IsCRD, AtMostOne
<1>3. Unwrapped(crd) = IF served # {} THEN crd.versions[FirstOf(served)].schema[1]
                       ELSE IF has # {} THEN crd.versions[FirstOf(has)].schema[1]
                       ELSE IF crd.validation # <<>> THEN crd.validation[1]
                       ELSE NoDocument
  BY DEF Unwrapped
<1>4. served \in SUBSET has /\ has \in SUBSET has OBVIOUS
<1> HIDE DEF has, served
<1> QED BY <1>1, <1>2, <1>3, <1>4, BundlesAssumption

LEMMA WebhookStart == WebhookInit => WebhookInv
<1>1. WebhookInit => phase = "starting" BY DEF WebhookInit
<1> QED BY <1>1 DEF WebhookInit, WebhookInv, NothingLoaded, Answered

\* What a bundle comes to, while it is the same
LEMMA SameBundle ==
  ASSUME case' = case
  PROVE  /\ Found' = Found /\ TheCRD' = TheCRD /\ DerivedGVR' = DerivedGVR /\ opts' = opts
<1>1. bundle' = bundle /\ opts' = opts BY DEF bundle, opts
<1>2. Readable' = Readable BY <1>1 DEF Readable
<1>3. Found' = Found BY <1>1, <1>2 DEF Found
<1>4. TheCRD' = TheCRD BY <1>1, <1>3 DEF TheCRD
<1>5. DerivedGVR' = DerivedGVR BY <1>1, <1>3 DEF DerivedGVR
<1> QED BY <1>1, <1>3, <1>4, <1>5

LEMMA WebhookStays ==
  ASSUME WebhookInv, UNCHANGED webhookVars
  PROVE  WebhookInv'
<1>1. /\ phase' = phase /\ case' = case /\ gvr' = gvr /\ review' = review /\ reply' = reply
      /\ UNCHANGED refVars /\ heap' = heap /\ document' = document /\ stack' = stack
      /\ visited' = visited /\ warned' = warned
  BY DEF webhookVars, refVars
<1>2. Imported => Imported' BY <1>1, ImportGoesOn
<1>3. TheSchema => TheSchema' BY <1>1, SameBundle DEF TheSchema
<1>4. NothingLoaded => NothingLoaded' BY <1>1 DEF NothingLoaded
<1>5. Answered'
  <2>1. CASE review = NoReview /\ reply = NoReply BY <1>1, <2>1 DEF Answered
  <2>2. CASE phase = "serving" /\ review \in Suites[case.suite] /\ reply = Answer(review)
    <3>1. opts' = opts BY <1>1 DEF opts
    <3>2. Parses(review)' <=> Parses(review) BY <1>1, <3>1 DEF Parses
    <3>3. RightResource(review)' <=> RightResource(review) BY <1>1 DEF RightResource
    <3>4. Answer(review)' = Answer(review) BY <1>1, <3>2, <3>3 DEF Answer
    <3>5. reply' = Answer(review)' /\ review' \in Suites[case.suite]' BY <1>1, <2>2, <3>4
    <3> QED BY <1>1, <2>2, <3>5 DEF Answered
  <2> QED BY <2>1, <2>2 DEF WebhookInv, Answered
<1> QED BY <1>1, <1>2, <1>3, <1>4, <1>5, SameBundle DEF WebhookInv


\* The server has not answered before it serves.
LEMMA NotYet ==
  ASSUME WebhookInv, phase # "serving" \/ review = NoReview
  PROVE  review = NoReview /\ reply = NoReply
<1>1. NoReview \notin Suites[case.suite]
  <2>1. case \in Cases BY DEF WebhookInv
  <2>2. \A r \in Suites[case.suite] : r.content # "none" BY <2>1, ReviewsAssumption DEF Contents
  <2> QED BY <2>2 DEF NoReview
<1> QED BY <1>1 DEF WebhookInv, Answered

LEMMA WebhookFails ==
  ASSUME WebhookInv, Fail
  PROVE  WebhookInv'
<1>1. /\ phase = "starting" /\ phase' = "down" /\ case' = case
      /\ review' = review /\ reply' = reply /\ UNCHANGED refVars
  BY DEF Fail
<1>2. NothingLoaded BY <1>1 DEF WebhookInv
<1>3. NothingLoaded' BY <1>1, <1>2 DEF NothingLoaded, refVars
<1>4. review' = NoReview /\ reply' = NoReply BY <1>1, NotYet
<1>5. Answered' BY <1>4 DEF Answered, NoReview, NoReply
<1>6. case' \in Cases BY <1>1 DEF WebhookInv
<1> QED BY <1>1, <1>3, <1>5, <1>6 DEF WebhookInv

LEMMA WebhookLoads ==
  ASSUME WebhookInv, Load
  PROVE  WebhookInv'
<1> DEFINE table == Unwrapped(TheCRD)
<1>1. /\ phase = "starting" /\ Found # {} /\ phase' = "resolving" /\ case' = case
      /\ document' = table /\ heap' = table.nodes
      /\ stack' = IF table.hasDefs THEN <<Frame(1, table.nodes[1], NoKey, 0)>> ELSE <<>>
      /\ visited' = visited /\ warned' = warned /\ review' = review /\ reply' = reply
  BY DEF Load
<1>2. NothingLoaded /\ case \in Cases BY <1>1 DEF WebhookInv
<1>3. table \in Tables BY <1>1, <1>2, FoundFacts, UnwrappedFacts
<1>4. TheSchema' BY <1>1, SameBundle DEF TheSchema
<1>5. Imported'
  <2> HIDE DEF table
  <2>1. RefInit' BY <1>1, <1>2, <1>3 DEF RefInit, RefStart, NothingLoaded
  <2> QED BY <2>1, ImportStartsNext
<1>6. review' = NoReview /\ reply' = NoReply BY <1>1, NotYet
<1>7. Answered' BY <1>6 DEF Answered, NoReview, NoReply
<1> QED BY <1>1, <1>2, <1>4, <1>5, <1>7 DEF WebhookInv

LEMMA WebhookImports ==
  ASSUME WebhookInv, Import
  PROVE  WebhookInv'
<1>1. /\ phase = "resolving" /\ phase' = phase /\ case' = case
      /\ review' = review /\ reply' = reply /\ Resolve
  BY DEF Import
<1>2. Imported /\ TheSchema /\ case \in Cases BY <1>1 DEF WebhookInv
<1>3. Imported' BY <1>1, <1>2, ImportGoesOn
<1>4. document' = document BY <1>1 DEF Resolve, Finish, Leave, Expand, Descend
<1>5. TheSchema'
  <2>1. Unwrapped(TheCRD)' = Unwrapped(TheCRD)
    BY <1>1, SameBundle DEF Unwrapped
  <2> QED BY <1>1, <1>2, <1>4, <2>1, SameBundle DEF TheSchema
<1>6. review' = NoReview /\ reply' = NoReply BY <1>1, NotYet
<1>7. Answered' BY <1>6 DEF Answered, NoReview, NoReply
<1> QED BY <1>1, <1>2, <1>3, <1>5, <1>7 DEF WebhookInv

LEMMA WebhookListens ==
  ASSUME WebhookInv, Listen
  PROVE  WebhookInv'
<1>1. /\ phase = "resolving" /\ stack = <<>> /\ phase' = "serving" /\ gvr' = DerivedGVR
      /\ case' = case /\ review' = review /\ reply' = reply /\ UNCHANGED refVars
      /\ document' = document /\ stack' = stack
  BY DEF Listen, refVars
<1>2. Imported /\ TheSchema /\ case \in Cases BY <1>1 DEF WebhookInv
<1>3. Imported' BY <1>1, <1>2, ImportGoesOn
<1>4. TheSchema' BY <1>1, <1>2, SameBundle DEF TheSchema
<1>5. gvr' = DerivedGVR' BY <1>1, SameBundle
<1>6. review' = NoReview /\ reply' = NoReply BY <1>1, NotYet
<1>7. Answered' BY <1>6 DEF Answered, NoReview, NoReply
<1> QED BY <1>1, <1>2, <1>3, <1>4, <1>5, <1>7 DEF WebhookInv

LEMMA WebhookHandles ==
  ASSUME WebhookInv, Handle
  PROVE  WebhookInv'
<1>1. /\ phase = "serving" /\ phase' = phase /\ case' = case /\ gvr' = gvr /\ UNCHANGED refVars
      /\ heap' = heap /\ document' = document /\ stack' = stack
      /\ review' \in Suites[case.suite] /\ reply' = Answer(review')
  BY DEF Handle, refVars
<1>2. Imported /\ TheSchema /\ stack = <<>> /\ gvr = DerivedGVR /\ case \in Cases
  BY <1>1 DEF WebhookInv
<1>3. Imported' BY <1>1, <1>2, ImportGoesOn
<1>4. TheSchema' BY <1>1, <1>2, SameBundle DEF TheSchema
<1>5. gvr' = DerivedGVR' BY <1>1, <1>2, SameBundle
<1>6. Answered'
  <2>1. opts' = opts BY <1>1 DEF opts
  <2>2. Parses(review)' <=> Parses(review') BY <1>1, <2>1 DEF Parses
  <2>3. RightResource(review)' <=> RightResource(review') BY <1>1 DEF RightResource
  <2>4. Answer(review)' = Answer(review') BY <2>2, <2>3 DEF Answer
  <2>5. reply' = Answer(review)' /\ review' \in Suites[case.suite]' BY <1>1, <2>4
  <2> QED BY <1>1, <2>5 DEF Answered
<1> QED BY <1>1, <1>2, <1>3, <1>4, <1>5, <1>6 DEF WebhookInv

LEMMA WebhookStep == WebhookInv /\ [WebhookNext]_webhookVars => WebhookInv'
BY WebhookFails, WebhookLoads, WebhookImports, WebhookListens, WebhookHandles, WebhookStays
DEF WebhookNext


-----------------------------------------------------------------------------
(***************************************************************************)
(* What the server's answers rest on                                       *)
(***************************************************************************)
LEMMA Answering ==
  ASSUME WebhookInv, reply.status # 0 \/ reply.allowed
  PROVE  /\ phase = "serving" /\ review \in Suites[case.suite] /\ reply = Answer(review)
         /\ review.content \in Contents
         /\ review.content = "request" /\ review.object # <<>> => IsJson(review.object[1])
         /\ Fits(heap) /\ gvr = DerivedGVR /\ TheSchema /\ case \in Cases
<1>1. ~(review = NoReview /\ reply = NoReply) BY DEF NoReply
<1>2. phase = "serving" /\ review \in Suites[case.suite] /\ reply = Answer(review)
  BY <1>1 DEF WebhookInv, Answered
<1>3. Imported /\ TheSchema /\ gvr = DerivedGVR /\ case \in Cases BY <1>2 DEF WebhookInv
<1>4. Fits(heap) BY <1>3 DEF Imported, Walkable, NodesFit, Fits
<1> QED BY <1>2, <1>3, <1>4, ReviewsAssumption

LEMMA AllowedFacts ==
  ASSUME WebhookInv, reply.allowed
  PROVE  /\ review.content = "request" /\ review.kind = Kind
         /\ RightResource(review) /\ Parses(review)
<1>1. reply = Answer(review) /\ review.content \in Contents BY Answering
<1>2. CASE review.content = "request"
  <2>1. Answer(review) = IF review.kind = Kind /\ RightResource(review) /\ Parses(review)
                         THEN Allowed ELSE Denied
    BY <1>2 DEF Answer
  <2>2. ~Denied.allowed BY DEF Denied
  <2> QED BY <1>1, <1>2, <2>1, <2>2
<1>3. CASE review.content # "request"
  <2>1. ~Refused(405).allowed /\ ~Refused(415).allowed /\ ~Refused(400).allowed BY DEF Refused
  <2>2. CASE review.content = "not a post"
    <3>1. Answer(review) = Refused(405) BY <2>2 DEF Answer
    <3> QED BY <1>1, <2>1, <3>1
  <2>3. CASE review.content = "not json"
    <3>1. Answer(review) = Refused(415) BY <2>3 DEF Answer
    <3> QED BY <1>1, <2>1, <3>1
  <2>4. CASE review.content \in {"malformed", "no request"}
    <3>1. Answer(review) = Refused(400) BY <2>4 DEF Answer
    <3> QED BY <1>1, <2>1, <3>1
  <2> QED BY <1>1, <1>3, <2>2, <2>3, <2>4 DEF Contents
<1> QED BY <1>2, <1>3

(***************************************************************************)
(* Whatever the CRD's schema refers to and says, and whatever is sent: an  *)
(* object that handleValidate allows conforms to the schema, but for the   *)
(* approximations of the import that AcceptsMore lists.                    *)
(***************************************************************************)
THEOREM AdmittedObjectsConform == Webhook => []AdmittedConforms
<1>1. ASSUME WebhookInv PROVE AdmittedConforms
  <2> SUFFICES ASSUME reply.allowed
               PROVE  /\ review.object # <<>> /\ ~review.duplicate /\ ~TooDeep(review.object[1])
                      /\ MeetsSchema(heap, opts, review.object[1]) \/ AcceptsMore(heap, review.object[1])
    BY DEF AdmittedConforms
  <2>1. review.content = "request" /\ Parses(review) BY <1>1, AllowedFacts
  <2>2. /\ review.object # <<>> /\ ~review.duplicate /\ ~TooDeep(review.object[1])
        /\ Accepts(heap, opts, review.object[1])
    BY <2>1 DEF Parses
  <2>3. Fits(heap) /\ IsJson(review.object[1]) BY <1>1, <2>1, <2>2, Answering
  <2> QED BY <2>2, <2>3, AdmittedMeets
<1> QED BY <1>1, WebhookStart, WebhookStep, PTL DEF Webhook

(***************************************************************************)
(* And an object that conforms, in a request for the kind and resource     *)
(* that the server is for, is allowed unless it nests too deep, but for    *)
(* what AcceptsLess lists.                                                 *)
(***************************************************************************)
THEOREM ConformingObjectsAdmitted == Webhook => []ConformingAdmitted
<1>1. ASSUME WebhookInv PROVE ConformingAdmitted
  <2> SUFFICES ASSUME reply.status # 0, Complete(review), MeetsSchema(heap, opts, review.object[1])
               PROVE  reply.allowed \/ AcceptsLess(heap, opts, review.object[1])
    BY DEF ConformingAdmitted
  <2>1. /\ review.content = "request" /\ review.kind = Kind /\ RightResource(review)
        /\ review.object # <<>> /\ ~review.duplicate /\ ~TooDeep(review.object[1])
    BY DEF Complete
  <2>2. Fits(heap) /\ IsJson(review.object[1]) /\ reply = Answer(review) BY <1>1, <2>1, Answering
  <2>3. CASE Accepts(heap, opts, review.object[1])
    <3>1. Parses(review) BY <2>1, <2>3 DEF Parses
    <3>2. Answer(review) = Allowed BY <2>1, <3>1 DEF Answer
    <3> QED BY <2>2, <3>2 DEF Allowed
  <2> QED BY <2>2, <2>3, MeetingAdmitted
<1> QED BY <1>1, WebhookStart, WebhookStep, PTL DEF Webhook

\* If the storage version is the first one served, both readings of a CRD
\* come to it.
LEMMA OneVersion ==
  ASSUME NEW crd, IsCRD(crd), StorageFirstServed(crd)
  PROVE  \E i \in DOMAIN crd.versions :
           /\ crd.versions[i].name = PickedVersion(crd) /\ crd.versions[i].name # ""
           /\ crd.versions[i].schema = <<Unwrapped(crd)>>
<1> DEFINE has == {j \in DOMAIN crd.versions : crd.versions[j].schema # <<>>}
           served == {j \in has : crd.versions[j].served}
           storage == {j \in DOMAIN crd.versions : crd.versions[j].storage /\ crd.versions[j].name # ""}
<1>1. PICK i \in DOMAIN crd.versions :
        /\ crd.versions[i].storage /\ crd.versions[i].name # ""
        /\ crd.versions[i].served /\ crd.versions[i].schema # <<>>
        /\ \A j \in 1..(i - 1) : ~crd.versions[j].served /\ ~crd.versions[j].storage
  BY DEF StorageFirstServed
<1>2. i \in served /\ i \in storage BY <1>1
<1>3. \A j \in DOMAIN crd.versions : j < i => ~crd.versions[j].served /\ ~crd.versions[j].storage
  <2> SUFFICES ASSUME NEW j \in DOMAIN crd.versions, j < i
               PROVE  ~crd.versions[j].served /\ ~crd.versions[j].storage
    OBVIOUS
  <2>1. j \in Nat \ {0} /\ i \in Nat \ {0} BY DEF IsCRD
  <2>2. j \in 1..(i - 1) BY <2>1
  <2> QED BY <1>1, <2>2
<1>4. FirstOf(served) = i
  <2>1. served \in SUBSET DOMAIN crd.versions /\ served # {} BY <1>2
  <2>2. FirstOf(served) \in served /\ FirstOf(served) <= i /\ FirstOf(served) \in Nat \ {0}
        /\ FirstOf(served) \in DOMAIN crd.versions /\ i \in Nat \ {0}
    BY <1>2, <2>1, VersionFacts
  <2>3. ~(FirstOf(served) < i) BY <1>3, <2>2
  <2> HIDE DEF served
  <2> QED BY <2>2, <2>3
<1>5. FirstOf(storage) = i
  <2>1. storage \in SUBSET DOMAIN crd.versions /\ storage # {} BY <1>2
  <2>2. FirstOf(storage) \in storage /\ FirstOf(storage) <= i /\ FirstOf(storage) \in Nat \ {0}
        /\ FirstOf(storage) \in DOMAIN crd.versions /\ i \in Nat \ {0}
    BY <1>2, <2>1, VersionFacts
  <2>3. ~(FirstOf(storage) < i) BY <1>3, <2>2
  <2> HIDE DEF storage
  <2> QED BY <2>2, <2>3
<1>6. PickedVersion(crd) = crd.versions[i].name
  <2>1. storage # {} BY <1>2
  <2>2. PickedVersion(crd) = IF storage # {} THEN crd.versions[FirstOf(storage)].name
                             ELSE IF crd.versions # <<>> THEN crd.versions[1].name ELSE ""
    BY DEF PickedVersion
  <2> HIDE DEF storage
  <2> QED BY <1>5, <2>1, <2>2
<1>7. Unwrapped(crd) = crd.versions[i].schema[1]
  <2>1. served # {} BY <1>2
  <2>2. Unwrapped(crd) = IF served # {} THEN crd.versions[FirstOf(served)].schema[1]
                         ELSE IF has # {} THEN crd.versions[FirstOf(has)].schema[1]
                         ELSE IF crd.validation # <<>> THEN crd.validation[1]
                         ELSE NoDocument
    BY DEF Unwrapped
  <2> HIDE DEF served, has
  <2> QED BY <1>4, <2>1, <2>2
<1>8. crd.versions[i].schema = <<crd.versions[i].schema[1]>>
  <2>1. crd.versions[i].schema \in AtMostOne(Tables) BY <1>1 DEF IsCRD
  <2>2. PICK table \in Tables : crd.versions[i].schema = <<table>> BY <1>1, <2>1 DEF AtMostOne
  <2> QED BY <2>2
<1> QED BY <1>1, <1>6, <1>7, <1>8

\* The resource that is derived is then that of the same CRD, the first of
\* the kind, which lacks nothing.
LEMMA DerivedFromTheCRD ==
  ASSUME case \in Cases, Found # {}, StorageFirstServed(TheCRD)
  PROVE  /\ DerivedGVR = [group |-> TheCRD.group, version |-> PickedVersion(TheCRD), resource |-> TheCRD.plural]
         /\ DerivedGVR # Skipped
<1> DEFINE of(crd) == [group |-> crd.group, version |-> PickedVersion(crd), resource |-> crd.plural]
           whole == {i \in Found : "" \notin Range(of(bundle[i]))}
           f == FirstOf(Found)
<1>1. /\ Found \subseteq Nat /\ f \in Found /\ \A i \in Found : f <= i
      /\ IsCRD(TheCRD) /\ TheCRD = bundle[f]
  BY FoundFacts DEF TheCRD
<1>2. TheCRD.group # "" /\ TheCRD.plural # "" BY DEF StorageFirstServed
<1>3. PickedVersion(TheCRD) # "" BY <1>1, OneVersion
<1> HIDE DEF f
<1>4. "" \notin Range(of(TheCRD))
  <2> DEFINE g == of(TheCRD)
  <2>1. /\ DOMAIN g = {"group", "version", "resource"}
        /\ g["group"] = TheCRD.group /\ g["resource"] = TheCRD.plural
        /\ g["version"] = PickedVersion(TheCRD)
    OBVIOUS
  <2> HIDE DEF g
  <2>2. \A x \in DOMAIN g : g[x] # "" BY <1>2, <1>3, <2>1
  <2>3. "" \notin Range(g) BY <2>2 DEF Range
  <2> QED BY <2>3 DEF g
<1>5. f \in whole BY <1>1, <1>4
<1>6. FirstOf(whole) = f
  <2>1. whole \in SUBSET Nat /\ whole \subseteq Found /\ whole # {} BY <1>1, <1>5
  <2> HIDE DEF whole
  <2>2. FirstOf(whole) \in whole /\ FirstOf(whole) <= f BY <1>5, <2>1, FirstFacts
  <2>3. FirstOf(whole) \in Nat /\ f \in Nat /\ f <= FirstOf(whole) BY <1>1, <2>1, <2>2
  <2> QED BY <2>2, <2>3
<1>7. DerivedGVR = IF whole = {} THEN Skipped ELSE of(bundle[FirstOf(whole)])
  BY DEF DerivedGVR
<1>8. DerivedGVR = of(TheCRD)
  <2> HIDE DEF whole, of
  <2> QED BY <1>1, <1>5, <1>6, <1>7
<1>9. of(TheCRD) # Skipped BY <1>2 DEF Skipped
<1> QED BY <1>8, <1>9

(***************************************************************************)
(* Whatever the bundle: if its first CRD of the kind is complete and its   *)
(* storage version is the first one served, what is allowed names the      *)
(* version whose schema it was validated by, although unwrapCRDSchema and  *)
(* parseExpectedGVRFromYAML read the bundle each in its own way.           *)
(***************************************************************************)
THEOREM ValidatedByItsVersion == Webhook => []SchemaOfItsVersion
<1>1. ASSUME WebhookInv PROVE SchemaOfItsVersion
  <2> SUFFICES ASSUME reply.allowed, StorageFirstServed(TheCRD)
               PROVE  /\ review.resource.group = TheCRD.group
                      /\ review.resource.resource = TheCRD.plural
                      /\ \E i \in DOMAIN TheCRD.versions :
                           /\ TheCRD.versions[i].name = review.resource.version
                           /\ TheCRD.versions[i].schema = <<document>>
    BY DEF SchemaOfItsVersion
  <2>1. /\ case \in Cases /\ Found # {} /\ document = Unwrapped(TheCRD) /\ gvr = DerivedGVR
    BY <1>1, Answering DEF TheSchema
  <2>2. RightResource(review) BY <1>1, AllowedFacts
  <2>3. review.resource = [group |-> TheCRD.group, version |-> PickedVersion(TheCRD),
                           resource |-> TheCRD.plural]
    BY <2>1, <2>2, DerivedFromTheCRD DEF RightResource
  <2>4. IsCRD(TheCRD) BY <2>1, FoundFacts
  <2>5. PICK i \in DOMAIN TheCRD.versions :
          /\ TheCRD.versions[i].name = PickedVersion(TheCRD)
          /\ TheCRD.versions[i].schema = <<Unwrapped(TheCRD)>>
    BY <2>4, OneVersion
  <2>6. review.resource.version = PickedVersion(TheCRD) BY <2>3
  <2> QED BY <2>1, <2>3, <2>5, <2>6
<1> QED BY <1>1, WebhookStart, WebhookStep, PTL DEF Webhook

(***************************************************************************)
(* In the server, too, the walk's visited is true of its stack of calls,   *)
(* and its warnings are true and complete.                                 *)
(***************************************************************************)
THEOREM ServerImportsRightly == Webhook => [](ExpansionsAreNested /\ WarningsAreTrue)
<1>1. ASSUME WebhookInv PROVE ExpansionsAreNested /\ WarningsAreTrue
  <2>1. CASE phase \in {"resolving", "serving"}
    <3>1. IInv /\ Walkable /\ CycleInv /\ LeftInv BY <1>1, <2>1 DEF WebhookInv, Imported
    <3> QED BY <3>1, Reported DEF IInv, CycleInv, WarningsAreTrue
  <2>2. CASE phase \notin {"resolving", "serving"}
    <3>1. NothingLoaded BY <1>1, <2>2 DEF WebhookInv
    <3>2. Expanding = {} BY <3>1 DEF NothingLoaded, Expanding
    <3>3. ExpansionsAreNested BY <3>1, <3>2 DEF NothingLoaded, ExpansionsAreNested
    <3>4. CyclesAreReal BY <3>1 DEF NothingLoaded, CyclesAreReal
    <3>5. Below(heap, 1) = {} BY <3>1 DEF NothingLoaded, Below
    <3>6. RefsBelow(heap, 1) = {} BY <3>5 DEF RefsBelow
    <3>7. LeftoversAreReported BY <3>6 DEF LeftoversAreReported
    <3> QED BY <3>3, <3>4, <3>7 DEF WarningsAreTrue
  <2> QED BY <2>1, <2>2
<1> QED BY <1>1, WebhookStart, WebhookStep, PTL DEF Webhook
=============================================================================
