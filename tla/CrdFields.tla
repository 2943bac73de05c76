------------------------------ MODULE CrdFields ------------------------------
(***************************************************************************)
(* What kubeopenapi/Import makes of the properties of a schema, as far as  *)
(* it decides what is accepted: the adapter a property is given (plan.go,  *)
(* adapters.go, maps.go) and the checks chained behind it (list.go,        *)
(* contains.go, patterns.go, union_ambiguity.go, embedded.go).             *)
(*                                                                         *)
(* A schema is a table d of nodes, as in RefResolution, after its          *)
(* references are resolved.  The adapters nest as the schemas do.  What    *)
(* they do is said place by place: which places of a value an adapter is   *)
(* handed, and what the adapter there takes.  A check sees the value the   *)
(* adapters return, which lacks the members that a nested object does not  *)
(* declare, and has a json.Number where int-or-string was given a text.    *)
(***************************************************************************)
EXTENDS Naturals, Sequences, FiniteSets

CONSTANTS
  Matches(_, _),  \* a key matches a pattern
  Invalid,        \* the patterns that regexp.Compile refuses
  NumberTexts,    \* the texts that strconv.ParseFloat reads: 1e999 is not
  RoundedTexts,   \* those of a whole number, once they are read
  WholeTexts,     \* the texts of whole numbers, read or not
  PlainTexts,     \* the texts without a "|"
  Joined(_, _)    \* the keys of a list's element in one text, key=value|key=value

ASSUME TextsAssumption ==
  RoundedTexts \subseteq NumberTexts /\ WholeTexts \cap NumberTexts \subseteq RoundedTexts

\* A JSON value takes its places to what is there, [kind, text]; the text of a
\* number is its spelling.  A place is the way to it, by members and elements.
Parent(q)      == SubSeq(q, 1, Len(q) - 1)
IsItem(q)      == q[Len(q)][1] = "items"
KeyOf(q)       == q[Len(q)][2]
Member(q, k)   == Append(q, <<"props", k>>)
Inside(v, q)   == {p \in DOMAIN v : p # <<>> /\ Parent(p) = q}
Members(v, q)  == {p \in Inside(v, q) : ~IsItem(p)}
Elements(v, q) == {p \in Inside(v, q) : IsItem(p)}
Keys(v, q)     == {KeyOf(p) : p \in Members(v, q)}

Kinds == {"null", "boolean", "string", "number", "object", "array"}

\* What is inside something is in DOMAIN v with it, and of its kind.
IsJson(v) ==
  /\ <<>> \in DOMAIN v
  /\ \A q \in DOMAIN v :
       /\ v[q] = [kind |-> v[q].kind, text |-> v[q].text] /\ v[q].kind \in Kinds
       /\ q # <<>> =>
            /\ q \in Seq({q[i] : i \in DOMAIN q})
            /\ Parent(q) \in DOMAIN v
            /\ \/ q[Len(q)] = <<"props", KeyOf(q)>> /\ v[Parent(q)].kind = "object"
               \/ q[Len(q)] = <<"items", KeyOf(q)>> /\ v[Parent(q)].kind = "array"

NoFields == [p \in {} |-> 0]

\* The keywords of a node, with what their absence means to the importer.
Says(n, w)    == w \in DOMAIN n
Keyword(n, w, absent) == IF Says(n, w) THEN n[w] ELSE absent

Type(n)        == Keyword(n, "type", "")
IsNullable(n)  == Keyword(n, "nullable", FALSE)
IntOrString(n) == Keyword(n, "intOrString", FALSE)
Props(n)       == Keyword(n, "props", NoFields)
Required(n)    == Keyword(n, "required", {})
ListType(n)    == Keyword(n, "listType", "")
ListKeys(n)    == Keyword(n, "listKeys", <<>>)
Branches(n)    == Keyword(n, "anyOf", <<>>)
Patterns(n)    == Keyword(n, "patterns", NoFields)
\* additionalProperties: a boolean, or the type of its schema; "" is absent.
Additional(n) == Keyword(n, "additional", "absent")
HasAdditionalSchema(n) == Additional(n) \notin {"absent", "true", "false"}
AdditionalType(n) == IF Additional(n) = "untyped" THEN "" ELSE Additional(n)

\* planUnknownBehavior: unknown keys are kept under a field of this name, which
\* importObject declares beside the properties.
Reserved == "_unknown"

Preserves(n) == Keyword(n, "preserve", FALSE)

Declared(n) == DOMAIN Props(n) \cup (IF Preserves(n) THEN {Reserved} ELSE {})

\* The texts of a list's elements tell them apart, if there is no "|" in them.
JoinsApart(keys) ==
  \A f, g \in [{keys[i] : i \in DOMAIN keys} -> PlainTexts] :
    Joined(keys, f) = Joined(keys, g) => f = g

IsNode(n) ==
  /\ Branches(n) \in Seq({Branches(n)[i] : i \in DOMAIN Branches(n)})
  /\ JoinsApart(ListKeys(n))
  /\ Reserved \notin DOMAIN Props(n)

\* NumberJSON, with CoerceFromString or without it.
IsNumber(x)  == x.kind = "number"
IsNumeric(x) == IsNumber(x) \/ (x.kind = "string" /\ x.text \in NumberTexts)

\* valueMatchesType, isNumeric, isInteger: of a value that an adapter has returned
MatchesType(x, type) ==
  CASE type = "number"  -> IsNumber(x) /\ x.text \in NumberTexts
    [] type = "integer" -> IsNumber(x) /\ x.text \in RoundedTexts
    [] type \in {"string", "boolean", "object"} -> x.kind = type
    [] OTHER -> TRUE

\* The adapter of a type, where no more is known than that: minimalAdapterFor,
\* adapterForAnyOf, buildMapAdapterFromAdditional.
OfType(type, x) ==
  x.kind = (CASE type \in {"string", "boolean", "number"} -> type
              [] type = "integer"                         -> "number"
              [] OTHER                                    -> "object")

-----------------------------------------------------------------------------
\* Mutant: the first of the keys alone tells elements apart.
FirstKeyOnly(keys, r, e) == r[Member(e, keys[1])].text

\* compositeKey: the keys an element has, with fmt.Sprint of their values.
CompositeKey(keys, r, e) ==
  Joined(keys, [k \in {keys[i] : i \in DOMAIN keys} \cap Keys(r, e) |-> r[Member(e, k)].text])

\* setChecker knows []string only; mapChecker misses no key, or objects.
SetHolds(r, q) ==
  (\A e \in Elements(r, q) : r[e].kind = "string") =>
    \A e, f \in Elements(r, q) : r[e].text = r[f].text => e = f

ListMapHolds(keys, r, q) ==
  (\A e \in Elements(r, q) : r[e].kind = "object") =>
    /\ \A e \in Elements(r, q), i \in DOMAIN keys : keys[i] \in Keys(r, e)
    /\ keys # <<>> =>
         \A e, f \in Elements(r, q) : CompositeKey(keys, r, e) = CompositeKey(keys, r, f) => e = f

ListHolds(n, r, q) ==
  r[q].kind = "array" =>
    CASE ListType(n) = "set" -> SetHolds(r, q)
      [] ListType(n) = "map" -> ListMapHolds(ListKeys(n), r, q)
      [] OTHER                            -> TRUE

\* containsMatch; the required keys count only beside type: object.
ContainsMatch(c, r, e) ==
  /\ MatchesType(r[e], c.type)
  /\ c.type = "object" => c.required \subseteq Keys(r, e)

\* Mutant: one match less than minContains will do.
ContainsNearly(n, r, q) ==
  r[q].kind = "array" /\ Says(n, "contains") =>
    LET hits == Cardinality({e \in Elements(r, q) : ContainsMatch(n.contains, r, e)}) IN
    /\ Says(n, "minContains") => n.minContains <= hits + 1
    /\ Says(n, "maxContains") => hits <= n.maxContains

ContainsHolds(n, r, q) ==
  r[q].kind = "array" /\ Says(n, "contains") =>
    LET hits == Cardinality({e \in Elements(r, q) : ContainsMatch(n.contains, r, e)}) IN
    /\ Says(n, "minContains") => n.minContains <= hits
    /\ Says(n, "maxContains") => hits <= n.maxContains

\* checkOneEmbeddedResource
IsResource(r, q) ==
  /\ {"apiVersion", "kind", "metadata"} \subseteq Keys(r, q)
  /\ r[Member(q, "apiVersion")].kind = "string" /\ r[Member(q, "kind")].kind = "string"
  /\ r[Member(q, "metadata")].kind = "object"

EmbeddedHolds(d, n, opts, r, q) ==
  opts.embedded =>
    LET marked == Keyword(n, "embedded", FALSE)
                    \/ (Says(n, "items") /\ Keyword(d[n.items], "embedded", FALSE))
    IN  marked => /\ r[q].kind = "object" => IsResource(r, q)
                  /\ \A e \in Elements(r, q) : r[e].kind = "object" => IsResource(r, e)

KeysMatch(patterns, r, q) ==
  /\ patterns \cap Invalid = {}
  /\ \A k \in Keys(r, q) : \E p \in patterns : Matches(p, k)

\* buildPatternPropertiesValueTypesRefiner
ValuesMatch(patterns, type, r, q) ==
  /\ DOMAIN patterns \cap Invalid = {}
  /\ \A m \in Members(r, q) :
       LET of == {p \in DOMAIN patterns : Matches(p, KeyOf(m))} IN
       IF of = {} THEN MatchesType(r[m], type)
       ELSE \A p \in of : MatchesType(r[m], patterns[p])

\* A branch of anyOf has a type, or required keys, or says nothing here.
BranchHolds(b, r, q) ==
  IF b.type # "" THEN MatchesType(r[q], b.type)
  ELSE b.required = {} \/ (r[q].kind = "object" /\ b.required \subseteq Keys(r, q))

AnyOfHolds(branches, opts, r, q) ==
  LET matched == Cardinality({i \in DOMAIN branches : BranchHolds(branches[i], r, q)}) IN
  IF opts.ambiguity = "error" THEN matched = 1 ELSE matched > 0

-----------------------------------------------------------------------------
\* The ways planProperty takes, the first that applies.
HasNames(n)    == Says(n, "names")
HasPatterns(n) == DOMAIN Patterns(n) # {}

Way(n) ==
  IF IntOrString(n) THEN "number"
  ELSE IF Type(n) # "object" THEN "minimal"
  ELSE CASE DOMAIN Props(n) # {} -> "nested"
         [] DOMAIN Props(n) = {} /\ HasPatterns(n) -> "patterns"
         [] DOMAIN Props(n) = {} /\ ~HasPatterns(n) /\ HasAdditionalSchema(n) -> "map"
         [] OTHER -> IF HasNames(n) THEN "names" ELSE "minimal"

\* adapterForAnyOf: the first branch whose type it knows decides.
AnyOfTypes == {"string", "boolean", "number", "integer", "object", "array"}

FirstTyped(branches) ==
  {i \in DOMAIN branches : /\ branches[i].type \in AnyOfTypes
                           /\ \A j \in 1..(i - 1) : branches[j].type \notin AnyOfTypes}

TakesBranch(type, v, q) ==
  IF type = "array" THEN v[q].kind = "array" /\ \A e \in Elements(v, q) : v[e].kind = "object"
  ELSE OfType(type, v[q])

HasBranch(n) == Way(n) = "minimal" /\ FirstTyped(Branches(n)) # {}

\* The values of a map with patternProperties have one type if all patterns
\* agree on it and the schema of additionalProperties has no other.
PatternTypes(n) == {Patterns(n)[p] : p \in DOMAIN Patterns(n)}

TakesMember(n, x) ==
  \A type \in PatternTypes(n) \ {""} :
    /\ PatternTypes(n) = {type}
    /\ HasAdditionalSchema(n) => AdditionalType(n) \in {"", type}
    => OfType(type, x)

-----------------------------------------------------------------------------
\* The node of a place, by the properties and items on the way; 0 is none.
Inner(n, step) ==
  IF step[1] = "items" THEN Keyword(n, "items", 0)
  ELSE IF step[2] \in DOMAIN Props(n) THEN n.props[step[2]] ELSE 0

At(d, q) ==
  LET at[i \in 0..Len(q)] ==
        IF i = 0 THEN 1 ELSE IF at[i - 1] = 0 THEN 0 ELSE Inner(d[at[i - 1]], q[i])
  IN  at[Len(q)]

NodeAt(d, q) == d[At(d, q)]

To(q, i) == SubSeq(q, 1, i)

Nests(n) == ~IntOrString(n) /\ Type(n) = "object" /\ DOMAIN Props(n) # {}
HasItems(n) == ~IntOrString(n) /\ Type(n) = "array" /\ Says(n, "items")

\* The adapter at q hands what is inside to adapters of its own: an object with
\* properties, or an array, unless it is an item itself or taken as a branch.
Opens(d, q) ==
  \/ q = <<>> \/ Nests(NodeAt(d, q))
  \/ HasItems(NodeAt(d, q)) /\ ~IsItem(q) /\ ~(Len(q) = 1 /\ HasBranch(NodeAt(d, q)))

Reached(d, q) == At(d, q) # 0 /\ \A i \in 0..(Len(q) - 1) : Opens(d, To(q, i))

\* buildObjectSchemaFromPropertiesWithRequired: from an item with a required
\* list on, as long as the properties have one too.
Demands(d, q) ==
  \E i \in DOMAIN q :
    q[i][1] = "items" /\ \A j \in i..Len(q) : Says(NodeAt(d, To(q, j)), "required")

\* buildObjectSchemaFromProperties, and ...WithRequired where it is demanding
Nested(d, v, q) ==
  LET n == NodeAt(d, q) IN
  /\ v[q].kind = "object"
  /\ Demands(d, q) => Required(n) \cap DOMAIN Props(n) \subseteq Keys(v, q)
  /\ Additional(n) = "false" => Keys(v, q) \subseteq DOMAIN Props(n)

\* minimalAdapterFor, with Nullable where the node says so; and for an item
\* arrayAdapterFromItems, where neither that nor an array is looked at.
Takes(d, v, q) ==
  LET n == NodeAt(d, q) IN
  \/ v[q].kind = "null" /\ IsNullable(n) /\ ~IsItem(q)
  \/ CASE IntOrString(n) -> IsNumeric(v[q])
       [] Nests(n)       -> Nested(d, v, q)
       [] ~IntOrString(n) /\ Type(n) = "array" /\ ~IsItem(q) ->
            /\ v[q].kind = "array"
            /\ ~Says(n, "items") => \A e \in Elements(v, q) : v[e].kind = "object"
       [] OTHER -> OfType(Type(n), v[q])

TakesField(d, v, q) ==
  LET n == NodeAt(d, q) IN
  \/ v[q].kind = "null" /\ IsNullable(n)
  \/ CASE Way(n) = "patterns" -> v[q].kind = "object" /\ \A m \in Members(v, q) : TakesMember(n, v[m])
       [] Way(n) = "map"      ->
            v[q].kind = "object" /\ \A m \in Members(v, q) : OfType(AdditionalType(n), v[m])
       [] Way(n) = "names"    -> v[q].kind = "object"
       [] OTHER               ->
            IF HasBranch(n)
            THEN \A i \in FirstTyped(Branches(n)) : TakesBranch(Branches(n)[i].type, v, q)
            ELSE Takes(d, v, q)

\* What the adapters return of a value that they take.
Retained(d, q) ==
  \A i \in 1..(Len(q) - 1) :
    Reached(d, To(q, i)) /\ Nests(NodeAt(d, To(q, i))) => At(d, To(q, i + 1)) # 0

Returned(d, v) ==
  [q \in {p \in DOMAIN v : Retained(d, p)} |->
     IF v[q].kind = "string" /\ Reached(d, q) /\ IntOrString(NodeAt(d, q))
     THEN [v[q] EXCEPT !.kind = "number"] ELSE v[q]]

-----------------------------------------------------------------------------
\* The check of the way taken; one for the list is chained only if it has none.
TypedPatterns(n) ==
  LET typed == {p \in DOMAIN Patterns(n) : Patterns(n)[p] # ""} IN
  [p \in typed |-> Patterns(n)[p]]

NamesHold(n, r, q) == HasNames(n) => KeysMatch({n.names}, r, q)

PatternsHold(n, r, q) ==
  /\ Additional(n) \in {"absent", "false"} => KeysMatch(DOMAIN Patterns(n), r, q)
  /\ ValuesMatch(TypedPatterns(n), AdditionalType(n), r, q)

HasWayCheck(n) ==
  CASE Way(n) = "minimal"               -> Branches(n) # <<>>
    [] Way(n) = "patterns"              -> TRUE
    [] Way(n) \in {"nested", "map", "names"} -> HasNames(n)
    [] OTHER                            -> FALSE

WayHolds(n, opts, r, q) ==
  CASE Way(n) = "minimal"  -> Branches(n) # <<>> => AnyOfHolds(Branches(n), opts, r, q)
    [] Way(n) = "patterns" -> NamesHold(n, r, q) /\ PatternsHold(n, r, q)
    [] Way(n) \in {"nested", "map", "names"} -> NamesHold(n, r, q)
    [] OTHER               -> TRUE

\* A pattern that does not compile refuses even an object without the field.
Refuses(n) ==
  HasWayCheck(n) /\ Way(n) # "minimal" /\
    (Keyword(n, "names", "") \in Invalid
       \/ (Way(n) = "patterns" /\ DOMAIN TypedPatterns(n) \cap Invalid # {})
       \/ (Way(n) = "patterns" /\ Additional(n) \in {"absent", "false"}
             /\ DOMAIN Patterns(n) \cap Invalid # {}))

\* planProperty: the adapter, and the checks chained behind it.  They are not
\* run for null.
FieldAccepts(d, opts, v, q) ==
  LET n == NodeAt(d, q)
      r == Returned(d, v)
  IN  /\ TakesField(d, v, q)
      /\ v[q].kind # "null" =>
           /\ WayHolds(n, opts, r, q)
           /\ ~HasWayCheck(n) => ListHolds(n, r, q)
           /\ Type(n) = "array" => ContainsHolds(n, r, q)
           /\ EmbeddedHolds(d, n, opts, r, q)

\* A place further down; a property has its list checked.
DeeperAccepts(d, v, q) ==
  /\ Takes(d, v, q)
  /\ ~IsItem(q) /\ ~IntOrString(NodeAt(d, q)) => ListHolds(NodeAt(d, q), Returned(d, v), q)

\* importObject, planUnknownBehavior: the object itself, and all it holds
Accepts(d, opts, v) ==
  LET n == d[1] IN
  /\ v[<<>>].kind = "object"
  /\ Required(n) \cap Declared(n) \subseteq Keys(v, <<>>)
  /\ Preserves(n) /\ Reserved \in Keys(v, <<>>) => v[Member(<<>>, Reserved)].kind = "object"
  /\ \A p \in DOMAIN Props(n) : ~Refuses(d[n.props[p]])
  /\ \A q \in DOMAIN v \ {<<>>} :
       Reached(d, q) => IF Len(q) = 1 THEN FieldAccepts(d, opts, v, q) ELSE DeeperAccepts(d, v, q)
  /\ Additional(n) = "false" /\ ~Preserves(n) =>
       Keys(v, <<>>) \subseteq DOMAIN Props(n)
=============================================================================
