------------------------------ MODULE CrdMeaning ------------------------------
(***************************************************************************)
(* What the keywords of a schema mean (docs/k8s.md, after OpenAPI v3), and *)
(* where the importer is known to differ: the places of a value where it   *)
(* takes more, and those where it takes less.  Where there are none, what  *)
(* CrdFields accepts and what conforms are to be the same.                 *)
(***************************************************************************)
EXTENDS CrdFields

\* What is at place q of v and inside it, as a value of its own.
Part(v, q) ==
  [p \in {SubSeq(r, Len(q) + 1, Len(r)) : r \in {s \in DOMAIN v : Len(s) >= Len(q) /\ To(s, Len(q)) = q}}
     |-> v[q \o p]]

MeansType(type, x) ==
  CASE type = ""        -> TRUE
    [] type = "integer" -> x.kind = "number" /\ x.text \in WholeTexts
    [] OTHER            -> x.kind = type

\* Two elements have the same for every key.
Alike(keys, v, e, f) ==
  \A i \in DOMAIN keys : Part(v, Member(e, keys[i])) = Part(v, Member(f, keys[i]))

Keyed(keys, v, q) ==
  /\ \A e \in Elements(v, q), i \in DOMAIN keys : keys[i] \in Keys(v, e)
  /\ keys # <<>> => \A e, f \in Elements(v, q) : Alike(keys, v, e, f) => e = f

Hits(c, v, q) ==
  {e \in Elements(v, q) :
     MeansType(c.type, v[e]) /\ (v[e].kind = "object" => c.required \subseteq Keys(v, e))}

MeansList(n, v, q) ==
  /\ ListType(n) = "set" =>
       \A e, f \in Elements(v, q) : Part(v, e) = Part(v, f) => e = f
  /\ ListType(n) = "map" => Keyed(ListKeys(n), v, q)
  /\ Says(n, "contains") =>
       /\ Keyword(n, "minContains", 1) <= Cardinality(Hits(n.contains, v, q))
       /\ Says(n, "maxContains") => Cardinality(Hits(n.contains, v, q)) <= n.maxContains

MeansBranch(b, v, q) ==
  MeansType(b.type, v[q]) /\ (v[q].kind = "object" => b.required \subseteq Keys(v, q))

\* The keys of an object by what speaks for them.
MeansKeys(n, v, q) ==
  LET patterns == DOMAIN Patterns(n)
      others   == {m \in Members(v, q) :
                     KeyOf(m) \notin DOMAIN Props(n) /\ \A p \in patterns : ~Matches(p, KeyOf(m))}
  IN  /\ \A m \in Members(v, q), p \in patterns :
           Matches(p, KeyOf(m)) => MeansType(Patterns(n)[p], v[m])
      /\ Says(n, "names") => \A k \in Keys(v, q) : Matches(n.names, k)
      /\ Required(n) \subseteq Keys(v, q)
      /\ CASE Additional(n) = "false"     -> others = {}
           [] HasAdditionalSchema(n)      -> \A m \in others : MeansType(AdditionalType(n), v[m])
           [] OTHER -> patterns # {} /\ Additional(n) = "absent" => others = {}

\* What is at a place meets the node of the place.
ConformsAt(d, opts, v, q) ==
  LET n == NodeAt(d, q)
      resource == opts.embedded /\ Keyword(n, "embedded", FALSE)
  IN
  \/ v[q].kind = "null" /\ IsNullable(n)
  \/ /\ IF IntOrString(n) THEN v[q].kind \in {"number", "string"} /\ v[q].text \in WholeTexts
        ELSE MeansType(Type(n), v[q])
     /\ v[q].kind = "array" =>
          /\ MeansList(n, v, q)
          /\ resource => \A e \in Elements(v, q) : v[e].kind = "object" => IsResource(v, e)
     /\ v[q].kind = "object" => MeansKeys(n, v, q) /\ (resource => IsResource(v, q))
     /\ Branches(n) # <<>> =>
          LET matched == Cardinality({i \in DOMAIN Branches(n) : MeansBranch(Branches(n)[i], v, q)}) IN
          IF opts.ambiguity = "error" THEN matched = 1 ELSE matched > 0

\* The object itself: x-kubernetes-preserve-unknown-fields comes before
\* additionalProperties (docs/k8s.md).
MeetsSchema(d, opts, v) ==
  LET n == d[1] IN
  /\ v[<<>>].kind = "object"
  /\ Required(n) \subseteq Keys(v, <<>>)
  /\ \A q \in DOMAIN v \ {<<>>} : At(d, q) # 0 => ConformsAt(d, opts, v, q)
  /\ Additional(n) = "false" /\ ~Preserves(n) =>
       Keys(v, <<>>) \subseteq DOMAIN Props(n)

-----------------------------------------------------------------------------
(***************************************************************************)
(* Where more is taken, or less, by the node of a place, the place itself  *)
(* and what is there.  First what makes a difference both ways.            *)
(***************************************************************************)
IsField(q)   == Len(q) = 1
HasProps(n)  == DOMAIN Props(n) # {}
Container(n) == Type(n) = "object"
Item(d, n)   == d[n.items]

BranchTypes(n) == {Branches(n)[i].type : i \in DOMAIN Branches(n)}

\* The types that a check may ask of what is at a place, or inside it
CheckedTypes(n) ==
  PatternTypes(n) \cup BranchTypes(n)
    \cup (IF HasAdditionalSchema(n) THEN {AdditionalType(n)} ELSE {})
    \cup (IF Says(n, "contains") THEN {n.contains.type} ELSE {})

\* A type that the importer does not know stands for an object, or for nothing.
StrangeType(n) == ~({Type(n)} \cup CheckedTypes(n) \subseteq AnyOfTypes \cup {""})

\* A check reads a number as a float64, which may be too large for it, or be
\* rounded to a whole one; and so does int-or-string of a text.
Inexact(x) == x.text \notin NumberTexts \/ x.text \in RoundedTexts \ WholeTexts

ReadsInexactly(n, v, q) ==
  \/ IntOrString(n) /\ v[q].kind = "string" /\ v[q].text \notin NumberTexts
  \/ /\ CheckedTypes(n) \cap {"number", "integer"} # {}
     /\ \E p \in {q} \cup Inside(v, q) : v[p].kind = "number" /\ Inexact(v[p])

\* An object stands for an array, where one is an item or a member of a map.
TakesNoArrays(n, q) ==
  \/ IsItem(q) /\ Type(n) = "array"
  \/ Additional(n) = "array" \/ "array" \in PatternTypes(n)

\* The check of anyOf takes anything for an array, does not ask for keys beside
\* a type, and asks for an object where there are keys alone.
ReadsBranches(n) ==
  \/ "array" \in BranchTypes(n) /\ BranchTypes(n) # {"array"}
  \/ \E i \in DOMAIN Branches(n) :
       /\ Branches(n)[i].required # {}
       /\ Branches(n)[i].type # "" \/ ~(BranchTypes(n) \cup {Type(n)} \subseteq {"", "object"})

\* That of contains takes anything for an array, does not ask for keys without
\* the type of an object, and sees what the adapter of the items returns.
CountsOtherwise(d, n) ==
  Says(n, "contains") /\
    LET c == n.contains IN
    \/ c.type = "array" \/ (c.type = "" /\ c.required # {})
    \/ Says(n, "items") /\
         (IntOrString(Item(d, n))
            \/ (HasProps(Item(d, n)) /\ ~(c.required \subseteq DOMAIN Props(Item(d, n)))))

-----------------------------------------------------------------------------
\* Any number will do for an integer, and any numeric text where one may.
TakesAnyNumber(n, x) ==
  \/ (Type(n) = "integer" \/ IntOrString(n)) /\ x.text \notin WholeTexts
  \/ Additional(n) = "integer" /\ ~HasPatterns(n)

\* Lists: a set of anything but texts, a map of anything but objects; anyOf
\* beside a list type or contains; contains without minContains.
TakesAnyList(d, n) ==
  \/ ListType(n) = "set" /\
       ~(Says(n, "items") /\ Type(Item(d, n)) = "string" /\ ~IntOrString(Item(d, n)))
  \/ ListType(n) = "map" /\ Says(n, "items") /\
       (IntOrString(Item(d, n)) \/ Type(Item(d, n)) \notin {"", "object"})
  \/ ListType(n) # "" /\ Branches(n) # <<>>
  \/ Says(n, "contains") /\
       (~Says(n, "minContains") \/ Type(n) # "array" \/ CountsOtherwise(d, n))

\* anyOf: the type beside it is not looked at, and it is not beside other ways.
TakesAnyBranch(n) ==
  Branches(n) # <<>> /\
    \/ Way(n) # "minimal" \/ ReadsBranches(n)
    \/ Type(n) # "" /\ ~(BranchTypes(n) \subseteq {"", Type(n)})

\* Keys: what stands beside properties, and additionalProperties: false alone.
TakesAnyKey(n) ==
  LET speaks == HasNames(n) \/ HasPatterns(n) \/ HasAdditionalSchema(n) IN
  \/ Container(n) /\ HasProps(n) /\ speaks
  \/ Container(n) /\ ~HasProps(n) /\ ~HasPatterns(n) /\ Additional(n) = "false"
  \/ ~Container(n) /\ (speaks \/ Additional(n) = "false")

\* Keywords that are looked at in a field only, or in a field and its items;
\* a required list, only in an item and where all up to one have a list.
TakesDeeper(d, q) ==
  LET n == NodeAt(d, q) IN
  \/ ~IsField(q) /\ (HasNames(n) \/ HasPatterns(n) \/ HasAdditionalSchema(n)
                       \/ Branches(n) # <<>> \/ Says(n, "contains"))
  \/ ~IsField(q) /\ ~(Len(q) = 2 /\ IsItem(q)) /\ Says(n, "embedded")
  \/ Required(n) # {} /\ ~(Demands(d, q) /\ Nests(n) /\ Required(n) \subseteq DOMAIN Props(n))

\* What is inside is not looked at: the properties of what is no object, and
\* the items of a field that is taken as a branch.
TakesUnopened(n, q) ==
  \/ HasProps(n) /\ ~Container(n)
  \/ Says(n, "items") /\ IsField(q) /\ HasBranch(n)

AcceptsMoreAt(d, v, q) ==
  LET n == NodeAt(d, q) IN
  \/ StrangeType(n) \/ TakesNoArrays(n, q) \/ TakesAnyNumber(n, v[q]) \/ TakesAnyList(d, n)
  \/ TakesAnyBranch(n) \/ TakesAnyKey(n) \/ TakesDeeper(d, q) \/ TakesUnopened(n, q)
  \/ ReadsInexactly(n, v, q)

\* And a required key that is no property is not asked for.
AcceptsMore(d, v) ==
  \/ ~(Required(d[1]) \subseteq DOMAIN Props(d[1]))
  \/ \E q \in DOMAIN v \ {<<>>} : At(d, q) # 0 /\ AcceptsMoreAt(d, v, q)

-----------------------------------------------------------------------------
\* What has no type takes objects only, an item or a member too; and the
\* nullable of an item is not looked at.
TakesObjectsOnly(n, v, q) ==
  \/ /\ Type(n) = "" /\ ~IntOrString(n) /\ ~(IsField(q) /\ HasBranch(n))
     /\ v[q].kind # "object"
  \/ Type(n) = "array" /\ ~Says(n, "items") /\ \E e \in Elements(v, q) : v[e].kind # "object"
  \/ IsItem(q) /\ IsNullable(n) /\ v[q].kind = "null"
  \/ HasAdditionalSchema(n) /\ AdditionalType(n) = ""

\* Of several types the first alone is taken: of the branches of anyOf, and of
\* the patterns for the keys that none of them matches.
TakesOneType(n) ==
  \/ \E t, u \in BranchTypes(n) : t # u
  \/ "array" \in BranchTypes(n) \/ ReadsBranches(n)
  \/ HasPatterns(n) /\ ("" \in PatternTypes(n) \/ Additional(n) = "true")

\* An object with properties returns no other members.
Loses(n, keys) == HasProps(n) /\ ~(keys \subseteq DOMAIN Props(n))

\* The values of these keys are printed as they are written.
PrintsKey(n) ==
  /\ Type(n) \in {"string", "boolean", "number", "integer"}
  /\ ~IntOrString(n) /\ ~IsNullable(n)

\* Elements are compared by the texts of their keys, put together.
ComparesTexts(d, n, v, q) ==
  LET keys == {ListKeys(n)[i] : i \in DOMAIN ListKeys(n)} IN
  ListType(n) = "map" /\ keys # {} /\
    \/ ~Says(n, "items")
    \/ ~HasProps(Item(d, n)) \/ Loses(Item(d, n), keys)
    \/ \E k \in keys \cap DOMAIN Props(Item(d, n)) : ~PrintsKey(d[Props(Item(d, n))[k]])
    \/ \E e \in Elements(v, q), k \in keys : k \in Keys(v, e) /\ v[Member(e, k)].text \notin PlainTexts

\* An embedded resource is asked for what the adapter does not return, and of
\* an object where its items are marked.
AsksForMore(d, n, opts) ==
  LET parts == {"apiVersion", "kind", "metadata"}
      lacks(m) == Loses(m, parts)
                    \/ \E k \in parts \cap DOMAIN Props(m) : IntOrString(d[Props(m)[k]])
      item == IF Says(n, "items") THEN Item(d, n) ELSE NoFields
  IN  opts.embedded /\
        \/ Keyword(n, "embedded", FALSE) /\ (lacks(n) \/ lacks(item))
        \/ Keyword(item, "embedded", FALSE) /\ (Type(n) # "array" \/ lacks(item))

\* A key that a pattern speaks for is unknown beside properties.
RefusesMatched(n) == HasProps(n) /\ HasPatterns(n) /\ Additional(n) = "false"

AcceptsLessAt(d, opts, v, q) ==
  LET n == NodeAt(d, q) IN
  \/ StrangeType(n) \/ TakesNoArrays(n, q) \/ TakesObjectsOnly(n, v, q) \/ TakesOneType(n)
  \/ CountsOtherwise(d, n) \/ ComparesTexts(d, n, v, q) \/ AsksForMore(d, n, opts)
  \/ RefusesMatched(n) \/ ReadsInexactly(n, v, q)

\* And a pattern that is none refuses everything; and what unknown keys are
\* kept under takes objects only, if it is sent.
AcceptsLess(d, opts, v) ==
  \/ Preserves(d[1]) /\ Reserved \in Keys(v, <<>>) /\ v[Member(<<>>, Reserved)].kind # "object"
  \/ \E p \in DOMAIN Props(d[1]) :
       LET n == d[Props(d[1])[p]] IN
       ({Keyword(n, "names", "")} \cup DOMAIN Patterns(n)) \cap Invalid # {}
  \/ \E q \in DOMAIN v \ {<<>>} : At(d, q) # 0 /\ AcceptsLessAt(d, opts, v, q)
=============================================================================
