-------------------------- MODULE MCAdmissionWebhook --------------------------
(***************************************************************************)
(* The schemas, bundles and reviews of the admission_webhook run.  The     *)
(* first cases are about the meaning of the keywords: a CRD with one field *)
(* f, and every value of a small universe for it.  The others are about    *)
(* references, and about bundles.                                          *)
(***************************************************************************)
EXTENDS AdmissionWebhook, SequencesExt

\* Three keys, and patterns that they match; "[" is no pattern.
MCMatches(p, k) == (p = "^a" /\ k \in {"a", "aa"}) \/ p = "."
MCInvalid == {"["}
\* "huge" is a whole number beyond float64, "near" is rounded to one.
MCNumberTexts  == {"1", "2", "1.5", "near"}
MCRoundedTexts == {"1", "2", "near"}
MCWholeTexts   == {"1", "2", "huge"}
MCPlainTexts   == {"s", "1", "2", "1.5", "true", "", "huge", "near"}

\* fmt.Sprint prints a text as it is: two elements may come to the same text.
MCJoined(keys, texts) ==
  FoldLeft(LAMBDA all, k : IF k \in DOMAIN texts THEN all \o "|" \o k \o "=" \o texts[k] ELSE all,
           "", keys)

\* JSON values, put together from those inside them.
Alone(kind, text) == [q \in {<<>>} |-> [kind |-> kind, text |-> text]]
Null   == Alone("null", "<nil>")
Bool   == Alone("boolean", "true")
Str(t) == Alone("string", t)
Num(t) == Alone("number", t)
Holding(kind, steps, part(_)) ==
  Alone(kind, "") @@ [q \in UNION {{<<s>> \o p : p \in DOMAIN part(s)} : s \in steps} |-> part(q[1])[Tail(q)]]
Arr(s) == Holding("array", {"items"} \X DOMAIN s, LAMBDA step : s[step[2]])
Obj(f) == Holding("object", {"props"} \X DOMAIN f, LAMBDA step : f[step[2]])
MCKind    == "Widget"
MCDefKeys == {"A", "B", "C", "U"}
MCForeign == {"other.yaml#/A"}

-----------------------------------------------------------------------------
\* Tables are put together from a node and what it holds.
T(type)        == [type |-> type]
Leaf(n)        == <<n>>
WithItems(n, item) == <<n @@ [items |-> 2]>> \o Copied(item, 1)
WithProp(t, p, sub) ==
  LET props == Keyword(t[1], "props", NoFields) IN
  <<[props |-> (p :> Len(t) + 1) @@ props] @@ t[1]>> \o Tail(t) \o Copied(sub, Len(t))

NoDefs == [k \in {} |-> <<>>]
Plain(t) == [nodes |-> t, hasDefs |-> FALSE, defs |-> NoDefs]
Defined(t, ds) == [nodes |-> t, hasDefs |-> TRUE, defs |-> ds]

MCNoDocument == Plain(<<NoFields>>)

Text == Leaf(T("string"))
IntNode  == Leaf(T("integer"))
Root(f) == WithProp(<<[type |-> "object", required |-> {"f"}, additional |-> "false"]>>, "f", f)
Optional(f) == WithProp(<<T("object")>>, "f", f)

AnyOf(branches) == Leaf([anyOf |-> branches])
Branch(type)    == [type |-> type, required |-> {}]
Needs(keys)     == [type |-> "", required |-> keys]

Keyed2(n) == T("array") @@ [listType |-> "map", listKeys |-> n]
KV   == WithProp(WithProp(Leaf(T("object")), "k", Text), "l", Text)
KVR  == WithProp(WithProp(Leaf(T("object") @@ [required |-> {"k"}]), "k", Text), "l", Text)
KAny == WithProp(Leaf(T("object")), "k", Leaf([intOrString |-> TRUE]))
Resource == WithProp(WithProp(WithProp(Leaf(T("object")), "apiVersion", Text), "kind", Text),
                     "metadata", Leaf(T("object")))
Containing(c, least, most) ==
  T("array") @@ [contains |-> c, minContains |-> least, maxContains |-> most]
HasKey(k) == [type |-> "object", required |-> {k}]

MapOf(patterns, additional) ==
  Leaf(T("object") @@ [patterns |-> patterns, additional |-> additional])

\* The schemas of field f.
Scalars ==
  {Leaf(T(t)) : t \in {"string", "boolean", "number", "integer", "object", "array"}}
    \cup {Leaf(T("string") @@ [nullable |-> TRUE]), Leaf([intOrString |-> TRUE]),
          Leaf(T("string") @@ [intOrString |-> TRUE, nullable |-> TRUE]), Leaf(NoFields)}

Lists ==
  {WithItems(T("array"), Text), WithItems(T("array"), IntNode),
   WithItems(T("array"), Leaf([intOrString |-> TRUE])),
   WithItems(T("array"), Leaf(T("array"))), WithItems(T("array"), KV),
   WithItems(T("array") @@ [nullable |-> TRUE], KVR),
   WithItems(T("array"), WithProp(Leaf(T("object") @@ [additional |-> "false"]), "k", KVR)),
   WithItems(T("array"), WithProp(Leaf(T("object") @@ [required |-> {"k"}]), "k", KVR)),
   WithItems(T("array") @@ [listType |-> "set"], Text),
   WithItems(T("array") @@ [listType |-> "set"], Leaf(T("number"))),
   WithItems(Keyed2(<<"k">>), KV), WithItems(Keyed2(<<"k", "l">>), KV),
   WithItems(Keyed2(<<"k">>), KAny), WithItems(Keyed2(<<"k">>), Leaf(T("object"))),
   WithItems(Keyed2(<<>>), KV), WithItems(T("array") @@ [listType |-> "atomic"], Text),
   WithItems(Containing(HasKey("k"), 1, 1), KV), WithItems(Containing(HasKey("k"), 2, 2), KV),
   WithItems(Containing(HasKey("m"), 1, 2), KV),
   WithItems(Containing([type |-> "integer", required |-> {}], 1, 1), Leaf(T("number"))),
   WithItems(T("array") @@ [contains |-> HasKey("k")], KV),
   WithItems(Keyed2(<<"k">>) @@ Containing(HasKey("l"), 1, 1), KV),
   WithItems(Keyed2(<<"m">>), KV),
   WithItems(T("array"), Leaf(T("string") @@ [nullable |-> TRUE])),
   WithItems(T("array"), WithProp(Leaf(T("object") @@ [additional |-> "string"]), "k", Text)),
   WithItems(T("array"), Leaf(T("object") @@ [names |-> "^a"])),
   WithItems(T("array"), Leaf(T("object") @@ [additional |-> "number"])),
   WithItems(T("array"), WithProp(Leaf(T("object") @@ [required |-> {"m"}]), "k", Text)),
   WithItems(Keyed2(<<"k">>) @@ [anyOf |-> <<Branch("array")>>], KV)}

Objects ==
  {WithProp(Leaf(T("object") @@ x), "k", Text) :
     x \in {NoFields, [additional |-> "false"], [additional |-> "true"], [additional |-> "string"],
            [required |-> {"k"}], [names |-> "^a"], [nullable |-> TRUE]}}
  \cup {WithProp(Leaf(T("object")), "k", WithItems(T("array") @@ [listType |-> "set"], Text)),
        WithProp(Leaf(T("object")), "k", WithProp(Leaf(T("object") @@ [additional |-> "false"]), "l", Text)),
        WithProp(Leaf(T("object")), "k", Leaf(T("string") @@ [nullable |-> TRUE])),
        WithProp(Leaf(T("object")), "k", WithItems(Containing(HasKey("k"), 1, 1), KV))}
  \cup {Leaf(T("object") @@ x) :
     x \in {[additional |-> "false"], [additional |-> "string"], [additional |-> "number"],
            [additional |-> "untyped"], [additional |-> "integer"], [additional |-> "array"], [names |-> "^a"], [names |-> "["],
            [names |-> "^a", additional |-> "true"], [names |-> "^a", additional |-> "string"]}}
  \cup {MapOf("^a" :> "string", additional) : additional \in {"absent", "false", "true", "string", "number", "untyped"}}
  \cup {Leaf([names |-> "^a"]), MapOf("^a" :> "integer", "absent"), MapOf("^a" :> "array", "absent")}
  \cup {MapOf("^a" :> "string" @@ "." :> "string", "absent"), MapOf("^a" :> "string" @@ "." :> "number", "absent"),
        MapOf("^a" :> "string" @@ "." :> "number", "boolean"), MapOf("^a" :> "", "number"),
        MapOf("^a" :> "boolean" @@ "." :> "", "absent"), MapOf("[" :> "string" @@ "^a" :> "string", "absent"),
        Leaf(T("object") @@ [patterns |-> ("." :> "string"), names |-> "^a"])}

Unions ==
  {AnyOf(<<Branch("string"), Branch("number")>>), AnyOf(<<Branch("string"), Branch("string")>>),
   AnyOf(<<Needs({"k"}), Branch("object")>>), AnyOf(<<Branch("object")>>),
   AnyOf(<<Needs({"k"}), Needs({"l"})>>), AnyOf(<<Branch("integer")>>),
   AnyOf(<<Branch("array")>>), Leaf(T("string") @@ [anyOf |-> <<Needs({"k"})>>]),
   Leaf(T("string") @@ [anyOf |-> <<Branch("number")>>]),
   Leaf(T("object") @@ [anyOf |-> <<Needs({"k"}), Needs({"l"})>>]),
   Leaf(T("string") @@ [anyOf |-> <<Branch("string")>>, nullable |-> TRUE])}

Embedded ==
  {WithProp(Resource, "k", Text), Resource,
   <<[embedded |-> TRUE] @@ Resource[1]>> \o Tail(Resource),
   WithItems(T("array") @@ [embedded |-> TRUE], Resource),
   WithItems(T("array"), <<[embedded |-> TRUE] @@ Resource[1]>> \o Tail(Resource)),
   Leaf(T("object") @@ [embedded |-> TRUE]),
   WithProp(Leaf(T("object")), "k", Leaf(T("object") @@ [embedded |-> TRUE])),
   WithProp(Leaf(T("object") @@ [embedded |-> TRUE]), "kind", Text)}

-----------------------------------------------------------------------------
Scalar  == {Null, Bool, Str("s"), Str("1"), Str("huge"), Num("1"), Num("1.5"), Num("huge"),
            Num("near")}
Options(k) == {[p \in {} |-> Null]} \cup {[p \in {k} |-> v] : v \in {Str("s"), Str("1"), Num("1"), Null}}
KL == {[p \in {"k", "l"} |-> v] : v \in {Str("s"), Str("1")}}
        \cup {("k" :> Str("s")) @@ ("l" :> Str("1")), ("k" :> Str("1")) @@ ("l" :> Str("s"))}
Small   == {Obj(m) : m \in Options("k") \cup KL \cup {("l" :> Str("s")), ("m" :> Str("s"))}}
Deep    == {Obj("k" :> v) : v \in {Obj([p \in {} |-> Null]), Obj("k" :> Str("s")), Obj("l" :> Str("s")),
                                   Obj("m" :> Str("s")), Arr(<<Str("s"), Str("s")>>),
                                   Arr(<<Obj("k" :> Str("s"))>>)}}
Named   == {Obj(m) : m \in {("a" :> Str("s")), ("a" :> Num("1")), ("a" :> Bool), ("b" :> Str("s")),
                            ("b" :> Num("1")), ("a" :> Str("s")) @@ ("b" :> Num("1")),
                            ("a" :> Str("s")) @@ ("aa" :> Str("s")), ("a" :> Num("1")) @@ ("b" :> Num("1")),
                            ("b" :> Num("1.5")), ("a" :> Num("huge")), ("b" :> Num("near")), ("a" :> Arr(<<>>)), ("a" :> Obj([p \in {} |-> Null]))}}
Res     == LET whole == ("apiVersion" :> Str("s")) @@ ("kind" :> Str("s")) @@ ("metadata" :> Obj([p \in {} |-> Null]))
           IN  {Obj(whole), Obj([whole EXCEPT !.kind = Num("1")]), Obj([whole EXCEPT !.metadata = Str("s")]),
                Obj(("kind" :> Str("s")) @@ ("metadata" :> Obj([p \in {} |-> Null])))}
Items   == Scalar \cup Small \cup Res \cup {Arr(<<Str("s")>>)} \cup Deep
Pairs   == {Str("s"), Str("1"), Num("1"), Num("1.5")}
ObjectPairs == Small
Values  ==
  Items \cup Named \cup {Arr(<<>>)} \cup {Arr(<<v>>) : v \in Items}
    \cup {Arr(<<v, w>>) : v, w \in Pairs} \cup {Arr(<<v, w>>) : v, w \in ObjectPairs}

-----------------------------------------------------------------------------
Widgets == [group |-> "demo", version |-> "v1", resource |-> "widgets"]
Request(resource, object) ==
  [content |-> "request", kind |-> Kind, resource |-> resource,
   object |-> object, duplicate |-> FALSE]
F(v)    == Request(Widgets, <<Obj("f" :> v)>>)
Lacking == Request(Widgets, <<Obj([p \in {} |-> Null])>>)
Extra   == Request(Widgets, <<Obj("x" :> Null)>>)
OfValues == {F(v) : v \in Values} \cup {Lacking, Extra}

Version(name, served, storage, t) ==
  [name |-> name, served |-> served, storage |-> storage, schema |-> <<t>>]
CRD(versions) ==
  [is |-> "crd", kind |-> Kind, group |-> "demo", plural |-> "widgets",
   versions |-> versions, validation |-> <<>>]
One(t)   == <<CRD(<<Version("v1", TRUE, TRUE, t)>>)>>
Zero     == [embedded |-> FALSE, ambiguity |-> "error"]
Fuller   == [embedded |-> TRUE, ambiguity |-> "first"]

Case(b, o, suite) == [bundle |-> b, opts |-> o, suite |-> suite]

FieldCases ==
  {Case(One(Plain(Root(f))), Zero, "values") : f \in Scalars \cup Lists \cup Objects \cup Unions}
    \cup {Case(One(Plain(Optional(f))), Fuller, "values") : f \in Unions \cup Embedded}

\* References: chains, cycles, repeats, and what the walk leaves.
Ref(r) == Leaf([ref |-> r])
Tree   == WithItems(T("array"), Ref("A"))
A(t)   == "A" :> t
B(t)   == "B" :> t
Two(f, g) == WithProp(Root(f), "g", g)
Some  == {F(Str("s")), F(Obj("k" :> Str("s"))), F(Arr(<<Str("s")>>)), F(Arr(<<Arr(<<>>)>>)), Lacking}

RefCases ==
  {Case(One(Defined(d[1], d[2])), Zero, "some") :
     d \in {<<Two(Ref("A"), Ref("A")), A(Text)>>,
            <<Root(Ref("A")), A(Tree)>>,
            <<Two(Ref("A"), Ref("B")), A(WithItems(T("array"), Ref("B"))) @@ B(WithItems(T("array"), Ref("A")))>>,
            <<Two(Ref("A"), Ref("B")), A(Ref("B")) @@ B(Text)>>,
            <<Root(WithProp(WithProp(Leaf(T("object")), "k", Ref("A")), "l", Ref("A"))),
              A(WithProp(Leaf(T("object")), "k", Ref("B"))) @@ B(Text)>>,
            <<Two(Ref("other.yaml#/A"), Ref("U")), A(Text)>>,
            <<Root(WithProp(Ref("A"), "k", Ref("B"))), A(WithProp(Leaf(T("object")), "l", Text)) @@ B(Text)>>,
            <<Two(Leaf([ref |-> "A", nullable |-> TRUE]), WithItems(T("array"), Ref("A"))), A(Text)>>}}
  \cup {Case(One(Plain(Root(Ref("A")))), Zero, "some")}

\* Bundles: which CRD, which version, and reviews that are not right.
Other  == [is |-> "other"]
Damage == [is |-> "broken"]
Old    == Plain(Root(IntNode))
New    == Plain(Root(Text))
V2     == [Widgets EXCEPT !.version = "v2"]
Gadgets == [CRD(<<Version("v1", TRUE, TRUE, New)>>) EXCEPT !.kind = "Gadget"]
Reviews ==
  {Request(r, <<Obj("f" :> v)>>) :
     r \in {Widgets, V2, [Widgets EXCEPT !.group = "prod"], [Widgets EXCEPT !.resource = "gadgets"]},
     v \in {Str("s"), Num("1")}}
  \cup {[content |-> c] : c \in {"not a post", "not json", "malformed", "no request"}}
  \cup {[F(Str("s")) EXCEPT !.duplicate = TRUE], [F(Str("s")) EXCEPT !.kind = "Gadget"],
        Request(Widgets, <<>>), Request(Widgets, <<Null>>)}
  \cup {Request(Widgets, <<Obj(("f" :> Str("s")) @@ (Reserved :> v))>>) :
          v \in {Null, Str("s"), Obj([p \in {} |-> Null]), Obj("k" :> Str("s"))}}

Bundles ==
  {<<CRD(<<Version("v1", s1, t1, Old), Version("v2", s2, t2, New)>>)>> :
     s1, s2, t1, t2 \in BOOLEAN}
  \cup {<<Other, Gadgets, CRD(<<Version("v1", TRUE, TRUE, New)>>)>>,
        <<Damage, CRD(<<Version("v1", TRUE, TRUE, New)>>)>>,
        <<CRD(<<Version("v1", TRUE, TRUE, New)>>), Damage>>, <<Gadgets>>, <<>>,
        <<[CRD(<<Version("v1", TRUE, TRUE, Old)>>) EXCEPT !.plural = ""],
          [CRD(<<Version("v2", TRUE, TRUE, New)>>) EXCEPT !.group = "prod"]>>,
        <<CRD(<<>>)>>, <<[CRD(<<>>) EXCEPT !.validation = <<New>>]>>,
        <<CRD(<<[Version("v1", TRUE, FALSE, Old) EXCEPT !.schema = <<>>], Version("v2", FALSE, TRUE, New)>>)>>}
  \cup {<<CRD(<<Version("v1", TRUE, TRUE,
                  Plain(WithProp(<<[type |-> "object", preserve |-> TRUE, additional |-> "false",
                                    required |-> required]>>, "f", Text)))>>)>> :
            required \in {{}, {"f", Reserved}}}

BundleCases == {Case(b, Zero, "reviews") : b \in Bundles}

MCCases  == RefCases \cup BundleCases \cup FieldCases
\* The schemas that the bundles hold.
CRDsOf(b) == {b[i] : i \in {j \in DOMAIN b : b[j].is = "crd"}}
MCTables ==
  {MCNoDocument} \cup
  UNION {UNION {Range(v.schema) : v \in Range(crd.versions)} \cup Range(crd.validation) :
           crd \in UNION {CRDsOf(c.bundle) : c \in MCCases}}
MCSuites == [values |-> OfValues, some |-> Some, reviews |-> Reviews \cup {Extra}]
=============================================================================
