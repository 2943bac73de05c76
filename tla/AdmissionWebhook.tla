--------------------------- MODULE AdmissionWebhook ---------------------------
(***************************************************************************)
(* examples/k8s_webhook_poc: a server that is given a bundle of YAML       *)
(* documents and a kind, imports the schema of that kind's CRD             *)
(* (kubeopenapi), and answers admission reviews with it.                   *)
(*                                                                         *)
(* The bundle is read twice, by code that was written twice: for the       *)
(* schema by ImportYAMLForCRDKind and unwrapCRDSchema, for the resource    *)
(* that requests have to name by parseExpectedGVRFromYAML.                 *)
(***************************************************************************)
EXTENDS RefResolution, CrdMeaning, Functions

CONSTANTS
  Kind,        \* KWEB_CRD_KIND
  Cases,       \* [bundle, opts, suite]: a bundle, the Options of the import, and
               \* the name of the reviews that may be sent
  Suites,      \* the sets of reviews, by name
  MaxDepth,    \* ParseOpt.MaxDepth of handleValidate
  NoDocument   \* the schema of a CRD that has none: the CRD itself is taken

\* A document of a bundle: a CRD, another object, or what does not decode.
Broken(doc) == doc.is = "broken"
IsOf(doc)   == doc.is = "crd" /\ doc.kind = Kind

\* What may be absent
AtMostOne(S) == {<<>>} \cup {<<s>> : s \in S}

IsCRD(crd) ==
  /\ DOMAIN crd.versions \subseteq Nat \ {0}
  /\ \A i \in DOMAIN crd.versions : crd.versions[i].schema \in AtMostOne(Tables)
  /\ crd.validation \in AtMostOne(Tables)

ASSUME BundlesAssumption ==
  /\ NoDocument \in Tables
  /\ \A c \in Cases :
       /\ DOMAIN c.bundle \subseteq Nat
       /\ \A i \in DOMAIN c.bundle : IsOf(c.bundle[i]) => IsCRD(c.bundle[i])

ASSUME DepthAssumption == MaxDepth \in Nat \ {0}

ASSUME NodesAssumption ==
  \A table \in Tables :
    /\ \A i \in DOMAIN table.nodes : IsNode(table.nodes[i])
    /\ \A k \in DOMAIN table.defs : \A i \in DOMAIN table.defs[k] : IsNode(table.defs[k][i])

\* What a request comes to before it is validated
Contents == {"not a post", "not json", "malformed", "no request", "request"}

ASSUME ReviewsAssumption ==
  \A c \in Cases :
    /\ c.suite \in DOMAIN Suites
    /\ \A r \in Suites[c.suite] :
         /\ r.content \in Contents
         /\ r.content = "request" /\ r.object # <<>> => IsJson(r.object[1])

VARIABLES
  phase,   \* "starting", "resolving", "serving" or "down"
  case,    \* the files and the clients of this server
  gvr,     \* expectedGroup, expectedVersion, expectedResource; "" if skipped
  review,  \* the last review
  reply    \* the answer to it

bundle == case.bundle
opts   == case.opts

webhookVars == <<phase, case, gvr, review, reply, refVars>>

-----------------------------------------------------------------------------
\* What the loop over the documents comes to: it stops at one that is broken.
Readable ==
  LET bad == {i \in DOMAIN bundle : Broken(bundle[i])} IN
  {i \in DOMAIN bundle : \A j \in bad : i < j}

FirstOf(S) == CHOOSE i \in S : \A j \in S : i <= j

Found == {i \in Readable : IsOf(bundle[i])}
TheCRD == bundle[FirstOf(Found)]

\* Mutant: the schema of the first version, served or not.
UnwrappedFirst(crd) ==
  LET has == {i \in DOMAIN crd.versions : crd.versions[i].schema # <<>>} IN
  IF has # {} THEN crd.versions[FirstOf(has)].schema[1]
  ELSE IF crd.validation # <<>> THEN crd.validation[1]
  ELSE NoDocument

\* unwrapCRDSchema: the first version that is served, or else the first, that
\* has a schema; or else the one for all versions.
Unwrapped(crd) ==
  LET has    == {i \in DOMAIN crd.versions : crd.versions[i].schema # <<>>}
      served == {i \in has : crd.versions[i].served}
  IN  IF served # {} THEN crd.versions[FirstOf(served)].schema[1]
      ELSE IF has # {} THEN crd.versions[FirstOf(has)].schema[1]
      ELSE IF crd.validation # <<>> THEN crd.validation[1]
      ELSE NoDocument

\* pickStorageOrFirstVersion
PickedVersion(crd) ==
  LET storage == {i \in DOMAIN crd.versions :
                    crd.versions[i].storage /\ crd.versions[i].name # ""}
  IN  IF storage # {} THEN crd.versions[FirstOf(storage)].name
      ELSE IF crd.versions # <<>> THEN crd.versions[1].name ELSE ""

\* parseExpectedGVRFromYAML goes on to the next CRD if one lacks a part.
Skipped == [group |-> "", version |-> "", resource |-> ""]

DerivedGVR ==
  LET of(crd)  == [group |-> crd.group, version |-> PickedVersion(crd), resource |-> crd.plural]
      whole    == {i \in Found : "" \notin Range(of(bundle[i]))}
  IN  IF whole = {} THEN Skipped ELSE of(bundle[FirstOf(whole)])

-----------------------------------------------------------------------------
NoReview == [content |-> "none"]
NoReply  == [status |-> 0, allowed |-> FALSE]

WebhookInit ==
  /\ phase = "starting" /\ case \in Cases
  /\ gvr = Skipped /\ review = NoReview /\ reply = NoReply
  /\ heap = <<>> /\ document = NoDocument /\ stack = <<>>
  /\ visited = {} /\ warned = {}

\* log.Fatal
Fail ==
  /\ phase = "starting" /\ Found = {}
  /\ phase' = "down"
  /\ UNCHANGED <<case, gvr, review, reply, refVars>>

Load ==
  /\ phase = "starting" /\ Found # {}
  /\ phase' = "resolving"
  /\ LET table == Unwrapped(TheCRD) IN
     /\ document' = table
     /\ heap' = table.nodes
     /\ stack' = IF table.hasDefs THEN <<Frame(1, table.nodes[1], NoKey, 0)>> ELSE <<>>
  /\ UNCHANGED <<case, gvr, review, reply, visited, warned>>

Import == phase = "resolving" /\ Resolve /\ UNCHANGED <<phase, case, gvr, review, reply>>

Listen ==
  /\ phase = "resolving" /\ stack = <<>>
  /\ phase' = "serving"
  /\ gvr' = DerivedGVR
  /\ UNCHANGED <<case, review, reply, refVars>>

-----------------------------------------------------------------------------
Refused(status) == [status |-> status, allowed |-> FALSE]
Denied          == [status |-> 200, allowed |-> FALSE]
Allowed         == [status |-> 200, allowed |-> TRUE]

\* The depth counts the objects and arrays that are open, the root among them.
TooDeep(v) == \E q \in DOMAIN v : v[q].kind \in {"object", "array"} /\ Len(q) >= MaxDepth

\* ParseFromWithMeta of the object: a duplicate key and nesting that is too deep
\* end the decoding, and an object that is not there does not begin.
Parses(r) ==
  /\ r.object # <<>> /\ ~r.duplicate /\ ~TooDeep(r.object[1])
  /\ Accepts(heap, opts, r.object[1])

\* The resource is compared only if all of it could be derived.
RightResource(r) == gvr # Skipped => r.resource = gvr

\* handleValidate
Answer(r) ==
  CASE r.content = "not a post"     -> Refused(405)
    [] r.content = "not json"       -> Refused(415)
    [] r.content \in {"malformed", "no request"} -> Refused(400)
    [] r.content = "request"        ->
         IF r.kind = Kind /\ RightResource(r) /\ Parses(r) THEN Allowed ELSE Denied

\* It keeps nothing from one review to the next: one is enough.
Handle ==
  /\ phase = "serving" /\ review = NoReview
  /\ \E r \in Suites[case.suite] : review' = r /\ reply' = Answer(r)
  /\ UNCHANGED <<phase, case, gvr, refVars>>

WebhookNext == Fail \/ Load \/ Import \/ Listen \/ Handle

\* main runs to its end, without waiting for anyone.
Webhook ==
  /\ WebhookInit /\ [][WebhookNext]_webhookVars
  /\ WF_webhookVars(Fail \/ Load \/ Import \/ Listen)

-----------------------------------------------------------------------------
(***************************************************************************)
(* Nothing is admitted that its schema refuses, but for the approximations *)
(* that AcceptsMore lists: what the adapters drop and coerce, the order in *)
(* which planProperty tries its ways, and the checks that one way leaves   *)
(* out lose nothing else.                                                  *)
(***************************************************************************)
AdmittedConforms ==
  reply.allowed =>
    /\ review.object # <<>> /\ ~review.duplicate /\ ~TooDeep(review.object[1])
    /\ MeetsSchema(heap, opts, review.object[1]) \/ AcceptsMore(heap, review.object[1])

Complete(r) ==
  /\ r.content = "request" /\ r.kind = Kind /\ RightResource(r)
  /\ r.object # <<>> /\ ~r.duplicate /\ ~TooDeep(r.object[1])

(***************************************************************************)
(* Nothing that conforms and does not nest too deep is denied, but for     *)
(* what AcceptsLess lists: a check that one way chains behind its adapter  *)
(* never refuses what the adapter has left out or rewritten.               *)
(***************************************************************************)
ConformingAdmitted ==
  reply.status # 0 /\ Complete(review) /\ MeetsSchema(heap, opts, review.object[1]) =>
    reply.allowed \/ AcceptsLess(heap, opts, review.object[1])

StorageFirstServed(crd) ==
  /\ crd.group # "" /\ crd.plural # ""
  /\ \E i \in DOMAIN crd.versions :
       /\ crd.versions[i].storage /\ crd.versions[i].name # ""
       /\ crd.versions[i].served /\ crd.versions[i].schema # <<>>
       /\ \A j \in 1..(i - 1) : ~crd.versions[j].served /\ ~crd.versions[j].storage

(***************************************************************************)
(* The object of a version is validated by the schema of that version, if  *)
(* the bundle's first CRD of the kind is complete and its storage version  *)
(* is the first one served.  (Else the schema may be that of another       *)
(* version, and the resource even that of another CRD.)                    *)
(***************************************************************************)
SchemaOfItsVersion ==
  reply.allowed /\ StorageFirstServed(TheCRD) =>
    /\ review.resource.group = TheCRD.group /\ review.resource.resource = TheCRD.plural
    /\ \E i \in DOMAIN TheCRD.versions :
         /\ TheCRD.versions[i].name = review.resource.version
         /\ TheCRD.versions[i].schema = <<document>>

(***************************************************************************)
(* The server serves in the end, or gives up: no schema, whatever cycles   *)
(* its references form, keeps the import busy for ever.                    *)
(***************************************************************************)
ImportEnds == <>(phase \in {"serving", "down"})
=============================================================================
