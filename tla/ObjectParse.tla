----------------------------- MODULE ObjectParse -----------------------------
(***************************************************************************)
(* objectSchema (dsl/object_core.go): one schema, built once, that parses  *)
(* one object after another, with the presence that ParseFromWithMeta      *)
(* reports (parse.go) and EncodePreservingObject uses.  A key is parsed by *)
(* its field's adapter, defaulted, or refused; the keys no field declares  *)
(* follow the unknown policy.                                              *)
(*                                                                         *)
(* Two things outlive a call, because Build (dsl/object_builder.go) hands  *)
(* out the builder's own maps: the table of fields, and the value given to *)
(* Default, which MapAny returns as it is.                                 *)
(***************************************************************************)
EXTENDS Naturals, Sequences

CONSTANTS
  FieldOrder,  \* the keys declared when the schema was built, ascending
  LateFields,  \* keys the builder may declare after that
  Unknowns,    \* keys no one declares
  Target,      \* the target of UnknownPassthrough
  Holdings,    \* the sets of keys that a map sent for the target may have
  Schemas,     \* the tables of fields, with the unknown policy
  Views        \* the keys a PresenceOpt may let through

Known == {FieldOrder[i] : i \in DOMAIN FieldOrder}
Keys  == Known \cup LateFields \cup Unknowns

ASSUME OrderAssumption ==
  /\ FieldOrder \in Seq(Known)
  /\ \A i, j \in DOMAIN FieldOrder : FieldOrder[i] = FieldOrder[j] => i = j
  /\ Known \cap (LateFields \cup Unknowns) = {}
  /\ LateFields \cap Unknowns = {}

Kinds    == {"text", "nullable", "codec", "object", "map"}
Defaults == {"none", "good", "bad"}
Policies == {"strict", "strip", "passthrough"}
Fields   == [kind : Kinds, required : BOOLEAN, default : Defaults]
Values   == {"absent", "null", "bad", "text", "domain", "empty", "full",
             "filled", "map", "default", "made"}

\* Build: a passthrough needs a target that takes any map.
ASSUME SchemasAssumption ==
  /\ Schemas \subseteq [fields : [Known -> Fields], policy : Policies]
  /\ \A s \in Schemas :
       s.policy = "passthrough" => Target \in Known /\ s.fields[Target].kind = "map"

ASSUME HoldingsAssumption == Holdings \subseteq SUBSET Keys

ASSUME ViewsAssumption == Views \subseteq SUBSET Keys

(***************************************************************************)
(* Values, as far as they matter here.  "empty" is an object that lacks a  *)
(* member its schema has a default for, and "filled" the same with it;     *)
(* "domain" is what a codec makes of "text", and any schema whose output   *)
(* is of a type it does not take itself: a projection to a named type, a   *)
(* bound object.  "default" is the very map that was given to Default.     *)
(***************************************************************************)
\* Mutant: an object is not taken again once its default is in it.
AcceptedOnce(kind) ==
  CASE kind \in {"text", "codec"} -> {"text"}
    [] kind = "nullable"          -> {"text", "null"}
    [] kind = "object"            -> {"empty", "full"}
    [] kind = "map"               -> {"map", "default", "made"}

Accepted(kind) ==
  CASE kind \in {"text", "codec"} -> {"text"}
    [] kind = "nullable"          -> {"text", "null"}
    [] kind = "object"            -> {"empty", "full", "filled"}
    [] kind = "map"               -> {"map", "default", "made"}

Parsed(kind, v) ==
  CASE kind = "codec" -> "domain" [] v = "empty" -> "filled" [] OTHER -> v

DefaultOf(kind) ==
  Parsed(kind, CASE kind = "object" -> "empty"
                 [] kind = "map"    -> "default"
                 [] OTHER           -> "text")

\* What a JSON document may have for a key.
InputsOf(kind) ==
  {"absent", "null", "bad"} \cup
    (CASE kind = "object" -> {"empty", "full"}
       [] kind = "map"    -> {"map"}
       [] OTHER           -> {"text"})

VARIABLES
  schema,    \* the fields, and the policy
  late,      \* the late fields declared so far
  shared,    \* the unknown keys stored in the map given to Default
  failFast,  \* ParseOpt.FailFast
  view,      \* the keys ParseOpt.Presence lets through
  input,     \* the object the call was given
  held,      \* the keys of the map it has for the target
  src,       \* the object that is being parsed
  pc,        \* "idle", "known", "refine", "parsed" or "done"
  cursor,    \* the field whose turn it is
  out,       \* the object built so far
  extra,     \* the map at the target, if it is of this call: whose each entry is
  pm,        \* the PresenceMap of the call
  iss,       \* the issues
  result     \* "none", "accepted" or "rejected"

builtVars  == <<schema, late, shared>>
optionVars == <<failFast, view, input, held>>
parseVars  == <<src, pc, cursor, out, extra, pm, iss, result>>
objectVars == <<builtVars, optionVars, parseVars>>

Root == "/"
Problem(code, at) == [code |-> code, at |-> at]
NoPresence == [k \in Keys |-> {}]
Nothing    == [k \in Keys |-> "absent"]

\* The entries of a map are the sender's own, until unknown keys are stored there.
EntriesOf(keys) == [k \in Keys |-> IF k \in keys THEN "sent" ELSE "none"]

Idle ==
  /\ failFast = FALSE /\ view = Keys /\ input = Nothing /\ held = {}
  /\ src = Nothing /\ pc = "idle" /\ cursor = 1 /\ out = Nothing
  /\ extra = EntriesOf({}) /\ pm = NoPresence /\ iss = {} /\ result = "none"

ObjectInit == schema \in Schemas /\ late = {} /\ shared = {} /\ Idle

-----------------------------------------------------------------------------
Field(k) == schema.fields[k]

\* The objects a document may be, of the values that matter to each field.
Inputs ==
  LET wire == {"absent", "null", "bad", "text", "empty", "full", "map"} IN
  {o \in [Keys -> wire] :
     \A k \in Keys : o[k] \in IF k \in Known THEN InputsOf(Field(k).kind)
                                             ELSE {"absent", "text"}}

\* Go to stage, with the object o before the loops.
Enter(stage, o) ==
  /\ pc' = stage /\ src' = o /\ cursor' = 1 /\ out' = Nothing
  /\ pm' = NoPresence /\ iss' = {} /\ result' = "none"

Call ==
  /\ pc = "idle"
  /\ failFast' \in BOOLEAN /\ view' \in Views /\ input' \in Inputs
  /\ held' \in IF schema.policy = "passthrough" /\ input'[Target] = "map"
                 THEN Holdings ELSE {{}}
  /\ Enter("known", input') /\ extra' = EntriesOf(held')
  /\ UNCHANGED builtVars

\* The caller has the result, and the schema is free for another call.
Return ==
  /\ pc = "done"
  /\ failFast' = FALSE /\ view' = Keys /\ input' = Nothing /\ held' = {}
  /\ Enter("idle", Nothing) /\ extra' = EntriesOf({})
  /\ UNCHANGED builtVars

\* The builder is used on: its table of fields is the schema's.
DeclareLate ==
  /\ pc = "idle"
  /\ \E k \in LateFields \ late : late' = late \cup {k}
  /\ UNCHANGED <<schema, shared, optionVars, parseVars>>

-----------------------------------------------------------------------------
Advance   == pc' = "known" /\ cursor' = cursor + 1
Reject    == pc' = "parsed" /\ result' = "rejected"
Keep(k,v) == Advance /\ out' = [out EXCEPT ![k] = v] /\ UNCHANGED <<iss, result>>

\* Mutant: fail-fast is looked at only when the loop has ended.
RefuseLater(code, at) ==
  iss' = iss \cup {Problem(code, at)} /\ Advance /\ UNCHANGED <<out, result>>

Refuse(code, at) ==
  /\ iss' = iss \cup {Problem(code, at)}
  /\ IF failFast THEN Reject /\ UNCHANGED cursor ELSE Advance /\ UNCHANGED result
  /\ UNCHANGED out

Marked(k, flags) == pm' = [pm EXCEPT ![k] = @ \cup flags]

\* handleExistingField
ParseField(k) ==
  /\ src[k] # "absent"
  /\ Marked(k, {"Seen"} \cup (IF src[k] = "null" THEN {"WasNull"} ELSE {}))
  /\ IF src[k] \in Accepted(Field(k).kind)
       THEN Keep(k, Parsed(Field(k).kind, src[k]))
       ELSE Refuse("invalid", k)

\* Mutant: a default is materialised as if it had been sent.
DefaultFieldSeen(k) ==
  /\ src[k] = "absent" /\ Field(k).default # "none"
  /\ IF Field(k).default = "good"
       THEN Marked(k, {"Seen", "DefaultApplied"}) /\ Keep(k, DefaultOf(Field(k).kind))
       ELSE Refuse("invalid", Root) /\ UNCHANGED pm

\* handleMissingField: the path of a default's issue is left as it is.
DefaultField(k) ==
  /\ src[k] = "absent" /\ Field(k).default # "none"
  /\ IF Field(k).default = "good"
       THEN Marked(k, {"DefaultApplied"}) /\ Keep(k, DefaultOf(Field(k).kind))
       ELSE Refuse("invalid", Root) /\ UNCHANGED pm

MissField(k) ==
  /\ src[k] = "absent" /\ Field(k).default = "none"
  /\ IF Field(k).required THEN Refuse("required", k)
                          ELSE Advance /\ UNCHANGED <<out, iss, result>>
  /\ UNCHANGED pm

KnownField ==
  /\ pc = "known" /\ cursor \in DOMAIN FieldOrder
  /\ LET k == FieldOrder[cursor] IN ParseField(k) \/ DefaultField(k) \/ MissField(k)
  /\ UNCHANGED <<builtVars, optionVars, src, extra>>

-----------------------------------------------------------------------------
\* The keys of o that the table of fields does not have
Strangers(o) == {k \in Keys \ (Known \cup late) : o[k] # "absent"}

Unexpected(o) == {Problem("unknown_key", k) : k \in Strangers(o)}

Collected(o) == schema.policy = "passthrough" /\ Strangers(o) # {}

\* extra[k] = v: an entry of the same key is overwritten.
With(entries, keys) == [k \in Keys |-> IF k \in keys THEN "unknown" ELSE entries[k]]

\* Mutant: a map is made for the unknown keys although there is one.
StoreAnew ==
  IF Collected(src)
    THEN /\ out' = [out EXCEPT ![Target] = "made"]
         /\ extra' = With(EntriesOf({}), Strangers(src))
         /\ UNCHANGED shared
    ELSE UNCHANGED <<out, extra, shared>>

\* collectUnknown: the unknown keys are written into the map at the target.
Store ==
  CASE ~Collected(src) -> UNCHANGED <<out, extra, shared>>
    [] Collected(src) /\ out[Target] = "default" ->
         shared' = shared \cup Strangers(src) /\ UNCHANGED <<out, extra>>
    [] Collected(src) /\ out[Target] # "default" ->
         /\ extra' = With(extra, Strangers(src))
         /\ out' = [out EXCEPT ![Target] = IF @ = "map" THEN "map" ELSE "made"]
         /\ UNCHANGED shared

UnknownKeys ==
  /\ pc = "known" /\ cursor \notin DOMAIN FieldOrder
  /\ Store
  /\ iss' = iss \cup (IF schema.policy = "strict" THEN Unexpected(src) ELSE {})
  /\ IF iss' # {} THEN Reject ELSE pc' = "refine" /\ UNCHANGED result
  /\ UNCHANGED <<schema, late, optionVars, src, cursor, pm>>

\* The registered hooks pass the object, or report something of their own.
Refine ==
  /\ pc = "refine"
  /\ \/ pc' = "parsed" /\ UNCHANGED <<iss, pm, result>>
     \/ iss' = {Problem("custom", Root)} /\ pm' = NoPresence /\ Reject
  /\ UNCHANGED <<builtVars, optionVars, src, cursor, out, extra>>

-----------------------------------------------------------------------------
\* A rejection has no value.
HasValue(k) == result # "rejected" /\ out[k] # "absent"

DefaultOnly(flags) == "DefaultApplied" \in flags /\ flags \cap {"Seen", "WasNull"} = {}

\* applyPresenceToDecoded: what is in the value counts as seen, unless a
\* default put it there; then the paths the options let through.
Applied(flags, k) ==
  flags \cup (IF HasValue(k) /\ ~DefaultOnly(flags) THEN {"Seen"} ELSE {})

Visible(p) == [k \in Keys |-> IF k \in view THEN Applied(p[k], k) ELSE {}]

Deliver ==
  /\ pc = "parsed"
  /\ pm' = Visible(pm)
  /\ pc' = "done" /\ result' = IF result = "none" THEN "accepted" ELSE result
  /\ UNCHANGED <<builtVars, optionVars, src, cursor, out, extra, iss>>

ParseNext == KnownField \/ UnknownKeys \/ Refine

ObjectNext ==
  \/ Call
  \/ Return
  \/ DeclareLate
  \/ ParseNext
  \/ Deliver

ObjectSpec == ObjectInit /\ [][ObjectNext]_objectVars

-----------------------------------------------------------------------------
ObjectTypeOK ==
  /\ schema \in Schemas /\ late \subseteq LateFields /\ shared \subseteq Keys
  /\ failFast \in BOOLEAN /\ view \subseteq Keys
  /\ input \in [Keys -> Values] /\ src \in [Keys -> Values]
  /\ pc \in {"idle", "known", "refine", "parsed", "done"}
  /\ cursor \in 1..Len(FieldOrder) + 1
  /\ out \in [Keys -> Values]
  /\ held \subseteq Keys /\ extra \in [Keys -> {"none", "sent", "unknown"}]
  /\ pm \in [Keys -> SUBSET {"Seen", "WasNull", "DefaultApplied"}]
  /\ iss \subseteq [code : {"invalid", "required", "unknown_key", "custom"},
                    at : Keys \cup {Root}]
  /\ result \in {"none", "accepted", "rejected"}
  /\ pc \in {"idle", "known", "refine"} => result = "none"

\* What is wrong with the object o, said without any loop.
ProblemsAt(o, k) ==
  IF o[k] # "absent"
    THEN IF o[k] \in Accepted(Field(k).kind) THEN {} ELSE {Problem("invalid", k)}
  ELSE IF Field(k).default = "bad" THEN {Problem("invalid", Root)}
  ELSE IF Field(k).default = "none" /\ Field(k).required
    THEN {Problem("required", k)} ELSE {}

Problems(o) ==
  (UNION {ProblemsAt(o, k) : k \in Known})
    \cup (IF schema.policy = "strict" THEN Unexpected(o) ELSE {})

(***************************************************************************)
(* An object passes only if there is nothing wrong with it.  One that      *)
(* is rejected before its hooks ran is reported with everything that is    *)
(* wrong; under fail-fast with part of it, and of the fields with one.     *)
(***************************************************************************)
IssuesAreExact ==
  /\ ObjectTypeOK
  /\ pc = "refine" \/ (pc \in {"parsed", "done"} /\ result # "rejected") =>
       Problems(src) = {}
  /\ result = "rejected" /\ Problem("custom", Root) \notin iss =>
       IF failFast
         THEN /\ iss # {} /\ iss \subseteq Problems(src)
              /\ \A p, q \in iss : p.code # "unknown_key" => p = q
         ELSE iss = Problems(src)

\* The presence of the field k, by the input alone
PresenceOf(k) ==
  CASE input[k] = "null"   -> {"Seen", "WasNull"}
    [] input[k] = "absent" -> IF Field(k).default = "none" THEN {}
                              ELSE {"DefaultApplied"}
    [] OTHER               -> {"Seen"}

(***************************************************************************)
(* README, "WithMeta / Presence": was the field present in the input, was  *)
(* it null, was a default applied.  The target of a passthrough is left    *)
(* out: it is reported as seen when unknown keys alone brought it about.   *)
(***************************************************************************)
PresenceIsTrue ==
  result = "accepted" =>
    \A k \in view \cap (Known \ {Target}) : pm[k] = PresenceOf(k)

\* EncodePreservingObject: the keys it keeps
PreservedAll == {k \in Keys : out[k] # "absent"}

Preserved == {k \in Keys : out[k] # "absent" /\ ~DefaultOnly(pm[k])}

(***************************************************************************)
(* Preserving output has the fields the input had, the nulls among them,   *)
(* and no default, for the keys the presence options let through.          *)
(***************************************************************************)
PreserveIsFaithful ==
  result = "accepted" =>
    \A k \in view \cap (Known \ {Target}) : k \in Preserved <=> input[k] # "absent"

\* The unknown keys in the map that an accepted call has at the target
Contents == IF out[Target] = "default" THEN shared ELSE {k \in Keys : extra[k] = "unknown"}

\* object_core.go:164: these entries are lost to unknown keys of the same name.
Overwritten == held \cap Strangers(input)

(***************************************************************************)
(* No key vanishes: what an accepted object has for a key is in the        *)
(* result, at its own key or in the target, is stripped by policy, or is   *)
(* of a key declared after the schema was built, which keeps it from being *)
(* parsed and from being refused.  And the target still has the entries    *)
(* it was sent with, but for those that are overwritten.                   *)
(***************************************************************************)
NothingVanishes ==
  result = "accepted" =>
    /\ \A k \in Keys : input[k] # "absent" =>
         \/ k \in Known /\ out[k] = Parsed(Field(k).kind, input[k])
         \/ schema.policy = "strip" /\ k \notin Known
         \/ schema.policy = "passthrough" /\ k \in Contents
         \/ k \in late
    /\ \A k \in held \ Overwritten : out[Target] = "map" /\ extra[k] = "sent"
=============================================================================
