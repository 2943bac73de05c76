-------------------------- MODULE TypedObjectProofs --------------------------
(***************************************************************************)
(* Proofs about ObjectParse and TypedObject: what the object schema finds, *)
(* builds and reports of one object, for every table of fields; then what  *)
(* a bound schema with rules makes of that, in one pass or two.            *)
(***************************************************************************)
EXTENDS TypedObject, SequenceTheorems, TLAPS

-----------------------------------------------------------------------------
(* What the object schema makes of the object o, key by key. *)

\* The presence of the field k, and what is built of it.
FlagsOf(o, k) ==
  CASE o[k] = "null"   -> {"Seen", "WasNull"}
    [] o[k] = "absent" -> IF Field(k).default = "none" THEN {} ELSE {"DefaultApplied"}
    [] OTHER           -> {"Seen"}

MadeOf(o, k) ==
  IF o[k] # "absent" THEN Parsed(Field(k).kind, o[k])
  ELSE IF Field(k).default # "none" THEN DefaultOf(Field(k).kind) ELSE "absent"

Fine(o, k) == ProblemsAt(o, k) = {}

\* The fields the loop has passed.
Visited == {FieldOrder[i] : i \in 1..(cursor - 1)}

LoopHolds ==
  /\ iss = UNION {ProblemsAt(src, k) : k \in Visited} /\ (failFast => iss = {})
  /\ \A k \in Visited : Fine(src, k) => pm[k] = FlagsOf(src, k) /\ out[k] = MadeOf(src, k)
  /\ \A k \in Keys \ Visited : pm[k] = {} /\ out[k] = "absent"

\* What the object has for the field k when its unknown keys are stored.
Built(k) ==
  \/ out[k] = MadeOf(src, k)
  \/ k = Target /\ Collected(src) /\ out[k] = "made" /\ MadeOf(src, k) # "map"

Stored == schema.policy = "passthrough" => Strangers(src) \subseteq Contents

PassHolds ==
  /\ iss = {} /\ Problems(src) = {}
  /\ \A k \in Known : pm[k] = FlagsOf(src, k) /\ Built(k)
  /\ \A k \in Keys \ Known : pm[k] = {} /\ out[k] = "absent"
  /\ Stored

Exact ==
  IF failFast
    THEN /\ iss # {} /\ iss \subseteq Problems(src)
         /\ \A p, q \in iss : p.code # "unknown_key" => p = q
    ELSE iss = Problems(src)

RefusalHolds == iss # {} /\ (iss = {Problem("custom", Root)} \/ Exact)

\* The invariant of the parse, whoever calls it
ParseInv ==
  /\ ObjectTypeOK
  /\ pc = "known" => LoopHolds
  /\ pc = "refine" \/ (pc = "parsed" /\ result # "rejected") => PassHolds
  /\ pc = "parsed" /\ result = "rejected" => RefusalHolds

-----------------------------------------------------------------------------
(* The constants *)

LEMMA OrderFacts ==
  /\ Len(FieldOrder) \in Nat /\ DOMAIN FieldOrder = 1..Len(FieldOrder)
  /\ \A i \in 1..Len(FieldOrder) : FieldOrder[i] \in Known
  /\ \A k \in Known : \E i \in 1..Len(FieldOrder) : FieldOrder[i] = k
  /\ \A i, j \in 1..Len(FieldOrder) : FieldOrder[i] = FieldOrder[j] => i = j
  /\ Known \subseteq Keys
<1>1. FieldOrder \in Seq(Known)
  BY OrderAssumption
<1>2. Len(FieldOrder) \in Nat /\ DOMAIN FieldOrder = 1..Len(FieldOrder)
  BY <1>1, LenProperties
<1>3. Known \subseteq Keys
  BY DEF Keys
<1> QED BY <1>2, <1>3, OrderAssumption DEF Known

LEMMA FieldType ==
  ASSUME schema \in Schemas, NEW k \in Known
  PROVE  /\ Field(k) \in Fields /\ schema.policy \in Policies
         /\ schema.policy = "passthrough" =>
              Target \in Known /\ Field(Target).kind = "map"
BY SchemasAssumption DEF Field

LEMMA ParsedFacts ==
  ASSUME NEW kind \in Kinds, NEW v \in Values
  PROVE  /\ Parsed(kind, v) \in Values
         /\ v # "absent" => Parsed(kind, v) # "absent"
         /\ DefaultOf(kind) \in Values \ {"absent"}
BY DEF Parsed, DefaultOf, Values, Kinds

\* A field has one problem at most.
LEMMA ProblemsAtType ==
  ASSUME schema \in Schemas, NEW o, NEW k \in Known
  PROVE  /\ ProblemsAt(o, k) \subseteq [code : {"invalid", "required"}, at : Keys \cup {Root}]
         /\ \A p, q \in ProblemsAt(o, k) : p = q
BY OrderFacts DEF ProblemsAt, Problem

LEMMA VisitedFacts ==
  ASSUME ObjectTypeOK
  PROVE  /\ Visited \subseteq Known
         /\ cursor \in DOMAIN FieldOrder =>
              /\ FieldOrder[cursor] \in Known \ Visited
              /\ {FieldOrder[i] : i \in 1..cursor} = Visited \cup {FieldOrder[cursor]}
         /\ cursor \notin DOMAIN FieldOrder => Visited = Known
<1>1. cursor \in 1..(Len(FieldOrder) + 1)
  BY DEF ObjectTypeOK
<1>2. Visited \subseteq Known
  BY <1>1, OrderFacts DEF Visited
<1>3. CASE cursor \in DOMAIN FieldOrder
  <2>1. FieldOrder[cursor] \in Known \ Visited
    BY <1>1, <1>3, OrderFacts DEF Visited
  <2>2. {FieldOrder[i] : i \in 1..cursor} = Visited \cup {FieldOrder[cursor]}
    BY <1>1, <1>3, OrderFacts DEF Visited
  <2> QED BY <1>2, <1>3, <2>1, <2>2
<1>4. CASE cursor \notin DOMAIN FieldOrder
  <2>1. cursor = Len(FieldOrder) + 1
    BY <1>1, <1>4, OrderFacts
  <2>2. cursor - 1 = Len(FieldOrder)
    BY <2>1, OrderFacts
  <2>3. Visited = Known
    BY <2>2, OrderFacts DEF Visited
  <2> QED BY <1>2, <1>4, <2>3
<1> QED BY <1>3, <1>4

-----------------------------------------------------------------------------
(* The loop over the fields *)

\* What depends on the schema and the object alone stays what it is.
LEMMA SameObject ==
  ASSUME UNCHANGED <<schema, late, src>>
  PROVE  /\ \A k \in Known : /\ ProblemsAt(src, k)' = ProblemsAt(src, k)
                             /\ FlagsOf(src, k)' = FlagsOf(src, k)
                             /\ MadeOf(src, k)' = MadeOf(src, k)
                             /\ Fine(src, k)' <=> Fine(src, k)
         /\ Problems(src)' = Problems(src)
         /\ Strangers(src)' = Strangers(src)
         /\ Unexpected(src)' = Unexpected(src)
         /\ Collected(src)' <=> Collected(src)
<1>1. \A k : Field(k)' = Field(k)
  BY DEF Field
<1>2. \A k \in Known : ProblemsAt(src, k)' = ProblemsAt(src, k)
  BY <1>1 DEF ProblemsAt
<1>3. Strangers(src)' = Strangers(src) /\ Unexpected(src)' = Unexpected(src)
  BY DEF Strangers, Unexpected
<1>4. Problems(src)' = Problems(src)
  BY <1>2, <1>3 DEF Problems
<1>5. \A k \in Known : FlagsOf(src, k)' = FlagsOf(src, k) /\ MadeOf(src, k)' = MadeOf(src, k)
  BY <1>1 DEF FlagsOf, MadeOf
<1> QED BY <1>2, <1>3, <1>4, <1>5 DEF Fine, Collected

\* The field k is refused for the problem p, with these flags.
RefusedFor(k, p, flags) ==
  /\ ProblemsAt(src, k) = {p} /\ iss' = iss \cup {p}
  /\ flags \subseteq {"Seen", "WasNull"} /\ pm' = [pm EXCEPT ![k] = @ \cup flags]
  /\ IF failFast THEN pc' = "parsed" /\ result' = "rejected" /\ UNCHANGED cursor
                 ELSE pc' = "known" /\ cursor' = cursor + 1 /\ UNCHANGED result
  /\ UNCHANGED out

\* What the field k is found to be, and what becomes of it.
LEMMA FieldOutcome ==
  ASSUME ObjectTypeOK, NEW k \in Known,
         ParseField(k) \/ DefaultField(k) \/ MissField(k)
  PROVE  \/ /\ Fine(src, k)
            /\ pm' = [pm EXCEPT ![k] = @ \cup FlagsOf(src, k)]
            /\ out' = [out EXCEPT ![k] = MadeOf(src, k)] \/ (out' = out /\ MadeOf(src, k) = "absent")
            /\ pc' = "known" /\ cursor' = cursor + 1 /\ UNCHANGED <<iss, result>>
         \/ \E p, flags : RefusedFor(k, p, flags)
<1> USE DEF Keep, Refuse, Reject, Advance, Marked
<1>0. /\ pm \in [Keys -> SUBSET {"Seen", "WasNull", "DefaultApplied"}]
      /\ k \in Keys /\ src[k] \in Values /\ Field(k) \in Fields
  BY OrderFacts, FieldType DEF ObjectTypeOK
<1>1. pm = [pm EXCEPT ![k] = @ \cup {}]
  BY <1>0
<1>2. CASE ParseField(k)
  <2>1. src[k] # "absent" /\ ParseField(k)
    BY <1>2 DEF ParseField
  <2>2. CASE src[k] \in Accepted(Field(k).kind)
    BY <2>1, <2>2 DEF ParseField, Fine, ProblemsAt, FlagsOf, MadeOf
  <2>3. CASE src[k] \notin Accepted(Field(k).kind)
    <3>1. ProblemsAt(src, k) = {Problem("invalid", k)}
      BY <2>1, <2>3 DEF ProblemsAt
    <3>2. {"Seen"} \cup (IF src[k] = "null" THEN {"WasNull"} ELSE {}) \subseteq {"Seen", "WasNull"}
      OBVIOUS
    <3>3. RefusedFor(k, Problem("invalid", k),
                     {"Seen"} \cup (IF src[k] = "null" THEN {"WasNull"} ELSE {}))
      BY <2>1, <2>3, <3>1, <3>2 DEF ParseField, RefusedFor
    <3> QED BY <3>3
  <2> QED BY <2>2, <2>3
<1>3. CASE DefaultField(k)
  <2>1. src[k] = "absent" /\ Field(k).default # "none"
    BY <1>3 DEF DefaultField
  <2>2. CASE Field(k).default = "good"
    BY <1>3, <2>1, <2>2 DEF DefaultField, Fine, ProblemsAt, FlagsOf, MadeOf
  <2>3. CASE Field(k).default # "good"
    <3>1. Field(k).default = "bad"
      BY <1>0, <2>1, <2>3 DEF Fields, Defaults
    <3>2. ProblemsAt(src, k) = {Problem("invalid", Root)}
      BY <2>1, <3>1 DEF ProblemsAt
    <3>3. pm' = [pm EXCEPT ![k] = @ \cup {}]
      BY <1>1, <1>3, <2>3 DEF DefaultField
    <3>4. RefusedFor(k, Problem("invalid", Root), {})
      BY <1>3, <2>1, <2>3, <3>2, <3>3 DEF DefaultField, RefusedFor
    <3> QED BY <3>4
  <2> QED BY <2>2, <2>3
<1>4. CASE MissField(k)
  <2>1. src[k] = "absent" /\ Field(k).default = "none" /\ pm' = [pm EXCEPT ![k] = @ \cup {}]
    BY <1>1, <1>4 DEF MissField
  <2>2. CASE Field(k).required
    <3>1. ProblemsAt(src, k) = {Problem("required", k)}
      BY <2>1, <2>2 DEF ProblemsAt
    <3>4. RefusedFor(k, Problem("required", k), {})
      BY <1>4, <2>1, <2>2, <3>1 DEF MissField, RefusedFor
    <3> QED BY <3>4
  <2>3. CASE ~Field(k).required
    <3>1. Fine(src, k) /\ FlagsOf(src, k) = {} /\ MadeOf(src, k) = "absent"
      BY <2>1, <2>3 DEF Fine, ProblemsAt, FlagsOf, MadeOf
    <3> QED BY <1>4, <2>1, <2>3, <3>1 DEF MissField
  <2> QED BY <2>2, <2>3
<1> QED BY <1>2, <1>3, <1>4

LEMMA LoopStep ==
  ASSUME ParseInv, KnownField
  PROVE  ParseInv'
<1> DEFINE k == FieldOrder[cursor]
<1>0. /\ pc = "known" /\ cursor \in DOMAIN FieldOrder /\ LoopHolds /\ ObjectTypeOK
      /\ UNCHANGED <<builtVars, optionVars, src, extra>>
      /\ k \in Known /\ k \in Keys /\ k \notin Visited /\ Visited \subseteq Known
      /\ result = "none"
  BY VisitedFacts, OrderFacts DEF ParseInv, KnownField, ObjectTypeOK
<1>1. /\ UNCHANGED <<schema, late, src, failFast>>
      /\ Known \subseteq Keys
  BY <1>0, OrderFacts DEF builtVars, optionVars
<1>2. /\ pm \in [Keys -> SUBSET {"Seen", "WasNull", "DefaultApplied"}]
      /\ out \in [Keys -> Values] /\ src \in [Keys -> Values] /\ schema \in Schemas
      /\ iss \subseteq [code : {"invalid", "required", "unknown_key", "custom"},
                        at : Keys \cup {Root}]
  BY <1>0 DEF ObjectTypeOK
<1>3. /\ FlagsOf(src, k) \subseteq {"Seen", "WasNull", "DefaultApplied"}
      /\ MadeOf(src, k) \in Values
      /\ ProblemsAt(src, k) \subseteq [code : {"invalid", "required"}, at : Keys \cup {Root}]
      /\ ProblemsAt(src, k) \subseteq Problems(src)
  <2>1. Field(k) \in Fields /\ src[k] \in Values
    BY <1>0, <1>2, FieldType
  <2>2. MadeOf(src, k) \in Values
    BY <2>1, ParsedFacts DEF MadeOf, Fields, Values
  <2> QED BY <1>0, <1>2, <2>2, ProblemsAtType DEF FlagsOf, Problems
<1>4. pm[k] = {} /\ out[k] = "absent"
  BY <1>0 DEF LoopHolds
<1>5. \A j \in Known : /\ ProblemsAt(src, j)' = ProblemsAt(src, j)
                       /\ FlagsOf(src, j)' = FlagsOf(src, j)
                       /\ MadeOf(src, j)' = MadeOf(src, j)
                       /\ Fine(src, j)' <=> Fine(src, j)
  BY <1>1, SameObject
<1>6. cursor \in Nat /\ cursor \in 1..Len(FieldOrder)
  BY <1>0, OrderFacts
<1>7. ParseField(k) \/ DefaultField(k) \/ MissField(k)
  BY DEF KnownField
<1>8. ASSUME cursor' = cursor + 1
      PROVE  Visited' = Visited \cup {k} /\ cursor' \in 1..(Len(FieldOrder) + 1)
  <2>1. cursor' - 1 = cursor
    BY <1>6, <1>8
  <2>2. Visited' = {FieldOrder[i] : i \in 1..cursor}
    BY <2>1 DEF Visited
  <2> QED BY <1>0, <1>6, <1>8, <2>2, VisitedFacts, OrderFacts
<1>9. CASE /\ Fine(src, k)
           /\ pm' = [pm EXCEPT ![k] = @ \cup FlagsOf(src, k)]
           /\ \/ out' = [out EXCEPT ![k] = MadeOf(src, k)]
              \/ out' = out /\ MadeOf(src, k) = "absent"
           /\ pc' = "known" /\ cursor' = cursor + 1 /\ UNCHANGED <<iss, result>>
  <2>1. pm'[k] = FlagsOf(src, k) /\ out'[k] = MadeOf(src, k)
    BY <1>0, <1>2, <1>4, <1>9
  <2>2. \A j \in Keys : j # k => pm'[j] = pm[j] /\ out'[j] = out[j]
    BY <1>0, <1>2, <1>9
  <2>3. Visited' = Visited \cup {k} /\ cursor' \in 1..(Len(FieldOrder) + 1)
    BY <1>8, <1>9
  <2>4. iss' = UNION {ProblemsAt(src, j)' : j \in Visited'}
    <3>1. ProblemsAt(src, k) = {}
      BY <1>9 DEF Fine
    <3>2. UNION {ProblemsAt(src, j) : j \in Visited \cup {k}} = UNION {ProblemsAt(src, j) : j \in Visited}
      BY <3>1
    <3>3. \A j \in Visited \cup {k} : ProblemsAt(src, j)' = ProblemsAt(src, j)
      BY <1>0, <1>5
    <3> QED BY <1>0, <1>9, <2>3, <3>2, <3>3 DEF LoopHolds
  <2>5. \A j \in Visited' : Fine(src, j)' => pm'[j] = FlagsOf(src, j)' /\ out'[j] = MadeOf(src, j)'
    BY <1>0, <1>1, <1>5, <2>1, <2>2, <2>3 DEF LoopHolds
  <2>6. \A j \in Keys \ Visited' : pm'[j] = {} /\ out'[j] = "absent"
    BY <1>0, <2>2, <2>3 DEF LoopHolds
  <2>7. LoopHolds'
    BY <1>0, <1>1, <1>9, <2>4, <2>5, <2>6 DEF LoopHolds
  <2>8. pm' \in [Keys -> SUBSET {"Seen", "WasNull", "DefaultApplied"}] /\ out' \in [Keys -> Values]
    BY <1>0, <1>2, <1>3, <1>9
  <2>9. ObjectTypeOK'
    BY <1>0, <1>9, <2>3, <2>8 DEF ObjectTypeOK, builtVars, optionVars
  <2> QED BY <1>9, <2>7, <2>9 DEF ParseInv
<1>10. ASSUME NEW p, NEW flags, RefusedFor(k, p, flags)
       PROVE  ParseInv'
  <2>1. /\ p \in [code : {"invalid", "required"}, at : Keys \cup {Root}] /\ p \in Problems(src)
        /\ iss' = iss \cup {p} /\ UNCHANGED out
        /\ flags \subseteq {"Seen", "WasNull"} /\ pm' = [pm EXCEPT ![k] = @ \cup flags]
        /\ ProblemsAt(src, k) = {p}
    BY <1>3, <1>10 DEF RefusedFor
  <2>2. iss' \subseteq [code : {"invalid", "required", "unknown_key", "custom"}, at : Keys \cup {Root}]
    BY <1>2, <2>1
  <2>3. pm' \in [Keys -> SUBSET {"Seen", "WasNull", "DefaultApplied"}] /\ out' \in [Keys -> Values]
    BY <1>0, <1>2, <2>1
  <2>4. CASE failFast
    <3>1. pc' = "parsed" /\ result' = "rejected" /\ UNCHANGED cursor
      BY <1>10, <2>4 DEF RefusedFor
    <3>2. iss' = {p}
      BY <1>0, <2>1, <2>4 DEF LoopHolds
    <3>3. Exact'
      <4>1. Problems(src)' = Problems(src) /\ failFast'
        BY <1>1, <2>4, SameObject
      <4> QED BY <2>1, <3>2, <4>1 DEF Exact
    <3>4. ObjectTypeOK'
      BY <1>0, <2>2, <2>3, <3>1 DEF ObjectTypeOK, builtVars, optionVars
    <3> QED BY <3>1, <3>2, <3>3, <3>4 DEF ParseInv, RefusalHolds
  <2>5. CASE ~failFast
    <3>1. pc' = "known" /\ cursor' = cursor + 1 /\ UNCHANGED result
      BY <1>10, <2>5 DEF RefusedFor
    <3>2. Visited' = Visited \cup {k} /\ cursor' \in 1..(Len(FieldOrder) + 1)
      BY <1>8, <3>1
    <3>3. ~Fine(src, k) /\ \A j \in Keys : j # k => pm'[j] = pm[j] /\ out'[j] = out[j]
      BY <1>0, <1>2, <2>1 DEF Fine
    <3>4. iss' = UNION {ProblemsAt(src, j)' : j \in Visited'}
      <4>1. UNION {ProblemsAt(src, j) : j \in Visited \cup {k}}
              = (UNION {ProblemsAt(src, j) : j \in Visited}) \cup {p}
        BY <2>1
      <4>2. \A j \in Visited \cup {k} : ProblemsAt(src, j)' = ProblemsAt(src, j)
        BY <1>0, <1>5
      <4> QED BY <1>0, <2>1, <3>2, <4>1, <4>2 DEF LoopHolds
    <3>5. \A j \in Visited' : Fine(src, j)' => pm'[j] = FlagsOf(src, j)' /\ out'[j] = MadeOf(src, j)'
      BY <1>0, <1>1, <1>5, <3>2, <3>3 DEF LoopHolds
    <3>6. \A j \in Keys \ Visited' : pm'[j] = {} /\ out'[j] = "absent"
      BY <1>0, <3>2, <3>3 DEF LoopHolds
    <3>7. LoopHolds'
      BY <1>0, <1>1, <2>5, <3>4, <3>5, <3>6 DEF LoopHolds
    <3>8. ObjectTypeOK'
      BY <1>0, <2>2, <2>3, <3>1, <3>2 DEF ObjectTypeOK, builtVars, optionVars
    <3> QED BY <3>1, <3>7, <3>8 DEF ParseInv
  <2> QED BY <2>4, <2>5
<1> QED BY <1>0, <1>7, <1>9, <1>10, FieldOutcome

-----------------------------------------------------------------------------
(* The unknown keys and the hooks *)

\* The unknown keys are stored where the caller will find them.
LEMMA StoreOutcome ==
  ASSUME ObjectTypeOK, Store
  PROVE  /\ out' \in [Keys -> Values] /\ shared' \subseteq Keys
         /\ extra' \in [Keys -> {"none", "sent", "unknown"}]
         /\ \A k \in Keys : extra'[k] = extra[k] \/ (k \in Strangers(src) /\ extra'[k] = "unknown")
         /\ \A k \in Keys : out'[k] = out[k] \/
              (/\ k = Target /\ Target \in Known /\ Collected(src)
               /\ out'[k] = "made" /\ out[k] # "map")
         /\ schema.policy = "passthrough" =>
              Strangers(src) \subseteq
                (IF out'[Target] = "default" THEN shared' ELSE {k \in Keys : extra'[k] = "unknown"})
<1>1. /\ out \in [Keys -> Values] /\ extra \in [Keys -> {"none", "sent", "unknown"}]
      /\ shared \subseteq Keys
      /\ Strangers(src) \subseteq Keys /\ schema \in Schemas
  BY DEF ObjectTypeOK, Strangers
<1>2. schema.policy = "passthrough" => Target \in Known /\ Target \in Keys
  BY <1>1, SchemasAssumption, OrderFacts
<1>3. CASE ~Collected(src)
  <2>1. UNCHANGED <<out, extra, shared>>
    BY <1>3 DEF Store
  <2>2. schema.policy = "passthrough" => Strangers(src) = {}
    BY <1>3 DEF Collected
  <2> QED BY <1>1, <2>1, <2>2
<1>4. CASE Collected(src) /\ out[Target] = "default"
  <2>1. shared' = shared \cup Strangers(src) /\ UNCHANGED <<out, extra>>
    BY <1>4 DEF Store
  <2> QED BY <1>1, <1>4, <2>1
<1>5. CASE Collected(src) /\ out[Target] # "default"
  <2>1. /\ extra' = With(extra, Strangers(src)) /\ UNCHANGED shared
        /\ out' = [out EXCEPT ![Target] = IF @ = "map" THEN "map" ELSE "made"]
    BY <1>5 DEF Store
  <2>2. Target \in Known /\ Target \in Keys
    BY <1>2, <1>5 DEF Collected
  <2>3. /\ out' \in [Keys -> Values]
        /\ out'[Target] = IF out[Target] = "map" THEN "map" ELSE "made"
        /\ \A k \in Keys : k # Target => out'[k] = out[k]
    BY <1>1, <2>1, <2>2 DEF Values
  <2>4. /\ extra' \in [Keys -> {"none", "sent", "unknown"}]
        /\ \A k \in Keys :
             extra'[k] = IF k \in Strangers(src) THEN "unknown" ELSE extra[k]
    BY <1>1, <2>1 DEF With
  <2>5. Strangers(src) \subseteq {k \in Keys : extra'[k] = "unknown"} /\ out'[Target] # "default"
    BY <1>1, <2>3, <2>4
  <2> QED BY <1>1, <1>5, <2>1, <2>2, <2>3, <2>4, <2>5
<1> QED BY <1>3, <1>4, <1>5

LEMMA UnknownStep ==
  ASSUME ParseInv, UnknownKeys
  PROVE  ParseInv'
<1> DEFINE told == IF schema.policy = "strict" THEN Unexpected(src) ELSE {}
<1>0. /\ pc = "known" /\ LoopHolds /\ ObjectTypeOK /\ Visited = Known /\ result = "none"
      /\ Store /\ iss' = iss \cup told
      /\ UNCHANGED <<schema, late, optionVars, src, cursor, pm>>
      /\ IF iss' # {} THEN pc' = "parsed" /\ result' = "rejected"
                      ELSE pc' = "refine" /\ UNCHANGED result
  BY VisitedFacts DEF ParseInv, UnknownKeys, ObjectTypeOK, Reject
<1>1. UNCHANGED <<schema, late, src, failFast>>
  BY <1>0 DEF optionVars
<1>2. iss = UNION {ProblemsAt(src, k) : k \in Known} /\ Problems(src) = iss \cup told
  BY <1>0 DEF LoopHolds, Problems
<1>3. \A p \in told : p.code = "unknown_key"
  BY DEF Unexpected, Problem
<1>4. told \subseteq [code : {"invalid", "required", "unknown_key", "custom"}, at : Keys \cup {Root}]
  BY DEF Unexpected, Problem, Strangers
<1>5. ObjectTypeOK'
  <2>1. iss' \subseteq [code : {"invalid", "required", "unknown_key", "custom"}, at : Keys \cup {Root}]
    BY <1>0, <1>4 DEF ObjectTypeOK
  <2>2. /\ out' \in [Keys -> Values] /\ shared' \subseteq Keys
        /\ extra' \in [Keys -> {"none", "sent", "unknown"}]
    BY <1>0, StoreOutcome
  <2> QED BY <1>0, <2>1, <2>2 DEF ObjectTypeOK, optionVars
<1>6. Problems(src)' = Problems(src)
  BY <1>1, SameObject
<1>7. CASE iss' # {}
  <2>1. Exact'
    <3>1. CASE failFast
      <4>1. iss = {}
        BY <1>0, <3>1 DEF LoopHolds
      <4> QED BY <1>0, <1>1, <1>2, <1>3, <1>6, <1>7, <3>1, <4>1 DEF Exact
    <3>2. CASE ~failFast
      BY <1>0, <1>1, <1>2, <1>6, <3>2 DEF Exact
    <3> QED BY <3>1, <3>2
  <2> QED BY <1>0, <1>5, <1>7, <2>1 DEF ParseInv, RefusalHolds
<1>8. CASE iss' = {}
  <2>1. pc' = "refine" /\ Problems(src) = {} /\ result' = "none"
    BY <1>0, <1>2, <1>8
  <2>2. \A k \in Known : Fine(src, k) /\ pm[k] = FlagsOf(src, k) /\ out[k] = MadeOf(src, k)
    BY <1>0, <1>2, <1>8 DEF LoopHolds, Fine
  <2>3. \A k \in Known : pm'[k] = FlagsOf(src, k)' /\ Built(k)'
    <3>1. ASSUME NEW k \in Known
          PROVE  Built(k)'
      <4>1. MadeOf(src, k)' = MadeOf(src, k) /\ (Collected(src)' <=> Collected(src))
        BY <1>1, SameObject
      <4>2. \/ out'[k] = out[k]
            \/ k = Target /\ Collected(src) /\ out'[k] = "made" /\ out[k] # "map"
        BY <1>0, StoreOutcome, OrderFacts
      <4> QED BY <2>2, <4>1, <4>2 DEF Built
    <3> QED BY <1>0, <1>1, <2>2, <3>1, SameObject
  <2>4. \A k \in Keys \ Known : pm'[k] = {} /\ out'[k] = "absent"
    BY <1>0, StoreOutcome DEF LoopHolds
  <2>5. Stored'
    <3>1. Strangers(src)' = Strangers(src)
      BY <1>1, SameObject
    <3> QED BY <1>0, <1>1, <3>1, StoreOutcome DEF Stored, Contents
  <2>6. PassHolds'
    BY <1>6, <1>8, <2>1, <2>3, <2>4, <2>5 DEF PassHolds
  <2> QED BY <1>5, <2>1, <2>6 DEF ParseInv
<1> QED BY <1>7, <1>8

LEMMA RefineStep ==
  ASSUME ParseInv, Refine
  PROVE  ParseInv'
<1>0. /\ pc = "refine" /\ PassHolds /\ ObjectTypeOK /\ result = "none"
      /\ UNCHANGED <<builtVars, optionVars, src, cursor, out, extra>>
  BY DEF ParseInv, Refine, ObjectTypeOK
<1>1. UNCHANGED <<schema, late, shared, src, failFast>>
  BY <1>0 DEF builtVars, optionVars
<1>2. CASE pc' = "parsed" /\ UNCHANGED <<iss, pm, result>>
  <2>1. ObjectTypeOK'
    BY <1>0, <1>2 DEF ObjectTypeOK, builtVars, optionVars
  <2>2. \A k \in Known : Built(k)' <=> Built(k)
    BY <1>0, <1>1, SameObject DEF Built
  <2>3. Stored'
    BY <1>0, <1>1, SameObject DEF PassHolds, Stored, Contents
  <2>4. PassHolds'
    BY <1>0, <1>1, <1>2, <2>2, <2>3, SameObject DEF PassHolds
  <2> QED BY <1>0, <1>2, <2>1, <2>4 DEF ParseInv
<1>3. CASE iss' = {Problem("custom", Root)} /\ pm' = NoPresence /\ Reject
  <2>1. ObjectTypeOK'
    BY <1>0, <1>3 DEF ObjectTypeOK, builtVars, optionVars, Problem, NoPresence, Reject
  <2> QED BY <1>3, <2>1 DEF ParseInv, RefusalHolds, Reject
<1> QED BY <1>2, <1>3 DEF Refine

LEMMA ParseStep ==
  ASSUME ParseInv, ParseNext
  PROVE  ParseInv'
BY LoopStep, UnknownStep, RefineStep DEF ParseNext

LEMMA ParseUnchanged ==
  ASSUME ParseInv, UNCHANGED objectVars
  PROVE  ParseInv'
<1>1. /\ UNCHANGED <<schema, late, shared, failFast, view, input, held>>
      /\ UNCHANGED <<src, pc, cursor, out, extra, pm, iss, result>>
  BY DEF objectVars, builtVars, optionVars, parseVars
<1>2. Problems(src)' = Problems(src)
  BY <1>1, SameObject
<1>3. /\ ObjectTypeOK'
      /\ RefusalHolds' <=> RefusalHolds
      /\ Stored' <=> Stored
  BY <1>1, <1>2, SameObject DEF ParseInv, ObjectTypeOK, RefusalHolds, Exact, Stored, Contents
<1>4. Visited' = Visited
  BY <1>1 DEF Visited
<1>5. \A k \in Known : Built(k)' <=> Built(k)
  BY <1>1, SameObject DEF Built
<1>6. LoopHolds => LoopHolds'
  BY <1>1, <1>4, VisitedFacts, SameObject DEF ParseInv, LoopHolds
<1>7. PassHolds => PassHolds'
  BY <1>1, <1>2, <1>3, <1>5, SameObject DEF PassHolds
<1> QED BY <1>1, <1>3, <1>6, <1>7 DEF ParseInv

-----------------------------------------------------------------------------
(* One schema, call after call (ObjectSpec) *)

\* The object that is parsed is the one the call was given.
Given == pc # "idle" => src = input /\ input \in Inputs

DeliveredHolds ==
  IF result = "rejected" THEN RefusalHolds
  ELSE /\ Problems(src) = {} /\ Stored
       /\ \A k \in Known : Built(k)
       /\ \A k \in view \cap (Known \ {Target}) : pm[k] = FlagsOf(src, k)

\* The map that was sent for the target has its entries, or what replaced them.
EntriesHold ==
  /\ held # {} => /\ pc # "idle" /\ schema.policy = "passthrough"
                  /\ input[Target] = "map"
  /\ \A k \in held : extra[k] = "sent" \/ (k \in Strangers(src) /\ extra[k] = "unknown")

ObjectInv == ParseInv /\ Given /\ EntriesHold /\ (pc = "done" => DeliveredHolds)

LEMMA InputsType ==
  ASSUME NEW o \in Inputs
  PROVE  /\ o \in [Keys -> Values]
         /\ \A k \in Known : o[k] \in InputsOf(Field(k).kind)
         /\ \A k \in Keys \ Known : o[k] \in {"absent", "text"}
BY OrderFacts DEF Inputs, Values

\* A parse starts with nothing found and nothing built.
LEMMA EnterStarts ==
  ASSUME NEW o \in [Keys -> Values], Enter("known", o), held' \subseteq Keys,
         extra' \in [Keys -> {"none", "sent", "unknown"}],
         schema' \in Schemas, late' \subseteq LateFields, shared' \subseteq Keys,
         failFast' \in BOOLEAN, view' \subseteq Keys, input' \in [Keys -> Values]
  PROVE  ParseInv'
<1>1. Visited' = {}
  BY DEF Enter, Visited
<1>2. LoopHolds'
  BY <1>1 DEF LoopHolds, Enter, NoPresence, Nothing
<1>3. ObjectTypeOK'
  BY OrderFacts DEF ObjectTypeOK, Enter, NoPresence, Nothing, Values
<1> QED BY <1>2, <1>3 DEF ParseInv, Enter

LEMMA EntriesType ==
  ASSUME NEW keys \in SUBSET Keys
  PROVE  /\ EntriesOf(keys) \in [Keys -> {"none", "sent", "unknown"}]
         /\ \A k \in keys : EntriesOf(keys)[k] = "sent"
BY DEF EntriesOf

LEMMA ObjectInvInit == ObjectInit => ObjectInv
<1> SUFFICES ASSUME ObjectInit PROVE ObjectInv
  OBVIOUS
<1>1. Nothing \in [Keys -> Values] /\ 1 \in 1..(Len(FieldOrder) + 1)
      /\ NoPresence \in [Keys -> SUBSET {"Seen", "WasNull", "DefaultApplied"}]
  BY OrderFacts DEF Nothing, Values, NoPresence
<1>2. ObjectTypeOK
  BY <1>1, EntriesType DEF ObjectInit, Idle, ObjectTypeOK
<1> QED BY <1>2 DEF ObjectInit, Idle, ObjectInv, ParseInv, Given, EntriesHold

LEMMA CallStarts ==
  ASSUME ObjectTypeOK, Call
  PROVE  ParseInv' /\ input' \in Inputs' /\ EntriesHold'
<1>1. /\ UNCHANGED <<schema, late, shared>> /\ Enter("known", input')
      /\ extra' = EntriesOf(held') /\ held' \subseteq Keys
      /\ held' # {} => schema.policy = "passthrough" /\ input'[Target] = "map"
      /\ input' \in Inputs /\ failFast' \in BOOLEAN /\ view' \subseteq Keys /\ ObjectTypeOK
  BY ViewsAssumption, HoldingsAssumption DEF Call, builtVars
<1>2. input' \in [Keys -> Values]
  BY <1>1, InputsType
<1>3. ParseInv'
  BY <1>1, <1>2, EnterStarts, EntriesType DEF ObjectTypeOK
<1>4. input' \in Inputs'
  BY <1>1 DEF Inputs, Field
<1>5. EntriesHold'
  BY <1>1, EntriesType DEF EntriesHold, Enter
<1> QED BY <1>3, <1>4, <1>5

LEMMA CallStep ==
  ASSUME ObjectInv, Call
  PROVE  ObjectInv'
BY CallStarts DEF ObjectInv, ParseInv, Given, Call, Enter

LEMMA ReturnStep ==
  ASSUME ObjectInv, Return
  PROVE  ObjectInv'
<1>1. Nothing \in [Keys -> Values] /\ 1 \in 1..(Len(FieldOrder) + 1)
      /\ NoPresence \in [Keys -> SUBSET {"Seen", "WasNull", "DefaultApplied"}]
  BY OrderFacts DEF Nothing, Values, NoPresence
<1>2. ObjectTypeOK'
  BY <1>1, EntriesType DEF ObjectInv, ParseInv, Return, Enter, ObjectTypeOK, builtVars
<1> QED BY <1>2 DEF ObjectInv, ParseInv, Given, EntriesHold, Return, Enter

LEMMA DeclareStep ==
  ASSUME ObjectInv, DeclareLate
  PROVE  ObjectInv'
<1>1. ObjectTypeOK'
  BY DEF ObjectInv, ParseInv, DeclareLate, ObjectTypeOK, optionVars, parseVars
<1> QED BY <1>1 DEF ObjectInv, ParseInv, Given, EntriesHold, DeclareLate, optionVars, parseVars

\* What ParseFromWithMeta adds to the presence of a field changes nothing.
LEMMA MergedPresence ==
  ASSUME ObjectTypeOK, PassHolds, result # "rejected", NEW k \in Known \ {Target}
  PROVE  Applied(pm[k], k) = FlagsOf(src, k)
<1>1. pm[k] = FlagsOf(src, k) /\ out[k] = MadeOf(src, k)
  BY DEF PassHolds, Built
<1> QED BY <1>1 DEF Applied, HasValue, DefaultOnly, FlagsOf, MadeOf

LEMMA DeliverStep ==
  ASSUME ObjectInv, Deliver
  PROVE  ObjectInv'
<1>0. /\ pc = "parsed" /\ ObjectTypeOK /\ pm' = Visible(pm) /\ pc' = "done"
      /\ result' = (IF result = "none" THEN "accepted" ELSE result)
      /\ UNCHANGED <<schema, late, shared, failFast, view, input, held, src, cursor, out, extra, iss>>
      /\ ParseInv /\ Given /\ EntriesHold
  BY DEF ObjectInv, ParseInv, Deliver, builtVars, optionVars
<1>1. pm' \in [Keys -> SUBSET {"Seen", "WasNull", "DefaultApplied"}]
  BY <1>0 DEF Visible, Applied, ObjectTypeOK
<1>2. ObjectTypeOK'
  BY <1>0, <1>1 DEF ObjectTypeOK
<1>3. Given'
  <2>1. Inputs' = Inputs
    BY <1>0 DEF Inputs, Field
  <2> QED BY <1>0, <2>1 DEF Given
<1>6. EntriesHold'
  BY <1>0, SameObject DEF EntriesHold
<1>4. CASE result = "rejected"
  <2>1. RefusalHolds'
    <3>1. Problems(src)' = Problems(src) /\ RefusalHolds
      BY <1>0, <1>4, SameObject DEF ParseInv
    <3> QED BY <1>0, <3>1 DEF RefusalHolds, Exact
  <2> QED BY <1>0, <1>2, <1>3, <1>4, <1>6, <2>1 DEF ObjectInv, ParseInv, DeliveredHolds
<1>5. CASE result # "rejected"
  <2>1. PassHolds
    BY <1>0, <1>5 DEF ParseInv
  <2>2. \A k \in Known : Built(k)'
    BY <1>0, <2>1, SameObject DEF PassHolds, Built
  <2>3. Stored' /\ Problems(src)' = {}
    BY <1>0, <2>1, SameObject DEF PassHolds, Stored, Contents
  <2>4. \A k \in view' \cap (Known \ {Target}) : pm'[k] = FlagsOf(src, k)'
    BY <1>0, <1>5, <2>1, MergedPresence, SameObject DEF Visible, ObjectTypeOK
  <2>5. DeliveredHolds'
    BY <1>0, <1>5, <2>2, <2>3, <2>4 DEF DeliveredHolds
  <2> QED BY <1>0, <1>2, <1>3, <1>6, <2>5 DEF ObjectInv, ParseInv
<1> QED BY <1>4, <1>5

LEMMA ObjectInvStep == ObjectInv /\ [ObjectNext]_objectVars => ObjectInv'
<1> SUFFICES ASSUME ObjectInv, [ObjectNext]_objectVars PROVE ObjectInv'
  OBVIOUS
<1>1. CASE ParseNext
  <2>1. ParseInv' /\ pc' # "done" /\ pc # "idle"
    BY <1>1, ParseStep
       DEF ObjectInv, ParseNext, KnownField, UnknownKeys, Refine, ParseField, DefaultField,
           MissField, Keep, Refuse, Advance, Reject
  <2>2. UNCHANGED <<schema, late, input, held, src>>
    BY <1>1 DEF ParseNext, KnownField, UnknownKeys, Refine, builtVars, optionVars
  <2>3. Inputs' = Inputs
    BY <2>2 DEF Inputs, Field
  <2>4. /\ pc' # "idle"
        /\ \A k \in Keys : extra'[k] = extra[k] \/ (k \in Strangers(src) /\ extra'[k] = "unknown")
    BY <1>1, StoreOutcome
       DEF ObjectInv, ParseInv, ParseNext, KnownField, UnknownKeys, Refine, ParseField,
           DefaultField, MissField, Keep, Refuse, Advance, Reject
  <2>5. EntriesHold'
    BY <2>1, <2>2, <2>4, SameObject DEF ObjectInv, ParseInv, ObjectTypeOK, EntriesHold
  <2> QED BY <2>1, <2>2, <2>3, <2>5 DEF ObjectInv, Given
<1>2. CASE UNCHANGED objectVars
  <2>1. /\ UNCHANGED <<schema, late, shared, failFast, view, input, held>>
        /\ UNCHANGED <<src, pc, cursor, out, extra, pm, iss, result>>
    BY <1>2 DEF objectVars, builtVars, optionVars, parseVars
  <2>2. Problems(src)' = Problems(src) /\ Inputs' = Inputs
    BY <2>1, SameObject DEF Inputs, Field
  <2>3. ParseInv' /\ Given' /\ EntriesHold'
    BY <1>2, <2>1, <2>2, ParseUnchanged, SameObject DEF ObjectInv, Given, EntriesHold
  <2>4. DeliveredHolds => DeliveredHolds'
    <3>1. \A k \in Known : Built(k)' <=> Built(k)
      BY <2>1, SameObject DEF Built
    <3> QED BY <2>1, <2>2, <3>1, SameObject
            DEF DeliveredHolds, RefusalHolds, Exact, Stored, Contents
  <2> QED BY <2>1, <2>3, <2>4 DEF ObjectInv
<1> QED BY <1>1, <1>2, CallStep, ReturnStep, DeclareStep, DeliverStep DEF ObjectNext

LEMMA ObjectInvariant == ObjectSpec => []ObjectInv
BY ObjectInvInit, ObjectInvStep, PTL DEF ObjectSpec

(***************************************************************************)
(* Every problem of an object is found, and none is made up; under         *)
(* fail-fast the first one ends the parse.                                 *)
(***************************************************************************)
THEOREM ProblemsFound == ObjectSpec => []IssuesAreExact
<1>1. ObjectInv => IssuesAreExact
  BY DEF ObjectInv, ParseInv, DeliveredHolds, PassHolds, RefusalHolds, Exact, IssuesAreExact,
         ObjectTypeOK
<1> QED BY <1>1, ObjectInvariant, PTL

\* A result that is accepted has been delivered.
LEMMA AcceptedFacts ==
  ASSUME ObjectInv, result = "accepted"
  PROVE  /\ pc \in {"parsed", "done"} /\ src = input /\ input \in Inputs /\ ObjectTypeOK
         /\ Problems(src) = {} /\ Stored
         /\ \A k \in Known : Built(k)
         /\ \A k \in view \cap (Known \ {Target}) : pm[k] = FlagsOf(src, k)
BY DEF ObjectInv, ParseInv, ObjectTypeOK, Given, DeliveredHolds, PassHolds

(***************************************************************************)
(* The presence reported for a field is that of the input.                 *)
(***************************************************************************)
THEOREM PresenceTrue == ObjectSpec => []PresenceIsTrue
<1>1. ObjectInv => PresenceIsTrue
  BY AcceptedFacts DEF PresenceIsTrue, PresenceOf, FlagsOf
<1> QED BY <1>1, ObjectInvariant, PTL

(***************************************************************************)
(* Preserving output keeps what was sent, nulls included, and no default.  *)
(***************************************************************************)
THEOREM PreserveFaithful == ObjectSpec => []PreserveIsFaithful
<1>1. ObjectInv => PreserveIsFaithful
  <2> SUFFICES ASSUME ObjectInv, result = "accepted", NEW k \in view \cap (Known \ {Target})
               PROVE  k \in Preserved <=> input[k] # "absent"
    BY DEF PreserveIsFaithful
  <2>1. pm[k] = FlagsOf(input, k) /\ out[k] = MadeOf(input, k) /\ k \in Keys
    BY AcceptedFacts, OrderFacts DEF Built
  <2>2. Field(k) \in Fields /\ input[k] \in Values
    BY <2>1, AcceptedFacts, FieldType DEF ObjectTypeOK
  <2>3. CASE input[k] # "absent"
    <3>1. out[k] # "absent" /\ "Seen" \in pm[k]
      BY <2>1, <2>2, <2>3, ParsedFacts DEF MadeOf, FlagsOf, Fields
    <3> QED BY <2>1, <2>3, <3>1 DEF Preserved, DefaultOnly
  <2>4. CASE input[k] = "absent"
    <3>1. out[k] = "absent" \/ pm[k] = {"DefaultApplied"}
      BY <2>1, <2>4 DEF MadeOf, FlagsOf
    <3> QED BY <2>4, <3>1 DEF Preserved, DefaultOnly
  <2> QED BY <2>3, <2>4
<1> QED BY <1>1, ObjectInvariant, PTL

(***************************************************************************)
(* No key of an accepted object vanishes but by policy or late declaration,*)
(* and of the entries sent for the target only those that are overwritten. *)
(***************************************************************************)
THEOREM NoKeyVanishes == ObjectSpec => []NothingVanishes
<1>1. ASSUME ObjectInv, result = "accepted", NEW k \in Keys, input[k] # "absent", k \notin late
      PROVE  \/ k \in Known /\ out[k] = Parsed(Field(k).kind, input[k])
             \/ schema.policy = "strip" /\ k \notin Known
             \/ schema.policy = "passthrough" /\ k \in Contents
  <2>1. src = input /\ input \in Inputs /\ ObjectTypeOK /\ Problems(input) = {} /\ Stored
    BY <1>1, AcceptedFacts
  <2>2. CASE k \in Known
    <3>1. Built(k) /\ MadeOf(input, k) = Parsed(Field(k).kind, input[k])
      BY <1>1, <2>2, AcceptedFacts DEF MadeOf
    <3>2. ~(k = Target /\ Collected(src) /\ MadeOf(src, k) # "map")
      <4>1. SUFFICES ASSUME k = Target, Collected(src)
                     PROVE  MadeOf(input, k) = "map"
        BY <2>1
      <4>2. Field(k).kind = "map"
        <5>1. schema \in Schemas /\ schema.policy = "passthrough"
          BY <2>1, <4>1 DEF Collected, ObjectTypeOK
        <5>2. Field(Target).kind = "map"
          BY <2>2, <5>1, FieldType
        <5> QED BY <4>1, <5>2
      <4>3. input[k] \in {"absent", "null", "bad", "map"}
        BY <2>1, <2>2, <4>2, InputsType DEF InputsOf
      <4>4. ProblemsAt(input, k) = {}
        BY <2>1, <2>2 DEF Problems
      <4>5. input[k] \in Accepted("map")
        BY <1>1, <4>2, <4>4 DEF ProblemsAt, Problem
      <4> QED BY <3>1, <4>2, <4>3, <4>5 DEF Accepted, Parsed
    <3> QED BY <2>1, <2>2, <3>1, <3>2 DEF Built
  <2>3. CASE k \notin Known
    <3>1. k \in Strangers(input)
      BY <1>1, <2>3 DEF Strangers
    <3>2. schema.policy # "strict"
      BY <2>1, <3>1 DEF Problems, Unexpected
    <3>3. schema.policy \in Policies
      BY <2>1, SchemasAssumption DEF ObjectTypeOK
    <3> QED BY <2>1, <2>3, <3>1, <3>2, <3>3 DEF Stored, Policies
  <2> QED BY <2>2, <2>3
<1>2. ASSUME ObjectInv, result = "accepted", NEW k \in held \ Overwritten
      PROVE  out[Target] = "map" /\ extra[k] = "sent"
  <2>1. /\ src = input /\ ObjectTypeOK /\ input[Target] = "map"
        /\ schema \in Schemas /\ schema.policy = "passthrough"
    BY <1>2, AcceptedFacts DEF ObjectInv, EntriesHold, ObjectTypeOK
  <2>2. Target \in Known /\ Field(Target).kind = "map"
    BY <2>1, SchemasAssumption DEF Field
  <2>3. MadeOf(src, Target) = "map" /\ Built(Target)
    BY <1>2, <2>1, <2>2, AcceptedFacts DEF MadeOf, Parsed
  <2>4. extra[k] = "sent"
    BY <1>2, <2>1 DEF ObjectInv, EntriesHold, Overwritten
  <2> QED BY <2>3, <2>4 DEF Built
<1>3. ObjectInv => NothingVanishes
  BY <1>1, <1>2 DEF NothingVanishes
<1> QED BY <1>3, ObjectInvariant, PTL

-----------------------------------------------------------------------------
(* The object schema reads its own output (TypedObject) *)

\* What the second pass is given: the output of the first, with its presence.
SecondGiven ==
  /\ \A k \in Known :
       /\ meta[k] = FlagsOf(input, k)
       /\ \/ src[k] = MadeOf(input, k)
          \/ k = Target /\ src[k] = "made" /\ Field(k).kind = "map" /\ schema.policy = "passthrough"
  /\ \A k \in Keys \ Known : src[k] = "absent"

Origin ==
  /\ input \in Inputs /\ pass \in {1, 2}
  /\ pass = 1 => src = input
  /\ pass = 2 => WithMeta /\ Problems(input) = {} /\ SecondGiven

\* The object schema has accepted the object as often as it is going to.
Settled ==
  /\ Problems(input) = {} /\ (WithMeta => pass = 2)
  /\ \A k \in Known : input[k] # "absent" => out[k] # "absent"

\* Of its own output, the object schema refuses only what a codec has made.
LEMMA SecondProblems ==
  ASSUME schema \in Schemas, Origin, pass = 2
  PROVE  /\ \A k \in Known : \A p \in ProblemsAt(src, k) :
              p = Problem("invalid", k) /\ Field(k).kind = "codec"
         /\ Strangers(src) = {}
<1>1. /\ input \in [Keys -> Values] /\ Problems(input) = {} /\ SecondGiven
  BY InputsType DEF Origin
<1>2. ASSUME NEW k \in Known, NEW p \in ProblemsAt(src, k)
      PROVE  p = Problem("invalid", k) /\ Field(k).kind = "codec"
  <2>0. Field(k) \in Fields /\ input[k] \in Values
    BY <1>1, FieldType, OrderFacts
  <2>1. Field(k) \in Fields /\ input[k] \in Values /\ ProblemsAt(input, k) = {}
    BY <1>1, <2>0 DEF Problems
  <2>2. CASE src[k] = "made" /\ Field(k).kind = "map"
    BY <1>2, <2>2 DEF ProblemsAt, Accepted
  <2>3. CASE src[k] = MadeOf(input, k)
    <3>1. CASE input[k] # "absent"
      <4>1. src[k] = Parsed(Field(k).kind, input[k]) /\ src[k] # "absent"
        BY <2>1, <2>3, <3>1, ParsedFacts DEF MadeOf, Fields
      <4>2. input[k] \in Accepted(Field(k).kind)
        BY <2>1, <3>1 DEF ProblemsAt, Problem
      <4>3. Field(k).kind # "codec" => src[k] \in Accepted(Field(k).kind)
        BY <2>1, <4>1, <4>2 DEF Accepted, Parsed, Fields, Kinds
      <4> QED BY <1>2, <4>1, <4>3 DEF ProblemsAt
    <3>2. CASE input[k] = "absent"
      <4>1. CASE Field(k).default = "none"
        BY <1>2, <2>1, <2>3, <3>2, <4>1 DEF MadeOf, ProblemsAt, Problem
      <4>2. CASE Field(k).default # "none"
        <5>1. src[k] = DefaultOf(Field(k).kind) /\ src[k] # "absent"
          BY <2>1, <2>3, <3>2, <4>2, ParsedFacts DEF MadeOf, Fields, Values
        <5>2. Field(k).kind # "codec" => src[k] \in Accepted(Field(k).kind)
          BY <2>1, <5>1 DEF Accepted, DefaultOf, Parsed, Fields, Kinds
        <5> QED BY <1>2, <5>1, <5>2 DEF ProblemsAt
      <4> QED BY <4>1, <4>2
    <3> QED BY <3>1, <3>2
  <2> QED BY <1>1, <2>2, <2>3 DEF SecondGiven
<1>3. Strangers(src) = {}
  BY <1>1 DEF SecondGiven, Strangers
<1> QED BY <1>2, <1>3

\* What has passed is what it is to be, in one pass or in two.
LEMMA PassedTwice ==
  ASSUME schema \in Schemas, Origin, pass = 2, PassHolds, NEW k \in Known
  PROVE  /\ out[k] = MadeOf(input, k) \/ (k = Target /\ out[k] = "made")
         /\ input[k] # "absent" => out[k] # "absent"
<1>1. /\ input \in [Keys -> Values] /\ SecondGiven /\ Strangers(src) = {} /\ Problems(input) = {}
  BY InputsType, SecondProblems DEF Origin
<1>2. /\ out[k] = MadeOf(src, k) /\ ProblemsAt(src, k) = {} /\ ProblemsAt(input, k) = {}
      /\ Field(k) \in Fields /\ input[k] \in Values
  BY <1>1, FieldType, OrderFacts DEF PassHolds, Built, Collected, Problems
<1>3. CASE k = Target /\ src[k] = "made" /\ Field(k).kind = "map"
  BY <1>2, <1>3 DEF MadeOf, Parsed
<1>4. CASE src[k] = MadeOf(input, k)
  <2>1. CASE input[k] # "absent"
    <3>1. src[k] = Parsed(Field(k).kind, input[k]) /\ src[k] # "absent"
      BY <1>2, <1>4, <2>1, ParsedFacts DEF MadeOf, Fields
    <3>2. src[k] \in Accepted(Field(k).kind)
      BY <1>2, <3>1 DEF ProblemsAt, Problem
    <3>3. out[k] = Parsed(Field(k).kind, src[k])
      BY <1>2, <3>1 DEF MadeOf
    <3>4. Parsed(Field(k).kind, src[k]) = src[k]
      <4>1. CASE Field(k).kind = "codec"
        BY <3>1, <3>2, <4>1 DEF Parsed, Accepted
      <4>2. CASE Field(k).kind # "codec"
        BY <3>1, <4>2 DEF Parsed
      <4> QED BY <4>1, <4>2
    <3> QED BY <1>4, <3>1, <3>3, <3>4
  <2>2. CASE input[k] = "absent" /\ Field(k).default # "none"
    <3>1. src[k] = DefaultOf(Field(k).kind) /\ src[k] # "absent"
      BY <1>2, <1>4, <2>2, ParsedFacts DEF MadeOf, Fields, Values
    <3>2. src[k] \in Accepted(Field(k).kind)
      BY <1>2, <3>1 DEF ProblemsAt, Problem
    <3>3. out[k] = Parsed(Field(k).kind, src[k])
      BY <1>2, <3>1 DEF MadeOf
    <3>4. Parsed(Field(k).kind, src[k]) = src[k]
      BY <1>2, <3>1, <3>2 DEF Parsed, Accepted, DefaultOf, Fields, Kinds
    <3> QED BY <1>4, <2>2, <3>3, <3>4
  <2>3. CASE input[k] = "absent" /\ Field(k).default = "none"
    BY <1>2, <1>4, <2>3 DEF MadeOf
  <2> QED BY <2>1, <2>2, <2>3
<1> QED BY <1>1, <1>3, <1>4 DEF SecondGiven

LEMMA PassedOnce ==
  ASSUME schema \in Schemas, Origin, pass = 1, PassHolds
  PROVE  /\ Problems(input) = {}
         /\ \A k \in Known : input[k] # "absent" => out[k] # "absent"
<1>1. src = input /\ input \in [Keys -> Values] /\ Problems(input) = {}
  BY InputsType DEF Origin, PassHolds
<1>2. ASSUME NEW k \in Known, input[k] # "absent"
      PROVE  out[k] # "absent"
  <2>1. Field(k) \in Fields /\ input[k] \in Values
    BY <1>1, FieldType, OrderFacts
  <2>2. MadeOf(src, k) # "absent"
    BY <1>1, <1>2, <2>1, ParsedFacts DEF MadeOf, Fields
  <2> QED BY <2>2 DEF PassHolds, Built
<1> QED BY <1>1, <1>2

LEMMA PassSettles ==
  ASSUME schema \in Schemas, Origin, PassHolds, WithMeta => pass = 2
  PROVE  Settled
BY PassedOnce, PassedTwice DEF Settled, Origin

-----------------------------------------------------------------------------
(* The rules: the inductive invariant of TypedSpec *)

BuiltType == schema \in Schemas /\ late \subseteq LateFields /\ shared \subseteq Keys

\* The loops over the rules have passed the rule i, in this round.
Before(i) ==
  \/ InPhase(Rules[i]) /\ i < turn
  \/ \E l \in 1..(loop - 1) : <<Rules[i].phase, Rules[i].failing>> = Phases[l]

Objected == \E n \in DOMAIN log : log[n].outcome = "issues"

\* Of the rules that have run, whatever the stage
LogHolds ==
  /\ GatesHold /\ PhasesInOrder
  /\ \A n, m \in DOMAIN log :
       log[n].rule = log[m].rule /\ log[n].round = log[m].round => n = m

\* The rounds that the operation has
RoundHolds ==
  /\ WithMeta \/ ~Skips
  /\ round = "meta" => WithMeta
  /\ Skips => round = "meta"
  /\ round = "parse" \/ Skips \/ ~WithMeta => \A n \in DOMAIN log : log[n].round = round

\* The outcomes so far: no rule has failed, and only this phase's have objected.
OutcomesHold ==
  /\ iss = IF Objected THEN {Problem("rule", Root)} ELSE {}
  /\ \A n \in DOMAIN log : log[n].outcome # "fatal"
  /\ \A n \in DOMAIN log : log[n].outcome = "issues" =>
       ~failFast /\ log[n].round = round /\ InPhase(Rules[log[n].rule])

\* The loops miss no rule that is to run, and run none ahead of its turn.
TurnsHold ==
  /\ \A n \in DOMAIN log : log[n].round = round => Before(log[n].rule)
  /\ \A i \in DOMAIN Rules : Before(i) /\ Opens(Rules[i], Sent) =>
       \E n \in DOMAIN log : log[n].rule = i /\ log[n].round = round

RulesHold == RoundHolds /\ OutcomesHold /\ TurnsHold

DoneHolds ==
  /\ Skips \/ ~WithMeta => \A n, m \in DOMAIN log : log[n].round = log[m].round
  /\ result = "accepted" =>
       /\ Problems(input) = {} /\ Unfit = {}
       /\ \A n \in DOMAIN log : log[n].outcome = "ok"
       /\ \A i \in DOMAIN Rules :
            (WithMeta \/ ~Skips) /\ Opens(Rules[i], Sent) => HasRun(i, "ok")
  /\ result = "rejected" => OneLayerReports

TypedInv ==
  /\ TypedTypeOK /\ BuiltType /\ LogHolds
  /\ stage \in {"idle", "inner", "bind"} => ParseInv /\ log = <<>>
  /\ stage = "idle" => pc = "idle" /\ pass = 0
  /\ stage # "idle" => Origin
  /\ stage = "inner" => pc \in {"known", "refine", "parsed"} /\ result # "accepted"
  /\ stage = "bind" => pc = "parsed" /\ result = "none" /\ (WithMeta => pass = 2)
  /\ stage = "rules" => result = "none" /\ Settled /\ Unfit = {} /\ RulesHold
  /\ stage = "done" => DoneHolds

\* What the rules and the end of a call leave alone
LEMMA SameCall ==
  ASSUME UNCHANGED <<schema, late, failFast, input, src, misfits, entry, place, pass, meta>>
  PROVE  /\ (Origin' <=> Origin) /\ Sent' = Sent /\ Problems(input)' = Problems(input)
         /\ (WithMeta' <=> WithMeta) /\ (Skips' <=> Skips)
         /\ out' = out => Unfit' = Unfit /\ (Settled' <=> Settled)
         /\ log' = log => (LogHolds' <=> LogHolds)
<1>1. \A k : Field(k)' = Field(k)
  BY DEF Field
<1>2. (WithMeta' <=> WithMeta) /\ (Skips' <=> Skips) /\ Sent' = Sent
  BY DEF WithMeta, Skips, Sent
<1>3. Problems(input)' = Problems(input)
  <2>1. \A k \in Known : ProblemsAt(input, k)' = ProblemsAt(input, k)
    BY <1>1 DEF ProblemsAt
  <2>2. Unexpected(input)' = Unexpected(input)
    BY DEF Unexpected, Strangers
  <2> QED BY <2>1, <2>2 DEF Problems
<1>4. SecondGiven' <=> SecondGiven
  BY <1>1 DEF SecondGiven, FlagsOf, MadeOf
<1>5. Inputs' = Inputs
  BY <1>1 DEF Inputs
<1>6. out' = out => Unfit' = Unfit /\ (Settled' <=> Settled)
  BY <1>2, <1>3 DEF Unfit, Settled
<1>7. log' = log => (LogHolds' <=> LogHolds)
  BY <1>2 DEF LogHolds, GatesHold, PhasesInOrder
<1> QED BY <1>2, <1>3, <1>4, <1>5, <1>6, <1>7 DEF Origin

LEMMA NoLog ==
  ASSUME log = <<>>
  PROVE  LogHolds /\ DOMAIN log = {}
BY DEF LogHolds, GatesHold, PhasesInOrder

LEMMA PhasesFacts ==
  /\ Len(Phases) = 3 /\ DOMAIN Phases = 1..3
  /\ \A l \in 1..3 : Phases[l] = <<"domain", FALSE>> \/ Phases[l] = <<"context", FALSE>>
                        \/ Phases[l] = <<"context", TRUE>>
  /\ <<"domain", FALSE>> = Phases[1] /\ <<"context", FALSE>> = Phases[2]
  /\ <<"context", TRUE>> = Phases[3]
  /\ \A l, m \in 1..3 : Phases[l] = Phases[m] => l = m
<1> DEFINE P1 == <<"domain", FALSE>> P2 == <<"context", FALSE>> P3 == <<"context", TRUE>>
<1>1. P1 # P2 /\ P1 # P3 /\ P2 # P3
  <2>1. P1[1] = "domain" /\ P2[1] = "context" /\ P3[1] = "context" /\ P2[2] = FALSE /\ P3[2] = TRUE
    OBVIOUS
  <2> QED BY <2>1
<1>2. Phases = <<P1, P2, P3>>
  BY DEF Phases
<1> HIDE DEF P1, P2, P3
<1>3. /\ Len(Phases) = 3 /\ DOMAIN Phases = 1..3
      /\ Phases[1] = P1 /\ Phases[2] = P2 /\ Phases[3] = P3
  BY <1>2
<1>4. \A l \in 1..3 : l = 1 \/ l = 2 \/ l = 3
  OBVIOUS
<1>5. \A l, m \in 1..3 : Phases[l] = Phases[m] => l = m
  BY <1>1, <1>3, <1>4
<1>6. \A l \in 1..3 : Phases[l] = P1 \/ Phases[l] = P2 \/ Phases[l] = P3
  BY <1>3, <1>4
<1> QED BY <1>3, <1>5, <1>6 DEF P1, P2, P3

LEMMA RulesType ==
  /\ Rules \in Seq(Rule) /\ Len(Rules) \in Nat /\ DOMAIN Rules = 1..Len(Rules)
  /\ \A i \in DOMAIN Rules :
       /\ Rules[i].phase \in {"domain", "context"} /\ Rules[i].failing \in BOOLEAN
       /\ Rules[i].whenSeen \subseteq Known
       /\ \E l \in 1..3 : <<Rules[i].phase, Rules[i].failing>> = Phases[l]
<1>1. Rules \in Seq(Rule) /\ Len(Rules) \in Nat /\ DOMAIN Rules = 1..Len(Rules)
  BY RulesAssumption, LenProperties
<1>2. ASSUME NEW i \in DOMAIN Rules
      PROVE  Rules[i] \in Rule
  BY <1>1, <1>2, ElementOfSeq
<1>3. ASSUME NEW i \in DOMAIN Rules
      PROVE  \E l \in 1..3 : <<Rules[i].phase, Rules[i].failing>> = Phases[l]
  <2>1. /\ Rules[i].phase = "domain" \/ Rules[i].phase = "context"
        /\ Rules[i].failing = TRUE \/ Rules[i].failing = FALSE
        /\ Rules[i].failing => Rules[i].phase = "context"
    BY <1>2, <1>3, RulesAssumption DEF Rule
  <2>2. CASE Rules[i].phase = "domain" /\ Rules[i].failing = FALSE
    <3>1. <<Rules[i].phase, Rules[i].failing>> = <<"domain", FALSE>>
      BY <2>2
    <3>2. <<Rules[i].phase, Rules[i].failing>> = Phases[1]
      BY <3>1, PhasesFacts, Zenon
    <3> QED BY <3>2
  <2>3. CASE Rules[i].phase = "context" /\ Rules[i].failing = FALSE
    <3>1. <<Rules[i].phase, Rules[i].failing>> = <<"context", FALSE>>
      BY <2>3
    <3>2. <<Rules[i].phase, Rules[i].failing>> = Phases[2]
      BY <3>1, PhasesFacts, Zenon
    <3> QED BY <3>2
  <2>4. CASE Rules[i].phase = "context" /\ Rules[i].failing = TRUE
    <3>1. <<Rules[i].phase, Rules[i].failing>> = <<"context", TRUE>>
      BY <2>4
    <3>2. <<Rules[i].phase, Rules[i].failing>> = Phases[3]
      BY <3>1, PhasesFacts, Zenon
    <3> QED BY <3>2
  <2> QED BY <2>1, <2>2, <2>3, <2>4
<1> QED BY <1>1, <1>2, <1>3 DEF Rule

LEMMA TypedInvInit == TypedInit => TypedInv
<1> SUFFICES ASSUME TypedInit PROVE TypedInv
  OBVIOUS
<1>1. ParseInv /\ pc = "idle"
  BY ObjectInvInit DEF TypedInit, ObjectInv, ObjectInit, Idle
<1>2. TypedTypeOK /\ BuiltType
  BY <1>1, BindingsAssumption, PhasesFacts, RulesType
     DEF TypedInit, TypedTypeOK, BuiltType, NoPresence, Entries, Places, ParseInv, ObjectTypeOK
<1>3. LogHolds
  BY NoLog DEF TypedInit
<1> QED BY <1>1, <1>2, <1>3 DEF TypedInit, TypedInv

LEMMA TypedCallStep ==
  ASSUME TypedInv, TypedCall
  PROVE  TypedInv'
<1>1. /\ stage = "idle" /\ ParseInv /\ log = <<>> /\ Call /\ ObjectTypeOK
      /\ entry' \in Entries /\ place' \in Places
      /\ stage' = "inner" /\ pass' = 1
      /\ UNCHANGED <<misfits, meta, round, loop, turn, log>>
      /\ UNCHANGED <<schema, late, shared>> /\ pc' = "known" /\ result' = "none"
      /\ input' \in Inputs /\ src' = input'
  BY DEF TypedInv, TypedCall, ParseInv, rulesVars, Call, builtVars, Enter
<1>2. ParseInv'
  BY <1>1, CallStarts
<1>3. TypedTypeOK' /\ BuiltType'
  BY <1>1 DEF TypedInv, TypedTypeOK, BuiltType
<1>4. Origin'
  BY <1>1 DEF Origin, Inputs, Field
<1>5. LogHolds'
  BY <1>1 DEF LogHolds, GatesHold, PhasesInOrder
<1> QED BY <1>1, <1>2, <1>3, <1>4, <1>5 DEF TypedInv

\* The steps of the object schema are those of ParseNext, whoever calls it.
LEMMA InnerStep ==
  ASSUME TypedInv, Inner
  PROVE  TypedInv'
<1>1. /\ stage = "inner" /\ ParseInv /\ log = <<>> /\ ParseNext /\ ObjectTypeOK
      /\ UNCHANGED <<misfits, entry, place, stage, pass, meta, round, loop, turn, log>>
  BY DEF TypedInv, Inner, ParseInv, rulesVars, callVars
<1>2. ParseInv'
  BY <1>1, ParseStep
<1>3. /\ UNCHANGED <<schema, late, failFast, input, src>>
      /\ pc' \in {"known", "refine", "parsed"} /\ result' # "accepted"
  BY <1>1 DEF ParseNext, KnownField, UnknownKeys, Refine, builtVars, optionVars, ObjectTypeOK,
              ParseField, DefaultField, MissField, Keep, Refuse, Advance, Reject
<1>4. Origin' /\ LogHolds'
  BY <1>1, <1>3, SameCall DEF TypedInv
<1>5. TypedTypeOK' /\ BuiltType'
  BY <1>1, <1>2 DEF TypedInv, TypedTypeOK, BuiltType, ParseInv, ObjectTypeOK
<1> QED BY <1>1, <1>2, <1>3, <1>4, <1>5 DEF TypedInv

LEMMA InnerRejectedStep ==
  ASSUME TypedInv, InnerRejected
  PROVE  TypedInv'
<1>1. /\ stage = "inner" /\ pc = "parsed" /\ result = "rejected" /\ RefusalHolds /\ ObjectTypeOK
      /\ log = <<>>
      /\ stage' = "done" /\ result' = "rejected"
      /\ UNCHANGED <<schema, late, shared, failFast, input, src, out, iss>>
      /\ UNCHANGED <<misfits, entry, place, pass, meta, round, loop, turn, log>>
  BY DEF TypedInv, InnerRejected, Ends, ParseInv, rulesVars, callVars, builtVars, optionVars
<1>2. Origin' /\ LogHolds'
  BY <1>1, SameCall DEF TypedInv
<1>3. DoneHolds'
  <2>1. iss' # {} /\ \A p \in iss' : p.code \in {"invalid", "required", "unknown_key", "custom"}
    BY <1>1 DEF RefusalHolds, ObjectTypeOK
  <2>2. DOMAIN log' = {}
    BY <1>1
  <2> QED BY <1>1, <2>1, <2>2 DEF DoneHolds, OneLayerReports
<1>4. TypedTypeOK' /\ BuiltType'
  BY <1>1 DEF TypedInv, TypedTypeOK, BuiltType
<1> QED BY <1>1, <1>2, <1>3, <1>4 DEF TypedInv

LEMMA SecondPassStep ==
  ASSUME TypedInv, SecondPass
  PROVE  TypedInv'
<1>1. /\ stage = "inner" /\ pc = "parsed" /\ result = "none" /\ WithMeta /\ pass = 1
      /\ PassHolds /\ ObjectTypeOK /\ log = <<>> /\ Origin
      /\ meta' = pm /\ pass' = 2 /\ Enter("known", out)
      /\ UNCHANGED <<schema, late, shared, failFast, view, input, held, extra>>
      /\ UNCHANGED <<misfits, entry, place, stage, round, loop, turn, log>>
  BY DEF TypedInv, SecondPass, ParseInv, rulesVars, callVars, builtVars, optionVars
<1>2. ParseInv'
  BY <1>1, EnterStarts DEF ObjectTypeOK
<1>3. SecondGiven' /\ Problems(input)' = {}
  <2>1. src = input /\ Problems(input) = {}
    BY <1>1 DEF Origin, PassHolds
  <2>2. ASSUME NEW k \in Known
        PROVE  /\ meta'[k] = FlagsOf(input, k)
               /\ \/ src'[k] = MadeOf(input, k)
                  \/ /\ k = Target /\ src'[k] = "made" /\ Field(k).kind = "map"
                     /\ schema.policy = "passthrough"
    <3>1. Built(k) /\ pm[k] = FlagsOf(input, k) /\ src' = out
      BY <1>1, <2>1 DEF PassHolds, Enter
    <3>2. k = Target /\ Collected(src) => Field(k).kind = "map" /\ schema.policy = "passthrough"
      BY <1>1, FieldType DEF Collected, ObjectTypeOK
    <3> QED BY <1>1, <2>1, <3>1, <3>2 DEF Built
  <2>3. ASSUME NEW k \in Keys \ Known
        PROVE  src'[k] = "absent"
    BY <1>1 DEF PassHolds, Enter
  <2>4. \A k : Field(k)' = Field(k)
    BY <1>1 DEF Field
  <2>5. \A k \in Known : FlagsOf(input, k)' = FlagsOf(input, k) /\ MadeOf(input, k)' = MadeOf(input, k)
    BY <1>1, <2>4 DEF FlagsOf, MadeOf
  <2>6. Problems(input)' = Problems(input)
    <3>1. \A k \in Known : ProblemsAt(input, k)' = ProblemsAt(input, k)
      BY <1>1, <2>4 DEF ProblemsAt
    <3>2. Unexpected(input)' = Unexpected(input)
      BY <1>1 DEF Unexpected, Strangers
    <3> QED BY <1>1, <3>1, <3>2 DEF Problems
  <2> QED BY <1>1, <2>1, <2>2, <2>3, <2>4, <2>5, <2>6 DEF SecondGiven
<1>4. Origin'
  BY <1>1, <1>3 DEF Origin, WithMeta, Inputs, Field
<1>5. LogHolds'
  BY <1>1 DEF LogHolds, GatesHold, PhasesInOrder
<1>6. TypedTypeOK' /\ BuiltType'
  BY <1>1 DEF TypedInv, TypedTypeOK, BuiltType, ObjectTypeOK
<1> QED BY <1>1, <1>2, <1>4, <1>5, <1>6 DEF TypedInv, Enter

LEMMA InnerAcceptedStep ==
  ASSUME TypedInv, InnerAccepted
  PROVE  TypedInv'
<1>1. /\ stage = "inner" /\ pc = "parsed" /\ result = "none" /\ (WithMeta => pass = 2)
      /\ stage' = "bind" /\ ParseInv
      /\ UNCHANGED <<objectVars, misfits, entry, place, pass, meta, round, loop, turn, log>>
  BY DEF TypedInv, InnerAccepted, rulesVars, callVars
<1>2. /\ UNCHANGED <<schema, late, shared, failFast, view, input, held>>
      /\ UNCHANGED <<src, pc, cursor, out, extra, pm, iss, result>>
  BY <1>1 DEF objectVars, builtVars, optionVars, parseVars
<1>3. Origin' /\ LogHolds' /\ (WithMeta' <=> WithMeta)
  BY <1>1, <1>2, SameCall DEF TypedInv
<1>4. ParseInv'
  BY <1>1, ParseUnchanged
<1>5. TypedTypeOK' /\ BuiltType'
  BY <1>1, <1>2 DEF TypedInv, TypedTypeOK, BuiltType
<1> QED BY <1>1, <1>2, <1>3, <1>4, <1>5 DEF TypedInv

LEMMA MisfitStep ==
  ASSUME TypedInv, Misfit
  PROVE  TypedInv'
<1>1. /\ stage = "bind" /\ log = <<>> /\ stage' = "done" /\ result' = "rejected"
      /\ \E k \in Unfit : iss' = {Problem("invalid", k)}
      /\ UNCHANGED <<schema, late, shared, failFast, input, src, out>>
      /\ UNCHANGED <<misfits, entry, place, pass, meta, round, loop, turn, log>>
  BY DEF TypedInv, Misfit, Ends, rulesVars, callVars, builtVars, optionVars
<1>2. Origin' /\ LogHolds'
  BY <1>1, SameCall DEF TypedInv
<1>3. DoneHolds'
  BY <1>1 DEF DoneHolds, OneLayerReports, Problem
<1>4. TypedTypeOK' /\ BuiltType'
  BY <1>1 DEF TypedInv, TypedTypeOK, BuiltType
<1> QED BY <1>1, <1>2, <1>3, <1>4 DEF TypedInv

-----------------------------------------------------------------------------
(* The loops over the rules *)

LEMMA LogType ==
  ASSUME TypedTypeOK
  PROVE  /\ log \in Seq(Runs) /\ Len(log) \in Nat /\ DOMAIN log = 1..Len(log)
         /\ \A n \in DOMAIN log : log[n] \in Runs /\ log[n].rule \in DOMAIN Rules
<1>1. log \in Seq(Runs) /\ Len(log) \in Nat /\ DOMAIN log = 1..Len(log)
  BY LenProperties DEF TypedTypeOK
<1>2. ASSUME NEW n \in DOMAIN log
      PROVE  log[n] \in Runs
  BY <1>1, <1>2, ElementOfSeq
<1> QED BY <1>1, <1>2 DEF Runs

\* What the document sends opens a gate in either round.
LEMMA GateFacts ==
  ASSUME TypedTypeOK, Origin, Settled, RoundHolds, NEW i \in DOMAIN Rules
  PROVE  /\ Opens(Rules[i], Sent) => Opens(Rules[i], SeenKeys)
         /\ round = "meta" => (Opens(Rules[i], SeenKeys) => Opens(Rules[i], Sent))
<1>1. Rules[i].whenSeen \subseteq Known /\ Known \subseteq Keys
  BY RulesType, OrderFacts
<1>2. CASE round = "meta"
  <2>1. WithMeta /\ pass = 2 /\ SecondGiven
    BY <1>2 DEF RoundHolds, Settled, Origin
  <2>2. \A k \in Known : k \in Reported <=> k \in Sent
    BY <1>1, <2>1 DEF SecondGiven, FlagsOf, Reported, Sent
  <2> QED BY <1>1, <1>2, <2>2 DEF SeenKeys, Opens
<1>3. CASE round # "meta"
  <2>1. \A k \in Known : k \in Sent => k \in Reconstructed
    BY <1>1 DEF Settled, Sent, Reconstructed
  <2> QED BY <1>1, <1>3, <2>1 DEF SeenKeys, Opens
<1> QED BY <1>2, <1>3

LEMMA FitStep ==
  ASSUME TypedInv, Fit
  PROVE  TypedInv'
<1>1. /\ stage = "bind" /\ Unfit = {} /\ log = <<>> /\ result = "none" /\ ParseInv
      /\ pc = "parsed" /\ (WithMeta => pass = 2) /\ Origin
      /\ UNCHANGED <<schema, late, shared, failFast, input, src, out, iss>>
      /\ UNCHANGED <<misfits, entry, place, pass, meta, log>>
  BY DEF TypedInv, Fit, callVars, builtVars, optionVars
<1>2. PassHolds /\ schema \in Schemas
  BY <1>1 DEF ParseInv, ObjectTypeOK
<1>3. Settled /\ Origin' /\ LogHolds' /\ Unfit' = {} /\ Settled'
      /\ Sent' = Sent /\ (WithMeta' <=> WithMeta) /\ (Skips' <=> Skips)
      /\ Problems(input)' = {}
  BY <1>1, <1>2, SameCall, PassSettles DEF TypedInv, Settled
<1>4. BuiltType' /\ DOMAIN log' = {}
  BY <1>1 DEF TypedInv, BuiltType
<1>5. CASE Skips /\ ~WithMeta
  <2>1. stage' = "done" /\ result' = "accepted" /\ UNCHANGED <<round, loop, turn>>
    BY <1>5 DEF Fit, Ends
  <2>2. TypedTypeOK'
    BY <1>1, <2>1 DEF TypedInv, TypedTypeOK
  <2>3. DoneHolds'
    BY <1>3, <1>4, <1>5, <2>1 DEF DoneHolds
  <2> QED BY <1>3, <1>4, <2>1, <2>2, <2>3 DEF TypedInv
<1>6. CASE ~(Skips /\ ~WithMeta)
  <2>1. /\ stage' = "rules" /\ round' = FirstRound /\ loop' = 1 /\ turn' = 1
        /\ UNCHANGED result
    BY <1>6 DEF Fit, StartRound
  <2>2. TypedTypeOK'
    BY <1>1, <2>1, PhasesFacts, RulesType DEF TypedInv, TypedTypeOK, FirstRound
  <2>3. RoundHolds'
    BY <1>3, <1>4, <1>6, <2>1 DEF RoundHolds, FirstRound
  <2>4. OutcomesHold'
    BY <1>1, <1>2, <1>4 DEF OutcomesHold, Objected, PassHolds
  <2>5. TurnsHold'
    <3>1. \A i \in DOMAIN Rules : ~Before(i)'
      <4> SUFFICES ASSUME NEW i \in DOMAIN Rules PROVE ~Before(i)'
        OBVIOUS
      <4> QED BY <2>1, RulesType DEF Before
    <3> QED BY <1>4, <3>1 DEF TurnsHold
  <2> QED BY <1>1, <1>3, <1>4, <2>1, <2>2, <2>3, <2>4, <2>5 DEF TypedInv, RulesHold
<1> QED BY <1>5, <1>6

\* What every step of the loops has before it, and leaves alone
LEMMA RulesFrame ==
  ASSUME TypedInv, stage = "rules", UNCHANGED Untouched
  PROVE  /\ TypedTypeOK /\ LogHolds /\ Origin /\ Settled /\ Unfit = {} /\ result = "none"
         /\ RoundHolds /\ OutcomesHold /\ TurnsHold
         /\ UNCHANGED <<misfits, entry, place, pass, meta, failFast, input, schema, out>>
         /\ BuiltType' /\ Origin' /\ Settled' /\ Unfit' = {} /\ Problems(input)' = {}
         /\ Sent' = Sent /\ (WithMeta' <=> WithMeta) /\ (Skips' <=> Skips)
         /\ log' = log => LogHolds'
<1>1. UNCHANGED <<schema, late, shared, failFast, input, src, out, misfits, entry, place, pass, meta>>
  BY DEF Untouched, builtVars, optionVars, callVars
<1>2. TypedTypeOK /\ LogHolds /\ Origin /\ Settled /\ Unfit = {} /\ result = "none" /\ RulesHold
      /\ Problems(input) = {}
  BY DEF TypedInv, Settled
<1>3. BuiltType'
  BY <1>1 DEF TypedInv, BuiltType
<1> QED BY <1>1, <1>2, <1>3, SameCall DEF RulesHold

\* The end of a call in which no rule runs any more
LEMMA StopStep ==
  ASSUME TypedInv, StopAtPhase
  PROVE  TypedInv'
<1>1. /\ stage = "rules" /\ iss # {} /\ UNCHANGED Untouched
      /\ stage' = "done" /\ result' = "rejected"
      /\ UNCHANGED <<iss, round, loop, turn, log>>
  BY DEF StopAtPhase, PhaseFailed, Ends, rulesVars
<1>2. Objected /\ iss = {Problem("rule", Root)} /\ \A n \in DOMAIN log : log[n].outcome # "fatal"
  BY <1>1, RulesFrame DEF OutcomesHold
<1>3. DoneHolds'
  <2>1. OneLayerReports'
    BY <1>1, <1>2 DEF OneLayerReports, Objected
  <2>2. (Skips \/ ~WithMeta) => \A n, m \in DOMAIN log : log[n].round = log[m].round
    BY <1>1, RulesFrame DEF RoundHolds
  <2> QED BY <1>1, <2>1, <2>2, RulesFrame DEF DoneHolds
<1>4. TypedTypeOK'
  BY <1>1, RulesFrame DEF TypedTypeOK
<1> QED BY <1>1, <1>3, <1>4, RulesFrame DEF TypedInv

\* When a loop is over, its phase is.
LEMMA LoopOver ==
  ASSUME TypedTypeOK, turn = Len(Rules) + 1, NEW i \in DOMAIN Rules
  PROVE  Before(i) <=> \E l \in 1..loop : <<Rules[i].phase, Rules[i].failing>> = Phases[l]
<1>1. i < turn
  BY RulesType
<1>2. loop \in Nat /\ loop \in 1..loop /\ \A l \in 1..loop : l = loop \/ l \in 1..(loop - 1)
  BY PhasesFacts DEF TypedTypeOK
<1>3. \A l \in 1..(loop - 1) : l \in 1..loop
  BY <1>2
<1> QED BY <1>1, <1>2, <1>3 DEF Before, InPhase

LEMMA NextPhaseStep ==
  ASSUME TypedInv, NextPhase
  PROVE  TypedInv'
<1>1. /\ stage = "rules" /\ iss = {} /\ UNCHANGED Untouched /\ turn = Len(Rules) + 1 /\ loop < 3
      /\ loop' = loop + 1 /\ turn' = 1
      /\ UNCHANGED <<stage, iss, result, round, log>>
  BY PhasesFacts DEF NextPhase, PhaseFailed, PhaseOver
<1>2. TypedTypeOK' /\ loop \in Nat /\ loop' - 1 = loop
  BY <1>1, RulesFrame, PhasesFacts, RulesType DEF TypedTypeOK
<1>3. ASSUME NEW i \in DOMAIN Rules
      PROVE  Before(i)' <=> Before(i)
  <2>1. ~(i < turn') /\ TypedTypeOK
    BY <1>1, RulesType, RulesFrame
  <2>2. Before(i)' <=> \E l \in 1..loop : <<Rules[i].phase, Rules[i].failing>> = Phases[l]
    BY <1>2, <2>1 DEF Before
  <2> QED BY <1>1, <2>1, <2>2, LoopOver
<1>4. TurnsHold'
  <2>1. \A n \in DOMAIN log : log[n].rule \in DOMAIN Rules
    BY RulesFrame, <1>1, LogType
  <2> QED BY <1>1, <1>3, <2>1, RulesFrame DEF TurnsHold
<1>5. RoundHolds'
  BY <1>1, RulesFrame DEF RoundHolds
<1>6. OutcomesHold'
  <2>1. \A n \in DOMAIN log : log[n].outcome # "issues" /\ log[n].outcome # "fatal"
    BY <1>1, RulesFrame DEF OutcomesHold, Objected
  <2> QED BY <1>1, <2>1 DEF OutcomesHold, Objected
<1> QED BY <1>1, <1>2, <1>4, <1>5, <1>6, RulesFrame DEF TypedInv, RulesHold

-----------------------------------------------------------------------------
(* A rule's turn *)

LEMMA TurnFacts ==
  ASSUME TypedTypeOK, turn \in DOMAIN Rules
  PROVE  /\ turn \in Nat /\ loop \in 1..3
         /\ InPhase(Rules[turn]) => ~Before(turn)
<1>1. turn \in Nat /\ loop \in 1..3
  BY RulesType, PhasesFacts DEF TypedTypeOK
<1>2. ASSUME InPhase(Rules[turn]), NEW l \in 1..(loop - 1),
             <<Rules[turn].phase, Rules[turn].failing>> = Phases[l]
      PROVE  FALSE
  <2>1. l \in 1..3 /\ l # loop
    BY <1>1
  <2>2. Phases[loop] = Phases[l]
    BY <1>2 DEF InPhase
  <2> QED BY <1>1, <2>1, <2>2, PhasesFacts
<1> QED BY <1>1, <1>2 DEF Before

\* The turn goes on: what was behind it stays there, and its rule is added.
LEMMA TurnOver ==
  ASSUME TypedTypeOK, turn \in DOMAIN Rules, turn' = turn + 1, loop' = loop,
         NEW i \in DOMAIN Rules
  PROVE  /\ Before(i) => Before(i)'
         /\ Before(i)' => Before(i) \/ (i = turn /\ InPhase(Rules[turn]))
<1>1. turn \in Nat /\ i \in Nat /\ (i < turn' <=> i < turn \/ i = turn)
  BY RulesType, TurnFacts
<1> QED BY <1>1 DEF Before, InPhase

\* A rule that runs does so in its order, through an open gate, and once.
LEMMA RanFacts ==
  ASSUME TypedInv, stage = "rules", UNCHANGED Untouched, RuleRuns,
         NEW outcome \in {"ok", "issues", "fatal"}, Ran(outcome)
  PROVE  /\ LogHolds' /\ log' \in Seq(Runs)
         /\ Len(log) \in Nat /\ DOMAIN log = 1..Len(log) /\ Len(log') = Len(log) + 1
         /\ DOMAIN log' = DOMAIN log \cup {Len(log) + 1}
         /\ \A n \in DOMAIN log : log'[n] = log[n]
         /\ log'[Len(log) + 1] = [round |-> round, rule |-> turn, outcome |-> outcome]
<1> DEFINE e == [round |-> round, rule |-> turn, outcome |-> outcome]
           z == Len(log) + 1
<1>1. /\ TypedTypeOK /\ LogHolds /\ Origin /\ Settled /\ RoundHolds /\ OutcomesHold /\ TurnsHold
      /\ UNCHANGED failFast /\ Sent' = Sent
  BY RulesFrame
<1>2. turn \in DOMAIN Rules /\ InPhase(Rules[turn]) /\ Opens(Rules[turn], SeenKeys)
  BY DEF RuleRuns, RuleTurn, ShouldRun
<1>3. e \in Runs /\ log' = Append(log, e)
  BY <1>1, <1>2 DEF Runs, TypedTypeOK, Ran
<1>4. /\ log \in Seq(Runs) /\ Len(log) \in Nat /\ DOMAIN log = 1..Len(log)
      /\ \A n \in DOMAIN log : log[n] \in Runs /\ log[n].rule \in DOMAIN Rules
  BY <1>1, LogType
<1>5. /\ log' \in Seq(Runs) /\ Len(log') = z /\ DOMAIN log' = 1..z
      /\ \A n \in DOMAIN log : log'[n] = log[n]
      /\ log'[z] = e
  BY <1>3, <1>4, AppendProperties
<1>6. DOMAIN log' = DOMAIN log \cup {z} /\ z \notin DOMAIN log
  BY <1>4, <1>5
<1>7. e.round = round /\ e.rule = turn /\ e.outcome = outcome
  OBVIOUS
<1> HIDE DEF e
<1>8. GatesHold'
  <2>1. round = "meta" => Opens(Rules[turn], Sent)
    BY <1>1, <1>2, GateFacts
  <2> QED BY <1>1, <1>5, <1>6, <1>7, <2>1 DEF LogHolds, GatesHold
<1>9. PhasesInOrder'
  <2> SUFFICES ASSUME NEW i \in DOMAIN log', NEW j \in DOMAIN log', i < j, log'[i].outcome # "ok"
               PROVE  /\ log'[i].outcome = "issues" /\ ~failFast /\ log'[i].round = log'[j].round
                      /\ Rules[log'[i].rule].phase = Rules[log'[j].rule].phase
                      /\ Rules[log'[i].rule].failing = Rules[log'[j].rule].failing
    BY <1>1 DEF PhasesInOrder
  <2>1. i \in DOMAIN log /\ log'[i] = log[i]
    BY <1>4, <1>5, <1>6
  <2>2. CASE j \in DOMAIN log
    BY <1>1, <1>5, <2>1, <2>2 DEF LogHolds, PhasesInOrder
  <2>3. CASE j = z
    <3>1. /\ log[i].outcome = "issues" /\ ~failFast /\ log[i].round = round
          /\ InPhase(Rules[log[i].rule])
      BY <1>1, <1>4, <2>1 DEF OutcomesHold, Runs
    <3>2. <<Rules[log[i].rule].phase, Rules[log[i].rule].failing>>
            = <<Rules[turn].phase, Rules[turn].failing>>
      BY <1>2, <3>1 DEF InPhase
    <3>3. /\ Rules[log[i].rule].phase = Rules[turn].phase
          /\ Rules[log[i].rule].failing = Rules[turn].failing
      BY <3>2
    <3> QED BY <1>5, <1>7, <2>1, <2>3, <3>1, <3>3
  <2> QED BY <1>6, <2>2, <2>3
<1>10. ASSUME NEW n \in DOMAIN log', NEW m \in DOMAIN log',
              log'[n].rule = log'[m].rule, log'[n].round = log'[m].round
       PROVE  n = m
  <2>1. \A x \in DOMAIN log : ~(log[x].rule = turn /\ log[x].round = round)
    BY <1>1, <1>2, TurnFacts DEF TurnsHold
  <2> QED BY <1>1, <1>5, <1>6, <1>7, <1>10, <2>1 DEF LogHolds
<1>11. LogHolds'
  BY <1>8, <1>9, <1>10 DEF LogHolds
<1> QED BY <1>4, <1>5, <1>6, <1>11 DEF e

LEMMA RuleIdleStep ==
  ASSUME TypedInv, RuleIdle
  PROVE  TypedInv'
<1>1. /\ stage = "rules" /\ turn \in DOMAIN Rules /\ UNCHANGED Untouched /\ turn' = turn + 1
      /\ ~(InPhase(Rules[turn]) /\ Opens(Rules[turn], SeenKeys))
      /\ UNCHANGED <<stage, iss, result, round, loop, log>>
  BY DEF RuleIdle, RuleTurn, RuleRuns, ShouldRun, NextRule
<1>2. TypedTypeOK /\ TypedTypeOK'
  BY <1>1, RulesFrame, RulesType DEF TypedTypeOK
<1>3. TurnsHold'
  <2>1. \A n \in DOMAIN log : log[n].rule \in DOMAIN Rules
    BY <1>2, LogType
  <2>2. \A n \in DOMAIN log : log[n].round = round => Before(log[n].rule)'
    BY <1>1, <1>2, <2>1, TurnOver, RulesFrame DEF TurnsHold
  <2>3. ASSUME NEW i \in DOMAIN Rules, Before(i)', Opens(Rules[i], Sent)
        PROVE  Before(i)
    <3>1. Opens(Rules[i], SeenKeys)
      BY <1>1, <2>3, GateFacts, RulesFrame
    <3> QED BY <1>1, <1>2, <2>3, <3>1, TurnOver
  <2> QED BY <1>1, <2>2, <2>3, RulesFrame DEF TurnsHold
<1>4. RoundHolds'
  BY <1>1, RulesFrame DEF RoundHolds
<1>5. OutcomesHold'
  BY <1>1, RulesFrame DEF OutcomesHold, Objected, InPhase
<1> QED BY <1>1, <1>2, <1>3, <1>4, <1>5, RulesFrame DEF TypedInv, RulesHold

\* A rule has run, and the loop goes on.
LEMMA RanOn ==
  ASSUME TypedInv, stage = "rules", UNCHANGED Untouched, RuleRuns,
         NEW outcome \in {"ok", "issues"}, Ran(outcome), NextRule, UNCHANGED <<round, loop>>,
         iss' = IF outcome = "ok" THEN iss ELSE iss \cup {Problem("rule", Root)},
         outcome = "issues" => ~failFast
  PROVE  TypedInv'
<1> DEFINE z == Len(log) + 1
<1>1. /\ TypedTypeOK /\ turn \in DOMAIN Rules /\ turn' = turn + 1 /\ InPhase(Rules[turn])
      /\ UNCHANGED <<stage, result>>
  BY RulesFrame DEF NextRule, RuleRuns, RuleTurn
<1>2. /\ LogHolds' /\ log' \in Seq(Runs) /\ DOMAIN log' = DOMAIN log \cup {z}
      /\ \A n \in DOMAIN log : log'[n] = log[n]
      /\ log'[z].round = round /\ log'[z].rule = turn /\ log'[z].outcome = outcome
  BY RanFacts
<1> HIDE DEF z
<1>3. TypedTypeOK'
  BY <1>1, <1>2, RulesFrame, RulesType DEF TypedTypeOK
<1>4. TurnsHold'
  <2>1. \A n \in DOMAIN log : log[n].rule \in DOMAIN Rules
    BY <1>1, LogType
  <2>2. ASSUME NEW n \in DOMAIN log', log'[n].round = round
        PROVE  Before(log[n].rule)'
    <3>1. CASE n \in DOMAIN log
      <4>1. log[n].rule \in DOMAIN Rules /\ Before(log[n].rule) /\ log'[n] = log[n]
        BY <1>2, <2>1, <2>2, <3>1, RulesFrame DEF TurnsHold
      <4>2. \A i \in DOMAIN Rules : Before(i) => Before(i)'
        BY <1>1, TurnOver
      <4> QED BY <4>1, <4>2
    <3>2. CASE n = z
      <4>1. turn < turn' /\ <<Rules[turn].phase, Rules[turn].failing>> = Phases[loop']
        BY <1>1, TurnFacts DEF InPhase
      <4> QED BY <1>2, <3>2, <4>1 DEF Before, InPhase
    <3> QED BY <1>2, <2>2, <3>1, <3>2
  <2>3. ASSUME NEW i \in DOMAIN Rules, Before(i)', Opens(Rules[i], Sent)
        PROVE  \E n \in DOMAIN log' : log'[n].rule = i /\ log'[n].round = round
    <3>1. CASE Before(i)
      BY <1>2, <2>3, <3>1, RulesFrame DEF TurnsHold
    <3>2. CASE i = turn
      BY <1>2, <3>2
    <3> QED BY <1>1, <2>3, <3>1, <3>2, TurnOver
  <2>4. Sent' = Sent /\ round' = round
    BY RulesFrame
  <2> QED BY <2>2, <2>3, <2>4 DEF TurnsHold
<1>5. RoundHolds'
  BY <1>2, RulesFrame DEF RoundHolds
<1>6. OutcomesHold'
  <2>1. iss' = IF Objected' THEN {Problem("rule", Root)} ELSE {}
    BY <1>2, RulesFrame DEF OutcomesHold, Objected
  <2>2. \A n \in DOMAIN log' : log'[n].outcome # "fatal"
    BY <1>2, RulesFrame DEF OutcomesHold
  <2>3. \A n \in DOMAIN log' : log'[n].outcome = "issues" =>
          ~failFast /\ log'[n].round = round /\ InPhase(Rules[log'[n].rule])
    BY <1>1, <1>2, RulesFrame DEF OutcomesHold
  <2> QED BY <2>1, <2>2, <2>3, RulesFrame DEF OutcomesHold, InPhase
<1> QED BY <1>1, <1>2, <1>3, <1>4, <1>5, <1>6, RulesFrame DEF TypedInv, RulesHold

\* A rule has run, and the call ends with it.
LEMMA RanOut ==
  ASSUME TypedInv, stage = "rules", UNCHANGED Untouched, RuleRuns,
         NEW outcome \in {"issues", "fatal"}, Ran(outcome), Ends("rejected"),
         UNCHANGED <<round, loop, turn>>,
         iss' = IF outcome = "fatal" THEN {Outage} ELSE iss \cup {Problem("rule", Root)}
  PROVE  TypedInv'
<1> DEFINE z == Len(log) + 1
<1>1. /\ TypedTypeOK /\ stage' = "done" /\ result' = "rejected"
  BY RulesFrame DEF Ends
<1>2. /\ LogHolds' /\ log' \in Seq(Runs) /\ DOMAIN log' = DOMAIN log \cup {z} /\ Len(log') = z
      /\ \A n \in DOMAIN log : log'[n] = log[n]
      /\ log'[z].round = round /\ log'[z].rule = turn /\ log'[z].outcome = outcome
  BY RanFacts
<1> HIDE DEF z
<1>3. TypedTypeOK'
  BY <1>1, <1>2, RulesFrame DEF TypedTypeOK
<1>4. OneLayerReports'
  <2>1. CASE outcome = "fatal"
    <3>1. log' # <<>> /\ log'[Len(log')].outcome = "fatal" /\ iss' = {Outage}
      BY <1>2, <2>1
    <3> QED BY <3>1 DEF OneLayerReports
  <2>2. CASE outcome = "issues"
    <3>1. /\ \E n \in DOMAIN log' : log'[n].outcome = "issues"
          /\ \A n \in DOMAIN log' : log'[n].outcome # "fatal"
          /\ iss' = {Problem("rule", Root)}
      BY <1>2, <2>2, RulesFrame DEF OutcomesHold
    <3> QED BY <3>1 DEF OneLayerReports
  <2> QED BY <2>1, <2>2
<1>5. (Skips \/ ~WithMeta) => \A n, m \in DOMAIN log' : log'[n].round = log'[m].round
  BY <1>2, RulesFrame DEF RoundHolds
<1>6. DoneHolds'
  BY <1>1, <1>4, <1>5, RulesFrame DEF DoneHolds
<1> QED BY <1>1, <1>2, <1>3, <1>6, RulesFrame DEF TypedInv

\* When the last loop is over, every rule is behind it.
LEMMA AllOver ==
  ASSUME TypedTypeOK, turn = Len(Rules) + 1, loop = 3, NEW i \in DOMAIN Rules
  PROVE  Before(i)
BY LoopOver, RulesType

LEMMA RulesPassedStep ==
  ASSUME TypedInv, RulesPassed
  PROVE  TypedInv'
<1>1. /\ stage = "rules" /\ turn = Len(Rules) + 1 /\ iss = {} /\ loop = 3 /\ UNCHANGED Untouched
      /\ UNCHANGED <<iss, log>>
  BY PhasesFacts DEF RulesPassed
<1>2. /\ TypedTypeOK /\ LogHolds'
      /\ \A n \in DOMAIN log : log[n] \in Runs /\ log[n].rule \in DOMAIN Rules
  BY <1>1, RulesFrame, LogType
<1>3. \A n \in DOMAIN log : log[n].outcome = "ok"
  BY <1>1, <1>2, RulesFrame DEF OutcomesHold, Objected, Runs
<1>4. CASE WithMeta /\ round = "parse"
  <2>1. round' = "meta" /\ loop' = 1 /\ turn' = 1 /\ UNCHANGED <<stage, result>>
    BY <1>4 DEF RulesPassed, StartRound
  <2>2. TypedTypeOK'
    BY <1>1, <2>1, RulesFrame, RulesType, PhasesFacts DEF TypedTypeOK
  <2>3. ~Skips /\ \A n \in DOMAIN log : log[n].round = "parse"
    BY <1>1, <1>4, RulesFrame DEF RoundHolds
  <2>4. RoundHolds'
    BY <1>1, <1>4, <2>1, <2>3, RulesFrame DEF RoundHolds
  <2>5. OutcomesHold'
    BY <1>1, <1>3 DEF OutcomesHold, Objected
  <2>6. TurnsHold'
    <3>1. ASSUME NEW i \in DOMAIN Rules
          PROVE  ~Before(i)'
      BY <2>1, RulesType DEF Before
    <3> QED BY <1>1, <2>1, <2>3, <3>1 DEF TurnsHold
  <2> QED BY <1>1, <1>2, <2>1, <2>2, <2>4, <2>5, <2>6, RulesFrame DEF TypedInv, RulesHold
<1>5. CASE ~(WithMeta /\ round = "parse")
  <2>1. stage' = "done" /\ result' = "accepted" /\ UNCHANGED <<round, loop, turn>>
    BY <1>5 DEF RulesPassed, Ends
  <2>2. TypedTypeOK'
    BY <1>1, <2>1, RulesFrame DEF TypedTypeOK
  <2>3. \A i \in DOMAIN Rules : Opens(Rules[i], Sent) => HasRun(i, "ok")
    BY <1>1, <1>2, <1>3, AllOver, RulesFrame DEF TurnsHold, HasRun
  <2>4. (Skips \/ ~WithMeta) => \A n, m \in DOMAIN log : log[n].round = log[m].round
    BY <1>1, RulesFrame DEF RoundHolds
  <2>5. \A i \in DOMAIN Rules : Opens(Rules[i], Sent)' => HasRun(i, "ok")'
    BY <1>1, <2>3, RulesFrame DEF HasRun, Opens
  <2>6. DoneHolds'
    BY <1>1, <1>3, <2>1, <2>4, <2>5, RulesFrame DEF DoneHolds
  <2> QED BY <1>1, <1>2, <2>1, <2>2, <2>6, RulesFrame DEF TypedInv
<1> QED BY <1>4, <1>5

LEMMA TypedReturnStep ==
  ASSUME TypedInv, TypedReturn
  PROVE  TypedInv'
<1>1. /\ UNCHANGED <<schema, late, shared, misfits>>
      /\ pc' = "idle" /\ result' = "none" /\ src' = Nothing /\ cursor' = 1 /\ out' = Nothing
      /\ pm' = NoPresence /\ iss' = {} /\ extra' = EntriesOf({})
      /\ failFast' = FALSE /\ view' = Keys /\ input' = Nothing /\ held' = {}
      /\ entry' = "Parse" /\ place' = "root" /\ stage' = "idle" /\ pass' = 0
      /\ meta' = NoPresence /\ round' = "parse" /\ loop' = 1 /\ turn' = 1 /\ log' = <<>>
      /\ TypedTypeOK /\ BuiltType
  BY DEF TypedReturn, Return, Enter, builtVars, TypedInv
<1>2. Nothing \in [Keys -> Values] /\ 1 \in 1..(Len(FieldOrder) + 1)
      /\ NoPresence \in [Keys -> SUBSET {"Seen", "WasNull", "DefaultApplied"}]
  BY OrderFacts DEF Nothing, Values, NoPresence
<1>3. ObjectTypeOK'
  BY <1>1, <1>2, EntriesType DEF BuiltType, ObjectTypeOK
<1>4. ParseInv' /\ BuiltType'
  BY <1>1, <1>3 DEF ParseInv, BuiltType
<1>5. TypedTypeOK'
  BY <1>1, <1>2, RulesType, PhasesFacts DEF TypedTypeOK, Entries, Places
<1>6. LogHolds'
  BY <1>1 DEF LogHolds, GatesHold, PhasesInOrder
<1> QED BY <1>1, <1>4, <1>5, <1>6 DEF TypedInv

LEMMA TypedStutter ==
  ASSUME TypedInv, UNCHANGED typedVars
  PROVE  TypedInv'
<1>1. /\ UNCHANGED <<schema, late, shared, failFast, view, input, held>>
      /\ UNCHANGED <<src, pc, cursor, out, extra, pm, iss, result>>
      /\ UNCHANGED <<misfits, entry, place, stage, pass, meta, round, loop, turn, log>>
  BY DEF typedVars, objectVars, builtVars, optionVars, parseVars, callVars, rulesVars
<1>2. ParseInv => ParseInv'
  BY <1>1, ParseUnchanged DEF objectVars, builtVars, optionVars, parseVars
<1>3. (Origin' <=> Origin) /\ (Settled' <=> Settled) /\ (LogHolds' <=> LogHolds) /\ Unfit' = Unfit
      /\ Problems(input)' = Problems(input) /\ Sent' = Sent
  BY <1>1, SameCall
<1>4. RulesHold <=> RulesHold'
  BY <1>1, <1>3
     DEF RulesHold, RoundHolds, OutcomesHold, TurnsHold, Objected, Before, InPhase, Opens,
         WithMeta, Skips
<1>5. DoneHolds <=> DoneHolds'
  BY <1>1, <1>3 DEF DoneHolds, OneLayerReports, HasRun, Opens, WithMeta, Skips
<1>6. TypedTypeOK' /\ BuiltType'
  BY <1>1 DEF TypedInv, TypedTypeOK, BuiltType
<1> QED BY <1>1, <1>2, <1>3, <1>4, <1>5, <1>6 DEF TypedInv, WithMeta

LEMMA TypedInvStep == TypedInv /\ [TypedNext]_typedVars => TypedInv'
<1> SUFFICES ASSUME TypedInv, [TypedNext]_typedVars PROVE TypedInv'
  OBVIOUS
<1>1. CASE RulePasses
  BY <1>1, RanOn DEF RulePasses, RuleRuns, RuleTurn
<1>2. CASE RuleObjects
  <2>1. /\ stage = "rules" /\ RuleRuns /\ Ran("issues") /\ iss' = iss \cup {Problem("rule", Root)}
        /\ UNCHANGED Untouched /\ UNCHANGED <<round, loop>>
        /\ IF failFast THEN Ends("rejected") /\ UNCHANGED turn ELSE NextRule
    BY <1>2 DEF RuleObjects, RuleRuns, RuleTurn
  <2>2. CASE failFast
    BY <2>1, <2>2, RanOut
  <2>3. CASE ~failFast
    BY <2>1, <2>3, RanOn
  <2> QED BY <2>2, <2>3
<1>3. CASE RuleFails
  BY <1>3, RanOut DEF RuleFails, RuleRuns, RuleTurn
<1> QED BY <1>1, <1>2, <1>3, TypedCallStep, InnerStep, InnerRejectedStep, SecondPassStep,
           InnerAcceptedStep, MisfitStep, FitStep, StopStep, NextPhaseStep, RuleIdleStep,
           RulesPassedStep, TypedReturnStep, TypedStutter DEF TypedNext

LEMMA TypedInvariant == TypedSpec => []TypedInv
BY TypedInvInit, TypedInvStep, PTL DEF TypedSpec

(***************************************************************************)
(* A gate opens for what the document sends, in the round that has the     *)
(* document's presence, and that presence is not the second pass's.        *)
(***************************************************************************)
THEOREM GatesFollowTheDocument == TypedSpec => []PresenceRules
<1>1. TypedInv => PresenceRules
  <2> SUFFICES ASSUME TypedInv, pass = 2, NEW k \in Known PROVE meta[k] = PresenceOf(k)
    BY DEF TypedInv, LogHolds, PresenceRules, MetaIsOfTheInput
  <2>1. meta[k] = FlagsOf(input, k)
    BY DEF TypedInv, Origin, SecondGiven
  <2> QED BY <2>1 DEF FlagsOf, PresenceOf
<1> QED BY <1>1, TypedInvariant, PTL

(***************************************************************************)
(* The layers and the phases report in their order, one at a time.         *)
(***************************************************************************)
THEOREM LayersInOrder == TypedSpec => []FailuresInOrder
<1>1. TypedInv => FailuresInOrder
  BY DEF TypedInv, LogHolds, DoneHolds, FailuresInOrder, OneLayerReports
<1> QED BY <1>1, TypedInvariant, PTL

(***************************************************************************)
(* What is accepted has been checked, by the schema and by every rule.     *)
(***************************************************************************)
THEOREM AcceptedChecked == TypedSpec => []AcceptedIsChecked
<1>1. TypedInv => AcceptedIsChecked
  <2> SUFFICES ASSUME TypedInv, result = "accepted"
               PROVE  /\ Problems(input) = {} /\ Unfit = {}
                      /\ \A i \in DOMAIN Rules :
                           /\ ~HasRun(i, "issues") /\ ~HasRun(i, "fatal")
                           /\ (WithMeta \/ ~Skips) /\ Opens(Rules[i], Sent) => HasRun(i, "ok")
    BY DEF TypedInv, AcceptedIsChecked
  <2>1. stage = "done"
    BY DEF TypedInv, TypedTypeOK, ParseInv, ObjectTypeOK
  <2> QED BY <2>1 DEF TypedInv, DoneHolds, HasRun
<1> QED BY <1>1, TypedInvariant, PTL

(***************************************************************************)
(* No rule runs twice in Parse, or in ParseFromWithMeta.                   *)
(***************************************************************************)
THEOREM NoRuleTwice == TypedSpec => []RulesRunOnce
<1>1. TypedInv => RulesRunOnce
  <2> SUFFICES ASSUME TypedInv, ~WithMeta \/ Skips, NEW i \in DOMAIN log, NEW j \in DOMAIN log,
                      log[i].rule = log[j].rule
               PROVE  i = j
    BY DEF RulesRunOnce
  <2>1. log[i].round = log[j].round
    <3>1. stage \in {"rules", "done"}
      BY NoLog DEF TypedInv, TypedTypeOK
    <3> QED BY <3>1 DEF TypedInv, RulesHold, RoundHolds, DoneHolds
  <2> QED BY <2>1 DEF TypedInv, LogHolds
<1> QED BY <1>1, TypedInvariant, PTL

(***************************************************************************)
(* The object schema takes its own output, but for codecs, and keeps it.   *)
(***************************************************************************)
THEOREM SecondPassIdempotent == TypedSpec => []SecondPassChangesNothing
<1>1. ASSUME TypedInv, stage = "inner", pass = 2, NEW p \in iss
      PROVE  p.code = "custom" \/ Field(p.at).kind = "codec"
  <2>1. Origin /\ schema \in Schemas /\ ParseInv /\ pc \in {"known", "refine", "parsed"}
    BY <1>1 DEF TypedInv, BuiltType
  <2>2. \A k \in Known : \A q \in ProblemsAt(src, k) : Field(q.at).kind = "codec"
    BY <1>1, <2>1, SecondProblems DEF Problem
  <2>3. \A q \in Problems(src) : Field(q.at).kind = "codec"
    BY <1>1, <2>1, <2>2, SecondProblems DEF Problems, Unexpected
  <2>4. CASE pc = "known"
    <3>1. PICK k \in Visited : p \in ProblemsAt(src, k)
      BY <1>1, <2>1, <2>4 DEF ParseInv, LoopHolds
    <3> QED BY <2>1, <2>2, <3>1, VisitedFacts DEF ParseInv
  <2>5. CASE pc = "refine" \/ (pc = "parsed" /\ result # "rejected")
    BY <1>1, <2>1, <2>5 DEF ParseInv, PassHolds
  <2>6. CASE pc = "parsed" /\ result = "rejected"
    BY <1>1, <2>1, <2>3, <2>6 DEF ParseInv, RefusalHolds, Exact, Problem
  <2> QED BY <2>1, <2>4, <2>5, <2>6
<1>2. ASSUME TypedInv, stage = "bind", pass = 2, NEW k \in Known
      PROVE  out[k] = Made(k) \/ (k = Target /\ out[k] = "made")
  <2>1. Origin /\ schema \in Schemas /\ PassHolds
    BY <1>2 DEF TypedInv, BuiltType, ParseInv
  <2>2. Made(k) = MadeOf(input, k)
    BY DEF Made, MadeOf
  <2> QED BY <1>2, <2>1, <2>2, PassedTwice
<1>3. TypedInv => SecondPassChangesNothing
  BY <1>1, <1>2 DEF SecondPassChangesNothing
<1> QED BY <1>3, TypedInvariant, PTL
=============================================================================
