---------------------------- MODULE JsonDocument ----------------------------
(***************************************************************************)
(* The document under the decoder: the ground truth every layer above is   *)
(* judged by.  The lexer is encoding/json (or another driver), which       *)
(* accepts only well-formed JSON; what it has accepted so far is a stack   *)
(* of open containers.  Nothing here is goskema's own code.                *)
(*                                                                         *)
(* Text is abstract: a key or a string is a member of Keys, and EmptyKey   *)
(* stands for "".  A JSON Pointer is the sequence of its reference tokens, *)
(* so the escaping of "~" and "/" does not appear.                         *)
(***************************************************************************)
EXTENDS Integers, Sequences, SequencesExt

CONSTANTS
  Keys,         \* the texts strings and object keys are made of
  EmptyKey,     \* the empty text ""
  LiteralKinds, \* the literals documents use, among Number, Bool, Null
  TokenSizes,   \* bytes a token may take
  MaxNesting,   \* bound: containers open at once
  MaxItems,     \* bound: elements of one array
  MaxOffset     \* bound: bytes of one document

ASSUME KeysAssumption == EmptyKey \in Keys
ASSUME LiteralsAssumption == LiteralKinds \subseteq {"Number", "Bool", "Null"}
ASSUME BoundsAssumption ==
  /\ TokenSizes \subseteq Nat \ {0}
  /\ MaxNesting \in Nat /\ MaxItems \in Nat /\ MaxOffset \in Nat

VARIABLES
  doc,       \* the containers that are open
  input,     \* "open", "closed" (one value was read) or "broken"
  offset,    \* bytes consumed, -1 before the first token
  repeated   \* history: some object so far has had a key twice

documentVars == <<doc, input, offset, repeated>>

ContainerKinds == {"object", "array"}
Literals       == {"Number", "Bool", "Null"}

(***************************************************************************)
(* An open container.  atKey: an object's next token is a key or "}".      *)
(* seen: the keys it has had, key: the latest of them.  count: the values  *)
(* an array has begun.                                                     *)
(***************************************************************************)
Container == [kind : ContainerKinds, atKey : BOOLEAN, seen : SUBSET Keys,
              key : Keys, count : Nat]

NewContainer(kind) ==
  [kind |-> kind, atKey |-> kind = "object", seen |-> {}, key |-> EmptyKey,
   count |-> 0]

SetLast(s, e) == [s EXCEPT ![Len(s)] = e]

AtKey(d)    == d # << >> /\ Last(d).kind = "object" /\ Last(d).atKey
MayClose(d) == d # << >> /\ (Last(d).kind = "array" \/ Last(d).atKey)

RoomForValue(d) ==
  ~AtKey(d) /\ (d # << >> /\ Last(d).kind = "array" => Last(d).count < MaxItems)

\* A value begins: the innermost array counts it.
ValueBegun(d) ==
  IF d # << >> /\ Last(d).kind = "array"
    THEN SetLast(d, [Last(d) EXCEPT !.count = @ + 1])
    ELSE d

KeyBegun(d, text) ==
  SetLast(d, [Last(d) EXCEPT !.atKey = FALSE, !.key = text,
                             !.seen = @ \cup {text}])

\* A value is complete: the innermost object is back at a key.
ValueDone(d) ==
  IF d # << >> /\ Last(d).kind = "object"
    THEN SetLast(d, [Last(d) EXCEPT !.atKey = TRUE])
    ELSE d

(***************************************************************************)
(* The lexer's steps.  A complete top-level value closes the input.        *)
(***************************************************************************)
Consume(d) ==
  /\ input = "open"
  /\ doc' = d
  /\ input' = IF d = << >> THEN "closed" ELSE "open"
  /\ \E n \in TokenSizes :
       LET end == (IF offset < 0 THEN 0 ELSE offset) + n
       IN  end <= MaxOffset /\ offset' = end

LexOpen(kind) ==
  /\ RoomForValue(doc) /\ Len(doc) < MaxNesting
  /\ Consume(Append(ValueBegun(doc), NewContainer(kind)))
  /\ UNCHANGED repeated

LexClose ==
  /\ MayClose(doc)
  /\ Consume(ValueDone(Front(doc)))
  /\ UNCHANGED repeated

LexKey(text) ==
  /\ AtKey(doc)
  /\ Consume(KeyBegun(doc, text))
  /\ repeated' = (repeated \/ text \in Last(doc).seen)

LexScalar ==
  /\ RoomForValue(doc)
  /\ Consume(ValueDone(ValueBegun(doc)))
  /\ UNCHANGED repeated

\* Malformed or cut-off input, a failing reader, or nothing left to read.
LexError ==
  /\ input' = IF input = "open" THEN "broken" ELSE input
  /\ UNCHANGED <<doc, offset, repeated>>

DocumentInit ==
  doc = << >> /\ input = "open" /\ offset = -1 /\ repeated = FALSE

DocumentTypeOK ==
  /\ doc \in Seq(Container)
  /\ input \in {"open", "closed", "broken"}
  /\ offset \in Int
  /\ repeated \in BOOLEAN

(***************************************************************************)
(* Where a document stands: one segment for each open container.  The      *)
(* first n of them are the JSON Pointer to the value in progress there.    *)
(***************************************************************************)
Segment(c) == IF c.kind = "object" THEN c.key ELSE c.count - 1
PointerTo(d, n) == [i \in 1..n |-> Segment(d[i])]

Paths == Seq(Keys \cup Nat)

-----------------------------------------------------------------------------
(* Tokens of the engine (internal/engine/engine.go). *)
TokenKinds == {"BeginObject", "EndObject", "BeginArray", "EndArray", "Key",
               "String"} \cup Literals
Tokens     == [kind : TokenKinds, text : Keys]

Token(kind) == [kind |-> kind, text |-> EmptyKey]
Text(kind, text) == [kind |-> kind, text |-> text]
NoToken     == Token("none")   \* NextToken returned an error instead
BeginOf(c)  == IF c = "object" THEN "BeginObject" ELSE "BeginArray"
EndOf(c)    == IF c = "object" THEN "EndObject" ELSE "EndArray"
=============================================================================
