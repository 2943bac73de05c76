----------------------------- MODULE JsonSource -----------------------------
(***************************************************************************)
(* jsonSource (source/json/json.go): the token source over encoding/json.  *)
(* The decoder hands out raw delimiters, strings and literals; jsonSource  *)
(* keeps a stack of its own to tell a key from a string value, since both  *)
(* arrive as a Go string.  One action is one call of NextToken.            *)
(***************************************************************************)
EXTENDS JsonDocument

VARIABLES
  src,   \* jsonSource.stack
  tok    \* what the latest NextToken returned

sourceVars == <<documentVars, src, tok>>

Frame == [kind : ContainerKinds, expectingKey : BOOLEAN]

\* if top.kind == kindObject && !top.expectingKey { top.expectingKey = true }
ValueSeen(s) ==
  IF s # << >> /\ Last(s).kind = "object" /\ ~Last(s).expectingKey
    THEN SetLast(s, [Last(s) EXCEPT !.expectingKey = TRUE])
    ELSE s

Pushed(s, kind) == Append(s, [kind |-> kind, expectingKey |-> kind = "object"])
\* Mutant: a nested "}" or "]" does not end the value it belongs to.
PoppedOnly(s) == IF s # << >> THEN Front(s) ELSE s

Popped(s)       == ValueSeen(IF s # << >> THEN Front(s) ELSE s)
ExpectsKey(s)   == s # << >> /\ Last(s).kind = "object" /\ Last(s).expectingKey
KeySeen(s)      == SetLast(s, [Last(s) EXCEPT !.expectingKey = FALSE])

ReadOpen(kind) ==
  /\ LexOpen(kind)
  /\ src' = Pushed(src, kind)
  /\ tok' = Token(BeginOf(kind))

ReadClose ==
  /\ LexClose
  /\ src' = Popped(src)
  /\ tok' = Token(EndOf(Last(doc).kind))

ReadString(text) ==
  /\ LexKey(text) \/ LexScalar
  /\ IF ExpectsKey(src)
       THEN src' = KeySeen(src) /\ tok' = Text("Key", text)
       ELSE src' = ValueSeen(src) /\ tok' = Text("String", text)

ReadLiteral(kind) ==
  /\ LexScalar
  /\ src' = ValueSeen(src)
  /\ tok' = Token(kind)

ReadError ==
  /\ LexError
  /\ tok' = NoToken
  /\ UNCHANGED src

ReadToken ==
  \/ \E kind \in ContainerKinds : ReadOpen(kind)
  \/ ReadClose
  \/ \E text \in Keys : ReadString(text)
  \/ \E kind \in LiteralKinds : ReadLiteral(kind)

SourceInit == DocumentInit /\ src = << >> /\ tok = NoToken

SourceTypeOK ==
  /\ DocumentTypeOK
  /\ src \in Seq(Frame)
  /\ tok \in Tokens \cup {NoToken}

(***************************************************************************)
(* jsonSource's stack is the decoder's, container by container: its idea   *)
(* of whether a string is a key (json.go:83-88) is the decoder's after any *)
(* nesting of objects and arrays.  Resetting expectingKey too late, or not *)
(* at all after a nested "}" or "]", turns keys into string values.        *)
(***************************************************************************)
StackMirrorsDocument ==
  src = [i \in 1..Len(doc) |->
           [kind |-> doc[i].kind, expectingKey |-> doc[i].atKey]]
=============================================================================
