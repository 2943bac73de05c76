-------------------------- MODULE JsonSourceProofs --------------------------
(***************************************************************************)
(* Proofs about the document and the two stack machines that read it from  *)
(* the decoder, for all Keys and bounds: what the operations on their      *)
(* stacks return; that a step of jsonSource keeps its stack the decoder's  *)
(* (SourceStep); and that the duplicate detector reports what is repeated. *)
(***************************************************************************)
EXTENDS JsonSource, DupDetect, SequenceTheorems, FiniteSetTheorems, TLAPS

-----------------------------------------------------------------------------
(* Stacks as sequences. *)

LEMMA SetLastProperties ==
  ASSUME NEW S, NEW s \in Seq(S), s # << >>, NEW e \in S
  PROVE  /\ SetLast(s, e) \in Seq(S)
         /\ Len(SetLast(s, e)) = Len(s)
         /\ SetLast(s, e)[Len(s)] = e
         /\ \A i \in 1..Len(s) : i # Len(s) => SetLast(s, e)[i] = s[i]
BY ExceptSeq, EmptySeq, Len(s) \in 1..Len(s) DEF SetLast

LEMMA LastProperties ==
  ASSUME NEW S, NEW s \in Seq(S), s # << >>
  PROVE  Len(s) \in Nat \ {0} /\ Len(s) \in 1..Len(s)
         /\ Last(s) = s[Len(s)] /\ Last(s) \in S
BY EmptySeq, ElementOfSeq DEF Last

LEMMA FrontProperties ==
  ASSUME NEW S, NEW s \in Seq(S), s # << >>
  PROVE  /\ Front(s) \in Seq(S)
         /\ Len(Front(s)) = Len(s) - 1
         /\ \A i \in 1..Len(s) - 1 : Front(s)[i] = s[i]
<1>1. /\ Len(s) \in Nat \ {0} /\ Len(s) - 1 \in Int /\ 1 \in Int
      /\ \A i \in 1..(Len(s) - 1) : s[i] \in S
  BY LastProperties, ElementOfSeq
<1>2. Len(SubSeq(s, 1, Len(s) - 1)) =
        IF 1 <= Len(s) - 1 THEN Len(s) - 1 - 1 + 1 ELSE 0
  BY <1>1, SubSeqProperties, SMT
<1>3. SubSeq(s, 1, Len(s) - 1) \in Seq(S)
  OBVIOUS
<1>4. \A i \in 1..Len(s) - 1 : SubSeq(s, 1, Len(s) - 1)[i] = s[i]
  OBVIOUS
<1>5. \A k, l : k \in Nat /\ l = (IF 1 <= k THEN k - 1 + 1 ELSE 0) => l = k
  OBVIOUS
<1>6. Len(s) - 1 \in Nat
  BY <1>1
<1>7. Len(SubSeq(s, 1, Len(s) - 1)) = Len(s) - 1
  BY <1>2, <1>5, <1>6, Zenon
<1> QED BY <1>3, <1>4, <1>7, Zenon DEF Front

-----------------------------------------------------------------------------
(* The document's stack.  A step on the innermost container leaves the     *)
(* others alone.                                                           *)

Replaced(t, s, e) ==
  /\ Len(t) = Len(s) /\ t[Len(s)] = e
  /\ \A i \in 1..Len(s) : i # Len(s) => t[i] = s[i]

LEMMA SetLastReplaces ==
  ASSUME NEW S, NEW s \in Seq(S), s # << >>, NEW e \in S
  PROVE  SetLast(s, e) \in Seq(S) /\ Replaced(SetLast(s, e), s, e)
BY SetLastProperties, Zenon DEF Replaced

LEMMA SameReplaces ==
  ASSUME NEW S, NEW s \in Seq(S), s # << >>
  PROVE  Replaced(s, s, Last(s))
BY LastProperties, Zenon DEF Replaced

\* The outermost container is replaced only where it is the innermost.
LEMMA FirstReplaced ==
  ASSUME NEW s \in Seq(Container), s # << >>, NEW t \in Seq(Container), NEW e,
         Replaced(t, s, e)
  PROVE  /\ Len(t) = Len(s) /\ Len(s) \in Nat \ {0}
         /\ Len(s) = 1 => t[1] = e /\ Last(s) = s[1]
         /\ Len(s) > 1 => t[1] = s[1]
BY LastProperties, EmptySeq DEF Replaced

LEMMA ValueBegunProperties ==
  ASSUME NEW d \in Seq(Container)
  PROVE  /\ ValueBegun(d) \in Seq(Container)
         /\ d = << >> => ValueBegun(d) = << >>
         /\ d # << >> => Replaced(ValueBegun(d), d,
              IF Last(d).kind = "array"
                THEN [Last(d) EXCEPT !.count = @ + 1] ELSE Last(d))
<1>0. ASSUME NEW c \in Container
      PROVE  [c EXCEPT !.count = c.count + 1] \in Container
  <2>1. c.count \in Nat
    BY DEF Container
  <2>2. c.count + 1 \in Nat
    BY <2>1
  <2> QED BY <2>2 DEF Container
<1>1. CASE d # << >> /\ Last(d).kind = "array"
  <2> DEFINE counted == [Last(d) EXCEPT !.count = Last(d).count + 1]
  <2>1. Last(d) \in Container
    BY <1>1, LastProperties, Zenon
  <2>2. counted \in Container
    BY <1>0, <2>1
  <2>3. ValueBegun(d) = SetLast(d, counted)
    BY <1>1 DEF ValueBegun
  <2>4. /\ SetLast(d, counted) \in Seq(Container)
        /\ Replaced(SetLast(d, counted), d, counted)
    <3> HIDE DEF counted
    <3> QED BY <1>1, <2>2, SetLastReplaces, Zenon
  <2> QED BY <1>1, <2>3, <2>4, Zenon
<1>2. CASE ~(d # << >> /\ Last(d).kind = "array")
  BY <1>2, SameReplaces DEF ValueBegun
<1> QED BY <1>1, <1>2

LEMMA ValueDoneProperties ==
  ASSUME NEW d \in Seq(Container)
  PROVE  /\ ValueDone(d) \in Seq(Container)
         /\ d = << >> => ValueDone(d) = << >>
         /\ d # << >> => Replaced(ValueDone(d), d,
              IF Last(d).kind = "object"
                THEN [Last(d) EXCEPT !.atKey = TRUE] ELSE Last(d))
<1>1. CASE d # << >> /\ Last(d).kind = "object"
  <2>1. Last(d) \in Container
    BY <1>1, LastProperties, Zenon
  <2>2. [Last(d) EXCEPT !.atKey = TRUE] \in Container
    BY <2>1 DEF Container
  <2>3. ValueDone(d) = SetLast(d, [Last(d) EXCEPT !.atKey = TRUE])
    BY <1>1 DEF ValueDone
  <2> QED BY <1>1, <2>2, <2>3, SetLastReplaces
<1>2. CASE ~(d # << >> /\ Last(d).kind = "object")
  BY <1>2, SameReplaces DEF ValueDone
<1> QED BY <1>1, <1>2

LEMMA KeyBegunProperties ==
  ASSUME NEW d \in Seq(Container), d # << >>, NEW k \in Keys
  PROVE  /\ KeyBegun(d, k) \in Seq(Container)
         /\ Replaced(KeyBegun(d, k), d,
              [Last(d) EXCEPT !.atKey = FALSE, !.key = k, !.seen = @ \cup {k}])
<1>1. Last(d) \in Container
  BY LastProperties, Zenon
<1>2. [Last(d) EXCEPT !.atKey = FALSE, !.key = k, !.seen = @ \cup {k}] \in Container
  BY <1>1 DEF Container
<1> QED BY <1>2, SetLastReplaces DEF KeyBegun

LEMMA NewContainerType ==
  ASSUME NEW kind \in ContainerKinds
  PROVE  NewContainer(kind) \in Container
BY KeysAssumption DEF NewContainer, Container

-----------------------------------------------------------------------------
(* The stack of jsonSource. *)

LEMMA ValueSeenProperties ==
  ASSUME NEW s \in Seq(Frame)
  PROVE  /\ ValueSeen(s) \in Seq(Frame)
         /\ s = << >> => ValueSeen(s) = << >>
         /\ s # << >> => Replaced(ValueSeen(s), s,
              IF Last(s).kind = "object"
                THEN [Last(s) EXCEPT !.expectingKey = TRUE] ELSE Last(s))
<1>1. CASE s # << >> /\ Last(s).kind = "object" /\ ~Last(s).expectingKey
  <2>1. Last(s) \in Frame
    BY <1>1, LastProperties, Zenon
  <2>2. [Last(s) EXCEPT !.expectingKey = TRUE] \in Frame
    BY <2>1 DEF Frame
  <2>3. ValueSeen(s) = SetLast(s, [Last(s) EXCEPT !.expectingKey = TRUE])
    BY <1>1 DEF ValueSeen
  <2> QED BY <1>1, <2>2, <2>3, SetLastReplaces
<1>2. CASE s # << >> /\ Last(s).kind = "object" /\ Last(s).expectingKey
  <2>1. Last(s) \in Frame
    BY <1>2, LastProperties, Zenon
  <2>2. [Last(s) EXCEPT !.expectingKey = TRUE] = Last(s)
    BY <1>2, <2>1 DEF Frame
  <2>3. ValueSeen(s) = s
    BY <1>2 DEF ValueSeen
  <2> QED BY <1>2, <2>2, <2>3, SameReplaces
<1>3. CASE ~(s # << >> /\ Last(s).kind = "object")
  BY <1>3, SameReplaces DEF ValueSeen
<1> QED BY <1>1, <1>2, <1>3

LEMMA KeySeenProperties ==
  ASSUME NEW s \in Seq(Frame), s # << >>
  PROVE  /\ KeySeen(s) \in Seq(Frame)
         /\ Replaced(KeySeen(s), s, [Last(s) EXCEPT !.expectingKey = FALSE])
<1>1. Last(s) \in Frame
  BY LastProperties, Zenon
<1>2. [Last(s) EXCEPT !.expectingKey = FALSE] \in Frame
  BY <1>1 DEF Frame
<1> QED BY <1>2, SetLastReplaces DEF KeySeen

-----------------------------------------------------------------------------
(* jsonSource's stack and the document's, step by step. *)

FrameOf(c) == [kind |-> c.kind, expectingKey |-> c.atKey]

SrcMirrors(s, d) ==
  Len(s) = Len(d) /\ \A i \in 1..Len(d) : s[i] = FrameOf(d[i])

LEMMA FrameExpecting ==
  ASSUME NEW f \in Frame, NEW b \in BOOLEAN
  PROVE  [f EXCEPT !.expectingKey = b] = [kind |-> f.kind, expectingKey |-> b]
<1> DEFINE g == [f EXCEPT !.expectingKey = b]
<1>1. g \in Frame /\ g.kind = f.kind /\ g.expectingKey = b
  BY DEF Frame
<1>2. g = [kind |-> g.kind, expectingKey |-> g.expectingKey]
  <2> HIDE DEF g
  <2> QED BY <1>1 DEF Frame
<1> QED BY <1>1, <1>2, Zenon

LEMMA SrcMirrorsIsEquality ==
  ASSUME NEW s \in Seq(Frame), NEW d \in Seq(Container)
  PROVE  SrcMirrors(s, d) <=>
           s = [i \in 1..Len(d) |->
                  [kind |-> d[i].kind, expectingKey |-> d[i].atKey]]
<1>1. Len(d) \in Nat /\ s = [i \in 1..Len(s) |-> s[i]] /\ Len(s) \in Nat
  OBVIOUS
<1>2. ASSUME SrcMirrors(s, d)
      PROVE  s = [i \in 1..Len(d) |->
                    [kind |-> d[i].kind, expectingKey |-> d[i].atKey]]
  <2>1. [i \in 1..Len(s) |-> s[i]] = [i \in 1..Len(d) |-> FrameOf(d[i])]
    BY <1>2 DEF SrcMirrors
  <2> QED BY <1>1, <2>1 DEF FrameOf
<1>3. ASSUME s = [i \in 1..Len(d) |->
                    [kind |-> d[i].kind, expectingKey |-> d[i].atKey]]
      PROVE  SrcMirrors(s, d)
  <2>1. DOMAIN s = 1..Len(d) /\ DOMAIN s = 1..Len(s)
    BY <1>3
  <2>2. Len(s) = Len(d)
    BY <1>1, <2>1
  <2> QED BY <1>3, <2>2 DEF SrcMirrors, FrameOf
<1> QED BY <1>2, <1>3

LEMMA SrcReplaced ==
  ASSUME NEW s \in Seq(Frame), NEW d \in Seq(Container), d # << >>,
         NEW s2, NEW d2, NEW f, NEW c,
         SrcMirrors(s, d), Replaced(s2, s, f), Replaced(d2, d, c), f = FrameOf(c)
  PROVE  SrcMirrors(s2, d2)
BY DEF SrcMirrors, Replaced

LEMMA SrcNonEmpty ==
  ASSUME NEW s \in Seq(Frame), NEW d \in Seq(Container), SrcMirrors(s, d)
  PROVE  /\ s = << >> <=> d = << >>
         /\ d # << >> => Last(s) = FrameOf(Last(d))
<1>1. s = << >> <=> d = << >>
  BY EmptySeq DEF SrcMirrors
<1>2. ASSUME d # << >> PROVE Last(s) = FrameOf(Last(d))
  <2>1. s # << >>
    BY <1>1, <1>2
  <2>2. Last(s) = s[Len(s)] /\ Last(d) = d[Len(d)] /\ Len(d) \in 1..Len(d)
    BY <1>2, <2>1, LastProperties, Zenon
  <2> QED BY <2>2 DEF SrcMirrors
<1> QED BY <1>1, <1>2

LEMMA SrcValueBegun ==
  ASSUME NEW s \in Seq(Frame), NEW d \in Seq(Container), SrcMirrors(s, d)
  PROVE  SrcMirrors(s, ValueBegun(d))
<1>1. CASE d = << >>
  BY <1>1, ValueBegunProperties
<1>2. CASE d # << >>
  <2> DEFINE c == IF Last(d).kind = "array"
                    THEN [Last(d) EXCEPT !.count = @ + 1] ELSE Last(d)
  <2>1. Replaced(ValueBegun(d), d, c)
    BY <1>2, ValueBegunProperties
  <2>2. s # << >> /\ Last(s) = FrameOf(Last(d))
    BY <1>2, SrcNonEmpty
  <2>3. Replaced(s, s, Last(s))
    BY <2>2, SameReplaces, Zenon
  <2>4. Last(d) \in Container
    BY <1>2, LastProperties, Zenon
  <2>5. Last(s) = FrameOf(c)
    BY <2>2, <2>4 DEF FrameOf, Container
  <2> QED BY <1>2, <2>1, <2>3, <2>5, SrcReplaced, Zenon
<1> QED BY <1>1, <1>2

LEMMA SrcValueDone ==
  ASSUME NEW s \in Seq(Frame), NEW d \in Seq(Container), SrcMirrors(s, d)
  PROVE  SrcMirrors(ValueSeen(s), ValueDone(d))
<1>1. CASE d = << >>
  BY <1>1, SrcNonEmpty, ValueSeenProperties, ValueDoneProperties
<1>2. CASE d # << >>
  <2> DEFINE c == IF Last(d).kind = "object"
                    THEN [Last(d) EXCEPT !.atKey = TRUE] ELSE Last(d)
             f == IF Last(s).kind = "object"
                    THEN [Last(s) EXCEPT !.expectingKey = TRUE] ELSE Last(s)
  <2>1. Replaced(ValueDone(d), d, c)
    BY <1>2, ValueDoneProperties
  <2>2. s # << >> /\ Last(s) = FrameOf(Last(d))
    BY <1>2, SrcNonEmpty
  <2>3. Replaced(ValueSeen(s), s, f)
    BY <2>2, ValueSeenProperties
  <2>4. Last(d) \in Container
    BY <1>2, LastProperties, Zenon
  <2>5. f = FrameOf(c)
    <3>1. Last(s) \in Frame /\ Last(s).kind = Last(d).kind
      BY <2>2, LastProperties DEF FrameOf
    <3>2. CASE Last(d).kind = "object"
      <4>1. c.kind = Last(d).kind /\ c.atKey = TRUE
        BY <2>4, <3>2 DEF Container
      <4>2. f = [kind |-> Last(s).kind, expectingKey |-> TRUE]
        BY <3>1, <3>2, FrameExpecting
      <4> QED BY <3>1, <4>1, <4>2 DEF FrameOf
    <3>3. CASE Last(d).kind # "object"
      BY <2>2, <3>1, <3>3
    <3> QED BY <3>2, <3>3
  <2> HIDE DEF c, f
  <2> QED BY <1>2, <2>1, <2>3, <2>5, SrcReplaced, Zenon
<1> QED BY <1>1, <1>2

LEMMA SrcKey ==
  ASSUME NEW s \in Seq(Frame), NEW d \in Seq(Container), SrcMirrors(s, d),
         AtKey(d), NEW k \in Keys
  PROVE  /\ ExpectsKey(s)
         /\ SrcMirrors(KeySeen(s), KeyBegun(d, k))
<1>1. d # << >> /\ Last(d).kind = "object" /\ Last(d).atKey
  BY DEF AtKey
<1>2. s # << >> /\ Last(s) = FrameOf(Last(d))
  BY <1>1, SrcNonEmpty
<1>3. ExpectsKey(s)
  BY <1>1, <1>2 DEF ExpectsKey, FrameOf
<1> DEFINE c == [Last(d) EXCEPT !.atKey = FALSE, !.key = k, !.seen = @ \cup {k}]
           f == [Last(s) EXCEPT !.expectingKey = FALSE]
<1>4. Replaced(KeyBegun(d, k), d, c)
  BY <1>1, KeyBegunProperties
<1>5. Replaced(KeySeen(s), s, f)
  BY <1>2, KeySeenProperties
<1>6. Last(d) \in Container
  BY <1>1, LastProperties, Zenon
<1>7. f = FrameOf(c)
  <2>1. c.kind = Last(d).kind /\ c.atKey = FALSE
    BY <1>6 DEF Container
  <2>2. Last(s) \in Frame /\ Last(s).kind = Last(d).kind
    <3>1. Last(s) \in Frame
      BY <1>2, LastProperties, Zenon
    <3> QED BY <1>2, <3>1 DEF FrameOf
  <2>3. f = [kind |-> Last(s).kind, expectingKey |-> FALSE]
    BY <2>2, FrameExpecting, FALSE \in BOOLEAN, Zenon
  <2> QED BY <2>1, <2>2, <2>3 DEF FrameOf
<1> HIDE DEF c, f
<1> QED BY <1>1, <1>3, <1>4, <1>5, <1>7, SrcReplaced, Zenon

LEMMA SrcNotKey ==
  ASSUME NEW s \in Seq(Frame), NEW d \in Seq(Container), SrcMirrors(s, d),
         ~AtKey(d)
  PROVE  ~ExpectsKey(s)
BY SrcNonEmpty DEF ExpectsKey, AtKey, FrameOf

LEMMA SrcPush ==
  ASSUME NEW s \in Seq(Frame), NEW d \in Seq(Container), SrcMirrors(s, d),
         NEW kind \in ContainerKinds
  PROVE  /\ Pushed(s, kind) \in Seq(Frame)
         /\ SrcMirrors(Pushed(s, kind), Append(d, NewContainer(kind)))
<1> DEFINE f == [kind |-> kind, expectingKey |-> kind = "object"]
<1>1. f \in Frame /\ f = FrameOf(NewContainer(kind))
  BY DEF Frame, FrameOf, NewContainer
<1>2. NewContainer(kind) \in Container
  BY NewContainerType
<1> HIDE DEF f
<1>3. /\ Append(s, f) \in Seq(Frame) /\ Len(Append(s, f)) = Len(s) + 1
      /\ \A i \in 1..Len(s) : Append(s, f)[i] = s[i]
      /\ Append(s, f)[Len(s) + 1] = f
  BY <1>1, AppendProperties
<1>4. /\ Len(Append(d, NewContainer(kind))) = Len(d) + 1
      /\ \A i \in 1..Len(d) : Append(d, NewContainer(kind))[i] = d[i]
      /\ Append(d, NewContainer(kind))[Len(d) + 1] = NewContainer(kind)
  BY <1>2, AppendProperties
<1>5. SrcMirrors(Append(s, f), Append(d, NewContainer(kind)))
  BY <1>1, <1>3, <1>4 DEF SrcMirrors
<1> QED BY <1>3, <1>5 DEF Pushed, f

LEMMA SrcPop ==
  ASSUME NEW s \in Seq(Frame), NEW d \in Seq(Container), SrcMirrors(s, d),
         d # << >>
  PROVE  /\ Popped(s) \in Seq(Frame)
         /\ SrcMirrors(Popped(s), ValueDone(Front(d)))
<1>1. s # << >>
  BY SrcNonEmpty
<1>2. Front(s) \in Seq(Frame) /\ Front(d) \in Seq(Container)
  BY <1>1, FrontProperties, Zenon
<1>3. SrcMirrors(Front(s), Front(d))
  <2>1. /\ Len(s) = Len(d) /\ Len(d) \in Nat
        /\ \A i \in 1..Len(d) : s[i] = FrameOf(d[i])
    BY DEF SrcMirrors
  <2>2. /\ Len(Front(s)) = Len(d) - 1 /\ Len(Front(d)) = Len(d) - 1
        /\ \A i \in 1..Len(d) - 1 : Front(s)[i] = s[i] /\ Front(d)[i] = d[i]
    BY <1>1, <2>1, FrontProperties, Zenon
  <2>3. 1..Len(d) - 1 \subseteq 1..Len(d)
    BY <2>1
  <2> QED BY <2>1, <2>2, <2>3, Zenon DEF SrcMirrors
<1>4. Popped(s) = ValueSeen(Front(s))
  BY <1>1 DEF Popped
<1> QED BY <1>2, <1>3, <1>4, SrcValueDone, ValueSeenProperties, Zenon

-----------------------------------------------------------------------------
(* One call of jsonSource keeps its types and its stack.  The enforcing    *)
(* wrapper over it does not touch them.                                    *)

LEMMA ConsumeType ==
  ASSUME NEW d \in Seq(Container), Consume(d), offset \in Int
  PROVE  /\ doc' = d /\ doc' \in Seq(Container) /\ input = "open"
         /\ input' \in {"open", "closed"} /\ offset' \in Int
         /\ input' = "open" <=> d # << >>
<1>1. \E n \in TokenSizes : offset' = (IF offset < 0 THEN 0 ELSE offset) + n
  BY DEF Consume
<1>2. offset' \in Int
  BY <1>1, BoundsAssumption
<1> QED BY <1>2 DEF Consume

LEMMA TokenTypes ==
  /\ \A kind \in ContainerKinds : Token(BeginOf(kind)) \in Tokens
  /\ \A kind \in ContainerKinds : Token(EndOf(kind)) \in Tokens
  /\ \A kind \in LiteralKinds : Token(kind) \in Tokens
  /\ \A text \in Keys : Text("Key", text) \in Tokens /\ Text("String", text) \in Tokens
<1>1. /\ \A kind \in ContainerKinds : BeginOf(kind) \in TokenKinds
      /\ \A kind \in ContainerKinds : EndOf(kind) \in TokenKinds
      /\ \A kind \in LiteralKinds : kind \in TokenKinds
      /\ "Key" \in TokenKinds /\ "String" \in TokenKinds
  BY LiteralsAssumption
     DEF BeginOf, EndOf, ContainerKinds, TokenKinds, Literals
<1> HIDE DEF TokenKinds
<1> QED BY <1>1, KeysAssumption DEF Tokens, Token, Text

LEMMA OpenedType ==
  ASSUME NEW d \in Seq(Container), NEW kind \in ContainerKinds
  PROVE  Append(ValueBegun(d), NewContainer(kind)) \in Seq(Container)
BY ValueBegunProperties, NewContainerType, AppendProperties, Zenon

LEMMA ClosedType ==
  ASSUME NEW d \in Seq(Container), d # << >>
  PROVE  ValueDone(Front(d)) \in Seq(Container)
BY FrontProperties, ValueDoneProperties, Zenon

LEMMA ScalarType ==
  ASSUME NEW d \in Seq(Container)
  PROVE  ValueDone(ValueBegun(d)) \in Seq(Container)
BY ValueBegunProperties, ValueDoneProperties, Zenon

LEMMA SourceStep ==
  ASSUME SourceTypeOK, StackMirrorsDocument, ReadToken \/ ReadError
  PROVE  SourceTypeOK' /\ StackMirrorsDocument'
<1>1. /\ doc \in Seq(Container) /\ src \in Seq(Frame) /\ offset \in Int
      /\ repeated \in BOOLEAN /\ input \in {"open", "closed", "broken"}
  BY DEF SourceTypeOK, DocumentTypeOK
<1>2. SrcMirrors(src, doc)
  BY <1>1, SrcMirrorsIsEquality DEF StackMirrorsDocument
<1>3. SUFFICES /\ doc' \in Seq(Container) /\ src' \in Seq(Frame)
               /\ offset' \in Int /\ repeated' \in BOOLEAN
               /\ input' \in {"open", "closed", "broken"}
               /\ tok' \in Tokens \cup {NoToken}
               /\ SrcMirrors(src', doc')
  BY <1>3, SrcMirrorsIsEquality
     DEF SourceTypeOK, DocumentTypeOK, StackMirrorsDocument
<1>4. ASSUME NEW kind \in ContainerKinds, ReadOpen(kind)
      PROVE  <1>3!1
  <2>1. /\ Consume(Append(ValueBegun(doc), NewContainer(kind)))
        /\ repeated' = repeated /\ src' = Pushed(src, kind)
        /\ tok' = Token(BeginOf(kind))
    BY <1>4 DEF ReadOpen, LexOpen
  <2>2. ValueBegun(doc) \in Seq(Container) /\ SrcMirrors(src, ValueBegun(doc))
    BY <1>1, <1>2, ValueBegunProperties, SrcValueBegun, Zenon
  <2>3. /\ src' \in Seq(Frame)
        /\ SrcMirrors(src', Append(ValueBegun(doc), NewContainer(kind)))
    BY <1>1, <2>1, <2>2, SrcPush, Zenon
  <2>4. /\ doc' = Append(ValueBegun(doc), NewContainer(kind))
        /\ doc' \in Seq(Container) /\ offset' \in Int
        /\ input' \in {"open", "closed"}
    BY <1>1, <2>1, OpenedType, ConsumeType, Zenon
  <2> QED BY <1>1, <2>1, <2>3, <2>4, TokenTypes
<1>5. ASSUME ReadClose PROVE <1>3!1
  <2>1. /\ Consume(ValueDone(Front(doc))) /\ doc # << >>
        /\ repeated' = repeated /\ src' = Popped(src)
        /\ tok' = Token(EndOf(Last(doc).kind))
    BY <1>5 DEF ReadClose, LexClose, MayClose
  <2>2. Last(doc) \in Container
    BY <1>1, <2>1, LastProperties, Zenon
  <2>3. tok' \in Tokens
    BY <2>1, <2>2, TokenTypes DEF Container
  <2>4. src' \in Seq(Frame) /\ SrcMirrors(src', ValueDone(Front(doc)))
    BY <1>1, <1>2, <2>1, SrcPop, Zenon
  <2>5. /\ doc' = ValueDone(Front(doc)) /\ doc' \in Seq(Container)
        /\ offset' \in Int /\ input' \in {"open", "closed"}
    BY <1>1, <2>1, ClosedType, ConsumeType, Zenon
  <2> QED BY <1>1, <2>1, <2>3, <2>4, <2>5
<1>6. ASSUME LexScalar, src' = ValueSeen(src), tok' \in Tokens
      PROVE  <1>3!1
  <2>1. Consume(ValueDone(ValueBegun(doc))) /\ repeated' = repeated
    BY <1>6 DEF LexScalar
  <2>2. ValueBegun(doc) \in Seq(Container) /\ SrcMirrors(src, ValueBegun(doc))
    BY <1>1, <1>2, ValueBegunProperties, SrcValueBegun, Zenon
  <2>3. src' \in Seq(Frame) /\ SrcMirrors(src', ValueDone(ValueBegun(doc)))
    BY <1>1, <1>6, <2>2, SrcValueDone, ValueSeenProperties, Zenon
  <2>4. /\ doc' = ValueDone(ValueBegun(doc)) /\ doc' \in Seq(Container)
        /\ offset' \in Int /\ input' \in {"open", "closed"}
    BY <1>1, <2>1, ScalarType, ConsumeType, Zenon
  <2> QED BY <1>1, <1>6, <2>1, <2>3, <2>4
<1>7. ASSUME NEW text \in Keys, ReadString(text)
      PROVE  <1>3!1
  <2>1. CASE LexKey(text)
    <3>1. /\ AtKey(doc) /\ Consume(KeyBegun(doc, text)) /\ doc # << >>
          /\ repeated' = (repeated \/ text \in Last(doc).seen)
      BY <2>1 DEF LexKey, AtKey
    <3>2. ExpectsKey(src) /\ SrcMirrors(KeySeen(src), KeyBegun(doc, text))
      BY <1>1, <1>2, <3>1, SrcKey, Zenon
    <3>3. src' = KeySeen(src) /\ tok' = Text("Key", text)
      BY <1>7, <3>2 DEF ReadString
    <3>4. src # << >>
      BY <3>2 DEF ExpectsKey
    <3>5. src' \in Seq(Frame)
      BY <1>1, <3>3, <3>4, KeySeenProperties, Zenon
    <3>6. /\ doc' = KeyBegun(doc, text) /\ doc' \in Seq(Container)
          /\ offset' \in Int /\ input' \in {"open", "closed"}
      BY <1>1, <3>1, KeyBegunProperties, ConsumeType, Zenon
    <3> QED BY <1>1, <3>1, <3>2, <3>3, <3>5, <3>6, TokenTypes
  <2>2. CASE LexScalar
    <3>1. ~AtKey(doc)
      BY <2>2 DEF LexScalar, RoomForValue
    <3>2. ~ExpectsKey(src)
      BY <1>1, <1>2, <3>1, SrcNotKey, Zenon
    <3>3. src' = ValueSeen(src) /\ tok' = Text("String", text)
      BY <1>7, <3>2 DEF ReadString
    <3> QED BY <1>6, <2>2, <3>3, TokenTypes
  <2> QED BY <1>7, <2>1, <2>2 DEF ReadString
<1>8. ASSUME NEW kind \in LiteralKinds, ReadLiteral(kind)
      PROVE  <1>3!1
  BY <1>6, <1>8, TokenTypes DEF ReadLiteral
<1>9. ASSUME ReadError PROVE <1>3!1
  BY <1>1, <1>2, <1>9 DEF ReadError, LexError
<1> QED BY <1>4, <1>5, <1>7, <1>8, <1>9 DEF ReadToken

-----------------------------------------------------------------------------
(* What the layer above is handed: the decoder's step and the token that   *)
(* stands for it.                                                          *)

LEMMA TokenSteps ==
  ASSUME SourceTypeOK, StackMirrorsDocument, ReadToken
  PROVE  \/ \E kind \in ContainerKinds : LexOpen(kind) /\ tok' = Token(BeginOf(kind))
         \/ LexClose /\ tok' = Token(EndOf(Last(doc).kind))
         \/ \E text \in Keys : LexKey(text) /\ tok' = Text("Key", text)
         \/ \E text \in Keys : LexScalar /\ tok' = Text("String", text)
         \/ \E kind \in LiteralKinds : LexScalar /\ tok' = Token(kind)
<1>1. doc \in Seq(Container) /\ src \in Seq(Frame) /\ SrcMirrors(src, doc)
  BY SrcMirrorsIsEquality DEF SourceTypeOK, DocumentTypeOK, StackMirrorsDocument
<1>2. ASSUME NEW text \in Keys, ReadString(text), LexKey(text)
      PROVE  tok' = Text("Key", text)
  <2>1. AtKey(doc)
    BY <1>2 DEF LexKey
  <2>2. ExpectsKey(src)
    BY <1>1, <2>1, SrcNonEmpty DEF ExpectsKey, AtKey, FrameOf
  <2> QED BY <1>2, <2>2 DEF ReadString
<1>3. ASSUME NEW text \in Keys, ReadString(text), LexScalar
      PROVE  tok' = Text("String", text)
  <2>1. ~AtKey(doc)
    BY <1>3 DEF LexScalar, RoomForValue
  <2>2. ~ExpectsKey(src)
    BY <1>1, <2>1, SrcNotKey, Zenon
  <2> QED BY <1>3, <2>2 DEF ReadString
<1>4. ASSUME NEW text \in Keys, ReadString(text)
      PROVE  LexKey(text) \/ LexScalar
  BY <1>4 DEF ReadString
<1> QED BY <1>2, <1>3, <1>4, Zenon DEF ReadToken, ReadOpen, ReadClose, ReadLiteral

LEMMA TokenStepsType ==
  ASSUME SourceTypeOK, StackMirrorsDocument, ReadToken
  PROVE  tok' \in Tokens
<1>1. ASSUME LexClose PROVE Last(doc).kind \in ContainerKinds
  <2>1. doc \in Seq(Container) /\ doc # << >>
    BY <1>1 DEF LexClose, MayClose, SourceTypeOK, DocumentTypeOK
  <2>2. Last(doc) \in Container
    BY <2>1, LastProperties, Zenon
  <2> QED BY <2>2 DEF Container
<1> QED BY <1>1, TokenSteps, TokenTypes, Zenon

-----------------------------------------------------------------------------
(* The detector's stack and the document's, step by step. *)

DetectedOf(c) == [kind |-> c.kind, keys |-> c.seen, expectingKey |-> c.atKey]

KeysMirror(s, d) ==
  Len(s) = Len(d) /\ \A i \in 1..Len(d) : s[i] = DetectedOf(d[i])

\* A frame is what its three fields are.
LEMMA DetectFrameIs ==
  ASSUME NEW f \in DetectFrame
  PROVE  f = [kind |-> f.kind, keys |-> f.keys, expectingKey |-> f.expectingKey]
BY DEF DetectFrame

LEMMA DetectReplaced ==
  ASSUME NEW s \in Seq(DetectFrame), NEW d \in Seq(Container), d # << >>,
         NEW s2, NEW d2, NEW f, NEW c,
         KeysMirror(s, d), Replaced(s2, s, f), Replaced(d2, d, c), f = DetectedOf(c)
  PROVE  KeysMirror(s2, d2)
BY DEF KeysMirror, Replaced

LEMMA DetectNonEmpty ==
  ASSUME NEW s \in Seq(DetectFrame), NEW d \in Seq(Container), KeysMirror(s, d)
  PROVE  /\ s = << >> <=> d = << >>
         /\ d # << >> =>
              /\ Last(s) = DetectedOf(Last(d)) /\ Last(s) \in DetectFrame /\ Last(d) \in Container
              /\ Last(s).kind = Last(d).kind /\ Last(s).keys = Last(d).seen
              /\ Last(s).expectingKey = Last(d).atKey
<1>1. s = << >> <=> d = << >>
  BY EmptySeq DEF KeysMirror
<1>2. ASSUME d # << >>
      PROVE  Last(s) = DetectedOf(Last(d)) /\ Last(s) \in DetectFrame /\ Last(d) \in Container
  <2>1. s # << >>
    BY <1>1, <1>2
  <2>2. /\ Last(s) = s[Len(s)] /\ Last(d) = d[Len(d)] /\ Len(d) \in 1..Len(d)
        /\ Last(s) \in DetectFrame /\ Last(d) \in Container
    BY <1>2, <2>1, LastProperties, Zenon
  <2> QED BY <2>2 DEF KeysMirror
<1> QED BY <1>1, <1>2 DEF DetectedOf

LEMMA DetectValueBegun ==
  ASSUME NEW s \in Seq(DetectFrame), NEW d \in Seq(Container), KeysMirror(s, d)
  PROVE  KeysMirror(s, ValueBegun(d))
<1>1. CASE d = << >>
  BY <1>1, ValueBegunProperties
<1>2. CASE d # << >>
  <2> DEFINE c == IF Last(d).kind = "array"
                    THEN [Last(d) EXCEPT !.count = @ + 1] ELSE Last(d)
  <2>1. Replaced(ValueBegun(d), d, c)
    BY <1>2, ValueBegunProperties
  <2>2. s # << >> /\ Last(s) = DetectedOf(Last(d)) /\ Last(d) \in Container
    BY <1>2, DetectNonEmpty
  <2>3. Replaced(s, s, Last(s))
    BY <2>2, SameReplaces, Zenon
  <2>4. Last(s) = DetectedOf(c)
    BY <2>2 DEF DetectedOf, Container
  <2> QED BY <1>2, <2>1, <2>3, <2>4, DetectReplaced, Zenon
<1> QED BY <1>1, <1>2

LEMMA DetectValueDone ==
  ASSUME NEW s \in Seq(DetectFrame), NEW d \in Seq(Container), KeysMirror(s, d)
  PROVE  PastValue(s) \in Seq(DetectFrame) /\ KeysMirror(PastValue(s), ValueDone(d))
<1>1. CASE d = << >>
  BY <1>1, DetectNonEmpty, ValueDoneProperties DEF PastValue
<1>2. CASE d # << >>
  <2> DEFINE c == IF Last(d).kind = "object"
                    THEN [Last(d) EXCEPT !.atKey = TRUE] ELSE Last(d)
             f == [Last(s) EXCEPT !.expectingKey = TRUE]
  <2>1. Replaced(ValueDone(d), d, c)
    BY <1>2, ValueDoneProperties
  <2>2. /\ s # << >> /\ Last(s) = DetectedOf(Last(d)) /\ Last(s) \in DetectFrame /\ Last(d) \in Container
        /\ Last(s).kind = Last(d).kind /\ Last(s).keys = Last(d).seen
        /\ Last(s).expectingKey = Last(d).atKey
    BY <1>2, DetectNonEmpty
  <2>3. CASE Last(s).kind = "object" /\ ~Last(s).expectingKey
    <3>1. PastValue(s) = SetLast(s, f) /\ f \in DetectFrame
      BY <2>2, <2>3 DEF PastValue, DetectFrame
    <3>2. f.kind = c.kind /\ f.keys = c.seen /\ f.expectingKey = c.atKey
      BY <2>2, <2>3 DEF DetectFrame, Container
    <3> HIDE DEF f, c
    <3>3. f = DetectedOf(c)
      BY <3>1, <3>2, DetectFrameIs DEF DetectedOf
    <3>4. SetLast(s, f) \in Seq(DetectFrame) /\ Replaced(SetLast(s, f), s, f)
      BY <2>2, <3>1, SetLastReplaces, Zenon
    <3> QED BY <1>2, <2>1, <3>1, <3>3, <3>4, DetectReplaced, Zenon
  <2>4. CASE ~(Last(s).kind = "object" /\ ~Last(s).expectingKey)
    <3>1. PastValue(s) = s /\ Replaced(s, s, Last(s))
      BY <2>2, <2>4, SameReplaces DEF PastValue
    <3>2. Last(s) = DetectedOf(c)
      BY <2>2, <2>4 DEF DetectedOf, Container
    <3> HIDE DEF c
    <3> QED BY <1>2, <2>1, <3>1, <3>2, DetectReplaced, Zenon
  <2> QED BY <2>3, <2>4
<1> QED BY <1>1, <1>2

LEMMA DetectKey ==
  ASSUME NEW s \in Seq(DetectFrame), NEW d \in Seq(Container), KeysMirror(s, d), AtKey(d), NEW k \in Keys
  PROVE  Noted(s, k) \in Seq(DetectFrame) /\ KeysMirror(Noted(s, k), KeyBegun(d, k))
<1>1. d # << >>
  BY DEF AtKey
<1> DEFINE c == [Last(d) EXCEPT !.atKey = FALSE, !.key = k, !.seen = @ \cup {k}]
           f == [Last(s) EXCEPT !.keys = @ \cup {k}, !.expectingKey = FALSE]
<1>2. Replaced(KeyBegun(d, k), d, c)
  BY <1>1, KeyBegunProperties
<1>3. /\ s # << >> /\ Last(s) = DetectedOf(Last(d)) /\ Last(s) \in DetectFrame /\ Last(d) \in Container
      /\ Last(s).kind = Last(d).kind /\ Last(s).keys = Last(d).seen
      /\ Last(s).expectingKey = Last(d).atKey
  BY <1>1, DetectNonEmpty
<1>4. f \in DetectFrame
  BY <1>3 DEF DetectFrame
<1>5. f.kind = c.kind /\ f.keys = c.seen /\ f.expectingKey = c.atKey
  BY <1>3 DEF DetectFrame, Container
<1>6. Noted(s, k) = SetLast(s, f)
  BY DEF Noted
<1> HIDE DEF f, c
<1>7. f = DetectedOf(c)
  BY <1>4, <1>5, DetectFrameIs DEF DetectedOf
<1>8. SetLast(s, f) \in Seq(DetectFrame) /\ Replaced(SetLast(s, f), s, f)
  BY <1>3, <1>4, SetLastReplaces, Zenon
<1> QED BY <1>1, <1>2, <1>6, <1>7, <1>8, DetectReplaced, Zenon

LEMMA DetectOpen ==
  ASSUME NEW s \in Seq(DetectFrame), NEW d \in Seq(Container), KeysMirror(s, d),
         NEW kind \in ContainerKinds
  PROVE  /\ Opened(s, kind) \in Seq(DetectFrame)
         /\ KeysMirror(Opened(s, kind), Append(ValueBegun(d), NewContainer(kind)))
<1> DEFINE f == [kind |-> kind, keys |-> {}, expectingKey |-> kind = "object"]
           b == ValueBegun(d)
           c == NewContainer(kind)
<1>1. f \in DetectFrame /\ c \in Container /\ f = DetectedOf(c)
  BY NewContainerType DEF DetectFrame, DetectedOf, NewContainer
<1>2. b \in Seq(Container) /\ KeysMirror(s, b) /\ Opened(s, kind) = Append(s, f)
  BY ValueBegunProperties, DetectValueBegun DEF Opened
<1> HIDE DEF f, b, c
<1>3. /\ Append(s, f) \in Seq(DetectFrame) /\ Len(Append(s, f)) = Len(s) + 1
      /\ \A i \in 1..Len(s) : Append(s, f)[i] = s[i]
      /\ Append(s, f)[Len(s) + 1] = f /\ Len(s) \in Nat
  BY <1>1
<1>4. /\ Append(b, c) \in Seq(Container) /\ Len(Append(b, c)) = Len(b) + 1
      /\ \A i \in 1..Len(b) : Append(b, c)[i] = b[i]
      /\ Append(b, c)[Len(b) + 1] = c
  BY <1>1, <1>2
<1>5. KeysMirror(Append(s, f), Append(b, c))
  BY <1>1, <1>2, <1>3, <1>4 DEF KeysMirror
<1> QED BY <1>2, <1>3, <1>5 DEF b, c

LEMMA DetectClose ==
  ASSUME NEW s \in Seq(DetectFrame), NEW d \in Seq(Container), KeysMirror(s, d), d # << >>
  PROVE  /\ Closed(s) \in Seq(DetectFrame)
         /\ KeysMirror(Closed(s), ValueDone(Front(d)))
<1>1. s # << >>
  BY DetectNonEmpty
<1>2. /\ Front(s) \in Seq(DetectFrame) /\ Len(Front(s)) = Len(s) - 1
      /\ \A i \in 1..Len(s) - 1 : Front(s)[i] = s[i]
      /\ Front(d) \in Seq(Container) /\ Len(Front(d)) = Len(d) - 1
      /\ \A i \in 1..Len(d) - 1 : Front(d)[i] = d[i]
      /\ Len(d) \in Nat
  BY <1>1, FrontProperties, LastProperties
<1>3. KeysMirror(Front(s), Front(d))
  BY <1>2 DEF KeysMirror
<1>4. Closed(s) = PastValue(Front(s))
  BY <1>1 DEF Closed
<1> QED BY <1>2, <1>3, <1>4, DetectValueDone

-----------------------------------------------------------------------------
(* The issues: how many of a code there are. *)

Count(q, code) == Cardinality({i \in DOMAIN q : q[i] = code})

LEMMA CountAppend ==
  ASSUME NEW S, NEW q \in Seq(S), NEW x \in S, NEW code
  PROVE  /\ Append(q, x) \in Seq(S) /\ Count(q, code) \in Nat
         /\ Count(Append(q, x), code) = Count(q, code) + (IF x = code THEN 1 ELSE 0)
<1> DEFINE C == {i \in DOMAIN q : q[i] = code}
           D == {i \in DOMAIN Append(q, x) : Append(q, x)[i] = code}
<1>1. /\ Len(q) \in Nat /\ DOMAIN q = 1..Len(q) /\ Append(q, x) \in Seq(S)
      /\ DOMAIN Append(q, x) = 1..Len(q) + 1
      /\ \A i \in 1..Len(q) : Append(q, x)[i] = q[i]
      /\ Append(q, x)[Len(q) + 1] = x
  BY AppendProperties, LenProperties
<1>2. IsFiniteSet(C) /\ Len(q) + 1 \notin C
  <2>1. C \subseteq 1..Len(q) /\ IsFiniteSet(1..Len(q))
    BY <1>1, FS_Interval
  <2>2. Len(q) + 1 \notin 1..Len(q)
    BY <1>1
  <2> HIDE DEF C
  <2> QED BY <2>1, <2>2, FS_Subset
<1>3. D = IF x = code THEN C \cup {Len(q) + 1} ELSE C
  BY <1>1
<1>4. Count(q, code) = Cardinality(C) /\ Count(Append(q, x), code) = Cardinality(D)
  BY DEF Count
<1> HIDE DEF C, D
<1>5. Cardinality(C) \in Nat
  BY <1>2, FS_CardinalityType
<1>6. CASE x = code
  BY <1>1, <1>2, <1>3, <1>4, <1>5, <1>6, FS_AddElement
<1>7. CASE x # code
  BY <1>1, <1>3, <1>4, <1>5, <1>7
<1> QED BY <1>6, <1>7

DetectCodes == {"duplicate_key", "parse_error", "truncated"}

\* Whatever the limit is, an issue is added or, if the limit is none, not.
LEMMA AppendedCount ==
  ASSUME issues \in Seq(DetectCodes), maxIssues \in Int, NEW code \in DetectCodes
  PROVE  /\ Appended(code) \in Seq(DetectCodes)
         /\ maxIssues = 0 => Appended(code) = issues
         /\ maxIssues # 0 =>
              Count(Appended(code), "duplicate_key") =
                Count(issues, "duplicate_key") + (IF code = "duplicate_key" THEN 1 ELSE 0)
<1> DEFINE more == Append(issues, code)
<1>1. /\ more \in Seq(DetectCodes) /\ Count(issues, "duplicate_key") \in Nat
      /\ Count(more, "duplicate_key") =
           Count(issues, "duplicate_key") + (IF code = "duplicate_key" THEN 1 ELSE 0)
  BY CountAppend
<1>2. /\ Append(more, "truncated") \in Seq(DetectCodes)
      /\ Count(Append(more, "truncated"), "duplicate_key") = Count(more, "duplicate_key")
  <2> HIDE DEF more
  <2>1. /\ Append(more, "truncated") \in Seq(DetectCodes) /\ Count(more, "duplicate_key") \in Nat
        /\ Count(Append(more, "truncated"), "duplicate_key") =
             Count(more, "duplicate_key") + (IF "truncated" = "duplicate_key" THEN 1 ELSE 0)
    <3>1. "truncated" \in DetectCodes
      BY DEF DetectCodes
    <3> QED BY <1>1, <3>1, CountAppend
  <2> QED BY <2>1
<1>3. Appended(code) = issues \/ Appended(code) = more \/ Appended(code) = Append(more, "truncated")
  BY DEF Appended
<1>4. /\ maxIssues = 0 => Appended(code) = issues
      /\ maxIssues # 0 => Appended(code) = more \/ Appended(code) = Append(more, "truncated")
  BY DEF Appended
<1> HIDE DEF more
<1> QED BY <1>1, <1>2, <1>3, <1>4

-----------------------------------------------------------------------------
(* The inductive invariant of the detector *)

\* What the code does under a limit too, and the property does not ask for.
AllListed ==
  IF onDup = "Ignore" \/ maxIssues = 0 THEN issues = << >>
  ELSE /\ Reported("duplicate_key") = dups
       /\ onDup = "Error" => dups <= 1 /\ (dups = 1 => stage = "done")

DetectInv ==
  /\ DocumentTypeOK /\ stack \in Seq(DetectFrame)
  /\ issues \in Seq(DetectCodes) /\ dups \in Nat /\ maxIssues \in Int
  /\ onDup \in {"Ignore", "Warn", "Error"} /\ stage \in {"begin", "scan", "done"}
  /\ stage = "begin" => doc = << >> /\ stack = << >>
  /\ stage = "scan" => onDup # "Ignore" /\ KeysMirror(stack, doc)
  /\ AllListed

LEMMA DocumentStep ==
  ASSUME DocumentTypeOK,
         \/ \E kind \in ContainerKinds : LexOpen(kind)
         \/ LexClose
         \/ \E text \in Keys : LexKey(text)
         \/ LexScalar
         \/ LexError
  PROVE  DocumentTypeOK'
<1>1. doc \in Seq(Container) /\ offset \in Int /\ repeated \in BOOLEAN
      /\ input \in {"open", "closed", "broken"}
  BY DEF DocumentTypeOK
<1>2. ASSUME NEW d \in Seq(Container), Consume(d), repeated' \in BOOLEAN
      PROVE  DocumentTypeOK'
  BY <1>1, <1>2, ConsumeType DEF DocumentTypeOK
<1>3. ASSUME NEW kind \in ContainerKinds, LexOpen(kind)
      PROVE  DocumentTypeOK'
  BY <1>1, <1>2, <1>3, OpenedType DEF LexOpen
<1>4. CASE LexClose
  BY <1>1, <1>2, <1>4, ClosedType DEF LexClose, MayClose
<1>5. ASSUME NEW text \in Keys, LexKey(text)
      PROVE  DocumentTypeOK'
  BY <1>1, <1>2, <1>5, KeyBegunProperties DEF LexKey, AtKey
<1>6. CASE LexScalar
  BY <1>1, <1>2, <1>6, ScalarType DEF LexScalar
<1>7. CASE LexError
  BY <1>1, <1>7 DEF LexError, DocumentTypeOK
<1> QED BY <1>3, <1>4, <1>5, <1>6, <1>7

\* What is reported stays as it is while nothing is repeated.
LEMMA ReportsStay ==
  ASSUME AllListed, UNCHANGED <<Settings, issues, dups>>,
         stage' = stage \/ stage' = "done"
  PROVE  AllListed'
BY DEF AllListed, Settings, Reported

LEMMA DetectScalar ==
  ASSUME DetectInv, stage = "scan", LexScalar, stack' = PastValue(stack),
         UNCHANGED <<Settings, stage, issues, dups>>
  PROVE  DetectInv'
<1>1. /\ stack \in Seq(DetectFrame) /\ doc \in Seq(Container) /\ KeysMirror(stack, doc)
      /\ doc' = ValueDone(ValueBegun(doc))
  BY DEF DetectInv, DocumentTypeOK, LexScalar, Consume
<1>2. ValueBegun(doc) \in Seq(Container) /\ KeysMirror(stack, ValueBegun(doc))
  BY <1>1, ValueBegunProperties, DetectValueBegun
<1>3. stack' \in Seq(DetectFrame) /\ KeysMirror(stack', doc')
  BY <1>1, <1>2, DetectValueDone
<1>4. DocumentTypeOK' /\ AllListed'
  BY DocumentStep, ReportsStay DEF DetectInv
<1> QED BY <1>3, <1>4 DEF DetectInv, Settings, KeysMirror

LEMMA DetectDelim ==
  ASSUME DetectInv, ScanDelim
  PROVE  DetectInv'
<1>1. /\ stack \in Seq(DetectFrame) /\ doc \in Seq(Container) /\ KeysMirror(stack, doc)
      /\ stage = "scan" /\ UNCHANGED <<Settings, stage, issues, dups>>
  BY DEF DetectInv, DocumentTypeOK, ScanDelim
<1>2. stack' \in Seq(DetectFrame) /\ KeysMirror(stack', doc')
  <2>1. ASSUME NEW kind \in ContainerKinds, LexOpen(kind), stack' = Opened(stack, kind)
        PROVE  stack' \in Seq(DetectFrame) /\ KeysMirror(stack', doc')
    BY <1>1, <2>1, DetectOpen DEF LexOpen, Consume
  <2>2. CASE LexClose /\ stack' = Closed(stack)
    BY <1>1, <2>2, DetectClose DEF LexClose, MayClose, Consume
  <2> QED BY <2>1, <2>2 DEF ScanDelim
<1>3. DocumentTypeOK' /\ AllListed'
  BY <1>1, DocumentStep, ReportsStay DEF DetectInv, ScanDelim
<1> QED BY <1>1, <1>2, <1>3 DEF DetectInv, Settings, KeysMirror

LEMMA DetectedKeys ==
  ASSUME DetectInv, NEW text \in Keys, ScanString(text), LexKey(text),
         dups' = dups + (IF text \in Last(doc).seen THEN 1 ELSE 0)
  PROVE  DetectInv'
<1>1. /\ stack \in Seq(DetectFrame) /\ doc \in Seq(Container) /\ KeysMirror(stack, doc)
      /\ stage = "scan" /\ AtKey(doc) /\ doc' = KeyBegun(doc, text)
      /\ UNCHANGED Settings /\ onDup # "Ignore" /\ dups \in Nat /\ maxIssues \in Int
      /\ issues \in Seq(DetectCodes)
  BY DEF DetectInv, DocumentTypeOK, ScanString, LexKey, Consume
<1>2. WantsKey(stack) /\ Last(stack).keys = Last(doc).seen
  BY <1>1, DetectNonEmpty DEF WantsKey, AtKey
<1>3. Noted(stack, text) \in Seq(DetectFrame) /\ KeysMirror(Noted(stack, text), doc')
  BY <1>1, DetectKey
<1>4. DocumentTypeOK'
  BY DocumentStep DEF DetectInv
<1>5. Reported("duplicate_key") = Count(issues, "duplicate_key")
  BY DEF Reported, Count
<1>6. Reported("duplicate_key")' = Count(issues', "duplicate_key")
  BY DEF Reported, Count
<1>7. CASE text \notin Last(doc).seen
  <2>1. stack' = Noted(stack, text) /\ UNCHANGED <<stage, issues>> /\ dups' = dups
    BY <1>1, <1>2, <1>7 DEF ScanString
  <2>2. AllListed'
    BY <1>1, <2>1, ReportsStay DEF DetectInv
  <2> QED BY <1>1, <1>3, <1>4, <2>1, <2>2 DEF DetectInv, Settings, KeysMirror
<1>8. CASE text \in Last(doc).seen
  <2>1. /\ issues' = Appended("duplicate_key") /\ dups' = dups + 1
        /\ IF onDup = "Error" THEN stage' = "done" /\ UNCHANGED stack
                              ELSE stack' = Noted(stack, text) /\ UNCHANGED stage
    BY <1>1, <1>2, <1>8 DEF ScanString
  <2>2. /\ issues' \in Seq(DetectCodes)
        /\ maxIssues = 0 => issues' = issues
        /\ maxIssues # 0 => Count(issues', "duplicate_key") = Count(issues, "duplicate_key") + 1
    <3>1. "duplicate_key" \in DetectCodes
      BY DEF DetectCodes
    <3> QED BY <1>1, <2>1, <3>1, AppendedCount
  <2>3. AllListed'
    <3>1. CASE maxIssues = 0
      BY <1>1, <2>2, <3>1 DEF DetectInv, AllListed, Settings
    <3>2. CASE maxIssues # 0
      <4>1. /\ Reported("duplicate_key") = dups
            /\ onDup = "Error" => dups <= 1 /\ dups # 1
        BY <1>1, <3>2 DEF DetectInv, AllListed
      <4>2. Reported("duplicate_key")' = dups'
        BY <1>5, <1>6, <2>1, <2>2, <3>2, <4>1
      <4>3. onDup = "Error" => dups' <= 1 /\ stage' = "done"
        BY <1>1, <2>1, <4>1
      <4> QED BY <1>1, <3>2, <4>2, <4>3 DEF AllListed, Settings
    <3> QED BY <3>1, <3>2
  <2>4. /\ stack' \in Seq(DetectFrame) /\ stage' \in {"scan", "done"}
        /\ stage' = "scan" => KeysMirror(stack', doc')
    BY <1>1, <1>3, <2>1
  <2>5. dups' \in Nat /\ maxIssues' \in Int /\ onDup' \in {"Warn", "Error"}
    BY <1>1, <2>1 DEF DetectInv, Settings
  <2> QED BY <1>4, <2>2, <2>3, <2>4, <2>5 DEF DetectInv, KeysMirror
<1> QED BY <1>7, <1>8

LEMMA DetectString ==
  ASSUME DetectInv, NEW text \in Keys, ScanString(text)
  PROVE  DetectInv'
<1>1. CASE LexKey(text) /\ dups' = dups + (IF text \in Last(doc).seen THEN 1 ELSE 0)
  BY <1>1, DetectedKeys
<1>2. CASE LexScalar /\ UNCHANGED dups
  <2>1. /\ stack \in Seq(DetectFrame) /\ doc \in Seq(Container) /\ KeysMirror(stack, doc)
        /\ stage = "scan" /\ ~AtKey(doc)
    BY <1>2 DEF DetectInv, DocumentTypeOK, ScanString, LexScalar, RoomForValue
  <2>2. ~WantsKey(stack)
    BY <2>1, DetectNonEmpty DEF WantsKey, AtKey
  <2> QED BY <1>2, <2>1, <2>2, DetectScalar DEF ScanString
<1> QED BY <1>1, <1>2 DEF ScanString

LEMMA DetectStep ==
  ASSUME DetectInv, [DetectNext]_detectVars
  PROVE  DetectInv'
<1>1. CASE Start
  BY <1>1, EmptySeq DEF Start, DetectInv, DocumentTypeOK, documentVars, Settings, KeysMirror,
                        AllListed, Reported
<1>2. CASE ScanDelim
  BY <1>2, DetectDelim
<1>3. ASSUME NEW text \in Keys, ScanString(text)
      PROVE  DetectInv'
  BY <1>3, DetectString
<1>4. CASE ScanLiteral
  BY <1>4, DetectScalar DEF ScanLiteral
<1>5. CASE TrailingValue
  BY <1>5 DEF TrailingValue, DetectInv, DocumentTypeOK, Settings, KeysMirror,
              AllListed, Reported
<1>6. CASE ScanEnd
  <2>1. /\ DocumentTypeOK' /\ stage' = "done" /\ UNCHANGED <<Settings, stack, dups>>
        /\ issues' = issues \/ issues' = Appended("parse_error")
        /\ onDup # "Ignore" /\ issues \in Seq(DetectCodes) /\ maxIssues \in Int
    BY <1>6, DocumentStep DEF ScanEnd, DetectInv
  <2>2. /\ issues' \in Seq(DetectCodes)
        /\ maxIssues = 0 => issues' = issues
        /\ maxIssues # 0 => Count(issues', "duplicate_key") = Count(issues, "duplicate_key")
    <3>1. "parse_error" \in DetectCodes /\ Count(issues, "duplicate_key") \in Nat
      <4>1. "parse_error" \in DetectCodes
        BY DEF DetectCodes
      <4> QED BY <2>1, <4>1, CountAppend
    <3> QED BY <2>1, <3>1, AppendedCount
  <2>3. AllListed'
    <3>1. Reported("duplicate_key") = Count(issues, "duplicate_key")
      BY DEF Reported, Count
    <3>2. Reported("duplicate_key")' = Count(issues', "duplicate_key")
      BY DEF Reported, Count
    <3> QED BY <2>1, <2>2, <3>1, <3>2 DEF DetectInv, AllListed, Settings
  <2> QED BY <2>1, <2>2, <2>3 DEF DetectInv, Settings
<1>7. CASE UNCHANGED detectVars
  BY <1>7 DEF detectVars, documentVars, DetectInv, DocumentTypeOK, Settings, KeysMirror,
              AllListed, Reported
<1> QED BY <1>1, <1>2, <1>3, <1>4, <1>5, <1>6, <1>7 DEF DetectNext

LEMMA DetectStarts ==
  ASSUME DetectInit
  PROVE  DetectInv
<1>1. << >> \in Seq(Container) /\ << >> \in Seq(DetectFrame) /\ << >> \in Seq(DetectCodes)
  OBVIOUS
<1>2. Reported("duplicate_key") = 0
  <2>1. {i \in DOMAIN issues : issues[i] = "duplicate_key"} = {}
    BY DEF DetectInit
  <2> QED BY <2>1, FS_EmptySet DEF Reported
<1>3. DocumentTypeOK
  <2>1. doc = << >> /\ input = "open" /\ offset = -1 /\ repeated = FALSE
    BY DEF DetectInit, DocumentInit
  <2>2. repeated \in BOOLEAN
    BY <2>1, Zenon
  <2> QED BY <1>1, <2>1, <2>2 DEF DocumentTypeOK
<1>4. AllListed
  BY <1>2 DEF DetectInit, AllListed
<1>5. maxIssues \in Int /\ doc = << >>
  BY IssueLimitsAssumption DEF DetectInit, DocumentInit
<1> QED BY <1>1, <1>3, <1>4, <1>5 DEF DetectInit, DetectInv

\* Whatever is nested in whatever, and across the values of a stream, the
\* detector reports each key that is repeated in its object, or as many as the
\* limit admits, and only those; under Error it stops at the first of them.
THEOREM DuplicatesFound == DetectSpec => []DuplicatesReported
<1>0. DetectInv => EveryDuplicateReported
  BY DEF DetectInv, AllListed, EveryDuplicateReported
<1>1. DetectInv => DuplicatesReported
  <2> SUFFICES ASSUME DetectInv, stage = "scan"
               PROVE  stack = [i \in 1..Len(doc) |-> [kind |-> doc[i].kind, keys |-> doc[i].seen,
                                                      expectingKey |-> doc[i].atKey]]
    BY <1>0 DEF DuplicatesReported, DetectorMirrorsDocument
  <2>1. stack \in Seq(DetectFrame) /\ doc \in Seq(Container) /\ KeysMirror(stack, doc)
    BY DEF DetectInv, DocumentTypeOK
  <2>2. stack = [i \in 1..Len(stack) |-> stack[i]]
    BY <2>1
  <2>3. [i \in 1..Len(stack) |-> stack[i]] = [i \in 1..Len(doc) |-> DetectedOf(doc[i])]
    BY <2>1 DEF KeysMirror
  <2> QED BY <2>2, <2>3 DEF DetectedOf
<1> QED BY <1>1, DetectStarts, DetectStep, PTL DEF DetectSpec
=============================================================================
