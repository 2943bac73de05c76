------------------------- MODULE ArrayStreamProofs -------------------------
(***************************************************************************)
(* Proofs about the streaming array, for all Keys, drivers, limits, schema *)
(* kinds and bounds.  The array's own invariant, ArrayInv, is inductive    *)
(* together with IInv of the source it pulls.                              *)
(***************************************************************************)
EXTENDS ArrayStream, EnforcedSourceProofs

-----------------------------------------------------------------------------
(* The innermost n containers: the document of a second wrapper, which has *)
(* seen no more than the element.                                          *)

Inner(d, n) == [i \in 1..n |-> d[Len(d) - n + i]]

LEMMA InnerProperties ==
  ASSUME NEW d \in Seq(Container), NEW n \in 0..Len(d)
  PROVE  /\ Inner(d, n) \in Seq(Container) /\ Len(Inner(d, n)) = n
         /\ \A i \in 1..n : Inner(d, n)[i] = d[Len(d) - n + i]
         /\ n = 0 => Inner(d, n) = << >>
         /\ n > 0 => /\ Inner(d, n) # << >> /\ d # << >>
                     /\ Last(Inner(d, n)) = Last(d)
<1>1. n \in Nat /\ Len(d) \in Nat
  OBVIOUS
<1>2. \A i \in 1..n : Len(d) - n + i \in 1..Len(d)
  BY <1>1
<1>3. \A i \in 1..n : d[Len(d) - n + i] \in Container
  BY <1>2, ElementOfSeq
<1>4. Inner(d, n) \in Seq(Container) /\ Len(Inner(d, n)) = n
  BY <1>1, <1>3 DEF Inner
<1>5. \A i \in 1..n : Inner(d, n)[i] = d[Len(d) - n + i]
  BY DEF Inner
<1>6. n = 0 => Inner(d, n) = << >>
  BY <1>4, EmptySeq
<1>7. n > 0 => Inner(d, n) # << >> /\ d # << >>
  BY <1>1, <1>4, EmptySeq
<1>8. n > 0 => Last(Inner(d, n)) = Last(d)
  BY <1>1, <1>4, <1>5 DEF Last
<1> QED BY <1>4, <1>5, <1>6, <1>7, <1>8

LEMMA InnerSetLast ==
  ASSUME NEW d \in Seq(Container), NEW n \in 1..Len(d), NEW e \in Container
  PROVE  Inner(SetLast(d, e), n) = SetLast(Inner(d, n), e)
<1> DEFINE s == Inner(d, n)
<1>1. /\ s \in Seq(Container) /\ Len(s) = n /\ s # << >> /\ d # << >>
      /\ \A i \in 1..n : s[i] = d[Len(d) - n + i]
      /\ n \in Nat \ {0} /\ Len(d) \in Nat
  BY InnerProperties
<1> HIDE DEF s
<1>2. /\ SetLast(d, e) \in Seq(Container) /\ Len(SetLast(d, e)) = Len(d)
      /\ SetLast(d, e)[Len(d)] = e
      /\ \A i \in 1..Len(d) : i # Len(d) => SetLast(d, e)[i] = d[i]
  <2>1. SetLast(d, e) \in Seq(Container) /\ Replaced(SetLast(d, e), d, e)
    BY <1>1, SetLastReplaces, Zenon
  <2> QED BY <2>1, Zenon DEF Replaced
<1>3. /\ SetLast(s, e) \in Seq(Container) /\ Len(SetLast(s, e)) = n
      /\ SetLast(s, e)[n] = e
      /\ \A i \in 1..n : i # n => SetLast(s, e)[i] = s[i]
  <2>1. SetLast(s, e) \in Seq(Container) /\ Replaced(SetLast(s, e), s, e)
    BY <1>1, SetLastReplaces, Zenon
  <2> QED BY <1>1, <2>1, Zenon DEF Replaced
<1>4. /\ Inner(SetLast(d, e), n) \in Seq(Container)
      /\ Len(Inner(SetLast(d, e), n)) = n
      /\ \A i \in 1..n : Inner(SetLast(d, e), n)[i] = SetLast(d, e)[Len(d) - n + i]
  <2>1. n \in 0..Len(SetLast(d, e))
    BY <1>1, <1>2
  <2>2. /\ Inner(SetLast(d, e), n) \in Seq(Container)
        /\ Len(Inner(SetLast(d, e), n)) = n
    BY <1>2, <2>1, InnerProperties, Zenon
  <2>3. \A i \in 1..n :
          Inner(SetLast(d, e), n)[i] = SetLast(d, e)[Len(SetLast(d, e)) - n + i]
    BY <1>2, <2>1, InnerProperties, Zenon
  <2> QED BY <1>2, <2>2, <2>3, Zenon
<1>5. ASSUME NEW i \in 1..n
      PROVE  Inner(SetLast(d, e), n)[i] = SetLast(s, e)[i]
  <2>1. Len(d) - n + i \in 1..Len(d) /\ (Len(d) - n + i = Len(d) <=> i = n)
    BY <1>1
  <2> QED BY <1>1, <1>2, <1>3, <1>4, <2>1, Zenon
<1>6. Len(Inner(SetLast(d, e), n)) = Len(SetLast(s, e))
  BY <1>3, <1>4
<1> QED BY <1>3, <1>4, <1>5, <1>6, SeqEqual DEF s

LEMMA InnerBegun ==
  ASSUME NEW d \in Seq(Container), NEW n \in 0..Len(d)
  PROVE  Inner(ValueBegun(d), n) = ValueBegun(Inner(d, n))
<1>1. CASE n = 0
  <2>1. n \in 0..Len(ValueBegun(d)) /\ ValueBegun(d) \in Seq(Container)
    <3>1. ValueBegun(d) \in Seq(Container)
      BY ValueBegunProperties, Zenon
    <3> QED BY <1>1, <3>1
  <2>2. Inner(ValueBegun(d), n) = << >> /\ Inner(d, n) = << >>
    BY <1>1, <2>1, InnerProperties
  <2>3. << >> \in Seq(Container)
    OBVIOUS
  <2>4. ValueBegun(<< >>) = << >>
    BY <2>3, ValueBegunProperties, Zenon
  <2> QED BY <2>2, <2>4
<1>2. CASE n # 0
  <2>1. /\ n \in 1..Len(d) /\ d # << >> /\ Inner(d, n) # << >>
        /\ Last(Inner(d, n)) = Last(d)
    BY <1>2, InnerProperties
  <2>2. CASE Last(d).kind = "array"
    <3>1. [Last(d) EXCEPT !.count = @ + 1] \in Container
      <4>1. Last(d) \in Container
        BY <2>1, LastProperties, Zenon
      <4> QED BY <4>1 DEF Container
    <3> QED BY <2>1, <2>2, <3>1, InnerSetLast DEF ValueBegun
  <2>3. CASE Last(d).kind # "array"
    BY <2>1, <2>3 DEF ValueBegun
  <2> QED BY <2>2, <2>3
<1> QED BY <1>1, <1>2

LEMMA InnerDone ==
  ASSUME NEW d \in Seq(Container), NEW n \in 0..Len(d)
  PROVE  Inner(ValueDone(d), n) = ValueDone(Inner(d, n))
<1>1. CASE n = 0
  <2>1. n \in 0..Len(ValueDone(d)) /\ ValueDone(d) \in Seq(Container)
    <3>1. ValueDone(d) \in Seq(Container)
      BY ValueDoneProperties, Zenon
    <3> QED BY <1>1, <3>1
  <2>2. Inner(ValueDone(d), n) = << >> /\ Inner(d, n) = << >>
    BY <1>1, <2>1, InnerProperties
  <2>3. << >> \in Seq(Container)
    OBVIOUS
  <2>4. ValueDone(<< >>) = << >>
    BY <2>3, ValueDoneProperties, Zenon
  <2> QED BY <2>2, <2>4
<1>2. CASE n # 0
  <2>1. /\ n \in 1..Len(d) /\ d # << >> /\ Inner(d, n) # << >>
        /\ Last(Inner(d, n)) = Last(d)
    BY <1>2, InnerProperties
  <2>2. CASE Last(d).kind = "object"
    <3>1. [Last(d) EXCEPT !.atKey = TRUE] \in Container
      <4>1. Last(d) \in Container
        BY <2>1, LastProperties, Zenon
      <4> QED BY <4>1 DEF Container
    <3> QED BY <2>1, <2>2, <3>1, InnerSetLast DEF ValueDone
  <2>3. CASE Last(d).kind # "object"
    BY <2>1, <2>3 DEF ValueDone
  <2> QED BY <2>2, <2>3
<1> QED BY <1>1, <1>2

LEMMA InnerKey ==
  ASSUME NEW d \in Seq(Container), NEW n \in 1..Len(d), NEW k \in Keys
  PROVE  Inner(KeyBegun(d, k), n) = KeyBegun(Inner(d, n), k)
<1>1. n \in 0..Len(d) /\ n > 0
  OBVIOUS
<1>2. d # << >> /\ Last(Inner(d, n)) = Last(d)
  BY <1>1, InnerProperties
<1>3. [Last(d) EXCEPT !.atKey = FALSE, !.key = k, !.seen = @ \cup {k}] \in Container
  <2>1. Last(d) \in Container
    BY <1>2, LastProperties, Zenon
  <2> QED BY <2>1 DEF Container
<1> QED BY <1>2, <1>3, InnerSetLast DEF KeyBegun

LEMMA InnerPush ==
  ASSUME NEW d \in Seq(Container), NEW n \in 0..Len(d), NEW c \in Container
  PROVE  Inner(Append(d, c), n + 1) = Append(Inner(d, n), c)
<1> DEFINE s == Inner(d, n)
           e == Append(d, c)
<1>1. /\ s \in Seq(Container) /\ Len(s) = n /\ n \in Nat /\ Len(d) \in Nat
      /\ \A i \in 1..n : s[i] = d[Len(d) - n + i]
  BY InnerProperties
<1>2. /\ e \in Seq(Container) /\ Len(e) = Len(d) + 1 /\ e[Len(d) + 1] = c
      /\ \A i \in 1..Len(d) : e[i] = d[i]
  BY AppendProperties
<1> HIDE DEF s, e
<1>3. /\ Append(s, c) \in Seq(Container) /\ Len(Append(s, c)) = n + 1
      /\ Append(s, c)[n + 1] = c /\ \A i \in 1..n : Append(s, c)[i] = s[i]
  BY <1>1, AppendProperties
<1>4. n + 1 \in 0..Len(e)
  BY <1>1, <1>2
<1>5. /\ Inner(e, n + 1) \in Seq(Container) /\ Len(Inner(e, n + 1)) = n + 1
      /\ \A i \in 1..n + 1 : Inner(e, n + 1)[i] = e[Len(e) - (n + 1) + i]
  BY <1>2, <1>4, InnerProperties
<1>6. ASSUME NEW i \in 1..n + 1
      PROVE  Inner(e, n + 1)[i] = Append(s, c)[i]
  <2>1. Len(e) - (n + 1) + i = Len(d) - n + i
    BY <1>1, <1>2
  <2>2. CASE i = n + 1
    <3>1. Len(d) - n + i = Len(d) + 1
      BY <1>1, <2>2
    <3> QED BY <1>2, <1>3, <1>5, <2>1, <2>2, <3>1, Zenon
  <2>3. CASE i # n + 1
    <3>1. i \in 1..n /\ Len(d) - n + i \in 1..Len(d)
      BY <1>1, <2>3
    <3>2. Inner(e, n + 1)[i] = e[Len(d) - n + i]
      BY <1>5, <2>1, Zenon
    <3>3. e[Len(d) - n + i] = s[i]
      BY <1>1, <1>2, <3>1, Zenon
    <3> QED BY <1>3, <3>1, <3>2, <3>3, Zenon
  <2> QED BY <2>2, <2>3
<1>7. Len(Inner(e, n + 1)) = Len(Append(s, c))
  BY <1>3, <1>5
<1> QED BY <1>3, <1>5, <1>6, <1>7, SeqEqual DEF s, e

LEMMA InnerPop ==
  ASSUME NEW d \in Seq(Container), NEW n \in 1..Len(d)
  PROVE  Inner(Front(d), n - 1) = Front(Inner(d, n))
<1> DEFINE s == Inner(d, n)
           e == Front(d)
<1>1. /\ s \in Seq(Container) /\ Len(s) = n /\ n \in Nat \ {0} /\ Len(d) \in Nat
      /\ s # << >> /\ d # << >>
      /\ \A i \in 1..n : s[i] = d[Len(d) - n + i]
  BY InnerProperties
<1>2. /\ e \in Seq(Container) /\ Len(e) = Len(d) - 1
      /\ \A i \in 1..Len(d) - 1 : e[i] = d[i]
  BY <1>1, FrontProperties, Zenon
<1> HIDE DEF s, e
<1>3. /\ Front(s) \in Seq(Container) /\ Len(Front(s)) = n - 1
      /\ \A i \in 1..n - 1 : Front(s)[i] = s[i]
  BY <1>1, FrontProperties, Zenon
<1>4. n - 1 \in 0..Len(e)
  BY <1>1, <1>2
<1>5. /\ Inner(e, n - 1) \in Seq(Container) /\ Len(Inner(e, n - 1)) = n - 1
      /\ \A i \in 1..n - 1 : Inner(e, n - 1)[i] = e[Len(e) - (n - 1) + i]
  BY <1>2, <1>4, InnerProperties
<1>6. ASSUME NEW i \in 1..n - 1
      PROVE  Inner(e, n - 1)[i] = Front(s)[i]
  <2>1. /\ Len(e) - (n - 1) + i = Len(d) - n + i
        /\ Len(d) - n + i \in 1..Len(d) - 1 /\ i \in 1..n
    BY <1>1, <1>2
  <2> QED BY <1>1, <1>2, <1>3, <1>5, <2>1, Zenon
<1>7. Len(Inner(e, n - 1)) = Len(Front(s))
  BY <1>3, <1>5
<1> QED BY <1>3, <1>5, <1>6, <1>7, SeqEqual DEF s, e

-----------------------------------------------------------------------------
(* The outermost array: what a call of the source leaves of it. *)

LEMMA RootBegun ==
  ASSUME NEW d \in Seq(Container), d # << >>, d[1].kind = "array"
  PROVE  /\ ValueBegun(d) \in Seq(Container) /\ Len(ValueBegun(d)) = Len(d)
         /\ ValueBegun(d) # << >> /\ ValueBegun(d)[1].kind = "array"
         /\ ValueBegun(d)[1].count = d[1].count + (IF Len(d) = 1 THEN 1 ELSE 0)
<1> DEFINE e == IF Last(d).kind = "array"
                  THEN [Last(d) EXCEPT !.count = @ + 1] ELSE Last(d)
<1>1. ValueBegun(d) \in Seq(Container) /\ Replaced(ValueBegun(d), d, e)
  BY ValueBegunProperties
<1>2. Last(d) \in Container /\ d[1] \in Container
  BY LastProperties, ElementOfSeq, EmptySeq
<1>3. Last(d).kind = "array" => e.kind = "array" /\ e.count = Last(d).count + 1
  BY <1>2 DEF Container
<1> HIDE DEF e
<1>4. /\ Len(ValueBegun(d)) = Len(d) /\ Len(d) \in Nat \ {0}
      /\ Len(d) = 1 => ValueBegun(d)[1] = e /\ Last(d) = d[1]
      /\ Len(d) > 1 => ValueBegun(d)[1] = d[1]
  BY <1>1, FirstReplaced, Zenon
<1>5. ValueBegun(d) # << >>
  BY <1>1, <1>4, EmptySeq
<1>6. d[1].count \in Nat
  BY <1>2 DEF Container
<1>7. CASE Len(d) = 1
  BY <1>1, <1>3, <1>4, <1>5, <1>6, <1>7
<1>8. CASE Len(d) > 1
  BY <1>1, <1>4, <1>5, <1>6, <1>8
<1>9. \A n \in Nat \ {0} : n = 1 \/ n > 1
  OBVIOUS
<1> QED BY <1>4, <1>7, <1>8, <1>9, Zenon

LEMMA RootDone ==
  ASSUME NEW d \in Seq(Container), d # << >>, d[1].kind = "array"
  PROVE  /\ Len(ValueDone(d)) = Len(d) /\ ValueDone(d) # << >>
         /\ ValueDone(d)[1].kind = "array" /\ ValueDone(d)[1].count = d[1].count
<1> DEFINE e == IF Last(d).kind = "object"
                  THEN [Last(d) EXCEPT !.atKey = TRUE] ELSE Last(d)
<1>1. ValueDone(d) \in Seq(Container) /\ Replaced(ValueDone(d), d, e)
  BY ValueDoneProperties
<1>2. Last(d).kind # "object" => e = Last(d)
  OBVIOUS
<1> HIDE DEF e
<1>3. /\ Len(ValueDone(d)) = Len(d) /\ Len(d) \in Nat \ {0}
      /\ Len(d) = 1 => ValueDone(d)[1] = e /\ Last(d) = d[1]
      /\ Len(d) > 1 => ValueDone(d)[1] = d[1]
  BY <1>1, FirstReplaced, Zenon
<1>4. ValueDone(d) # << >>
  BY <1>1, <1>3, EmptySeq
<1>5. \A n \in Nat \ {0} : n = 1 \/ n > 1
  OBVIOUS
<1>6. ValueDone(d)[1] = d[1]
  <2>1. CASE Len(d) = 1
    BY <1>2, <1>3, <2>1
  <2>2. CASE Len(d) > 1
    BY <1>3, <2>2, Zenon
  <2> QED BY <1>3, <1>5, <2>1, <2>2, Zenon
<1> QED BY <1>3, <1>4, <1>6, Zenon

LEMMA RootKey ==
  ASSUME NEW d \in Seq(Container), d # << >>, d[1].kind = "array", AtKey(d),
         NEW k \in Keys
  PROVE  Len(d) > 1 /\ Len(KeyBegun(d, k)) = Len(d) /\ KeyBegun(d, k)[1] = d[1]
<1> DEFINE e == [Last(d) EXCEPT !.atKey = FALSE, !.key = k, !.seen = @ \cup {k}]
<1>1. KeyBegun(d, k) \in Seq(Container) /\ Replaced(KeyBegun(d, k), d, e)
  BY KeyBegunProperties
<1> HIDE DEF e
<1>2. /\ Len(KeyBegun(d, k)) = Len(d) /\ Len(d) \in Nat \ {0}
      /\ Len(d) = 1 => KeyBegun(d, k)[1] = e /\ Last(d) = d[1]
      /\ Len(d) > 1 => KeyBegun(d, k)[1] = d[1]
  BY <1>1, FirstReplaced, Zenon
<1>3. Len(d) # 1
  BY <1>2 DEF AtKey
<1>4. Len(d) > 1
  BY <1>2, <1>3
<1> QED BY <1>2, <1>4

(***************************************************************************)
(* The call that hands out t, inside an array that is the outermost        *)
(* container: the array counts the values that begin directly in it.       *)
(***************************************************************************)
Rooted(d, e, t) ==
  /\ \/ t.kind \in Begins /\ ~AtKey(d) /\ Len(e) = Len(d) + 1
     \/ t.kind \in Ends /\ Len(e) = Len(d) - 1
        /\ (Len(d) = 1 => t.kind = "EndArray")
     \/ t.kind = "Key" /\ Len(d) > 1 /\ Len(e) = Len(d)
     \/ t.kind \in Scalars /\ ~AtKey(d) /\ Len(e) = Len(d)
  /\ Len(e) > 0 => /\ e[1].kind = "array"
                   /\ e[1].count = d[1].count +
                        (IF Len(d) = 1 /\ t.kind \in Values THEN 1 ELSE 0)

LEMMA SourceRooted ==
  ASSUME SourceTypeOK, StackMirrorsDocument, ReadToken,
         doc # << >>, doc[1].kind = "array"
  PROVE  Rooted(doc, doc', tok')
<1>1. doc \in Seq(Container) /\ Len(doc) \in Nat \ {0} /\ doc[1] \in Container
      /\ doc[1].count \in Nat
  <2>1. doc \in Seq(Container)
    BY DEF SourceTypeOK, DocumentTypeOK
  <2>2. Len(doc) \in Nat \ {0} /\ doc[1] \in Container
    BY <2>1, EmptySeq, ElementOfSeq
  <2> QED BY <2>1, <2>2 DEF Container
<1>2. ASSUME NEW kind \in ContainerKinds, LexOpen(kind),
             tok' = Token(BeginOf(kind))
      PROVE  Rooted(doc, doc', tok')
  <2>1. doc' = Append(ValueBegun(doc), NewContainer(kind)) /\ ~AtKey(doc)
        /\ tok'.kind = BeginOf(kind)
    BY <1>2 DEF LexOpen, Consume, RoomForValue, Token
  <2>2. tok'.kind \in Begins /\ tok'.kind \in Values
    BY <2>1 DEF BeginOf, Begins, Values
  <2>3. /\ ValueBegun(doc) \in Seq(Container) /\ Len(ValueBegun(doc)) = Len(doc)
        /\ ValueBegun(doc)[1].kind = "array"
        /\ ValueBegun(doc)[1].count = doc[1].count + (IF Len(doc) = 1 THEN 1 ELSE 0)
    BY <1>1, RootBegun
  <2>4. Len(doc') = Len(doc) + 1 /\ doc'[1] = ValueBegun(doc)[1]
    BY <1>1, <2>1, <2>3, NewContainerType, AppendProperties
  <2> QED BY <2>1, <2>2, <2>3, <2>4 DEF Rooted
<1>3. ASSUME LexClose, tok' = Token(EndOf(Last(doc).kind))
      PROVE  Rooted(doc, doc', tok')
  <2>1. doc' = ValueDone(Front(doc)) /\ tok'.kind = EndOf(Last(doc).kind)
    BY <1>3 DEF LexClose, Consume, Token
  <2>2. tok'.kind \in Ends /\ tok'.kind \notin Values
    BY <2>1 DEF EndOf, Ends, Values, Begins, Scalars
  <2>3. Len(doc') = Len(doc) - 1
    BY <1>1, <2>1, Lengths
  <2>4. Len(doc) = 1 => tok'.kind = "EndArray"
    <3>1. Len(doc) = 1 => Last(doc) = doc[1]
      BY DEF Last
    <3> QED BY <2>1, <3>1 DEF EndOf
  <2>5. ASSUME Len(doc') > 0
        PROVE  doc'[1].kind = "array" /\ doc'[1].count = doc[1].count
    <3>1. Front(doc) \in Seq(Container) /\ Front(doc) # << >>
          /\ Front(doc)[1] = doc[1]
      <4>1. /\ Front(doc) \in Seq(Container) /\ Len(Front(doc)) = Len(doc) - 1
            /\ \A i \in 1..Len(doc) - 1 : Front(doc)[i] = doc[i]
        BY <1>1, FrontProperties
      <4>2. 1 \in 1..Len(doc) - 1 /\ Len(Front(doc)) > 0
        BY <1>1, <2>3, <2>5, <4>1
      <4>3. Front(doc) # << >>
        BY <4>2
      <4> QED BY <4>1, <4>2, <4>3, Zenon
    <3> QED BY <2>1, <3>1, RootDone
  <2>6. doc[1].count = doc[1].count +
          (IF Len(doc) = 1 /\ tok'.kind \in Values THEN 1 ELSE 0)
    BY <1>1, <2>2
  <2> QED BY <2>2, <2>3, <2>4, <2>5, <2>6, Zenon DEF Rooted
<1>4. ASSUME NEW text \in Keys, LexKey(text), tok' = Text("Key", text)
      PROVE  Rooted(doc, doc', tok')
  <2>1. doc' = KeyBegun(doc, text) /\ AtKey(doc) /\ tok'.kind = "Key"
    BY <1>4 DEF LexKey, Consume, Text
  <2>2. Len(doc) > 1 /\ Len(doc') = Len(doc) /\ doc'[1] = doc[1]
    BY <1>1, <2>1, RootKey
  <2>3. doc[1].count = doc[1].count +
          (IF Len(doc) = 1 /\ tok'.kind \in Values THEN 1 ELSE 0)
    BY <1>1, <2>2
  <2> QED BY <2>1, <2>2, <2>3, Zenon DEF Rooted
<1>5. ASSUME LexScalar, tok'.kind \in Scalars
      PROVE  Rooted(doc, doc', tok')
  <2>1. doc' = ValueDone(ValueBegun(doc)) /\ ~AtKey(doc) /\ tok'.kind \in Values
    BY <1>5 DEF LexScalar, Consume, RoomForValue, Values
  <2>2. /\ ValueBegun(doc) \in Seq(Container) /\ Len(ValueBegun(doc)) = Len(doc)
        /\ ValueBegun(doc) # << >> /\ ValueBegun(doc)[1].kind = "array"
        /\ ValueBegun(doc)[1].count = doc[1].count + (IF Len(doc) = 1 THEN 1 ELSE 0)
    BY <1>1, RootBegun
  <2>3. /\ Len(doc') = Len(doc) /\ doc'[1].kind = "array"
        /\ doc'[1].count = ValueBegun(doc)[1].count
    BY <2>1, <2>2, RootDone
  <2> QED BY <1>5, <2>1, <2>2, <2>3 DEF Rooted
<1>6. ASSUME NEW text, tok' = Text("String", text) PROVE tok'.kind \in Scalars
  BY <1>6 DEF Text, Scalars
<1>7. ASSUME NEW kind \in LiteralKinds, tok' = Token(kind)
      PROVE  tok'.kind \in Scalars
  BY <1>7, LiteralsAssumption DEF Token, Scalars
<1> QED BY <1>2, <1>3, <1>4, <1>5, <1>6, <1>7, TokenSteps, Zenon

-----------------------------------------------------------------------------
(* The second wrapper, around an element, and the PreloadedSource's depth: *)
(* a token that leaves the element open leaves the wrapper in step with    *)
(* the containers that are open in it.                                     *)

LEMMA ElementMirrors ==
  ASSUME SourceTypeOK, StackMirrorsDocument, ReadToken,
         NEW n \in 0..Len(doc), n = 0 => tok'.kind \in Values,
         NEW e \in [stack : Seq(DupFrame), depth : Nat],
         Mirrors(e.stack, Inner(doc, n), TRUE), e.depth = n,
         PreDepth(n, tok') # 0, NEW o
  PROVE  /\ PreDepth(n, tok') \in 0..Len(doc')
         /\ Mirrors(Enforced(e, tok', o).stack, Inner(doc', PreDepth(n, tok')), TRUE)
         /\ Enforced(e, tok', o).depth = PreDepth(n, tok')
<1> DEFINE s == e.stack
           m == PreDepth(n, tok')
           d == Inner(doc, n)
<1>1. /\ doc \in Seq(Container) /\ s \in Seq(DupFrame) /\ tok' \in Tokens
      /\ n \in Nat /\ Len(doc) \in Nat
  BY TokenStepsType DEF SourceTypeOK, DocumentTypeOK
<1>2. d \in Seq(Container) /\ Len(d) = n
  BY <1>1, InnerProperties
<1>3. Enforced(e, tok', o).stack = NextStack(s, tok', o)
      /\ Enforced(e, tok', o).depth = NextDepth(n, tok')
  BY DEF Enforced
<1>4. NextDepth(n, tok') = m
  BY DEF NextDepth, PreDepth
<1>5. SUFFICES m \in 0..Len(doc') /\ Mirrors(NextStack(s, tok', o), Inner(doc', m), TRUE)
  BY <1>3, <1>4
<1>6. ASSUME NEW kind \in ContainerKinds, LexOpen(kind),
             tok' = Token(BeginOf(kind))
      PROVE  <1>5!1
  <2>1. doc' = Append(ValueBegun(doc), NewContainer(kind))
        /\ tok'.kind = BeginOf(kind)
    BY <1>6 DEF LexOpen, Consume, Token
  <2>2. m = n + 1
    BY <2>1 DEF PreDepth, BeginOf, Begins, Ends
  <2>3. Len(doc') = Len(doc) + 1
    BY <1>1, <2>1, Lengths
  <2>4. Mirrors(NextStack(s, tok', o), Append(ValueBegun(d), NewContainer(kind)), TRUE)
    BY <1>1, <1>2, <2>1, StackOpen, Zenon
  <2>5. Inner(doc', n + 1) = Append(ValueBegun(d), NewContainer(kind))
    <3>1. /\ ValueBegun(doc) \in Seq(Container) /\ n \in 0..Len(ValueBegun(doc))
      <4>1. Len(doc) = 0 => ValueBegun(doc) = << >>
        BY <1>1, ValueBegunProperties, EmptySeq
      <4>2. Len(ValueBegun(doc)) = Len(doc)
        BY <1>1, <4>1, ValueBegunProperties DEF Replaced
      <4>3. ValueBegun(doc) \in Seq(Container)
        BY <1>1, ValueBegunProperties, Zenon
      <4> QED BY <4>2, <4>3, Zenon
    <3>2. Inner(doc', n + 1) = Append(Inner(ValueBegun(doc), n), NewContainer(kind))
      BY <2>1, <3>1, NewContainerType, InnerPush, Zenon
    <3>3. Inner(ValueBegun(doc), n) = ValueBegun(d)
      BY <1>1, InnerBegun
    <3> QED BY <3>2, <3>3
  <2>6. n + 1 \in 0..Len(doc')
    BY <1>1, <2>3
  <2> QED BY <2>2, <2>4, <2>5, <2>6
<1>7. ASSUME LexClose, tok' = Token(EndOf(Last(doc).kind))
      PROVE  <1>5!1
  <2>1. doc' = ValueDone(Front(doc)) /\ doc # << >>
        /\ tok'.kind = EndOf(Last(doc).kind)
    BY <1>7 DEF LexClose, MayClose, Consume, Token
  <2>2. tok'.kind \in Ends /\ tok'.kind \notin Begins /\ tok'.kind \notin Values
    BY <2>1 DEF EndOf, Ends, Begins, Values, Scalars
  <2>3. n > 0 /\ m = n - 1
    BY <1>1, <2>2 DEF PreDepth
  <2>4. Len(doc') = Len(doc) - 1
    BY <1>1, <2>1, Lengths
  <2>5. d # << >>
    BY <1>2, <2>3
  <2>6. Mirrors(NextStack(s, tok', o), ValueDone(Front(d)), TRUE)
    BY <1>1, <1>2, <2>2, <2>5, StackClose, Zenon
  <2>7. Inner(doc', n - 1) = ValueDone(Front(d))
    <3>1. n \in 1..Len(doc)
      BY <1>1, <2>3
    <3>2. Inner(Front(doc), n - 1) = Front(d)
      BY <1>1, <3>1, InnerPop
    <3>3. Front(doc) \in Seq(Container) /\ n - 1 \in 0..Len(Front(doc))
      BY <1>1, <2>1, <3>1, FrontProperties
    <3> QED BY <2>1, <3>2, <3>3, InnerDone, Zenon
  <2>8. n - 1 \in 0..Len(doc')
    BY <1>1, <2>3, <2>4
  <2> QED BY <2>3, <2>6, <2>7, <2>8
<1>8. ASSUME NEW text \in Keys, LexKey(text), tok' = Text("Key", text)
      PROVE  <1>5!1
  <2>1. /\ doc' = KeyBegun(doc, text) /\ AtKey(doc) /\ tok'.kind = "Key"
        /\ tok'.text = text /\ doc # << >>
    BY <1>8 DEF LexKey, Consume, Text, AtKey
  <2>2. n > 0 /\ m = n
    BY <1>1, <2>1 DEF PreDepth, Begins, Ends, Values, Scalars
  <2>3. Len(doc') = Len(doc) /\ n \in 1..Len(doc)
    BY <1>1, <2>1, <2>2, Lengths
  <2>4. AtKey(d)
    BY <1>1, <2>1, <2>2, InnerProperties DEF AtKey
  <2>5. Mirrors(NextStack(s, tok', o), KeyBegun(d, text), TRUE)
    BY <1>1, <1>2, <2>1, <2>4, StackKey, Zenon
  <2>6. Inner(doc', n) = KeyBegun(d, text)
    BY <1>1, <2>1, <2>3, InnerKey
  <2> QED BY <1>1, <2>2, <2>3, <2>5, <2>6
<1>9. ASSUME LexScalar, tok'.kind \in Scalars
      PROVE  <1>5!1
  <2>1. doc' = ValueDone(ValueBegun(doc))
    BY <1>9 DEF LexScalar, Consume
  <2>2. m = n
    BY <1>1, <1>9 DEF PreDepth, Begins, Ends, Scalars
  <2>3. Len(doc') = Len(doc)
    BY <1>1, <2>1, Lengths
  <2>4. Mirrors(NextStack(s, tok', o), ValueDone(ValueBegun(d)), TRUE)
    BY <1>1, <1>2, <1>9, StackScalar, Zenon
  <2>5. Inner(doc', n) = ValueDone(ValueBegun(d))
    <3>1. Inner(ValueBegun(doc), n) = ValueBegun(d)
      BY <1>1, InnerBegun
    <3>2. ValueBegun(doc) \in Seq(Container) /\ n \in 0..Len(ValueBegun(doc))
      <4>1. Len(doc) = 0 => ValueBegun(doc) = << >>
        BY <1>1, ValueBegunProperties, EmptySeq
      <4>2. Len(ValueBegun(doc)) = Len(doc)
        BY <1>1, <4>1, ValueBegunProperties DEF Replaced
      <4>3. ValueBegun(doc) \in Seq(Container)
        BY <1>1, ValueBegunProperties, Zenon
      <4> QED BY <4>2, <4>3, Zenon
    <3> QED BY <2>1, <3>1, <3>2, InnerDone, Zenon
  <2> QED BY <1>1, <2>2, <2>3, <2>4, <2>5
<1>10. ASSUME NEW text, tok' = Text("String", text) PROVE tok'.kind \in Scalars
  BY <1>10 DEF Text, Scalars
<1>11. ASSUME NEW kind \in LiteralKinds, tok' = Token(kind)
       PROVE  tok'.kind \in Scalars
  BY <1>11, LiteralsAssumption DEF Token, Scalars
<1> QED BY <1>6, <1>7, <1>8, <1>9, <1>10, <1>11, TokenSteps, Zenon

-----------------------------------------------------------------------------
(* The inductive invariant. *)

Running == pc \in {"loop", "element"}

\* The elements the document has begun.
Begun == IF pc = "loop" THEN idx ELSE idx + 1

(***************************************************************************)
(* The array is the outermost container, even after a failed element; an   *)
(* element in progress has pre of the innermost containers, and its own    *)
(* wrapper is in step with those.                                          *)
(***************************************************************************)
InElement ==
  /\ Running => doc # << >> /\ doc[1].kind = "array"
  /\ pc = "loop" => pre = 0
  /\ pc = "element" =>
       /\ pre \in 1 .. Len(doc) - 1
       /\ ~DoContains => Mirrors(sub.stack, Inner(doc, pre), TRUE) /\ sub.depth = pre

\* Nothing has failed yet: the loop's counters are the document's.
Aligned ==
  Running =>
    /\ clean /\ iss = {} => /\ Len(doc) = pre + 1 /\ doc[1].count = Begun
                            /\ ~DoContains => values = idx
                            /\ array.withMeta => presence.seen = 0 .. Begun - 1
    /\ ~DoContains => clean \/ iss # {}

AtRest ==
  /\ pc = "begin" => /\ doc = << >> /\ clean /\ iss = {} /\ presence = NoPresence
                     /\ idx = 0 /\ pre = 0 /\ values = 0
  /\ pc # "done" <=> result = "none"

RealIssue(i) ==
  /\ i.code = "duplicate_key" => repeated
  /\ i.code = "truncated" => opt.maxBytes > 0 /\ offset > opt.maxBytes

\* The issues and the sink hold what has happened, and the sink all of it.
Told ==
  /\ \A i \in iss : RealIssue(i)
  /\ \A i \in collected : RealIssue(i)
  /\ collected \subseteq ArrayIssues
  /\ repeated /\ opt.onDuplicate # "Ignore" => collected # {}

ArrayInv == /\ IInv /\ ArrayTypeOK
            /\ InElement /\ Aligned /\ AtRest /\ Told /\ AcceptedIsSound

LEMMA ArrayInvImplies == ArrayInv => InStep /\ SubtreeMirrors /\ SoundVerdict
<1> SUFFICES ASSUME ArrayInv PROVE InStep /\ SubtreeMirrors /\ SoundVerdict
  OBVIOUS
<1>1. /\ ArrayTypeOK /\ InElement /\ Aligned /\ Told /\ AcceptedIsSound
      /\ doc \in Seq(Container)
  BY DEF ArrayInv, IInv, TypeOK, SourceTypeOK, DocumentTypeOK
<1>2. InStep
  <2>1. ASSUME pc = "loop" /\ clean /\ iss = {}
        PROVE  /\ Len(doc) = 1 /\ doc[1].count = idx /\ (~DoContains => values = idx)
               /\ array.withMeta => presence.seen = 0 .. idx - 1
    BY <1>1, <2>1 DEF Aligned, InElement, Running, Begun
  <2> QED BY <1>1, <2>1 DEF InStep
<1>3. SoundVerdict
  BY <1>1 DEF SoundVerdict, ReportsAreReal, Told, RealIssue
<1>4. ASSUME pc = "element" PROVE SubtreeMirrors
  <2>1. /\ pre \in 1 .. Len(doc) - 1 /\ pre \in Nat /\ Len(doc) \in Nat
        /\ clean /\ iss = {} => Len(doc) = pre + 1
    BY <1>1, <1>4 DEF InElement, Aligned, Running
  <2>2. ASSUME ~DoContains
        PROVE  /\ Len(sub.stack) = pre /\ sub.depth = pre
               /\ \A i \in 1..pre :
                    LET c == doc[Len(doc) - pre + i] IN
                    sub.stack[i].kind = c.kind /\ sub.stack[i].keys = c.seen
    <3>1. Mirrors(sub.stack, Inner(doc, pre), TRUE) /\ sub.depth = pre
      BY <1>1, <1>4, <2>2 DEF InElement
    <3>2. /\ Len(Inner(doc, pre)) = pre
          /\ \A i \in 1..pre : Inner(doc, pre)[i] = doc[Len(doc) - pre + i]
      <4>1. pre \in 0..Len(doc)
        BY <2>1
      <4> QED BY <1>1, <4>1, InnerProperties, Zenon
    <3>3. Len(sub.stack) = pre
      BY <3>1, <3>2 DEF Mirrors
    <3>4. ASSUME NEW i \in 1..pre
          PROVE  /\ sub.stack[i].kind = doc[Len(doc) - pre + i].kind
                 /\ sub.stack[i].keys = doc[Len(doc) - pre + i].seen
      <4> DEFINE n == Len(doc) - pre + i
      <4>1. Inner(doc, pre)[i] = doc[n]
        BY <3>2
      <4> HIDE DEF n
      <4>2. FrameMirrors(sub.stack[i], Inner(doc, pre)[i],
                         PointerTo(Inner(doc, pre), i - 1), TRUE)
        BY <3>1, <3>2, Zenon DEF Mirrors
      <4>3. sub.stack[i].kind = doc[n].kind /\ sub.stack[i].keys = doc[n].seen
        BY <4>1, <4>2 DEF FrameMirrors
      <4> QED BY <4>3 DEF n
    <3> QED BY <3>1, <3>3, <3>4
  <2>3. clean /\ iss = {} => pre = Len(doc) - 1
    BY <2>1
  <2> QED BY <1>4, <2>1, <2>2, <2>3, Zenon DEF SubtreeMirrors
<1>5. pc # "element" => SubtreeMirrors
  BY DEF SubtreeMirrors
<1> QED BY <1>2, <1>3, <1>4, <1>5

LEMMA ArrayInvInit == ArrayInit => ArrayInv
<1> SUFFICES ASSUME ArrayInit PROVE ArrayInv
  OBVIOUS
<1>1. /\ Init /\ array \in Arrays /\ pc = "begin" /\ idx = 0 /\ pre = 0
      /\ sub = NewEnforcer /\ matched = 0 /\ values = 0 /\ presence = NoPresence
      /\ iss = {} /\ collected = {} /\ result = "none"
  BY DEF ArrayInit, Init
<1>2. doc = << >> /\ clean /\ ~repeated
  BY <1>1 DEF Init, EnforcedInit, SourceInit, DocumentInit
<1>3. IInv /\ TypeOK
  BY <1>1, InitInv DEF IInv
<1>4. sub \in [stack : Seq(DupFrame), depth : Nat]
  BY <1>1 DEF NewEnforcer
<1>5. presence \in [seen : SUBSET Nat, wasNull : SUBSET Nat]
  BY <1>1 DEF NoPresence
<1>6. ArrayTypeOK
  BY <1>1, <1>3, <1>4, <1>5 DEF ArrayTypeOK
<1>7. InElement /\ Aligned
  BY <1>1 DEF InElement, Aligned, Running
<1>8. AtRest
  BY <1>1, <1>2 DEF AtRest
<1>9. Told /\ AcceptedIsSound
  BY <1>1, <1>2 DEF Told, AcceptedIsSound
<1> QED BY <1>3, <1>6, <1>7, <1>8, <1>9 DEF ArrayInv

-----------------------------------------------------------------------------
(* What a pull leaves, whatever the action that pulls. *)

LEMMA PullFacts ==
  ASSUME IInv, ArrayTypeOK, Pull
  PROVE  /\ IInv' /\ array' = array /\ opt' = opt /\ driver' = driver
         /\ (DoContains <=> DoContains')
         /\ clean' = (clean /\ Pulled)
         /\ issue' \in Issues /\ collected' \subseteq Issues
         /\ \/ ReadToken /\ Enforce /\ tok' \in Tokens /\ tok' # NoToken
            \/ /\ ReadError /\ doc' = doc /\ tok' = NoToken /\ ~Pulled
               /\ issue' = NoIssue /\ sunk' = {}
               /\ repeated' = repeated /\ offset' = offset
<1>1. IInv' /\ NextToken
  BY NextInv DEF Next, Pull
<1>2. array' = array /\ (DoContains <=> DoContains')
  BY DEF Pull, DoContains
<1>3. opt' = opt /\ driver' = driver
  BY <1>1 DEF NextToken, Enforce, PassError
<1>4. issue' \in Issues /\ collected' \subseteq Issues
  BY <1>1 DEF IInv, TypeOK, ArrayTypeOK, Pull
<1>5. CASE ReadToken /\ Enforce
  <2>1. tok' \in Tokens
    BY <1>5, TokenStepsType DEF IInv, TypeOK
  <2>2. tok' # NoToken
    BY <2>1 DEF NoToken, Token, Tokens, TokenKinds, Literals
  <2>3. clean' = (clean /\ Pulled)
    BY <1>5, <2>2, Zenon DEF Enforce, Pulled
  <2> QED BY <1>1, <1>2, <1>3, <1>4, <1>5, <2>1, <2>2, <2>3, Zenon
<1>6. CASE ReadError /\ PassError
  <2>1. /\ doc' = doc /\ tok' = NoToken /\ ~Pulled /\ issue' = NoIssue /\ sunk' = {}
        /\ repeated' = repeated /\ offset' = offset
    BY <1>6 DEF ReadError, LexError, PassError, Pulled
  <2>2. clean' = (clean /\ Pulled)
    BY <1>6, <2>1, Zenon DEF PassError
  <2> QED BY <1>1, <1>2, <1>3, <1>4, <1>6, <2>1, <2>2, Zenon
<1> QED BY <1>1, <1>5, <1>6 DEF NextToken

\* A wrapper whose innermost frame is the document's finds a repeated key
\* where the document has one.
LEMMA RepeatedIsReal ==
  ASSUME IInv, ReadToken, NEW s \in Seq(DupFrame), NEW d \in Seq(Container), NEW a,
         Mirrors(s, d, a), d # << >> => doc # << >> /\ Last(d) = Last(doc),
         NEW o, Repeated(s, tok', o)
  PROVE  repeated'
<1>1. tok' \in Tokens /\ tok'.kind = "Key" /\ s # << >> /\ tok'.text \in Last(s).keys
  BY TokenStepsType DEF IInv, TypeOK, Repeated, TakesKey
<1>2. PICK text \in Keys : LexKey(text) /\ tok' = Text("Key", text)
  <2>1. /\ \A kind : Token(BeginOf(kind)).kind # "Key"
        /\ \A kind : Token(EndOf(kind)).kind # "Key"
        /\ \A text : Text("String", text).kind # "Key"
        /\ \A kind \in LiteralKinds : Token(kind).kind # "Key"
    BY LiteralsAssumption DEF Token, Text, BeginOf, EndOf
  <2>2. SourceTypeOK /\ StackMirrorsDocument
    BY DEF IInv, TypeOK
  <2> QED BY <1>1, <2>1, <2>2, TokenSteps, Zenon
<1>3. AtKey(doc) /\ tok'.text = text /\ repeated' = (repeated \/ text \in Last(doc).seen)
  BY <1>2 DEF LexKey, Text
<1>4. d # << >> /\ Last(d) = Last(doc)
  BY <1>1, MirrorsTop
<1>5. AtKey(d)
  BY <1>3, <1>4 DEF AtKey
<1>6. Last(s).keys = Last(d).seen
  BY <1>1, <1>5, StackKey, Zenon
<1> QED BY <1>1, <1>3, <1>4, <1>6

RealNext(i) ==
  /\ i.code = "duplicate_key" => repeated'
  /\ i.code = "truncated" => opt'.maxBytes > 0 /\ offset' > opt'.maxBytes

LEMMA VerdictIsReal ==
  ASSUME IInv, ReadToken, Enforce, NEW e \in [stack : Seq(DupFrame), depth : Nat],
         NEW d \in Seq(Container), NEW a, Mirrors(e.stack, d, a),
         d # << >> => doc # << >> /\ Last(d) = Last(doc)
  PROVE  RealNext(Verdict(e, tok', Location(offset'), opt))
<1>1. opt' = opt
  BY DEF Enforce
<1>2. Rejected(e.stack, tok', opt) => repeated'
  BY RepeatedIsReal, Zenon DEF Rejected
<1>3. TooLong(Location(offset'), opt) => opt.maxBytes > 0 /\ offset' > opt.maxBytes
  BY DEF TooLong, Location
<1>4. \A path : /\ Issue("parse_error", path).code = "parse_error"
                /\ Issue("duplicate_key", path).code = "duplicate_key"
                /\ Issue("truncated", path).code = "truncated"
  BY DEF Issue
<1>5. CASE TooDeep(e, tok', opt)
  <2>1. tok'.kind # "Key"
    BY <1>5 DEF TooDeep, Begins
  <2>2. ~Rejected(e.stack, tok', opt)
    BY <2>1 DEF Rejected, Repeated, TakesKey
  <2>3. Verdict(e, tok', Location(offset'), opt).code = "parse_error"
    BY <1>4, <1>5, <2>2 DEF Verdict
  <2> QED BY <2>3 DEF RealNext
<1>6. CASE ~TooDeep(e, tok', opt) /\ Rejected(e.stack, tok', opt)
  <2>1. Verdict(e, tok', Location(offset'), opt).code = "duplicate_key"
    BY <1>4, <1>6 DEF Verdict
  <2> QED BY <1>2, <1>6, <2>1 DEF RealNext
<1>7. CASE ~TooDeep(e, tok', opt) /\ ~Rejected(e.stack, tok', opt)
  <2>1. \/ /\ TooLong(Location(offset'), opt)
           /\ Verdict(e, tok', Location(offset'), opt).code = "truncated"
        \/ Verdict(e, tok', Location(offset'), opt).code = "none"
    BY <1>4, <1>7 DEF Verdict, NoIssue
  <2> QED BY <1>1, <1>3, <2>1 DEF RealNext
<1> QED BY <1>5, <1>6, <1>7

\* Neither history nor the count of bytes goes back.
LEMMA StillReal ==
  ASSUME IInv, ArrayTypeOK, Pull, NEW i, RealIssue(i)
  PROVE  RealNext(i)
<1>1. opt' = opt /\ offset \in Int
  BY PullFacts DEF IInv, TypeOK, SourceTypeOK, DocumentTypeOK
<1>2. CASE ReadError /\ repeated' = repeated /\ offset' = offset
  BY <1>1, <1>2 DEF RealIssue, RealNext
<1>3. CASE ReadToken
  <2>1. (repeated => repeated') /\ \E d : Consume(d)
    <3>1. SourceTypeOK /\ StackMirrorsDocument
      BY DEF IInv, TypeOK
    <3>2. /\ \A kind : LexOpen(kind) => repeated' = repeated /\ \E d : Consume(d)
          /\ LexClose => repeated' = repeated /\ \E d : Consume(d)
          /\ LexScalar => repeated' = repeated /\ \E d : Consume(d)
      BY Zenon DEF LexOpen, LexClose, LexScalar
    <3>3. repeated' = repeated => (repeated => repeated')
      OBVIOUS
    <3>4. ASSUME NEW text, LexKey(text)
          PROVE  (repeated => repeated') /\ \E d : Consume(d)
      BY <3>4, Zenon DEF LexKey
    <3> QED BY <1>3, <3>1, <3>2, <3>3, <3>4, TokenSteps, Zenon
  <2>2. offset' > offset
    BY <1>1, <2>1, BoundsAssumption DEF Consume
  <2>3. offset' \in Int /\ opt.maxBytes \in Int
    <3>1. offset' \in Int
      BY PullFacts DEF IInv, TypeOK, SourceTypeOK, DocumentTypeOK
    <3>2. opt.maxBytes \in ByteLimits
      BY DEF IInv, TypeOK, ParseOpts
    <3>3. opt.maxBytes \in Nat
      BY <3>2, LimitsAssumption, Zenon
    <3> QED BY <3>1, <3>3
  <2> QED BY <1>1, <2>1, <2>2, <2>3 DEF RealIssue, RealNext
<1> QED BY <1>2, <1>3, PullFacts

LEMMA PullReports ==
  ASSUME IInv, ArrayTypeOK, Told, Pull
  PROVE  /\ RealNext(PullIssue)
         /\ \A i \in iss : RealNext(i)
         /\ \A i \in collected' : RealNext(i)
         /\ repeated' /\ opt'.onDuplicate # "Ignore" => collected' # {}
<1> DEFINE s == enf.stack
           v == Verdict(enf, tok', Location(offset'), opt)
<1>1. /\ doc \in Seq(Container) /\ enf \in [stack : Seq(DupFrame), depth : Nat]
      /\ Mirrors(enf.stack, doc, lost) /\ SourceTypeOK /\ StackMirrorsDocument
  BY DEF IInv, TypeOK, SourceTypeOK, DocumentTypeOK, Lockstep
<1>2. collected' = collected \cup sunk' /\ opt' = opt
  BY PullFacts DEF Pull
<1>3. \A i : RealIssue(i) => RealNext(i)
  BY StillReal, Zenon
<1>4. \A i \in iss \cup collected : RealNext(i)
  BY <1>3, Zenon DEF Told
<1>5. CASE ReadError /\ tok' = NoToken /\ sunk' = {} /\ repeated' = repeated
  <2>1. PullIssue.code = "parse_error"
    BY <1>5 DEF PullIssue, Issue
  <2>2. repeated' /\ opt'.onDuplicate # "Ignore" => collected' # {}
    BY <1>2, <1>5 DEF Told
  <2> QED BY <1>2, <1>4, <1>5, <2>1, <2>2 DEF RealNext
<1>6. CASE ReadToken /\ Enforce /\ tok' # NoToken
  <2>1. RealNext(v)
    BY <1>1, <1>6, VerdictIsReal, Zenon
  <2>2. PullIssue = v
    BY <1>6 DEF PullIssue, Enforce
  <2>3. Repeated(s, tok', opt) => repeated'
    BY <1>1, <1>6, RepeatedIsReal, Zenon
  <2>4. \A i \in sunk' : i = v \/ (i.code = "duplicate_key" /\ Repeated(s, tok', opt))
    <3>1. \A e, t, loc, o : \A i \in Sunk(e, t, loc, o) :
            \/ i = Verdict(e, t, loc, o)
            \/ /\ i = Issue("duplicate_key", TokenPath(e.stack, t))
               /\ Repeated(e.stack, t, o)
      BY Zenon DEF Sunk
    <3>2. \A path : Issue("duplicate_key", path).code = "duplicate_key"
      BY DEF Issue
    <3>3. sunk' = Sunk(enf, tok', Location(offset'), opt)
      BY <1>6 DEF Enforce
    <3>4. ASSUME NEW i \in sunk'
          PROVE  i = v \/ (i.code = "duplicate_key" /\ Repeated(s, tok', opt))
      <4>1. \/ i = v
            \/ /\ i = Issue("duplicate_key", TokenPath(s, tok'))
               /\ Repeated(s, tok', opt)
        BY <3>1, <3>3, <3>4, Zenon
      <4> QED BY <3>2, <4>1, Zenon
    <3> QED BY <3>4
  <2>5. \A i \in sunk' : RealNext(i)
    BY <2>1, <2>3, <2>4 DEF RealNext
  <2>6. ASSUME repeated', ~repeated, opt.onDuplicate # "Ignore"
        PROVE  sunk' # {}
    <3>1. PICK text \in Keys :
            LexKey(text) /\ tok' = Text("Key", text) /\ text \in Last(doc).seen
      <4>1. /\ \A kind : LexOpen(kind) => repeated' = repeated
            /\ LexClose => repeated' = repeated
            /\ LexScalar => repeated' = repeated
            /\ \A text : LexKey(text) =>
                 repeated' = (repeated \/ text \in Last(doc).seen)
        BY Zenon DEF LexOpen, LexClose, LexScalar, LexKey
      <4>2. repeated' # repeated
        BY <2>6
      <4>3. \E text \in Keys : LexKey(text) /\ tok' = Text("Key", text)
        BY <1>1, <1>6, <4>1, <4>2, TokenSteps, Zenon
      <4> QED BY <2>6, <4>1, <4>3
    <3>2. AtKey(doc) /\ tok'.kind = "Key" /\ tok'.text = text
      BY <3>1 DEF LexKey, Text
    <3>3. tok' \in Tokens
      BY <1>1, <1>6, TokenStepsType
    <3>4. TakesKey(s, tok') /\ Last(s).keys = Last(doc).seen
      BY <1>1, <3>2, <3>3, StackKey, Zenon
    <3>5. Repeated(s, tok', opt)
      BY <2>6, <3>1, <3>2, <3>4 DEF Repeated
    <3> QED BY <1>6, <3>5 DEF Enforce, Sunk
  <2>7. repeated' /\ opt'.onDuplicate # "Ignore" => collected' # {}
    <3>1. CASE repeated
      BY <1>2, <3>1 DEF Told
    <3>2. CASE ~repeated
      BY <1>2, <2>6, <3>2
    <3> QED BY <3>1, <3>2
  <2>8. \A i \in collected' : RealNext(i)
    BY <1>2, <1>4, <2>5
  <2> QED BY <1>4, <2>1, <2>2, <2>7, <2>8, Zenon
<1> QED BY <1>5, <1>6, PullFacts

LEMMA IssueTypes ==
  /\ NoIssue \in Issues
  /\ \A code \in {"parse_error", "invalid_type", "too_short", "too_long"} :
       Issue(code, << >>) \in ArrayIssues /\ Issue(code, << >>).code = code
<1>1. << >> \in Paths /\ <<EmptyKey>> \in Paths
  BY KeysAssumption DEF Paths
<1>2. \A code \in {"parse_error", "invalid_type", "too_short", "too_long"} :
        Issue(code, << >>) \in ArrayIssues /\ Issue(code, << >>).code = code
  BY <1>1 DEF Issue, ArrayIssues, Codes
<1> QED BY <1>1, <1>2 DEF NoIssue, Issues

LEMMA RebasedType ==
  ASSUME NEW i \in ArrayIssues, NEW n \in Nat
  PROVE  /\ Rebased(i, n) \in ArrayIssues /\ Head(Rebased(i, n).path) = n
         /\ Rebased(i, n).code \in {"parse_error", i.code}
<1>1. i.path \in Seq(Keys \cup Nat)
      /\ i.code \in Codes \cup {"invalid_type", "too_short", "too_long"}
  BY DEF ArrayIssues, Paths
<1>2. /\ <<n>> \o i.path \in Seq(Keys \cup Nat) /\ <<n>> \o i.path # << >>
      /\ Head(<<n>> \o i.path) = n
  BY <1>1
<1>3. <<n>> \in Seq(Keys \cup Nat) /\ Head(<<n>>) = n /\ <<n>> # << >>
  OBVIOUS
<1>4. \/ Rebased(i, n) = [code |-> "parse_error", path |-> <<n>>]
      \/ Rebased(i, n) = [code |-> i.code, path |-> <<n>> \o i.path]
  BY <1>2, <1>3, Zenon DEF Rebased, Issue
<1>5. "parse_error" \in Codes
  BY DEF Codes
<1>6. CASE Rebased(i, n) = [code |-> "parse_error", path |-> <<n>>]
  BY <1>3, <1>5, <1>6 DEF ArrayIssues, Paths
<1>7. CASE Rebased(i, n) = [code |-> i.code, path |-> <<n>> \o i.path]
  <2> DEFINE p == <<n>> \o i.path
  <2>1. p \in Seq(Keys \cup Nat) /\ Head(p) = n
    BY <1>2
  <2> HIDE DEF p
  <2>2. Rebased(i, n) = [code |-> i.code, path |-> p]
    BY <1>7 DEF p
  <2> QED BY <1>1, <2>1, <2>2 DEF ArrayIssues, Paths
<1> QED BY <1>4, <1>6, <1>7

LEMMA VerdictIssue ==
  ASSUME NEW e \in [stack : Seq(DupFrame), depth : Nat], NEW t \in Tokens,
         NEW loc, NEW o, Verdict(e, t, loc, o) # NoIssue
  PROVE  Verdict(e, t, loc, o) \in ArrayIssues
<1> DEFINE v == Verdict(e, t, loc, o)
<1>1. v \in Issues
  BY VerdictType
<1>2. \E code \in Codes : v = Issue(code, TokenPath(e.stack, t))
  BY DEF Verdict, Codes
<1>3. v.code \in Codes
  BY <1>2 DEF Issue
<1> HIDE DEF v
<1>4. v = [code |-> v.code, path |-> v.path] /\ v.path \in Paths
  BY <1>1 DEF Issues
<1>5. v \in ArrayIssues
  BY <1>3, <1>4 DEF ArrayIssues
<1> QED BY <1>5 DEF v

LEMMA PullIssueType ==
  ASSUME IInv, ArrayTypeOK, Pull, ~Pulled
  PROVE  PullIssue \in ArrayIssues
<1>1. enf \in [stack : Seq(DupFrame), depth : Nat]
  BY DEF IInv, TypeOK
<1>2. CASE tok' = NoToken
  BY <1>2, IssueTypes DEF PullIssue
<1>3. CASE ReadToken /\ Enforce /\ tok' \in Tokens /\ tok' # NoToken
  <2>1. PullIssue = Verdict(enf, tok', Location(offset'), opt) /\ PullIssue # NoIssue
    BY <1>3 DEF PullIssue, Enforce, Pulled
  <2> QED BY <1>1, <1>3, <2>1, VerdictIssue
<1> QED BY <1>2, <1>3, PullFacts

LEMMA CollectedType ==
  ASSUME IInv, ArrayTypeOK, Told, Pull
  PROVE  collected' \subseteq ArrayIssues
<1>1. enf \in [stack : Seq(DupFrame), depth : Nat]
  BY DEF IInv, TypeOK
<1>2. collected' = collected \cup sunk' /\ collected \subseteq ArrayIssues
  BY DEF Pull, Told
<1>3. CASE ReadToken /\ Enforce /\ tok' \in Tokens
  <2> DEFINE path == TokenPath(enf.stack, tok')
             v == Verdict(enf, tok', Location(offset'), opt)
  <2>1. path \in Paths
    BY <1>1, <1>3, TokenPathType
  <2>2. \A p \in Paths : Issue("duplicate_key", p) \in ArrayIssues
    BY IssueType DEF ArrayIssues, Issues, Codes
  <2>3. v # NoIssue => v \in ArrayIssues
    BY <1>1, <1>3, VerdictIssue
  <2>4. \A e, t, loc, o : \A i \in Sunk(e, t, loc, o) :
          \/ i = Verdict(e, t, loc, o) /\ i # NoIssue
          \/ i = Issue("duplicate_key", TokenPath(e.stack, t))
    BY Zenon DEF Sunk
  <2>5. sunk' = Sunk(enf, tok', Location(offset'), opt)
    BY <1>3 DEF Enforce
  <2>6. sunk' \subseteq ArrayIssues
    BY <2>1, <2>2, <2>3, <2>4, <2>5, Zenon
  <2> QED BY <1>2, <2>6
<1>4. CASE sunk' = {}
  BY <1>2, <1>4
<1> QED BY <1>3, <1>4, PullFacts

-----------------------------------------------------------------------------
(* What every action of the call leaves to show. *)

\* The variables an element can change, but for the issues.
CallTypes ==
  /\ {idx, pre, matched, values} \subseteq Nat
  /\ sub \in [stack : Seq(DupFrame), depth : Nat]
  /\ presence \in [seen : SUBSET Nat, wasNull : SUBSET Nat]

LEMMA TypesAgain ==
  ASSUME IInv, ArrayTypeOK, Pull, CallTypes',
         pc' \in {"begin", "loop", "element", "done"},
         iss' \subseteq ArrayIssues, result' \in {"none", "accepted", "rejected"}
  PROVE  IInv' /\ ArrayTypeOK'
<1>1. IInv' /\ TypeOK' /\ array' \in Arrays /\ collected' \subseteq Issues
  BY PullFacts DEF IInv, ArrayTypeOK
<1> QED BY <1>1, Zenon DEF ArrayTypeOK, CallTypes

LEMMA ToldAgain ==
  ASSUME IInv, ArrayTypeOK, Told, Pull, \A i \in iss' : RealNext(i)
  PROVE  Told'
<1>1. /\ \A i \in collected' : RealNext(i)
      /\ repeated' /\ opt'.onDuplicate # "Ignore" => collected' # {}
      /\ collected' \subseteq ArrayIssues
  BY PullReports, CollectedType, Zenon
<1> QED BY <1>1, Zenon DEF Told, RealIssue, RealNext

\* Where the call returns, only its verdict is left to show.
LEMMA Returned ==
  ASSUME ArrayInv, Pull, CallTypes', pc' = "done",
         result' \in {"accepted", "rejected"}, iss' \subseteq ArrayIssues,
         \A i \in iss' : RealNext(i), AcceptedIsSound'
  PROVE  ArrayInv'
<1>1. IInv /\ ArrayTypeOK /\ Told
  BY DEF ArrayInv
<1>2. IInv' /\ ArrayTypeOK'
  BY <1>1, TypesAgain, Zenon
<1>3. Told'
  BY <1>1, ToldAgain
<1>4. InElement' /\ Aligned' /\ AtRest'
  BY DEF InElement, Aligned, AtRest, Running
<1> QED BY <1>2, <1>3, <1>4 DEF ArrayInv

-----------------------------------------------------------------------------
(* The document around the element. *)

\* The PreloadedSource counts what the document counts.
LEMMA SubtreeSpan ==
  ASSUME NEW d \in Seq(Container), NEW e \in Seq(Container), NEW t \in Tokens,
         d # << >>, Rooted(d, e, t), NEW n \in Nat, n < Len(d),
         n = 0 => t.kind \in Values
  PROVE  /\ PreDepth(n, t) \in Nat /\ Len(e) - PreDepth(n, t) = Len(d) - n
         /\ PreDepth(n, t) < Len(e)
<1>1. Len(d) \in Nat /\ Len(e) \in Nat
  OBVIOUS
<1>2. CASE t.kind \in Begins /\ Len(e) = Len(d) + 1
  <2>1. PreDepth(n, t) = n + 1
    BY <1>2 DEF PreDepth, Begins, Ends
  <2> QED BY <1>1, <1>2, <2>1
<1>3. CASE t.kind \in Ends /\ Len(e) = Len(d) - 1
  <2>1. t.kind \notin Begins /\ t.kind \notin Values
    BY <1>3 DEF Begins, Ends, Values, Scalars
  <2>2. n > 0 /\ PreDepth(n, t) = n - 1
    BY <1>3, <2>1 DEF PreDepth
  <2> QED BY <1>1, <1>3, <2>2
<1>4. CASE (t.kind = "Key" \/ t.kind \in Scalars) /\ Len(e) = Len(d)
  <2>1. t.kind \notin Begins /\ t.kind \notin Ends
    BY <1>4 DEF Begins, Ends, Scalars
  <2>2. PreDepth(n, t) = n
    BY <2>1 DEF PreDepth
  <2> QED BY <1>1, <1>4, <2>2
<1> QED BY <1>2, <1>3, <1>4 DEF Rooted

LEMMA Surroundings ==
  ASSUME ArrayInv, Pull, Running
  PROVE  /\ doc \in Seq(Container) /\ doc' \in Seq(Container) /\ Len(doc) \in Nat \ {0}
         /\ pre \in Nat /\ pre < Len(doc) /\ (pre > 0 <=> pc = "element")
         /\ doc[1].count \in Nat
         /\ ReadToken => Rooted(doc, doc', tok')
<1>1. /\ IInv /\ ArrayTypeOK /\ InElement /\ SourceTypeOK /\ StackMirrorsDocument
      /\ doc \in Seq(Container)
  BY DEF ArrayInv, IInv, TypeOK, SourceTypeOK, DocumentTypeOK
<1>2. doc' \in Seq(Container)
  BY <1>1, PullFacts DEF IInv, TypeOK, SourceTypeOK, DocumentTypeOK
<1>3. doc # << >> /\ doc[1].kind = "array" /\ Len(doc) \in Nat \ {0}
  BY <1>1, EmptySeq DEF InElement
<1>4. pre \in Nat /\ pre < Len(doc) /\ (pre > 0 <=> pc = "element")
  <2>1. /\ pre \in Nat /\ (pc = "loop" \/ pc = "element")
        /\ pc = "loop" => pre = 0
        /\ pc = "element" => pre \in 1 .. Len(doc) - 1
    BY <1>1 DEF InElement, Running, ArrayTypeOK
  <2> QED BY <1>3, <2>1
<1>5. doc[1].count \in Nat
  <2>1. doc[1] \in Container
    BY <1>1, <1>3, ElementOfSeq
  <2> QED BY <2>1 DEF Container
<1> QED BY <1>1, <1>2, <1>3, <1>4, <1>5, SourceRooted, Zenon

(***************************************************************************)
(* Where the loop or an element's decoder has pulled, the array is still   *)
(* outermost unless it has just ended, and has counted the element.        *)
(***************************************************************************)
LEMMA StillInArray ==
  ASSUME ArrayInv, Pull, Running,
         \/ pc = "element"
         \/ tok' # NoToken /\ tok'.kind # "EndArray"
  PROVE  /\ doc' # << >> /\ doc'[1].kind = "array"
         /\ Len(doc) = pre + 1 /\ doc[1].count = Begun =>
              /\ doc'[1].count = idx + 1
              /\ pc = "loop" => tok'.kind \in Values
<1>1. /\ doc \in Seq(Container) /\ doc' \in Seq(Container) /\ Len(doc) \in Nat \ {0}
      /\ pre \in Nat /\ pre < Len(doc) /\ (pre > 0 <=> pc = "element")
      /\ doc[1].count \in Nat
  BY Surroundings
<1>2. /\ doc # << >> /\ doc[1].kind = "array" /\ idx \in Nat
      /\ Begun = IF pc = "loop" THEN idx ELSE idx + 1
      /\ pc = "loop" \/ pc = "element"
  BY <1>1 DEF ArrayInv, InElement, ArrayTypeOK, Begun, Running
<1>3. CASE doc' = doc /\ tok' = NoToken
  <2>1. pc = "element" /\ pc # "loop"
    BY <1>3
  <2> QED BY <1>2, <1>3, <2>1
<1>4. CASE ReadToken
  <2>1. Rooted(doc, doc', tok')
    BY <1>4, Surroundings
  <2>2. Len(doc') \in Nat /\ Len(doc') > 0
    <3>1. \/ Len(doc') = Len(doc) + 1
          \/ Len(doc') = Len(doc)
          \/ /\ Len(doc') = Len(doc) - 1
             /\ Len(doc) = 1 => tok'.kind = "EndArray"
      BY <2>1, Zenon DEF Rooted
    <3>2. Len(doc) = 1 => pre = 0
      BY <1>1
    <3>3. pre = 0 => tok'.kind # "EndArray"
      BY <1>1
    <3>4. \A a \in Nat \ {0} : \A b : b = a + 1 \/ b = a \/ (b = a - 1 /\ a # 1)
                                => b \in Nat /\ b > 0
      OBVIOUS
    <3> QED BY <1>1, <3>1, <3>2, <3>3, <3>4, Zenon
  <2>3. doc' # << >> /\ doc'[1].kind = "array"
        /\ doc'[1].count = doc[1].count +
             (IF Len(doc) = 1 /\ tok'.kind \in Values THEN 1 ELSE 0)
    BY <2>1, <2>2 DEF Rooted
  <2>4. ASSUME Len(doc) = pre + 1, doc[1].count = Begun, pc = "loop"
        PROVE  doc'[1].count = idx + 1 /\ tok'.kind \in Values
    <3>1. Len(doc) = 1 /\ tok'.kind # "EndArray" /\ doc[1].count = idx
      BY <1>1, <1>2, <2>4
    <3>2. tok'.kind \in Values
      BY <2>1, <3>1 DEF Rooted, Values
    <3> QED BY <1>2, <2>3, <3>1, <3>2
  <2>5. ASSUME Len(doc) = pre + 1, doc[1].count = Begun, pc = "element"
        PROVE  doc'[1].count = idx + 1
    <3>1. Len(doc) > 1 /\ doc[1].count = idx + 1
      BY <1>1, <1>2, <2>5
    <3>2. Len(doc) # 1
      <4>1. \A n \in Nat : n > 1 => n # 1
        OBVIOUS
      <4> QED BY <1>1, <3>1, <4>1, Zenon
    <3>3. doc'[1].count = doc[1].count + 0
      BY <2>3, <3>2
    <3> QED BY <1>1, <3>1, <3>3
  <2> QED BY <1>2, <2>3, <2>4, <2>5, Zenon
<1> QED BY <1>3, <1>4, PullFacts DEF ArrayInv

-----------------------------------------------------------------------------
(* An element ends, and sometimes the call with it. *)

Stays == pc' = "loop" /\ idx' = idx + 1 /\ pre' = 0 /\ sub' = NewEnforcer
         /\ result' = result

Stopped == /\ pc' = "done" /\ result' = "rejected"
           /\ iss' \in {{Issue("too_long", << >>)}, {Issue("parse_error", <<idx>>)}}
           /\ idx' = idx /\ pre' = pre /\ sub' = sub /\ values' = values
           /\ matched' \in {matched, matched + 1}

Counted == /\ DoContains /\ Stays /\ iss' = iss /\ values' = values
           /\ matched' \in {matched, matched + 1}

Failed(i) == /\ ~DoContains /\ Stays /\ values' = values /\ matched' = matched
             /\ iss' = iss \cup {Rebased(i, idx)}

Parsed == /\ ~DoContains /\ Stays /\ values' = values + 1 /\ matched' = matched
          /\ iss' = iss

LEMMA DecodedEnds ==
  ASSUME NEW err, ElementDecoded(err)
  PROVE  \/ Stopped /\ (DoContains \/ err = NoIssue)
         \/ Counted \/ Failed(Issue("invalid_type", << >>))
         \/ err # NoIssue /\ Failed(err)
         \/ err = NoIssue /\ Parsed
<1>1. CASE DoContains
  BY <1>1 DEF ElementDecoded, ElementCounted, NextElement, Reject, Return,
              Stopped, Counted, Stays
<1>2. CASE ~DoContains
  BY <1>2 DEF ElementDecoded, ElementFailed, ElementParsed, ElementStopped,
              NextElement, Return, Stopped, Failed, Parsed, Stays
<1> QED BY <1>1, <1>2

(***************************************************************************)
(* Any of them keeps the invariant, if the document is back in the array   *)
(* where nothing has failed.                                               *)
(***************************************************************************)
BackInArray ==
  /\ doc' # << >> /\ doc'[1].kind = "array"
  /\ presence' \in [seen : SUBSET Nat, wasNull : SUBSET Nat]
  /\ clean' /\ iss' = {} => /\ Len(doc') = 1 /\ doc'[1].count = idx + 1
                            /\ array.withMeta => presence'.seen = 0 .. idx

LEMMA ElementEnded ==
  ASSUME ArrayInv, Pull, Running, BackInArray,
         \/ Stopped \/ Counted
         \/ Pulled /\ Parsed
         \/ \E i \in ArrayIssues : RealNext(i) /\ Failed(i)
  PROVE  ArrayInv'
<1>1. /\ IInv /\ ArrayTypeOK /\ Aligned /\ AtRest /\ Told /\ result = "none"
      /\ {idx, pre, matched, values} \subseteq Nat /\ iss \subseteq ArrayIssues
      /\ sub \in [stack : Seq(DupFrame), depth : Nat] /\ pc # "done"
  BY DEF ArrayInv, ArrayTypeOK, AtRest, Running
<1>2. /\ array' = array /\ clean' = (clean /\ Pulled) /\ (DoContains <=> DoContains')
      /\ clean' \in BOOLEAN
  BY <1>1, PullFacts DEF IInv, TypeOK
<1>3. \A i \in iss : RealNext(i)
  BY <1>1, PullReports, Zenon
<1>4. NewEnforcer \in [stack : Seq(DupFrame), depth : Nat]
  BY DEF NewEnforcer
<1>5. /\ Issue("too_long", << >>) \in ArrayIssues /\ Issue("too_long", << >>).code = "too_long"
      /\ Issue("parse_error", <<idx>>) \in ArrayIssues
      /\ Issue("parse_error", <<idx>>).code = "parse_error"
  <2>1. <<idx>> \in Paths
    BY <1>1 DEF Paths
  <2>2. Issue("parse_error", <<idx>>) = [code |-> "parse_error", path |-> <<idx>>]
    BY DEF Issue
  <2>3. Issue("parse_error", <<idx>>) \in ArrayIssues
    BY <2>1, <2>2 DEF ArrayIssues, Codes
  <2> QED BY <2>2, <2>3, IssueTypes
<1>6. CASE Stopped
  <2>1. CallTypes'
    BY <1>1, <1>6 DEF Stopped, CallTypes, BackInArray
  <2>2. /\ pc' = "done" /\ result' = "rejected" /\ iss' \subseteq ArrayIssues
        /\ \A i \in iss' : RealNext(i)
    BY <1>5, <1>6 DEF Stopped, RealNext
  <2>3. AcceptedIsSound'
    BY <2>2 DEF AcceptedIsSound
  <2> QED BY <2>1, <2>2, <2>3, Returned
<1>7. ASSUME Stays, iss' \subseteq ArrayIssues, \A i \in iss' : RealNext(i),
             values' \in Nat, matched' \in Nat,
             iss' = {} /\ clean' /\ ~DoContains => values' = idx + 1,
             ~DoContains => clean' \/ iss' # {}
      PROVE  ArrayInv'
  <2>1. /\ pc' = "loop" /\ idx' = idx + 1 /\ pre' = 0 /\ sub' = NewEnforcer
        /\ result' = "none" /\ idx \in Nat
    BY <1>1, <1>7 DEF Stays
  <2>2. CallTypes'
    BY <1>4, <1>7, <2>1 DEF CallTypes, BackInArray
  <2>3. IInv' /\ ArrayTypeOK'
    BY <1>1, <1>7, <2>1, <2>2, TypesAgain
  <2>4. InElement'
    BY <2>1 DEF InElement, BackInArray, Running
  <2>5. Aligned'
    <3>1. Begun' = idx + 1 /\ Begun' - 1 = idx
      BY <2>1 DEF Begun
    <3>2. clean' /\ iss' = {} =>
            /\ Len(doc') = pre' + 1 /\ doc'[1].count = Begun'
            /\ ~DoContains' => values' = idx'
            /\ array'.withMeta => presence'.seen = 0 .. Begun' - 1
      BY <1>2, <1>7, <2>1, <3>1 DEF BackInArray
    <3>3. ~DoContains' => clean' \/ iss' # {}
      BY <1>2, <1>7
    <3> QED BY <3>2, <3>3, Zenon DEF Aligned
  <2>6. AtRest' /\ AcceptedIsSound'
    BY <2>1 DEF AtRest, AcceptedIsSound
  <2>7. Told'
    BY <1>1, <1>7, ToldAgain
  <2> QED BY <2>3, <2>4, <2>5, <2>6, <2>7 DEF ArrayInv
<1>8. CASE Counted
  BY <1>1, <1>3, <1>7, <1>8 DEF Counted
<1>9. CASE Pulled /\ Parsed
  <2>1. ~DoContains /\ Stays /\ values' = values + 1 /\ matched' = matched /\ iss' = iss
    BY <1>9 DEF Parsed
  <2>2. iss = {} => clean /\ values = idx
    BY <1>1, <2>1, Zenon DEF Aligned
  <2>3. clean \/ iss # {}
    BY <1>1, <2>1, Zenon DEF Aligned
  <2>4. iss' = {} /\ clean' /\ ~DoContains => values' = idx + 1
    BY <2>1, <2>2
  <2>5. clean' \/ iss' # {}
    BY <1>2, <1>9, <2>1, <2>3, Zenon
  <2> QED BY <1>1, <1>3, <1>7, <2>1, <2>4, <2>5
<1>10. CASE \E i \in ArrayIssues : RealNext(i) /\ Failed(i)
  <2>1. PICK i \in ArrayIssues : RealNext(i) /\ Failed(i)
    BY <1>10
  <2>2. Rebased(i, idx) \in ArrayIssues /\ Rebased(i, idx).code \in {"parse_error", i.code}
    BY <1>1, RebasedType
  <2>3. RealNext(Rebased(i, idx))
    BY <2>1, <2>2 DEF RealNext
  <2>4. /\ ~DoContains /\ Stays /\ values' = values /\ matched' = matched
        /\ iss' = iss \cup {Rebased(i, idx)}
    BY <2>1 DEF Failed
  <2>5. iss' # {} /\ iss' \subseteq ArrayIssues /\ \A j \in iss' : RealNext(j)
    BY <1>1, <1>3, <2>2, <2>3, <2>4
  <2> QED BY <1>1, <1>7, <2>4, <2>5
<1> QED BY <1>6, <1>8, <1>9, <1>10

-----------------------------------------------------------------------------
(* The element's decoder takes a token. *)

\* The presence map as the action leaves it.
Marked == /\ presence' \in [seen : SUBSET Nat, wasNull : SUBSET Nat]
          /\ clean /\ iss = {} /\ array.withMeta => presence'.seen = 0 .. idx

\* The wrapper of the element, before the token.
Wrapper(e) == ~DoContains => Mirrors(e.stack, Inner(doc, pre), TRUE) /\ e.depth = pre

LEMMA DecodeFacts ==
  ASSUME ArrayInv, Pull, Pulled, Running, Marked,
         pc = "element" \/ tok'.kind # "EndArray", pre = 0 => tok'.kind \in Values
  PROVE  /\ ReadToken /\ Enforce /\ tok' \in Tokens /\ opt' = opt /\ clean' = clean
         /\ pre \in 0..Len(doc) /\ pre \in Nat /\ doc \in Seq(Container)
         /\ doc' # << >> /\ doc'[1].kind = "array"
         /\ PreDepth(pre, tok') \in Nat /\ PreDepth(pre, tok') < Len(doc')
         /\ clean /\ iss = {} => /\ Len(doc') = PreDepth(pre, tok') + 1
                                 /\ doc'[1].count = idx + 1
                                 /\ ~DoContains => values = idx
<1>1. /\ IInv /\ ArrayTypeOK /\ Aligned /\ SourceTypeOK /\ StackMirrorsDocument
      /\ clean \in BOOLEAN
  BY DEF ArrayInv, IInv, TypeOK
<1>2. tok' # NoToken /\ ReadToken /\ Enforce /\ tok' \in Tokens /\ opt' = opt
  BY <1>1, PullFacts DEF Pulled
<1>3. clean' = clean
  BY <1>1, PullFacts, Zenon
<1>4. /\ doc \in Seq(Container) /\ doc' \in Seq(Container) /\ Len(doc) \in Nat \ {0}
      /\ pre \in Nat /\ pre < Len(doc) /\ Rooted(doc, doc', tok')
  BY <1>2, Surroundings
<1>5. doc # << >> /\ pre \in 0..Len(doc) /\ Len(doc') \in Nat
  BY <1>4
<1>6. /\ PreDepth(pre, tok') \in Nat
      /\ Len(doc') - PreDepth(pre, tok') = Len(doc) - pre
      /\ PreDepth(pre, tok') < Len(doc')
  BY <1>2, <1>4, <1>5, SubtreeSpan
<1>7. /\ doc' # << >> /\ doc'[1].kind = "array"
      /\ Len(doc) = pre + 1 /\ doc[1].count = Begun => doc'[1].count = idx + 1
  BY <1>2, StillInArray
<1>8. ASSUME clean, iss = {}
      PROVE  /\ Len(doc') = PreDepth(pre, tok') + 1
             /\ doc'[1].count = idx + 1 /\ (~DoContains => values = idx)
  <2>1. Len(doc) = pre + 1 /\ doc[1].count = Begun /\ (~DoContains => values = idx)
    BY <1>1, <1>8, Zenon DEF Aligned
  <2> QED BY <1>4, <1>5, <1>6, <1>7, <2>1
<1> QED BY <1>2, <1>3, <1>4, <1>5, <1>6, <1>7, <1>8

LEMMA DecodeGoesOn ==
  ASSUME ArrayInv, Pull, Pulled, Running, Marked,
         pc = "element" \/ tok'.kind # "EndArray", pre = 0 => tok'.kind \in Values,
         NEW e \in [stack : Seq(DupFrame), depth : Nat], Wrapper(e),
         PreDepth(pre, tok') # 0, pc' = "element", pre' = PreDepth(pre, tok'),
         sub' = (IF DoContains THEN sub ELSE Enforced(e, tok', opt)),
         UNCHANGED <<idx, matched, values, iss, result>>
  PROVE  ArrayInv'
<1>1. /\ IInv /\ ArrayTypeOK /\ Aligned /\ AtRest /\ Told /\ SourceTypeOK
      /\ StackMirrorsDocument /\ result = "none" /\ iss \subseteq ArrayIssues
      /\ {idx, pre, matched, values} \subseteq Nat
      /\ sub \in [stack : Seq(DupFrame), depth : Nat]
  BY DEF ArrayInv, IInv, TypeOK, ArrayTypeOK, AtRest, Running
<1>2. /\ ReadToken /\ tok' \in Tokens /\ clean' = clean
      /\ pre \in 0..Len(doc) /\ doc' # << >> /\ doc'[1].kind = "array"
      /\ pre' \in Nat /\ pre' # 0 /\ pre' < Len(doc')
      /\ clean /\ iss = {} => /\ Len(doc') = pre' + 1 /\ doc'[1].count = idx + 1
                              /\ ~DoContains => values = idx
  BY DecodeFacts
<1>3. array' = array /\ (DoContains <=> DoContains')
  BY <1>1, PullFacts
<1>4. /\ idx' = idx /\ matched' = matched /\ values' = values /\ iss' = iss
      /\ result' = "none"
  BY <1>1
<1>5. sub' \in [stack : Seq(DupFrame), depth : Nat]
  BY <1>1, <1>2, EnforcedType
<1>6. IInv' /\ ArrayTypeOK'
  <2>1. CallTypes'
    BY <1>1, <1>2, <1>4, <1>5, Zenon DEF CallTypes, Marked
  <2> QED BY <1>1, <1>4, <2>1, TypesAgain
<1>7. InElement'
  <2>1. ASSUME ~DoContains
        PROVE  Mirrors(sub'.stack, Inner(doc', pre'), TRUE) /\ sub'.depth = pre'
    <3>1. Mirrors(e.stack, Inner(doc, pre), TRUE) /\ e.depth = pre
      BY <2>1 DEF Wrapper
    <3>2. /\ Mirrors(Enforced(e, tok', opt).stack, Inner(doc', PreDepth(pre, tok')), TRUE)
          /\ Enforced(e, tok', opt).depth = PreDepth(pre, tok')
      BY <1>1, <1>2, <3>1, ElementMirrors, Zenon
    <3> QED BY <2>1, <3>2
  <2>2. pre' \in 1 .. Len(doc') - 1
    <3>1. doc' \in Seq(Container)
      BY <1>6 DEF IInv, TypeOK, SourceTypeOK, DocumentTypeOK
    <3> QED BY <1>2, <3>1
  <2> QED BY <1>2, <1>3, <2>1, <2>2 DEF InElement
<1>8. Aligned'
  <2>1. Begun' = idx + 1 /\ Begun' - 1 = idx
    BY <1>1, <1>4 DEF Begun
  <2>2. clean' /\ iss' = {} =>
          /\ Len(doc') = pre' + 1 /\ doc'[1].count = Begun'
          /\ ~DoContains' => values' = idx'
          /\ array'.withMeta => presence'.seen = 0 .. Begun' - 1
    BY <1>2, <1>3, <1>4, <2>1 DEF Marked
  <2>3. ~DoContains' => clean' \/ iss' # {}
    BY <1>1, <1>2, <1>3, <1>4, Zenon DEF Aligned
  <2> QED BY <2>2, <2>3, Zenon DEF Aligned
<1>9. AtRest' /\ AcceptedIsSound'
  BY <1>4 DEF AtRest, AcceptedIsSound
<1>10. Told'
  <2>1. \A i \in iss' : RealNext(i)
    BY <1>1, <1>4, PullReports, Zenon
  <2> QED BY <1>1, <2>1, ToldAgain
<1> QED BY <1>6, <1>7, <1>8, <1>9, <1>10 DEF ArrayInv

\* A token that the element's wrapper refuses, or that ends the element.
LEMMA DecodeEnds ==
  ASSUME ArrayInv, Pull, Pulled, Running, Marked,
         pc = "element" \/ tok'.kind # "EndArray", pre = 0 => tok'.kind \in Values,
         NEW e \in [stack : Seq(DupFrame), depth : Nat], Wrapper(e),
         NEW v, v = (IF DoContains THEN NoIssue
                     ELSE Verdict(e, tok', Location(offset'), opt)),
         v # NoIssue \/ PreDepth(pre, tok') = 0, ElementDecoded(v)
  PROVE  ArrayInv'
<1>1. /\ ReadToken /\ Enforce /\ tok' \in Tokens /\ opt' = opt /\ clean' = clean
      /\ pre \in 0..Len(doc) /\ doc \in Seq(Container) /\ IInv
      /\ doc' # << >> /\ doc'[1].kind = "array"
      /\ PreDepth(pre, tok') = 0 /\ clean /\ iss = {} =>
           Len(doc') = 1 /\ doc'[1].count = idx + 1
  <2>1. clean /\ iss = {} => /\ Len(doc') = PreDepth(pre, tok') + 1
                            /\ doc'[1].count = idx + 1
    BY DecodeFacts
  <2>2. PreDepth(pre, tok') = 0 => PreDepth(pre, tok') + 1 = 1
    OBVIOUS
  <2>3. PreDepth(pre, tok') = 0 /\ clean /\ iss = {} =>
           Len(doc') = 1 /\ doc'[1].count = idx + 1
    BY <2>1, <2>2, Zenon
  <2> QED BY <2>3, DecodeFacts, Zenon DEF ArrayInv
<1>2. DoContains => ~array.withMeta
  BY DEF DoContains
<1>3. ASSUME v # NoIssue
      PROVE  v \in ArrayIssues /\ RealNext(v) /\ ~DoContains
  <2>1. ~DoContains /\ v = Verdict(e, tok', Location(offset'), opt)
    BY <1>3
  <2>2. Mirrors(e.stack, Inner(doc, pre), TRUE)
    BY <2>1 DEF Wrapper
  <2>3. /\ Inner(doc, pre) \in Seq(Container)
        /\ Inner(doc, pre) # << >> => doc # << >> /\ Last(Inner(doc, pre)) = Last(doc)
    BY <1>1, InnerProperties
  <2>4. RealNext(Verdict(e, tok', Location(offset'), opt))
    BY <1>1, <2>2, <2>3, VerdictIsReal, Zenon
  <2>5. Verdict(e, tok', Location(offset'), opt) \in ArrayIssues
    BY <1>1, <1>3, <2>1, VerdictIssue, Zenon
  <2> QED BY <2>1, <2>4, <2>5, Zenon
<1>4. Issue("invalid_type", << >>) \in ArrayIssues
      /\ RealNext(Issue("invalid_type", << >>))
  BY IssueTypes DEF RealNext
<1>5. \/ Stopped \/ Counted \/ Parsed
      \/ \E i \in ArrayIssues : RealNext(i) /\ Failed(i)
  BY <1>3, <1>4, DecodedEnds, Zenon
<1>6. v # NoIssue => \E i \in ArrayIssues : RealNext(i) /\ Failed(i)
  BY <1>3, <1>4, DecodedEnds, Zenon DEF Counted
<1>7. /\ Stopped => iss' # {}
      /\ \A i : Failed(i) => iss' # {}
      /\ Counted \/ Parsed => iss' = iss
  BY DEF Stopped, Failed, Counted, Parsed
<1>8. ASSUME clean', iss' = {}
      PROVE  /\ Len(doc') = 1 /\ doc'[1].count = idx + 1
             /\ array.withMeta => presence'.seen = 0 .. idx
  <2>1. iss = {} /\ v = NoIssue
    BY <1>5, <1>6, <1>7, <1>8, Zenon
  <2> QED BY <1>1, <1>8, <2>1 DEF Marked
<1>9. BackInArray
  BY <1>1, <1>8 DEF BackInArray, Marked
<1> QED BY <1>5, <1>9, ElementEnded, Zenon

LEMMA DecodeStep ==
  ASSUME ArrayInv, Pull, Pulled, Running, Marked,
         pc = "element" \/ tok'.kind # "EndArray", pre = 0 => tok'.kind \in Values,
         NEW e \in [stack : Seq(DupFrame), depth : Nat], Wrapper(e),
         Decode(pre, e, tok')
  PROVE  ArrayInv'
<1> DEFINE v == IF DoContains THEN NoIssue
                ELSE Verdict(e, tok', Location(offset'), opt)
<1>1. \/ (v # NoIssue \/ PreDepth(pre, tok') = 0) /\ ElementDecoded(v)
      \/ /\ PreDepth(pre, tok') # 0 /\ pc' = "element" /\ pre' = PreDepth(pre, tok')
         /\ sub' = (IF DoContains THEN sub ELSE Enforced(e, tok', opt))
         /\ UNCHANGED <<idx, matched, values, iss, result>>
  BY DEF Decode
<1>2. v = (IF DoContains THEN NoIssue ELSE Verdict(e, tok', Location(offset'), opt))
  OBVIOUS
<1> HIDE DEF v
<1> QED BY <1>1, <1>2, DecodeEnds, DecodeGoesOn, Zenon

-----------------------------------------------------------------------------
(* One step per action. *)

LEMMA BeginStep ==
  ASSUME ArrayInv, Begin
  PROVE  ArrayInv'
<1>1. /\ IInv /\ ArrayTypeOK /\ Told /\ Pull /\ pc = "begin" /\ doc = << >> /\ clean
      /\ iss = {} /\ presence = NoPresence /\ idx = 0 /\ pre = 0 /\ values = 0
      /\ result = "none" /\ SourceTypeOK /\ StackMirrorsDocument
      /\ UNCHANGED <<idx, pre, sub, matched, values, presence>>
  BY DEF ArrayInv, AtRest, Begin, IInv, TypeOK
<1>2. CallTypes'
  <2>1. /\ {idx, pre, matched, values} \subseteq Nat
        /\ sub \in [stack : Seq(DupFrame), depth : Nat]
        /\ presence \in [seen : SUBSET Nat, wasNull : SUBSET Nat]
    BY <1>1 DEF ArrayTypeOK
  <2> QED BY <1>1, <2>1 DEF CallTypes
<1>3. CASE ~Pulled \/ tok'.kind # "BeginArray"
  <2>1. PICK code \in {"parse_error", "invalid_type"} : Reject(code)
    BY <1>3, Zenon DEF Begin
  <2>2. /\ pc' = "done" /\ result' = "rejected" /\ iss' = {Issue(code, << >>)}
    BY <2>1 DEF Reject, Return
  <2>3. iss' \subseteq ArrayIssues /\ \A i \in iss' : RealNext(i)
    BY <2>2, IssueTypes DEF RealNext
  <2>4. AcceptedIsSound'
    BY <2>2 DEF AcceptedIsSound
  <2> QED BY <1>1, <1>2, <2>2, <2>3, <2>4, Returned
<1>4. CASE Pulled /\ tok'.kind = "BeginArray"
  <2>1. pc' = "loop" /\ iss' = {} /\ result' = "none"
    BY <1>1, <1>4 DEF Begin
  <2>2. clean' = clean /\ clean' \in BOOLEAN /\ array' = array /\ ReadToken
    BY <1>1, <1>4, PullFacts DEF IInv, TypeOK
  <2>3. IInv' /\ ArrayTypeOK'
    BY <1>1, <1>2, <2>1, TypesAgain
  <2>4. LexOpen("array")
    <3>1. /\ \A kind \in ContainerKinds :
               Token(BeginOf(kind)).kind = "BeginArray" => kind = "array"
          /\ \A kind : Token(EndOf(kind)).kind # "BeginArray"
          /\ \A text : Text("Key", text).kind # "BeginArray"
          /\ \A text : Text("String", text).kind # "BeginArray"
          /\ \A kind \in LiteralKinds : Token(kind).kind # "BeginArray"
      BY LiteralsAssumption DEF Token, Text, BeginOf, EndOf, ContainerKinds
    <3> QED BY <1>1, <1>4, <2>2, <3>1, TokenSteps, Zenon
  <2>5. doc' = <<NewContainer("array")>>
    BY <1>1, <2>4 DEF LexOpen, Consume, ValueBegun
  <2>6. doc' # << >> /\ Len(doc') = 1 /\ doc'[1].kind = "array" /\ doc'[1].count = 0
    BY <2>5 DEF NewContainer
  <2>7. pc' # "element" /\ pc' # "begin" /\ pc' # "done" /\ Begun' = 0 /\ idx' = 0
        /\ pre' = 0 /\ values' = 0 /\ presence'.seen = {}
    BY <1>1, <2>1 DEF Begun, NoPresence
  <2>8. InElement' /\ AtRest' /\ AcceptedIsSound'
    BY <2>1, <2>6, <2>7, Zenon DEF InElement, AtRest, AcceptedIsSound
  <2>9. Aligned'
    <3>1. Len(doc') = pre' + 1 /\ doc'[1].count = Begun' /\ values' = idx'
          /\ presence'.seen = 0 .. Begun' - 1
      BY <2>6, <2>7
    <3>2. clean'
      BY <1>1, <2>2
    <3> QED BY <3>1, <3>2, Zenon DEF Aligned
  <2>10. Told'
    BY <1>1, <2>1, ToldAgain
  <2> QED BY <2>3, <2>8, <2>9, <2>10 DEF ArrayInv
<1> QED BY <1>3, <1>4

LEMMA LoopErrorStep ==
  ASSUME ArrayInv, LoopError
  PROVE  ArrayInv'
<1>1. /\ Pull /\ pc' = "done" /\ result' = "rejected"
      /\ iss' = {Issue("parse_error", << >>)}
      /\ UNCHANGED <<idx, pre, sub, matched, values, presence>>
  BY DEF LoopError, Reject, Return
<1>2. CallTypes'
  BY <1>1 DEF ArrayInv, ArrayTypeOK, CallTypes
<1>3. iss' \subseteq ArrayIssues /\ \A i \in iss' : RealNext(i)
  BY <1>1, IssueTypes DEF RealNext
<1>4. AcceptedIsSound'
  BY <1>1 DEF AcceptedIsSound
<1> QED BY <1>1, <1>2, <1>3, <1>4, Returned

LEMMA LoopEndStep ==
  ASSUME ArrayInv, LoopEnd
  PROVE  ArrayInv'
<1>1. /\ Pull /\ Pulled /\ pc = "loop" /\ Running /\ tok'.kind = "EndArray" /\ Finish
      /\ UNCHANGED <<idx, pre, sub, matched, values, presence>>
      /\ IInv /\ ArrayTypeOK /\ Told /\ Aligned /\ InElement /\ iss \subseteq ArrayIssues
      /\ SourceTypeOK /\ StackMirrorsDocument
  BY DEF LoopEnd, Running, ArrayInv, ArrayTypeOK, IInv, TypeOK
<1>2. CallTypes'
  BY <1>1 DEF ArrayTypeOK, CallTypes
<1>3. /\ opt' = opt /\ driver' = driver /\ array' = array /\ clean' = (clean /\ Pulled)
      /\ (DoContains <=> DoContains') /\ collected' \subseteq Issues /\ ReadToken /\ IInv'
  BY <1>1, PullFacts DEF Pulled
<1>4. /\ \A i \in iss : RealNext(i)
      /\ \A i \in collected' : RealNext(i)
      /\ repeated' /\ opt'.onDuplicate # "Ignore" => collected' # {}
  BY <1>1, PullReports, Zenon
<1>5. ASSUME NEW code \in {"too_short"}, Reject(code)
      PROVE  ArrayInv'
  <2>1. pc' = "done" /\ result' = "rejected" /\ iss' = {Issue(code, << >>)}
    BY <1>5 DEF Reject, Return
  <2>2. iss' \subseteq ArrayIssues /\ \A i \in iss' : RealNext(i)
    BY <2>1, IssueTypes DEF RealNext
  <2>3. AcceptedIsSound'
    BY <2>1 DEF AcceptedIsSound
  <2> QED BY <1>1, <1>2, <2>1, <2>2, <2>3, Returned
<1>6. CASE Return("rejected", iss)
  <2>1. pc' = "done" /\ result' = "rejected" /\ iss' = iss
    BY <1>6 DEF Return
  <2>2. AcceptedIsSound'
    BY <2>1 DEF AcceptedIsSound
  <2> QED BY <1>1, <1>2, <1>4, <2>1, <2>2, Returned
<1>7. CASE Return("rejected", collected')
  <2>1. pc' = "done" /\ result' = "rejected" /\ iss' = collected'
    BY <1>7 DEF Return
  <2>2. AcceptedIsSound'
    BY <2>1 DEF AcceptedIsSound
  <2>3. iss' \subseteq ArrayIssues
    BY <1>1, <2>1, CollectedType
  <2> QED BY <1>1, <1>2, <1>4, <2>1, <2>2, <2>3, Returned
<1>8. CASE Return("accepted", {}) /\ DoContains
  <2>1. pc' = "done" /\ result' = "accepted" /\ iss' = {} /\ DoContains'
    BY <1>3, <1>8 DEF Return
  <2>2. AcceptedIsSound'
    BY <2>1 DEF AcceptedIsSound
  <2> QED BY <1>1, <1>2, <2>1, <2>2, Returned
<1>9. CASE /\ Return("accepted", {}) /\ ~DoContains /\ iss = {}
           /\ collected' = {} \/ opt.failFast
  <2>1. pc' = "done" /\ result' = "accepted" /\ iss' = {}
    BY <1>9 DEF Return
  <2>2. clean
    BY <1>1, <1>9, Zenon DEF Aligned
  <2>3. Len(doc) = 1 /\ values = idx
    BY <1>1, <1>9, <2>2 DEF Aligned, InElement
  <2>4. clean'
    BY <1>1, <1>3, <2>2, Zenon
  <2>5. input' = "closed"
    <3>1. LexClose
      <4>1. /\ \A kind : Token(BeginOf(kind)).kind # "EndArray"
            /\ \A text : Text("Key", text).kind # "EndArray"
            /\ \A text : Text("String", text).kind # "EndArray"
            /\ \A kind \in LiteralKinds : Token(kind).kind # "EndArray"
        BY LiteralsAssumption DEF Token, Text, BeginOf
      <4> QED BY <1>1, <1>3, <4>1, TokenSteps, Zenon
    <3>2. doc \in Seq(Container) /\ doc # << >>
      BY <1>1, <2>3, EmptySeq DEF SourceTypeOK, DocumentTypeOK, InElement
    <3>3. ValueDone(Front(doc)) = << >>
      <4>1. Front(doc) \in Seq(Container) /\ Len(Front(doc)) = 0
        BY <2>3, <3>2, FrontProperties
      <4>2. Front(doc) = << >>
        BY <4>1, EmptySeq
      <4> QED BY <4>2 DEF ValueDone
    <3> QED BY <3>1, <3>3 DEF LexClose, Consume
  <2>6. opt.onDuplicate # "Ignore" => ~repeated'
    <3>1. CleanDocument' /\ opt.onDuplicate \in {"Ignore", "Warn", "Error"}
      BY <1>1, <1>3 DEF IInv, TypeOK, ParseOpts
    <3>2. CASE opt.failFast
      BY <1>3, <2>4, <3>1, <3>2 DEF CleanDocument
    <3>3. CASE collected' = {}
      BY <1>3, <1>4, <3>3
    <3> QED BY <1>9, <3>2, <3>3
  <2>7. opt'.maxBytes > 0 => Location(offset)' <= opt'.maxBytes
    BY <1>3, <2>4 DEF IInv, CleanDocument
  <2>8. AcceptedIsSound'
    BY <1>1, <1>3, <2>3, <2>4, <2>5, <2>6, <2>7 DEF AcceptedIsSound
  <2> QED BY <1>1, <1>2, <2>1, <2>8, Returned
<1> QED BY <1>1, <1>5, <1>6, <1>7, <1>8, <1>9 DEF Finish

\* The presence map of an element in progress holds its own index already.
LEMMA MarkedSoFar ==
  ASSUME ArrayInv, pc = "element", presence' = presence
  PROVE  Marked
<1>1. ArrayTypeOK /\ Aligned
  BY DEF ArrayInv
<1>2. Begun = idx + 1 /\ Begun - 1 = idx
  BY <1>1 DEF Begun, ArrayTypeOK
<1>3. Running
  BY DEF Running
<1>4. clean /\ iss = {} /\ array.withMeta => presence.seen = 0 .. idx
  BY <1>1, <1>2, <1>3 DEF Aligned
<1>5. presence \in [seen : SUBSET Nat, wasNull : SUBSET Nat]
  BY <1>1 DEF ArrayTypeOK
<1> QED BY <1>4, <1>5 DEF Marked

LEMMA MarkedNow ==
  ASSUME ArrayInv, pc = "loop", NEW t, Mark(t)
  PROVE  Marked
<1>1. ArrayTypeOK /\ Aligned /\ idx \in Nat
      /\ presence \in [seen : SUBSET Nat, wasNull : SUBSET Nat]
  BY DEF ArrayInv, ArrayTypeOK
<1>2. CASE ~array.withMeta
  BY <1>1, <1>2 DEF Mark, Marked
<1>3. CASE array.withMeta
  <2> DEFINE nulls == presence.wasNull \cup (IF t.kind = "Null" THEN {idx} ELSE {})
  <2>1. presence' = [seen |-> presence.seen \cup {idx}, wasNull |-> nulls]
    BY <1>3 DEF Mark
  <2>2. nulls \subseteq Nat
    BY <1>1
  <2> HIDE DEF nulls
  <2>3. presence' \in [seen : SUBSET Nat, wasNull : SUBSET Nat]
    BY <1>1, <2>1, <2>2
  <2>4. ASSUME clean, iss = {}
        PROVE  presence'.seen = 0 .. idx
    <3>1. presence.seen = 0 .. idx - 1
      BY <1>1, <1>3, <2>4 DEF Aligned, Running, Begun
    <3>2. (0 .. idx - 1) \cup {idx} = 0 .. idx
      BY <1>1
    <3> QED BY <2>1, <3>1, <3>2
  <2> QED BY <2>3, <2>4 DEF Marked
<1> QED BY <1>2, <1>3

\* Issues of the call's own.
LEMMA OwnIssues ==
  \A code \in {"parse_error", "invalid_type"} :
    /\ Issue(code, << >>) \in ArrayIssues /\ Issue(code, << >>) # NoIssue
    /\ RealNext(Issue(code, << >>))
<1>1. \A code \in {"parse_error", "invalid_type"} :
        Issue(code, << >>) \in ArrayIssues /\ Issue(code, << >>).code = code
  BY IssueTypes
<1> QED BY <1>1 DEF RealNext, NoIssue

LEMMA LoopElementStep ==
  ASSUME ArrayInv, LoopElement
  PROVE  ArrayInv'
<1>1. /\ Pull /\ Pulled /\ pc = "loop" /\ Running /\ tok'.kind # "EndArray"
      /\ TakeElement(tok') /\ IInv /\ ArrayTypeOK /\ Aligned /\ pre = 0
      /\ doc \in Seq(Container)
  BY DEF LoopElement, Running, ArrayInv, InElement, IInv, TypeOK, SourceTypeOK,
         DocumentTypeOK
<1>2. Marked
  BY <1>1, MarkedNow DEF LoopElement
<1>3. presence' \in [seen : SUBSET Nat, wasNull : SUBSET Nat]
  BY <1>2 DEF Marked
<1>4. /\ doc' # << >> /\ doc'[1].kind = "array" /\ clean' = clean
      /\ clean /\ iss = {} => tok'.kind \in Values
  <2>1. tok' # NoToken
    BY <1>1 DEF Pulled
  <2>2. /\ doc' # << >> /\ doc'[1].kind = "array"
        /\ Len(doc) = pre + 1 /\ doc[1].count = Begun => tok'.kind \in Values
    BY <1>1, <2>1, StillInArray
  <2>3. clean /\ iss = {} => Len(doc) = pre + 1 /\ doc[1].count = Begun
    BY <1>1, Zenon DEF Aligned
  <2>4. clean \in BOOLEAN /\ clean' = (clean /\ Pulled)
    BY <1>1, PullFacts DEF IInv, TypeOK
  <2>5. clean' = clean
    BY <1>1, <2>4, Zenon
  <2> QED BY <2>2, <2>3, <2>5, Zenon
<1>5. CASE tok'.kind = "String" /\ ElementParsed /\ ~DoContains
  <2>1. tok'.kind \in Values /\ PreDepth(pre, tok') = 0
    BY <1>1, <1>5 DEF Values, Scalars, PreDepth, Begins, Ends
  <2>2. Parsed /\ iss' = iss
    BY <1>5 DEF ElementParsed, NextElement, Parsed, Stays
  <2>3. clean /\ iss = {} => Len(doc') = 1 /\ doc'[1].count = idx + 1
    <3>1. clean /\ iss = {} => /\ Len(doc') = PreDepth(pre, tok') + 1
                              /\ doc'[1].count = idx + 1
      BY <1>1, <1>2, <2>1, DecodeFacts
    <3> QED BY <2>1, <3>1
  <2>4. BackInArray
    BY <1>2, <1>3, <1>4, <2>2, <2>3 DEF BackInArray, Marked
  <2> QED BY <1>1, <2>2, <2>4, ElementEnded, Zenon
<1>6. CASE ElementFailed(Issue("invalid_type", << >>)) /\ ~DoContains
  <2>1. Failed(Issue("invalid_type", << >>))
    BY <1>6 DEF ElementFailed, NextElement, Failed, Stays
  <2>2. iss' # {}
    BY <2>1 DEF Failed
  <2>3. BackInArray
    BY <1>3, <1>4, <2>2 DEF BackInArray
  <2> QED BY <1>1, <2>1, <2>3, OwnIssues, ElementEnded, Zenon
<1>7. CASE tok'.kind \in Values /\ Decode(0, NewEnforcer, tok')
  <2>1. NewEnforcer \in [stack : Seq(DupFrame), depth : Nat]
    BY DEF NewEnforcer
  <2>2. Wrapper(NewEnforcer)
    <3>1. Inner(doc, 0) = << >>
      BY <1>1, InnerProperties
    <3>2. Mirrors(<< >>, << >>, TRUE)
      BY DEF Mirrors
    <3> QED BY <1>1, <3>1, <3>2 DEF Wrapper, NewEnforcer
  <2> QED BY <1>1, <1>2, <1>7, <2>1, <2>2, DecodeStep, Zenon
<1>8. CASE tok'.kind \notin Values /\ ElementDecoded(Issue("parse_error", << >>))
  <2>1. \/ Stopped \/ Counted
        \/ \E i \in ArrayIssues : RealNext(i) /\ Failed(i)
    BY <1>8, DecodedEnds, OwnIssues, Zenon
  <2>2. /\ Stopped => iss' # {}
        /\ \A i : Failed(i) => iss' # {}
        /\ Counted => iss' = iss
    BY DEF Stopped, Failed, Counted
  <2>3. ~(clean' /\ iss' = {})
    BY <1>4, <1>8, <2>1, <2>2, Zenon
  <2>4. BackInArray
    BY <1>3, <1>4, <2>3 DEF BackInArray
  <2> QED BY <1>1, <2>1, <2>4, ElementEnded, Zenon
<1> QED BY <1>1, <1>5, <1>6, <1>7, <1>8 DEF TakeElement

LEMMA ElementErrorStep ==
  ASSUME ArrayInv, ElementError
  PROVE  ArrayInv'
<1>1. /\ Pull /\ ~Pulled /\ pc = "element" /\ Running /\ presence' = presence
      /\ ElementDecoded(PullIssue) /\ IInv /\ ArrayTypeOK /\ Told
  BY DEF ElementError, Running, ArrayInv
<1>2. PullIssue \in ArrayIssues /\ RealNext(PullIssue)
  BY <1>1, PullIssueType, PullReports, Zenon
<1>3. PullIssue # NoIssue
  <2>1. NoIssue \notin ArrayIssues
    BY DEF NoIssue, ArrayIssues, Codes
  <2> QED BY <1>2, <2>1, Zenon
<1>4. \/ Stopped \/ Counted
      \/ \E i \in ArrayIssues : RealNext(i) /\ Failed(i)
  BY <1>1, <1>2, <1>3, DecodedEnds, OwnIssues, Zenon
<1>5. BackInArray
  <2>1. doc' # << >> /\ doc'[1].kind = "array"
    BY <1>1, StillInArray
  <2>2. ~clean'
    BY <1>1, PullFacts, Zenon
  <2>3. presence' \in [seen : SUBSET Nat, wasNull : SUBSET Nat]
    BY <1>1 DEF ArrayTypeOK
  <2> QED BY <2>1, <2>2, <2>3, Zenon DEF BackInArray
<1> QED BY <1>1, <1>4, <1>5, ElementEnded, Zenon

LEMMA ElementTokenStep ==
  ASSUME ArrayInv, ElementToken
  PROVE  ArrayInv'
<1>1. /\ Pull /\ Pulled /\ pc = "element" /\ Running /\ Decode(pre, sub, tok')
      /\ ArrayTypeOK /\ InElement
  BY DEF ElementToken, Running, ArrayInv
<1>2. Marked
  BY <1>1, MarkedSoFar DEF ElementToken
<1>3. pre # 0
  BY <1>1 DEF InElement
<1>4. sub \in [stack : Seq(DupFrame), depth : Nat] /\ Wrapper(sub)
  BY <1>1 DEF ArrayTypeOK, InElement, Wrapper
<1> QED BY <1>1, <1>2, <1>3, <1>4, DecodeStep, Zenon

LEMMA ArrayStutter ==
  ASSUME ArrayInv, UNCHANGED arrayVars
  PROVE  ArrayInv'
<1>1. /\ UNCHANGED vars /\ UNCHANGED loopVars
  BY DEF arrayVars
<1>2. /\ doc' = doc /\ input' = input /\ offset' = offset /\ repeated' = repeated
      /\ opt' = opt /\ driver' = driver /\ clean' = clean
  BY <1>1 DEF vars, sourceVars, documentVars, wrapperVars
<1>3. /\ array' = array /\ pc' = pc /\ idx' = idx /\ pre' = pre /\ sub' = sub
      /\ matched' = matched /\ values' = values /\ presence' = presence
      /\ iss' = iss /\ collected' = collected /\ result' = result
  BY <1>1 DEF loopVars
<1>4. IInv' /\ TypeOK'
  BY <1>1, NextInv DEF ArrayInv, IInv
<1>5. ArrayTypeOK'
  BY <1>3, <1>4 DEF ArrayInv, ArrayTypeOK
<1>6. DoContains' <=> DoContains
  BY <1>3 DEF DoContains
<1>7. Location(offset)' = Location(offset)
  BY <1>2 DEF Location
<1>8. InElement'
  BY <1>2, <1>3, <1>6 DEF ArrayInv, InElement, Running
<1>9. Aligned'
  BY <1>2, <1>3, <1>6 DEF ArrayInv, Aligned, Running, Begun
<1>10. AtRest'
  BY <1>2, <1>3 DEF ArrayInv, AtRest
<1>11. Told'
  BY <1>2, <1>3 DEF ArrayInv, Told, RealIssue
<1>12. AcceptedIsSound'
  BY <1>2, <1>3, <1>6, <1>7 DEF ArrayInv, AcceptedIsSound
<1> QED BY <1>4, <1>5, <1>8, <1>9, <1>10, <1>11, <1>12 DEF ArrayInv

LEMMA ArrayNextInv == ArrayInv /\ [ArrayNext]_arrayVars => ArrayInv'
BY BeginStep, LoopErrorStep, LoopEndStep, LoopElementStep, ElementErrorStep,
   ElementTokenStep, ArrayStutter DEF ArrayNext

-----------------------------------------------------------------------------
(* Where the first failure is reported. *)

LEMMA FailureLocated ==
  ASSUME ArrayInv, Pull, Running, iss = {}, NEW i \in ArrayIssues, Failed(i),
         \/ pc = "element"
         \/ tok' # NoToken /\ tok'.kind # "EndArray"
  PROVE  \A j \in iss' : Head(j.path) = doc'[1].count - 1
<1>1. ~DoContains /\ iss' = {Rebased(i, idx)} /\ idx \in Nat
  BY DEF Failed, ArrayInv, ArrayTypeOK
<1>2. Len(doc) = pre + 1 /\ doc[1].count = Begun
  <2>1. Aligned
    BY DEF ArrayInv
  <2> QED BY <1>1, <2>1, Zenon DEF Aligned
<1>3. doc'[1].count = idx + 1
  BY <1>2, StillInArray
<1>4. Head(Rebased(i, idx).path) = idx
  BY <1>1, RebasedType
<1> QED BY <1>1, <1>3, <1>4

\* Issues come from an element that fails, or with the end of the call.
LEMMA DecodeFails ==
  ASSUME NEW n, NEW e \in [stack : Seq(DupFrame), depth : Nat], tok' \in Tokens,
         Decode(n, e, tok')
  PROVE  \/ iss' = iss
         \/ result' # "none"
         \/ \E i \in ArrayIssues : Failed(i)
<1> DEFINE v == IF DoContains THEN NoIssue
                ELSE Verdict(e, tok', Location(offset'), opt)
<1>1. iss' = iss \/ ElementDecoded(v)
  BY DEF Decode
<1>2. v # NoIssue => v \in ArrayIssues
  BY VerdictIssue
<1>3. Issue("invalid_type", << >>) \in ArrayIssues
  BY IssueTypes
<1> HIDE DEF v
<1>4. ElementDecoded(v) =>
        \/ Stopped \/ Counted \/ Parsed
        \/ \E i \in ArrayIssues : Failed(i)
  BY <1>2, <1>3, DecodedEnds, Zenon
<1>5. (Stopped => result' # "none") /\ (Counted \/ Parsed => iss' = iss)
  BY DEF Stopped, Counted, Parsed
<1> QED BY <1>1, <1>4, <1>5, Zenon

LEMMA FirstFailureStep ==
  ASSUME ArrayInv, ArrayNext, pc # "begin", iss = {}, iss' # {}, result' = "none"
  PROVE  \A i \in iss' : Head(i.path) = doc'[1].count - 1
<1>1. iss' # iss /\ ArrayTypeOK /\ IInv
  BY DEF ArrayInv
<1>2. CASE Begin \/ LoopError \/ LoopEnd
  BY <1>2 DEF Begin, LoopError, LoopEnd, Finish, Reject, Return
<1>3. CASE LoopElement
  <2>1. /\ Pull /\ Pulled /\ Running /\ tok'.kind # "EndArray" /\ TakeElement(tok')
        /\ tok' # NoToken
    BY <1>3 DEF LoopElement, Running, Pulled
  <2>2. tok' \in Tokens
    BY <1>1, <2>1, PullFacts
  <2>3. \E i \in ArrayIssues : Failed(i)
    <3>1. ElementParsed => iss' = iss
      BY DEF ElementParsed
    <3>2. CASE ElementFailed(Issue("invalid_type", << >>)) /\ ~DoContains
      <4>1. Failed(Issue("invalid_type", << >>))
        BY <3>2 DEF ElementFailed, NextElement, Failed, Stays
      <4> QED BY <4>1, OwnIssues, Zenon
    <3>3. CASE Decode(0, NewEnforcer, tok')
      <4>1. NewEnforcer \in [stack : Seq(DupFrame), depth : Nat]
        BY DEF NewEnforcer
      <4> QED BY <1>1, <2>2, <3>3, <4>1, DecodeFails, Zenon
    <3>4. CASE ElementDecoded(Issue("parse_error", << >>))
      <4>1. \/ Stopped \/ Counted
            \/ \E i \in ArrayIssues : Failed(i)
        BY <3>4, DecodedEnds, OwnIssues, Zenon
      <4>2. (Stopped => result' # "none") /\ (Counted => iss' = iss)
        BY DEF Stopped, Counted
      <4> QED BY <1>1, <4>1, <4>2, Zenon
    <3> QED BY <1>1, <2>1, <3>1, <3>2, <3>3, <3>4, Zenon DEF TakeElement
  <2> QED BY <2>1, <2>3, FailureLocated, Zenon
<1>4. CASE ElementError
  <2>1. Pull /\ ~Pulled /\ Running /\ pc = "element" /\ ElementDecoded(PullIssue)
    BY <1>4 DEF ElementError, Running
  <2>2. PullIssue \in ArrayIssues /\ PullIssue # NoIssue
    <3>1. PullIssue \in ArrayIssues
      BY <1>1, <2>1, PullIssueType
    <3>2. NoIssue \notin ArrayIssues
      BY DEF NoIssue, ArrayIssues, Codes
    <3> QED BY <3>1, <3>2, Zenon
  <2>3. \/ Stopped \/ Counted
        \/ \E i \in ArrayIssues : Failed(i)
    BY <2>1, <2>2, DecodedEnds, OwnIssues, Zenon
  <2>4. (Stopped => result' # "none") /\ (Counted => iss' = iss)
    BY DEF Stopped, Counted
  <2>5. \E i \in ArrayIssues : Failed(i)
    BY <1>1, <2>3, <2>4, Zenon
  <2> QED BY <2>1, <2>5, FailureLocated, Zenon
<1>5. CASE ElementToken
  <2>1. /\ Pull /\ Running /\ pc = "element" /\ Decode(pre, sub, tok') /\ Pulled
        /\ sub \in [stack : Seq(DupFrame), depth : Nat]
    BY <1>1, <1>5 DEF ElementToken, Running, ArrayTypeOK
  <2>2. tok' \in Tokens
    BY <1>1, <2>1, PullFacts DEF Pulled
  <2>3. \E i \in ArrayIssues : Failed(i)
    BY <1>1, <2>1, <2>2, DecodeFails, Zenon
  <2> QED BY <2>1, <2>3, FailureLocated, Zenon
<1> QED BY <1>2, <1>3, <1>4, <1>5 DEF ArrayNext

-----------------------------------------------------------------------------
(* The theorems. *)

LEMMA ArrayInvariance == ArraySpec => []ArrayInv
<1>1. ArrayInit => ArrayInv
  BY ArrayInvInit
<1>2. ArrayInv /\ [ArrayNext]_arrayVars => ArrayInv'
  BY ArrayNextInv
<1> QED BY <1>1, <1>2, PTL DEF ArraySpec

(***************************************************************************)
(* dsl/array_stream.go: while nothing has failed the loop stands between   *)
(* two elements, and its index, its values and its presence map count what *)
(* the document has begun there.                                           *)
(***************************************************************************)
THEOREM ArrayInStep == ArraySpec => []InStep
<1>1. ArrayInv => InStep
  BY ArrayInvImplies
<1> QED BY <1>1, ArrayInvariance, PTL

(***************************************************************************)
(* internal/stream/subtree.go under the array: an element's decoder and    *)
(* its wrapper agree with the innermost containers of the document, even  *)
(* where an abandoned element has led the loop astray.                     *)
(***************************************************************************)
THEOREM ElementsMirror == ArraySpec => []SubtreeMirrors
<1>1. ArrayInv => SubtreeMirrors
  BY ArrayInvImplies
<1> QED BY <1>1, ArrayInvariance, PTL

(***************************************************************************)
(* An accepted array was read to its end within the options, and whatever  *)
(* the array reports of keys and bytes has happened in the document.       *)
(***************************************************************************)
THEOREM VerdictSound == ArraySpec => []SoundVerdict
<1>1. ArrayInv => SoundVerdict
  BY ArrayInvImplies
<1> QED BY <1>1, ArrayInvariance, PTL

\* The first element to fail is reported at its own index.
THEOREM FailureAtIndex == ArraySpec => FirstFailureLocated
<1>1. ArrayInv /\ [ArrayNext]_arrayVars =>
        [pc # "begin" /\ iss = {} /\ iss' # {} /\ result' = "none" =>
           \A i \in iss' : Head(i.path) = doc'[1].count - 1]_arrayVars
  BY FirstFailureStep
<1> QED BY <1>1, ArrayInvariance, PTL DEF ArraySpec, FirstFailureLocated

=============================================================================
