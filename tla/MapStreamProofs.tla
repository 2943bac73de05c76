-------------------------- MODULE MapStreamProofs --------------------------
(***************************************************************************)
(* Proofs about the streaming map, for all Keys and bounds.  The inductive *)
(* invariant is IInv.                                                      *)
(***************************************************************************)
EXTENDS MapStream, JsonSourceProofs

-----------------------------------------------------------------------------
(* The outermost container: what a call of the source leaves of it. *)

LEMMA FirstBegun ==
  ASSUME NEW d \in Seq(Container), d # << >>, d[1].kind = "object"
  PROVE  /\ ValueBegun(d) \in Seq(Container) /\ Len(ValueBegun(d)) = Len(d)
         /\ ValueBegun(d) # << >> /\ ValueBegun(d)[1] = d[1]
<1> DEFINE e == IF Last(d).kind = "array"
                  THEN [Last(d) EXCEPT !.count = @ + 1] ELSE Last(d)
<1>1. ValueBegun(d) \in Seq(Container) /\ Replaced(ValueBegun(d), d, e)
  BY ValueBegunProperties
<1>2. Last(d).kind = "object" => e = Last(d)
  OBVIOUS
<1> HIDE DEF e
<1>3. /\ Len(ValueBegun(d)) = Len(d) /\ Len(d) \in Nat \ {0}
      /\ Len(d) = 1 => ValueBegun(d)[1] = e /\ Last(d) = d[1]
      /\ Len(d) > 1 => ValueBegun(d)[1] = d[1]
  BY <1>1, FirstReplaced, Zenon
<1>4. ValueBegun(d) # << >>
  BY <1>1, <1>3, EmptySeq
<1> QED BY <1>1, <1>2, <1>3, <1>4

Awaiting(c) == [c EXCEPT !.atKey = TRUE]

LEMMA FirstDone ==
  ASSUME NEW d \in Seq(Container), d # << >>, d[1].kind = "object"
  PROVE  /\ ValueDone(d) \in Seq(Container) /\ Len(ValueDone(d)) = Len(d)
         /\ Len(d) \in Nat \ {0}
         /\ Len(d) = 1 => ValueDone(d)[1] = Awaiting(d[1])
         /\ Len(d) > 1 => ValueDone(d)[1] = d[1]
<1> DEFINE e == IF Last(d).kind = "object" THEN Awaiting(Last(d)) ELSE Last(d)
<1>1. ValueDone(d) \in Seq(Container) /\ Replaced(ValueDone(d), d, e)
  BY ValueDoneProperties DEF Awaiting
<1>2. Last(d).kind = "object" => e = Awaiting(Last(d))
  OBVIOUS
<1> HIDE DEF e
<1>3. /\ Len(ValueDone(d)) = Len(d) /\ Len(d) \in Nat \ {0}
      /\ Len(d) = 1 => ValueDone(d)[1] = e /\ Last(d) = d[1]
      /\ Len(d) > 1 => ValueDone(d)[1] = d[1]
  BY <1>1, FirstReplaced, Zenon
<1> QED BY <1>1, <1>2, <1>3

(***************************************************************************)
(* The call that hands out t, inside an object that is the outermost       *)
(* container: the object is awaiting a key again only where a value ends   *)
(* with nothing else open.                                                 *)
(***************************************************************************)
Within(d, e, t) ==
  \/ Opens(t) /\ ~AtKey(d) /\ Len(e) = Len(d) + 1 /\ e[1] = d[1]
  \/ /\ Closes(t) /\ MayClose(d) /\ Len(e) = Len(d) - 1
     /\ Len(d) > 2 => e[1] = d[1]
     /\ Len(d) = 2 => e[1] = Awaiting(d[1])
  \/ /\ t.kind = "Key" /\ t.text \in Keys /\ AtKey(d) /\ Len(e) = Len(d)
     /\ Len(d) > 1 => e[1] = d[1]
     /\ Len(d) = 1 => e[1] = [d[1] EXCEPT !.atKey = FALSE, !.key = t.text,
                                          !.seen = @ \cup {t.text}]
  \/ /\ IsScalar(t) /\ ~AtKey(d) /\ Len(e) = Len(d)
     /\ Len(d) > 1 => e[1] = d[1]
     /\ Len(d) = 1 => e[1] = Awaiting(d[1])

LEMMA FirstKey ==
  ASSUME NEW d \in Seq(Container), d # << >>, NEW k \in Keys
  PROVE  /\ KeyBegun(d, k) \in Seq(Container) /\ Len(KeyBegun(d, k)) = Len(d)
         /\ Len(d) > 1 => KeyBegun(d, k)[1] = d[1]
         /\ Len(d) = 1 => KeyBegun(d, k)[1] =
              [d[1] EXCEPT !.atKey = FALSE, !.key = k, !.seen = @ \cup {k}]
<1> DEFINE E(c) == [c EXCEPT !.atKey = FALSE, !.key = k, !.seen = @ \cup {k}]
<1>1. KeyBegun(d, k) \in Seq(Container) /\ Replaced(KeyBegun(d, k), d, E(Last(d)))
  BY KeyBegunProperties
<1> HIDE DEF E
<1>2. /\ Len(KeyBegun(d, k)) = Len(d) /\ Len(d) \in Nat \ {0}
      /\ Len(d) = 1 => KeyBegun(d, k)[1] = E(Last(d)) /\ Last(d) = d[1]
      /\ Len(d) > 1 => KeyBegun(d, k)[1] = d[1]
  BY <1>1, FirstReplaced, Zenon
<1>3. Len(d) = 1 => KeyBegun(d, k)[1] = E(d[1])
  BY <1>2
<1> QED BY <1>1, <1>2, <1>3 DEF E

LEMMA LiteralScalars ==
  /\ \A kind \in LiteralKinds : IsScalar(Token(kind))
  /\ \A text \in Keys : IsScalar(Text("String", text))
  /\ \A kind \in ContainerKinds : Opens(Token(BeginOf(kind)))
  /\ \A kind \in ContainerKinds : Closes(Token(EndOf(kind)))
  /\ \A text : Text("Key", text).kind = "Key" /\ Text("Key", text).text = text
BY LiteralsAssumption
   DEF IsScalar, Opens, Closes, Token, Text, BeginOf, EndOf, ContainerKinds

LEMMA SourceWithin ==
  ASSUME SourceTypeOK, StackMirrorsDocument, ReadToken,
         doc # << >>, doc[1].kind = "object"
  PROVE  Within(doc, doc', tok')
<1>1. doc \in Seq(Container) /\ Len(doc) \in Nat \ {0}
  BY EmptySeq DEF SourceTypeOK, DocumentTypeOK
<1>2. ASSUME NEW kind \in ContainerKinds, LexOpen(kind),
             tok' = Token(BeginOf(kind))
      PROVE  Within(doc, doc', tok')
  <2>1. doc' = Append(ValueBegun(doc), NewContainer(kind)) /\ ~AtKey(doc)
    BY <1>2 DEF LexOpen, Consume, RoomForValue
  <2>2. /\ ValueBegun(doc) \in Seq(Container) /\ Len(ValueBegun(doc)) = Len(doc)
        /\ ValueBegun(doc)[1] = doc[1]
    BY <1>1, FirstBegun, Zenon
  <2>3. NewContainer(kind) \in Container
    BY NewContainerType
  <2>4. Len(doc') = Len(doc) + 1 /\ doc'[1] = doc[1]
    BY <1>1, <2>1, <2>2, <2>3, AppendProperties
  <2> QED BY <1>2, <2>1, <2>4, LiteralScalars, Zenon DEF Within
<1>3. ASSUME LexClose, tok' = Token(EndOf(Last(doc).kind))
      PROVE  Within(doc, doc', tok')
  <2>1. doc' = ValueDone(Front(doc)) /\ MayClose(doc)
    BY <1>3 DEF LexClose, Consume
  <2>2. /\ Front(doc) \in Seq(Container) /\ Len(Front(doc)) = Len(doc) - 1
        /\ \A i \in 1..Len(doc) - 1 : Front(doc)[i] = doc[i]
    BY <1>1, FrontProperties
  <2>3. Closes(tok')
    <3>1. Last(doc) \in Container
      BY <1>1, LastProperties, Zenon
    <3>2. Last(doc).kind \in ContainerKinds
      BY <3>1 DEF Container
    <3> QED BY <1>3, <3>2, LiteralScalars, Zenon
  <2>4. CASE Len(doc) = 1
    <3>1. Front(doc) = << >>
      BY <2>2, <2>4, EmptySeq
    <3>2. doc' = << >>
      BY <2>1, <2>2, <3>1, ValueDoneProperties
    <3>3. Len(doc') = Len(doc) - 1
      BY <3>2, <2>4
    <3> QED BY <2>1, <2>3, <2>4, <3>3 DEF Within
  <2>5. CASE Len(doc) > 1
    <3>1. Front(doc) # << >> /\ Front(doc)[1] = doc[1]
      BY <1>1, <2>2, <2>5, EmptySeq
    <3>2. /\ Len(doc') = Len(Front(doc))
          /\ Len(Front(doc)) = 1 => doc'[1] = Awaiting(doc[1])
          /\ Len(Front(doc)) > 1 => doc'[1] = doc[1]
      BY <2>1, <2>2, <3>1, FirstDone
    <3>3. /\ Len(doc') = Len(doc) - 1
          /\ Len(doc) > 2 => doc'[1] = doc[1]
          /\ Len(doc) = 2 => doc'[1] = Awaiting(doc[1])
      BY <1>1, <2>2, <3>2
    <3> QED BY <2>1, <2>3, <3>3, Zenon DEF Within
  <2>6. \A n \in Nat \ {0} : n = 1 \/ n > 1
    OBVIOUS
  <2> QED BY <1>1, <2>4, <2>5, <2>6, Zenon
<1>4. ASSUME NEW text \in Keys, LexKey(text), tok' = Text("Key", text)
      PROVE  Within(doc, doc', tok')
  <2>1. doc' = KeyBegun(doc, text) /\ AtKey(doc)
    BY <1>4 DEF LexKey, Consume
  <2>2. tok'.kind = "Key" /\ tok'.text = text
    BY <1>4, LiteralScalars
  <2> QED BY <1>1, <2>1, <2>2, FirstKey, Zenon DEF Within
<1>5. ASSUME LexScalar, IsScalar(tok')
      PROVE  Within(doc, doc', tok')
  <2>1. doc' = ValueDone(ValueBegun(doc)) /\ ~AtKey(doc)
    BY <1>5 DEF LexScalar, Consume, RoomForValue
  <2>2. /\ ValueBegun(doc) \in Seq(Container) /\ Len(ValueBegun(doc)) = Len(doc)
        /\ ValueBegun(doc) # << >> /\ ValueBegun(doc)[1] = doc[1]
    BY <1>1, FirstBegun, Zenon
  <2>3. /\ Len(doc') = Len(doc)
        /\ Len(doc) = 1 => doc'[1] = Awaiting(doc[1])
        /\ Len(doc) > 1 => doc'[1] = doc[1]
    BY <2>1, <2>2, FirstDone
  <2> QED BY <1>5, <2>1, <2>3, Zenon DEF Within
<1> QED BY <1>2, <1>3, <1>4, <1>5, TokenSteps, LiteralScalars, Zenon

-----------------------------------------------------------------------------
(* The inductive invariant. *)

\* Between two keys, and while nothing has been read.
BetweenKeys ==
  /\ pc = "begin" => doc = << >> /\ DOMAIN out = {}
  /\ pc = "loop" => /\ Len(doc) = 1 /\ doc[1].kind = "object" /\ doc[1].atKey
                    /\ DOMAIN out = doc[1].seen

(***************************************************************************)
(* Inside a value: the object is outermost and not at a key, the decoder   *)
(* and its SubtreeSource have counted the containers that are open in it.  *)
(***************************************************************************)
InValue ==
  pc = "value" => /\ Len(doc) = nest + 1 /\ doc[1].kind = "object"
                  /\ ~doc[1].atKey /\ key = doc[1].key
                  /\ DOMAIN out \cup {key} = doc[1].seen
                  /\ sub.depth = nest /\ ~sub.done
                  /\ sub.started <=> nest > 0

Running == pc # "done" => result = "none" /\ where = << >>

IInv == /\ MapTypeOK /\ StackMirrorsDocument
        /\ BetweenKeys /\ InValue /\ Running /\ MapOutcome

LEMMA IInvImplies == IInv => MapFollows /\ SubtreeIsExact
BY DEF IInv, MapFollows, MapInStep, SubtreeIsExact, BetweenKeys, InValue

LEMMA MapInvInit == MapInit => IInv
<1> SUFFICES ASSUME MapInit PROVE IInv
  OBVIOUS
<1>1. /\ doc = << >> /\ input = "open" /\ offset = -1 /\ repeated = FALSE
      /\ src = << >> /\ tok = NoToken
      /\ onDuplicate \in {"Ignore", "Warn", "Error"}
      /\ pc = "begin" /\ key = EmptyKey /\ nest = 0
      /\ sub = [depth |-> 0, started |-> FALSE, done |-> FALSE]
      /\ out = << >> /\ result = "none" /\ where = << >>
  BY DEF MapInit, SourceInit, DocumentInit, NewSubtree
<1>2. doc \in Seq(Container) /\ src \in Seq(Frame) /\ where \in Seq(Keys)
  BY <1>1
<1>3. DOMAIN out = {}
  BY <1>1
<1>4. SourceTypeOK
  <2>1. input \in {"open", "closed", "broken"} /\ offset \in Int
    BY <1>1
  <2>2. repeated \in BOOLEAN /\ tok \in Tokens \cup {NoToken}
    BY <1>1, Zenon
  <2> QED BY <1>2, <2>1, <2>2, Zenon DEF SourceTypeOK, DocumentTypeOK
<1>5. MapTypeOK
  BY <1>1, <1>2, <1>3, <1>4, KeysAssumption DEF MapTypeOK
<1>6. StackMirrorsDocument
  BY <1>1 DEF StackMirrorsDocument
<1>7. BetweenKeys /\ InValue
  <2>1. pc = "begin" /\ pc # "loop" /\ pc # "value" /\ doc = << >>
    BY <1>1
  <2> QED BY <1>3, <2>1, Zenon DEF BetweenKeys, InValue
<1>8. Running /\ MapOutcome
  BY <1>1 DEF Running, MapOutcome
<1> QED BY <1>5, <1>6, <1>7, <1>8, Zenon DEF IInv

(***************************************************************************)
(* What a pull leaves, whatever the action that pulls.                     *)
(***************************************************************************)
LEMMA Pulled ==
  ASSUME IInv, Pull
  PROVE  /\ SourceTypeOK' /\ StackMirrorsDocument' /\ onDuplicate' = onDuplicate
         /\ \/ ReadToken /\ tok' \in Tokens /\ tok' # NoToken
            \/ ReadError /\ tok' = NoToken /\ doc' = doc
<1>1. SourceTypeOK /\ StackMirrorsDocument
  BY DEF IInv, MapTypeOK
<1>2. SourceTypeOK' /\ StackMirrorsDocument' /\ onDuplicate' = onDuplicate
  BY <1>1, SourceStep DEF Pull
<1>3. NoToken \notin Tokens
  BY DEF NoToken, Token, Tokens, TokenKinds, Literals
<1> QED BY <1>1, <1>2, <1>3, TokenStepsType DEF Pull, ReadError, LexError

\* The parts of the type invariant that an action of the map can change.
LoopTypes ==
  /\ key \in Keys /\ nest \in Nat
  /\ sub \in [depth : Nat, started : BOOLEAN, done : BOOLEAN]
  /\ DOMAIN out \subseteq Keys /\ \A k \in DOMAIN out : out[k] \in Nat

LEMMA TypesAgain ==
  ASSUME IInv, Pull \/ UNCHANGED <<sourceVars, onDuplicate>>, LoopTypes',
         pc' \in {"begin", "loop", "value", "done"},
         result' \in {"none", "accepted", "rejected"}, where' \in Seq(Keys)
  PROVE  MapTypeOK' /\ StackMirrorsDocument'
<1>1. SourceTypeOK' /\ StackMirrorsDocument' /\ onDuplicate' = onDuplicate
  <2>1. CASE Pull
    BY <2>1, Pulled
  <2>2. CASE UNCHANGED <<sourceVars, onDuplicate>>
    BY <2>2 DEF IInv, MapTypeOK, sourceVars, documentVars, SourceTypeOK,
                DocumentTypeOK, StackMirrorsDocument
  <2> QED BY <2>1, <2>2
<1>2. onDuplicate \in {"Ignore", "Warn", "Error"}
  BY DEF IInv, MapTypeOK
<1> QED BY <1>1, <1>2, Zenon DEF MapTypeOK, LoopTypes

LEMMA RejectTyped ==
  ASSUME NEW path \in Seq(Keys), Return("rejected", path)
  PROVE  /\ pc' = "done" /\ result' = "rejected" /\ where' = path
         /\ pc' \in {"begin", "loop", "value", "done"}
         /\ result' \in {"none", "accepted", "rejected"} /\ where' \in Seq(Keys)
BY DEF Return

\* What a call that has returned owes: nothing is left of the loop.
LEMMA Ended ==
  ASSUME MapTypeOK', StackMirrorsDocument', pc' = "done", MapOutcome'
  PROVE  IInv'
BY DEF IInv, BetweenKeys, InValue, Running

LEMMA BeginStep ==
  ASSUME IInv, BeginMap
  PROVE  IInv'
<1>1. /\ MapTypeOK /\ pc = "begin" /\ doc = << >> /\ DOMAIN out = {} /\ Pull
      /\ result = "none" /\ where = << >>
      /\ key' = key /\ nest' = nest /\ sub' = sub /\ out' = out
  BY DEF IInv, BetweenKeys, Running, BeginMap
<1>2. LoopTypes'
  BY <1>1 DEF LoopTypes, MapTypeOK
<1>3. CASE tok'.kind # "BeginObject"
  <2>1. Return("rejected", << >>) /\ << >> \in Seq(Keys)
    BY <1>3 DEF BeginMap
  <2>2. MapTypeOK' /\ StackMirrorsDocument'
    BY <1>1, <1>2, <2>1, RejectTyped, TypesAgain
  <2>3. MapOutcome'
    BY <2>1 DEF MapOutcome, Return
  <2> QED BY <2>1, <2>2, <2>3, Ended DEF Return
<1>4. CASE tok'.kind = "BeginObject"
  <2>1. pc' = "loop" /\ result' = "none" /\ where' = << >>
    BY <1>1, <1>4 DEF BeginMap
  <2>2. << >> \in Seq(Keys)
    OBVIOUS
  <2>3. MapTypeOK' /\ StackMirrorsDocument'
    BY <1>1, <1>2, <2>1, <2>2, TypesAgain
  <2>4. ReadToken /\ SourceTypeOK /\ StackMirrorsDocument
    <3>1. tok' # NoToken
      BY <1>4 DEF NoToken, Token
    <3> QED BY <1>1, <3>1, Pulled DEF IInv, MapTypeOK
  <2>5. LexOpen("object")
    <3>1. /\ \A kind \in ContainerKinds :
               Token(BeginOf(kind)).kind = "BeginObject" => kind = "object"
          /\ \A kind : Token(EndOf(kind)).kind # "BeginObject"
          /\ \A text : Text("Key", text).kind # "BeginObject"
          /\ \A text : Text("String", text).kind # "BeginObject"
          /\ \A kind \in LiteralKinds : Token(kind).kind # "BeginObject"
      BY LiteralsAssumption DEF Token, Text, BeginOf, EndOf, ContainerKinds
    <3> QED BY <1>4, <2>4, <3>1, TokenSteps, Zenon
  <2>6. doc' = Append(ValueBegun(doc), NewContainer("object"))
    BY <2>5 DEF LexOpen, Consume
  <2>7. doc' = <<NewContainer("object")>>
    BY <1>1, <2>6 DEF ValueBegun
  <2>8. /\ Len(doc') = 1 /\ doc'[1].kind = "object" /\ doc'[1].atKey
        /\ doc'[1].seen = {}
    BY <2>7 DEF NewContainer
  <2>9. BetweenKeys' /\ InValue' /\ Running'
    BY <1>1, <2>1, <2>8 DEF BetweenKeys, InValue, Running
  <2>10. MapOutcome'
    BY <2>1 DEF MapOutcome
  <2> QED BY <2>3, <2>9, <2>10 DEF IInv
<1> QED BY <1>3, <1>4

\* Between two keys: what a token can be, and what it makes of the object.
LEMMA LoopPulled ==
  ASSUME IInv, pc = "loop", Pull
  PROVE  /\ Len(doc) = 1 /\ doc # << >> /\ doc[1] \in Container
         /\ doc[1].kind = "object" /\ doc[1].atKey /\ DOMAIN out = doc[1].seen
         /\ result = "none" /\ where = << >>
         /\ ReadToken => Within(doc, doc', tok')
<1>1. /\ Len(doc) = 1 /\ doc[1].kind = "object" /\ doc[1].atKey
      /\ DOMAIN out = doc[1].seen /\ result = "none" /\ where = << >>
  BY DEF IInv, BetweenKeys, Running
<1>2. SourceTypeOK /\ StackMirrorsDocument /\ doc \in Seq(Container)
  BY DEF IInv, MapTypeOK, SourceTypeOK, DocumentTypeOK
<1>3. doc # << >> /\ doc[1] \in Container
  BY <1>1, <1>2, ElementOfSeq
<1> QED BY <1>1, <1>2, <1>3, SourceWithin, Zenon

LEMMA KeyStep ==
  ASSUME IInv, ReadKey
  PROVE  IInv'
<1>1. /\ Pull /\ pc = "loop" /\ pc' = "value" /\ tok'.kind = "Key"
      /\ key' = tok'.text /\ nest' = 0 /\ out' = out
      /\ sub' = [depth |-> 0, started |-> FALSE, done |-> FALSE]
      /\ result' = result /\ where' = where
  BY DEF ReadKey, NewSubtree
<1>2. /\ Len(doc) = 1 /\ doc[1] \in Container /\ doc[1].kind = "object"
      /\ DOMAIN out = doc[1].seen /\ result = "none" /\ where = << >>
  BY <1>1, LoopPulled
<1>3. ReadToken /\ tok' \in Tokens
  <2>1. tok' # NoToken
    BY <1>1 DEF NoToken, Token
  <2> QED BY <1>1, <2>1, Pulled
<1>4. Within(doc, doc', tok')
  BY <1>1, <1>3, LoopPulled
<1>5. /\ tok'.text \in Keys /\ Len(doc') = 1
      /\ doc'[1] = [doc[1] EXCEPT !.atKey = FALSE, !.key = tok'.text,
                                  !.seen = @ \cup {tok'.text}]
  BY <1>1, <1>2, <1>4 DEF Within, Opens, Closes, IsScalar
<1>6. /\ doc'[1].kind = "object" /\ ~doc'[1].atKey /\ doc'[1].key = key'
      /\ doc'[1].seen = DOMAIN out' \cup {key'}
  BY <1>1, <1>2, <1>5 DEF Container
<1>7. MapTypeOK' /\ StackMirrorsDocument'
  <2>1. LoopTypes'
    BY <1>1, <1>5 DEF LoopTypes, IInv, MapTypeOK
  <2>2. << >> \in Seq(Keys)
    OBVIOUS
  <2> QED BY <1>1, <1>2, <2>1, <2>2, TypesAgain
<1>8. BetweenKeys' /\ Running' /\ MapOutcome'
  BY <1>1, <1>2 DEF BetweenKeys, Running, MapOutcome
<1>9. InValue'
  BY <1>1, <1>5, <1>6 DEF InValue
<1> QED BY <1>7, <1>8, <1>9, Zenon DEF IInv

LEMMA EndStep ==
  ASSUME IInv, EndMap
  PROVE  IInv'
<1>1. /\ Pull /\ pc = "loop" /\ tok'.kind = "EndObject" /\ pc' = "done"
      /\ result' \in {"accepted", "rejected"} /\ where' = << >>
      /\ key' = key /\ nest' = nest /\ sub' = sub /\ out' = out
  BY DEF EndMap, Return
<1>2. ReadToken
  <2>1. tok' # NoToken
    BY <1>1 DEF NoToken, Token
  <2> QED BY <1>1, <2>1, Pulled
<1>3. Len(doc) = 1 /\ Within(doc, doc', tok')
  BY <1>1, <1>2, LoopPulled
<1>4. MapTypeOK' /\ StackMirrorsDocument'
  <2>1. LoopTypes'
    BY <1>1 DEF LoopTypes, IInv, MapTypeOK
  <2>2. << >> \in Seq(Keys)
    OBVIOUS
  <2> QED BY <1>1, <2>1, <2>2, TypesAgain
<1>5. input' = "closed"
  <2>1. Len(doc') = 0
    BY <1>1, <1>3 DEF Within, Opens, Closes, IsScalar
  <2>2. doc' = << >>
    BY <1>4, <2>1, EmptySeq DEF MapTypeOK, SourceTypeOK, DocumentTypeOK
  <2> QED BY <1>2, <2>2
        DEF ReadToken, ReadOpen, ReadClose, ReadString, ReadLiteral,
            LexOpen, LexClose, LexKey, LexScalar, Consume
<1>6. MapOutcome'
  BY <1>1, <1>5 DEF MapOutcome
<1> QED BY <1>1, <1>4, <1>6, Ended

LEMMA LoopErrorStep ==
  ASSUME IInv, LoopError
  PROVE  IInv'
<1>1. /\ Pull /\ Return("rejected", << >>)
      /\ key' = key /\ nest' = nest /\ sub' = sub /\ out' = out
  BY DEF LoopError
<1>2. MapTypeOK' /\ StackMirrorsDocument'
  <2>1. LoopTypes'
    BY <1>1 DEF LoopTypes, IInv, MapTypeOK
  <2>2. << >> \in Seq(Keys)
    OBVIOUS
  <2> QED BY <1>1, <2>1, <2>2, RejectTyped, TypesAgain
<1>3. pc' = "done" /\ MapOutcome'
  BY <1>1 DEF MapOutcome, Return
<1> QED BY <1>2, <1>3, Ended

\* Inside a value: what is known of it before a pull.
LEMMA ValueFacts ==
  ASSUME IInv, pc = "value"
  PROVE  /\ doc \in Seq(Container) /\ doc # << >> /\ doc[1] \in Container
         /\ nest \in Nat /\ Len(doc) = nest + 1 /\ doc[1].kind = "object"
         /\ ~doc[1].atKey /\ key \in Keys /\ key = doc[1].key
         /\ DOMAIN out \cup {key} = doc[1].seen
         /\ sub.depth = nest /\ ~sub.done /\ (sub.started <=> nest > 0)
         /\ result = "none" /\ where = << >> /\ <<key>> \in Seq(Keys)
         /\ SourceTypeOK /\ StackMirrorsDocument
<1>1. /\ nest \in Nat /\ Len(doc) = nest + 1 /\ doc[1].kind = "object"
      /\ ~doc[1].atKey /\ key \in Keys /\ key = doc[1].key
      /\ DOMAIN out \cup {key} = doc[1].seen
      /\ sub.depth = nest /\ ~sub.done /\ (sub.started <=> nest > 0)
      /\ result = "none" /\ where = << >>
      /\ SourceTypeOK /\ StackMirrorsDocument
  BY DEF IInv, InValue, Running, MapTypeOK
<1>2. doc \in Seq(Container)
  BY <1>1 DEF SourceTypeOK, DocumentTypeOK
<1>3. doc # << >> /\ 1 \in 1..Len(doc)
  BY <1>1, <1>2, EmptySeq
<1>4. doc[1] \in Container
  BY <1>2, <1>3, ElementOfSeq
<1>5. <<key>> \in Seq(Keys)
  BY <1>1
<1> QED BY <1>1, <1>2, <1>3, <1>4, <1>5, Zenon

LEMMA ValueErrorStep ==
  ASSUME IInv, ValueError
  PROVE  IInv'
<1>1. /\ pc = "value" /\ Pull /\ tok' = NoToken /\ Return("rejected", <<key>>)
      /\ key' = key /\ nest' = nest /\ sub' = sub /\ out' = out
  BY ValueFacts DEF ValueError
<1>2. <<key>> \in Seq(Keys) /\ doc # << >> /\ key = doc[1].key
  BY <1>1, ValueFacts
<1>3. MapTypeOK' /\ StackMirrorsDocument'
  <2>1. LoopTypes'
    BY <1>1 DEF LoopTypes, IInv, MapTypeOK
  <2> QED BY <1>1, <1>2, <2>1, RejectTyped, TypesAgain
<1>4. doc' = doc
  BY <1>1, Pulled
<1>5. pc' = "done" /\ MapOutcome'
  BY <1>1, <1>2, <1>4 DEF MapOutcome, Return
<1> QED BY <1>3, <1>5, Ended

\* A SubtreeSource that is in step and not at its end stays in step.
LEMMA PassedInStep ==
  ASSUME NEW n \in Nat, NEW t, Closes(t) => n > 0,
         NEW s \in [depth : Nat, started : BOOLEAN, done : BOOLEAN],
         s.depth = n, ~s.done
  PROVE  /\ Nested(n, t) \in Nat
         /\ Passed(s, t) \in [depth : Nat, started : BOOLEAN, done : BOOLEAN]
         /\ Passed(s, t).depth = Nested(n, t) /\ Passed(s, t).started
         /\ Nested(n, t) > 0 => ~Passed(s, t).done
<1> DEFINE D == CASE Opens(t) -> s.depth + 1
                  [] Closes(t) /\ s.depth > 0 -> s.depth - 1
                  [] OTHER -> s.depth
           B == s.done \/ (D = 0 /\ (s.started \/ IsScalar(t)))
<1>1. Passed(s, t) = [depth |-> D, started |-> TRUE, done |-> B]
  BY DEF Passed
<1>2. D = Nested(n, t) /\ D \in Nat
  BY DEF Nested, Opens, Closes
<1>3. B \in BOOLEAN
  OBVIOUS
<1>4. D > 0 => ~B
  <2>1. D > 0 => D # 0
    BY <1>2
  <2> QED BY <2>1, Zenon
<1> HIDE DEF D, B
<1> QED BY <1>1, <1>2, <1>3, <1>4

(***************************************************************************)
(* One token of a value: the decoder's recursion, the SubtreeSource's      *)
(* depth and the document stay together, and the object awaits its next    *)
(* key exactly where the recursion has returned.                           *)
(***************************************************************************)
LEMMA ValuePulled ==
  ASSUME IInv, pc = "value", ReadToken,
         nest' = Nested(nest, tok'), sub' = Passed(sub, tok')
  PROVE  /\ nest' \in Nat
         /\ sub' \in [depth : Nat, started : BOOLEAN, done : BOOLEAN]
         /\ sub'.depth = nest' /\ sub'.started
         /\ Len(doc') = nest' + 1
         /\ nest' > 0 => ~sub'.done /\ doc'[1] = doc[1]
         /\ nest' = 0 => doc'[1] = Awaiting(doc[1])
<1>1. /\ doc \in Seq(Container) /\ doc # << >> /\ nest \in Nat
      /\ Len(doc) = nest + 1 /\ doc[1].kind = "object" /\ ~doc[1].atKey
      /\ sub.depth = nest /\ ~sub.done /\ (sub.started => nest > 0)
  BY ValueFacts
<1>2. Within(doc, doc', tok')
  BY <1>1, SourceWithin, ValueFacts
<1>3. nest = 0 => ~AtKey(doc) /\ ~MayClose(doc)
  <2>1. nest = 0 => Last(doc) = doc[1]
    BY <1>1 DEF Last
  <2> QED BY <1>1, <2>1 DEF AtKey, MayClose
<1>4. Closes(tok') => nest > 0
  BY <1>1, <1>2, <1>3 DEF Within, Opens, Closes, IsScalar
<1>5. /\ nest' \in Nat
      /\ sub' \in [depth : Nat, started : BOOLEAN, done : BOOLEAN]
      /\ sub'.depth = nest' /\ sub'.started /\ (nest' > 0 => ~sub'.done)
  <2>1. sub \in [depth : Nat, started : BOOLEAN, done : BOOLEAN]
    BY DEF IInv, MapTypeOK
  <2> QED BY <1>1, <1>4, <2>1, PassedInStep
<1>6. /\ Len(doc') = nest' + 1
      /\ nest' > 0 => doc'[1] = doc[1]
      /\ nest' = 0 => doc'[1] = Awaiting(doc[1])
  <2>1. CASE Opens(tok')
    <3>1. nest' = nest + 1
      BY <2>1 DEF Nested, Opens, Closes
    <3>2. Len(doc') = Len(doc) + 1 /\ doc'[1] = doc[1]
      BY <1>2, <2>1 DEF Within, Opens, Closes, IsScalar
    <3> QED BY <1>1, <3>1, <3>2
  <2>2. CASE Closes(tok')
    <3>1. nest' = nest - 1
      BY <2>2 DEF Nested, Opens, Closes
    <3>2. /\ Len(doc') = Len(doc) - 1
          /\ Len(doc) > 2 => doc'[1] = doc[1]
          /\ Len(doc) = 2 => doc'[1] = Awaiting(doc[1])
      BY <1>2, <2>2 DEF Within, Opens, Closes, IsScalar
    <3> QED BY <1>1, <1>4, <2>2, <3>1, <3>2
  <2>3. CASE ~Opens(tok') /\ ~Closes(tok')
    <3>1. nest' = nest
      BY <1>1, <2>3 DEF Nested
    <3>2. /\ Len(doc') = Len(doc)
          /\ Len(doc) > 1 => doc'[1] = doc[1]
          /\ Len(doc) = 1 => doc'[1] = Awaiting(doc[1]) \/ AtKey(doc)
      BY <1>2, <2>3 DEF Within
    <3> QED BY <1>1, <1>3, <3>1, <3>2
  <2> QED BY <2>1, <2>2, <2>3
<1> QED BY <1>5, <1>6, Zenon

LEMMA StoredTypes ==
  ASSUME NEW m, NEW k \in Keys, DOMAIN m \subseteq Keys,
         \A x \in DOMAIN m : m[x] \in Nat
  PROVE  /\ DOMAIN Stored(m, k) = DOMAIN m \cup {k}
         /\ DOMAIN Stored(m, k) \subseteq Keys
         /\ \A x \in DOMAIN Stored(m, k) : Stored(m, k)[x] \in Nat
BY DEF Stored

LEMMA ValueStep ==
  ASSUME IInv, ValueToken
  PROVE  IInv'
<1>1. /\ pc = "value" /\ Pull /\ tok' # NoToken /\ key' = key
      /\ sub' = Passed(sub, tok') /\ nest' = Nested(nest, tok')
  BY DEF ValueToken
<1>2. /\ doc[1] \in Container /\ doc[1].kind = "object" /\ ~doc[1].atKey
      /\ key \in Keys /\ key = doc[1].key /\ DOMAIN out \cup {key} = doc[1].seen
      /\ result = "none" /\ where = << >> /\ <<key>> \in Seq(Keys)
      /\ << >> \in Seq(Keys)
  BY <1>1, ValueFacts
<1>3. /\ nest' \in Nat
      /\ sub' \in [depth : Nat, started : BOOLEAN, done : BOOLEAN]
      /\ sub'.depth = nest' /\ sub'.started /\ Len(doc') = nest' + 1
      /\ nest' > 0 => ~sub'.done /\ doc'[1] = doc[1]
      /\ nest' = 0 => doc'[1] = Awaiting(doc[1])
  BY <1>1, Pulled, ValuePulled
<1>4. /\ DOMAIN out \subseteq Keys /\ \A k \in DOMAIN out : out[k] \in Nat
      /\ result' = result => result' \in {"none", "accepted", "rejected"}
  BY <1>2 DEF IInv, MapTypeOK
<1>5. CASE nest' > 0 /\ UNCHANGED <<pc, out, result, where>>
  <2>1. LoopTypes'
    BY <1>1, <1>2, <1>3, <1>4, <1>5 DEF LoopTypes
  <2>2. MapTypeOK' /\ StackMirrorsDocument'
    BY <1>1, <1>2, <1>4, <1>5, <2>1, TypesAgain
  <2>3. InValue'
    BY <1>1, <1>2, <1>3, <1>5 DEF InValue
  <2>4. BetweenKeys' /\ Running' /\ MapOutcome'
    BY <1>1, <1>2, <1>5 DEF BetweenKeys, Running, MapOutcome
  <2> QED BY <2>2, <2>3, <2>4, Zenon DEF IInv
<1>6. CASE nest' = 0 /\ pc' = "loop" /\ out' = Stored(out, key)
           /\ UNCHANGED <<result, where>>
  <2>1. /\ DOMAIN out' = DOMAIN out \cup {key} /\ DOMAIN out' \subseteq Keys
        /\ \A k \in DOMAIN out' : out'[k] \in Nat
    BY <1>2, <1>4, <1>6, StoredTypes
  <2>2. LoopTypes'
    BY <1>1, <1>2, <1>3, <2>1 DEF LoopTypes
  <2>3. MapTypeOK' /\ StackMirrorsDocument'
    BY <1>1, <1>2, <1>4, <1>6, <2>2, TypesAgain
  <2>4. /\ doc'[1].kind = "object" /\ doc'[1].atKey /\ doc'[1].seen = doc[1].seen
        /\ Len(doc') = 1
    BY <1>2, <1>3, <1>6 DEF Awaiting, Container
  <2>5. BetweenKeys' /\ InValue'
    BY <1>2, <1>6, <2>1, <2>4 DEF BetweenKeys, InValue
  <2>6. Running' /\ MapOutcome'
    BY <1>2, <1>6 DEF Running, MapOutcome
  <2> QED BY <2>3, <2>5, <2>6, Zenon DEF IInv
<1>7. CASE nest' = 0 /\ Return("rejected", <<key>>) /\ UNCHANGED out
  <2>1. LoopTypes'
    BY <1>1, <1>2, <1>3, <1>4, <1>7 DEF LoopTypes
  <2>2. MapTypeOK' /\ StackMirrorsDocument'
    BY <1>1, <1>2, <1>7, <2>1, RejectTyped, TypesAgain
  <2>3. doc'[1].key = key /\ Len(doc') = 1
    BY <1>2, <1>3, <1>7 DEF Awaiting, Container
  <2>4. doc' # << >>
    BY <2>3
  <2>5. pc' = "done" /\ MapOutcome'
    BY <1>7, <2>3, <2>4 DEF MapOutcome, Return
  <2> QED BY <2>2, <2>5, Ended
<1> QED BY <1>5, <1>6, <1>7 DEF ValueToken

LEMMA MapInvStep == IInv /\ [MapNext]_mapVars => IInv'
<1> SUFFICES ASSUME IInv, [MapNext]_mapVars PROVE IInv'
  OBVIOUS
<1>1. ASSUME UNCHANGED mapVars PROVE IInv'
  BY <1>1 DEF mapVars, sourceVars, documentVars, IInv, MapTypeOK, SourceTypeOK,
              DocumentTypeOK, StackMirrorsDocument, BetweenKeys, InValue,
              Running, MapOutcome
<1> QED BY <1>1, BeginStep, KeyStep, EndStep, LoopErrorStep, ValueErrorStep,
           ValueStep DEF MapNext

-----------------------------------------------------------------------------
(* The theorems. *)

LEMMA MapInductive == MapSpec => []IInv
BY MapInvInit, MapInvStep, PTL DEF MapSpec

(***************************************************************************)
(* dsl/map_core.go, ParseFromSource: at every pull the map built so far is *)
(* that of the object read so far, and where the call ends an accepted map *)
(* is that of the whole input, a rejection at the key it is about.         *)
(***************************************************************************)
THEOREM MapFollowed == MapSpec => []MapFollows
BY MapInductive, IInvImplies, PTL

(***************************************************************************)
(* internal/stream/subtree.go: a SubtreeSource never ends inside the value *)
(* it was made for, and its depth is the decoder's recursion.              *)
(***************************************************************************)
THEOREM SubtreeExact == MapSpec => []SubtreeIsExact
BY MapInductive, IInvImplies, PTL
=============================================================================
