------------------------ MODULE EnforcedSourceProofs ------------------------
(***************************************************************************)
(* Proofs about the enforced source, for all Keys, drivers, limits and     *)
(* bounds.  The inductive invariant is IInv.                               *)
(***************************************************************************)
EXTENDS EnforcedSource, JsonSourceProofs

-----------------------------------------------------------------------------
(* The frames of the wrapper: what each operation makes of the top one. *)

Steps == Keys \cup Int

LocatedFrame(f, t) ==
  CASE t.kind = "Key" -> [f EXCEPT !.pendingKey = t.text]
    [] t.kind \in Values /\ f.kind = "array" -> [f EXCEPT !.nextIndex = @ + 1]
    [] OTHER -> f

EndedFrame(f) ==
  IF f.kind = "object" /\ ~f.expectingKey
    THEN [f EXCEPT !.expectingKey = TRUE, !.pendingKey = EmptyKey] ELSE f

TakenFrame(f, t) ==
  [f EXCEPT !.keys = @ \cup {t.text}, !.expectingKey = FALSE,
            !.pendingKey = t.text]

LEMMA LocatedFrameProperties ==
  ASSUME NEW f \in DupFrame, NEW t \in Tokens
  PROVE  LET g == LocatedFrame(f, t) IN
         /\ g \in DupFrame /\ g.kind = f.kind /\ g.keys = f.keys
         /\ g.path = f.path /\ g.expectingKey = f.expectingKey
         /\ g.nextIndex = IF t.kind \in Values /\ f.kind = "array"
                            THEN f.nextIndex + 1 ELSE f.nextIndex
         /\ g.pendingKey = IF t.kind = "Key" THEN t.text ELSE f.pendingKey
<1>1. t.text \in Keys
  BY DEF Tokens
<1>2. CASE t.kind = "Key"
  <2>1. t.kind \notin Values
    BY <1>2 DEF Values, Begins, Scalars
  <2>2. LocatedFrame(f, t) = [f EXCEPT !.pendingKey = t.text]
    BY <1>2, <2>1 DEF LocatedFrame
  <2>3. LET g == [f EXCEPT !.pendingKey = t.text] IN
        /\ g \in DupFrame /\ g.kind = f.kind /\ g.keys = f.keys
        /\ g.path = f.path /\ g.expectingKey = f.expectingKey
        /\ g.nextIndex = f.nextIndex /\ g.pendingKey = t.text
    BY <1>1 DEF DupFrame
  <2> QED BY <1>2, <2>1, <2>2, <2>3, Zenon
<1>3. CASE t.kind # "Key" /\ t.kind \in Values /\ f.kind = "array"
  <2>1. LocatedFrame(f, t) = [f EXCEPT !.nextIndex = @ + 1]
    BY <1>3 DEF LocatedFrame
  <2> QED BY <1>3, <2>1 DEF DupFrame
<1>4. CASE t.kind # "Key" /\ ~(t.kind \in Values /\ f.kind = "array")
  BY <1>4 DEF LocatedFrame
<1> QED BY <1>2, <1>3, <1>4

LEMMA EndedFrameProperties ==
  ASSUME NEW f \in DupFrame
  PROVE  LET g == EndedFrame(f) IN
         /\ g \in DupFrame /\ g.kind = f.kind /\ g.keys = f.keys
         /\ g.path = f.path /\ g.nextIndex = f.nextIndex
         /\ f.kind = "object" => g.expectingKey = TRUE
         /\ f.kind # "object" => g = f
<1>1. CASE f.kind = "object" /\ ~f.expectingKey
  <2>1. EndedFrame(f) = [f EXCEPT !.expectingKey = TRUE, !.pendingKey = EmptyKey]
    BY <1>1 DEF EndedFrame
  <2> QED BY <1>1, <2>1, KeysAssumption DEF DupFrame
<1>2. CASE f.kind = "object" /\ f.expectingKey
  <2>1. EndedFrame(f) = f
    BY <1>2 DEF EndedFrame
  <2>2. f.expectingKey = TRUE
    BY <1>2 DEF DupFrame
  <2> QED BY <1>2, <2>1, <2>2
<1>3. CASE f.kind # "object"
  BY <1>3 DEF EndedFrame
<1> QED BY <1>1, <1>2, <1>3

LEMMA TakenFrameProperties ==
  ASSUME NEW f \in DupFrame, NEW t \in Tokens
  PROVE  LET g == TakenFrame(f, t) IN
         /\ g \in DupFrame /\ g.kind = f.kind /\ g.keys = f.keys \cup {t.text}
         /\ g.path = f.path /\ g.nextIndex = f.nextIndex
         /\ g.expectingKey = FALSE /\ g.pendingKey = t.text
BY DEF TakenFrame, DupFrame, Tokens

LEMMA NewFrameProperties ==
  ASSUME NEW kind \in ContainerKinds, NEW path \in Paths
  PROVE  NewFrame(kind, path) \in DupFrame
BY KeysAssumption DEF NewFrame, DupFrame

LEMMA LocatedProperties ==
  ASSUME NEW s \in Seq(DupFrame), NEW t \in Tokens
  PROVE  /\ Located(s, t) \in Seq(DupFrame)
         /\ s = << >> => Located(s, t) = << >>
         /\ s # << >> => Replaced(Located(s, t), s, LocatedFrame(Last(s), t))
<1>1. CASE s = << >>
  BY <1>1 DEF Located
<1>2. CASE s # << >>
  <2>1. Last(s) \in DupFrame
    BY <1>2, LastProperties, Zenon
  <2>2. LocatedFrame(Last(s), t) \in DupFrame
    BY <2>1, LocatedFrameProperties, Zenon
  <2>3. \/ Located(s, t) = SetLast(s, LocatedFrame(Last(s), t))
        \/ Located(s, t) = s /\ LocatedFrame(Last(s), t) = Last(s)
    BY <1>2 DEF Located, LocatedFrame
  <2> QED BY <1>2, <2>1, <2>2, <2>3, SetLastReplaces, SameReplaces
<1> QED BY <1>1, <1>2

LEMMA ValueEndedProperties ==
  ASSUME NEW s \in Seq(DupFrame)
  PROVE  /\ ValueEnded(s) \in Seq(DupFrame)
         /\ s = << >> => ValueEnded(s) = << >>
         /\ s # << >> => Replaced(ValueEnded(s), s, EndedFrame(Last(s)))
<1>1. CASE s = << >>
  BY <1>1 DEF ValueEnded
<1>2. CASE s # << >>
  <2>1. Last(s) \in DupFrame
    BY <1>2, LastProperties, Zenon
  <2>2. EndedFrame(Last(s)) \in DupFrame
    BY <2>1, EndedFrameProperties, Zenon
  <2>3. \/ ValueEnded(s) = SetLast(s, EndedFrame(Last(s)))
        \/ ValueEnded(s) = s /\ EndedFrame(Last(s)) = Last(s)
    BY <1>2 DEF ValueEnded, EndedFrame
  <2> QED BY <1>2, <2>1, <2>2, <2>3, SetLastReplaces, SameReplaces
<1> QED BY <1>1, <1>2

LEMMA KeyTakenProperties ==
  ASSUME NEW s \in Seq(DupFrame), NEW t \in Tokens, s # << >>
  PROVE  /\ KeyTaken(s, t) \in Seq(DupFrame)
         /\ Replaced(KeyTaken(s, t), s, TakenFrame(Last(s), t))
<1>1. Last(s) \in DupFrame
  BY LastProperties, Zenon
<1>2. TakenFrame(Last(s), t) \in DupFrame
  BY <1>1, TakenFrameProperties, Zenon
<1>3. KeyTaken(s, t) = SetLast(s, TakenFrame(Last(s), t))
  BY DEF KeyTaken, TakenFrame
<1> QED BY <1>2, <1>3, SetLastReplaces, Zenon

-----------------------------------------------------------------------------
(* Types of what the wrapper computes. *)

LEMMA ShortSequences ==
  ASSUME NEW S, NEW x \in S
  PROVE  << >> \in Seq(S) /\ <<x>> \in Seq(S)
OBVIOUS

LEMMA TokenPathType ==
  ASSUME NEW s \in Seq(DupFrame), NEW t \in Tokens
  PROVE  TokenPath(s, t) \in Paths
<1>1. t.text \in Keys \cup Nat
  BY DEF Tokens
<1>2. CASE s = << >>
  <2>1. TokenPath(s, t) \in {<<t.text>>, << >>}
    BY <1>2 DEF TokenPath
  <2>2. << >> \in Paths /\ <<t.text>> \in Paths
    BY <1>1, ShortSequences, Zenon DEF Paths
  <2> QED BY <2>1, <2>2
<1>3. CASE s # << >>
  <2>1. Last(s) \in DupFrame
    BY <1>3, LastProperties, Zenon
  <2>2. /\ Last(s).path \in Paths
        /\ Last(s).nextIndex \in Keys \cup Nat
        /\ Last(s).pendingKey \in Keys \cup Nat
    BY <2>1 DEF DupFrame
  <2>3. TokenPath(s, t) \in
          {Append(Last(s).path, t.text), Append(Last(s).path, Last(s).nextIndex),
           Append(Last(s).path, Last(s).pendingKey), Last(s).path}
    BY <1>3 DEF TokenPath
  <2>4. \A x \in Keys \cup Nat : Append(Last(s).path, x) \in Paths
    BY <2>2, AppendProperties, Zenon DEF Paths
  <2> QED BY <1>1, <2>2, <2>3, <2>4
<1> QED BY <1>2, <1>3

LEMMA IssueType ==
  ASSUME NEW code \in Codes, NEW path \in Paths
  PROVE  Issue(code, path) \in Issues /\ Issue(code, path) # NoIssue
         /\ Issue(code, path).code = code
<1>1. <<EmptyKey>> \in Paths
  BY KeysAssumption DEF Paths
<1> QED BY <1>1 DEF Issue, Issues, NoIssue, Codes

LEMMA VerdictType ==
  ASSUME NEW e \in [stack : Seq(DupFrame), depth : Nat], NEW t \in Tokens,
         NEW loc, NEW o
  PROVE  Verdict(e, t, loc, o) \in Issues /\ Sunk(e, t, loc, o) \subseteq Issues
<1>1. TokenPath(e.stack, t) \in Paths
  BY TokenPathType
<1>2. << >> \in Paths
  BY DEF Paths
<1>3. NoIssue \in Issues
  BY <1>2 DEF NoIssue, Issues
<1>4. \A code \in {"parse_error", "duplicate_key", "truncated"} :
        Issue(code, TokenPath(e.stack, t)) \in Issues
  BY <1>1, IssueType DEF Codes
<1> QED BY <1>3, <1>4 DEF Verdict, Sunk

LEMMA NextDepthType ==
  ASSUME NEW depth \in Nat, NEW t
  PROVE  NextDepth(depth, t) \in Nat
BY DEF NextDepth

LEMMA NextStackType ==
  ASSUME NEW s \in Seq(DupFrame), NEW t \in Tokens, NEW o
  PROVE  NextStack(s, t, o) \in Seq(DupFrame)
<1>0. ASSUME NEW q \in Seq(DupFrame), NEW f \in DupFrame
      PROVE  Append(q, f) \in Seq(DupFrame)
  BY AppendProperties
<1> DEFINE at == Located(s, t)
<1>1. at \in Seq(DupFrame) /\ (s # << >> => Len(at) = Len(s))
  BY LocatedProperties DEF Replaced
<1>2. CASE t.kind \in Begins
  <2> DEFINE kind == IF t.kind = "BeginObject" THEN "object" ELSE "array"
  <2>0. kind \in ContainerKinds
    BY DEF ContainerKinds
  <2>1. NewFrame(kind, TokenPath(s, t)) \in DupFrame
    <3> HIDE DEF kind
    <3> QED BY <2>0, TokenPathType, NewFrameProperties, Zenon
  <2>2. t.kind \notin Ends /\ t.kind # "Key"
    BY <1>2 DEF Begins, Ends
  <2>3. NextStack(s, t, o) = Append(at, NewFrame(kind, TokenPath(s, t)))
    BY <1>2, <2>2 DEF NextStack
  <2> DEFINE frame == NewFrame(kind, TokenPath(s, t))
  <2> HIDE DEF at, frame
  <2>4. Append(at, frame) \in Seq(DupFrame)
    <3>1. at \in Seq(DupFrame)
      BY <1>1
    <3>2. frame \in DupFrame
      BY <2>1 DEF frame
    <3> QED BY <1>0, <3>1, <3>2
  <2> QED BY <2>3, <2>4 DEF frame
<1>3. CASE t.kind \in Ends
  <2>1. NextStack(s, t, o) = ValueEnded(IF at # << >> THEN Front(at) ELSE at)
    BY <1>3 DEF NextStack, Begins, Ends
  <2>2. (IF at # << >> THEN Front(at) ELSE at) \in Seq(DupFrame)
    BY <1>1, FrontProperties
  <2> QED BY <2>1, <2>2, ValueEndedProperties, Zenon
<1>4. CASE t.kind = "Key"
  <2>1. NextStack(s, t, o) = IF TakesKey(s, t) /\ ~Rejected(s, t, o)
                               THEN KeyTaken(at, t) ELSE at
    BY <1>4 DEF NextStack, Begins, Ends
  <2>2. TakesKey(s, t) => at # << >>
    BY <1>1, EmptySeq DEF TakesKey
  <2>3. TakesKey(s, t) => KeyTaken(at, t) \in Seq(DupFrame)
    BY <1>1, <2>2, KeyTakenProperties, Zenon
  <2> QED BY <1>1, <2>1, <2>3
<1>5. CASE ~(t.kind \in Begins \/ t.kind \in Ends \/ t.kind = "Key")
  <2>1. NextStack(s, t, o) = ValueEnded(at)
    BY <1>5 DEF NextStack
  <2> QED BY <1>1, <2>1, ValueEndedProperties, Zenon
<1> QED BY <1>2, <1>3, <1>4, <1>5


LEMMA EnforcedType ==
  ASSUME NEW e \in [stack : Seq(DupFrame), depth : Nat], NEW t \in Tokens, NEW o
  PROVE  Enforced(e, t, o) \in [stack : Seq(DupFrame), depth : Nat]
BY NextStackType, NextDepthType DEF Enforced

-----------------------------------------------------------------------------
(* Type correctness, and the stack of jsonSource. *)

LEMMA InitTypes == Init => TypeOK /\ StackMirrorsDocument
<1> SUFFICES ASSUME Init PROVE TypeOK /\ StackMirrorsDocument
  OBVIOUS
<1>1. /\ doc = << >> /\ input = "open" /\ offset = -1 /\ repeated = FALSE
      /\ src = << >> /\ tok = NoToken
      /\ driver \in Drivers /\ opt \in ParseOpts
      /\ enf = NewEnforcer /\ issue = NoIssue /\ sunk = {}
      /\ clean = TRUE /\ lost = FALSE
  BY DEF Init, EnforcedInit, SourceInit, DocumentInit
<1>2. doc \in Seq(Container) /\ src \in Seq(Frame)
  BY <1>1
<1>3. enf \in [stack : Seq(DupFrame), depth : Nat]
  BY <1>1 DEF NewEnforcer
<1>4. issue \in Issues
  BY <1>1 DEF NoIssue, Issues, Paths
<1>5. StackMirrorsDocument
  <2>1. SrcMirrors(src, doc)
    BY <1>1 DEF SrcMirrors
  <2> QED BY <1>2, <2>1, SrcMirrorsIsEquality, Zenon DEF StackMirrorsDocument
<1>6. SourceTypeOK
  <2>1. offset \in Int
    BY <1>1
  <2> QED BY <1>1, <1>2, <2>1, Zenon DEF SourceTypeOK, DocumentTypeOK
<1>7. sunk \subseteq Issues /\ clean \in BOOLEAN /\ lost \in BOOLEAN
  BY <1>1, Zenon
<1> QED BY <1>1, <1>3, <1>4, <1>5, <1>6, <1>7, Zenon DEF TypeOK

LEMMA StepTypes ==
  ASSUME TypeOK, StackMirrorsDocument, NextToken
  PROVE  TypeOK' /\ StackMirrorsDocument'
<1>1. /\ SourceTypeOK /\ driver \in Drivers /\ opt \in ParseOpts
      /\ enf \in [stack : Seq(DupFrame), depth : Nat]
      /\ clean \in BOOLEAN /\ lost \in BOOLEAN
  BY DEF TypeOK
<1>2. SourceTypeOK' /\ StackMirrorsDocument'
  BY <1>1, SourceStep, Zenon DEF NextToken
<1>3. ASSUME ReadToken, Enforce PROVE TypeOK'
  <2>1. tok' \in Tokens
    BY <1>1, <1>3, TokenStepsType, Zenon
  <2>2. enf' \in [stack : Seq(DupFrame), depth : Nat]
    BY <1>1, <1>3, <2>1, EnforcedType, Zenon DEF Enforce
  <2>3. issue' \in Issues /\ sunk' \subseteq Issues
    BY <1>1, <1>3, <2>1, VerdictType, Zenon DEF Enforce
  <2>4. /\ driver' = driver /\ opt' = opt
        /\ clean' \in BOOLEAN /\ lost' \in BOOLEAN
    BY <1>1, <1>3 DEF Enforce
  <2> QED BY <1>1, <1>2, <2>2, <2>3, <2>4, Zenon DEF TypeOK
<1>4. ASSUME ReadError, PassError PROVE TypeOK'
  <2>1. /\ driver' = driver /\ opt' = opt /\ enf' = enf /\ lost' = lost
        /\ issue' = NoIssue /\ sunk' = {} /\ clean' = FALSE
    BY <1>4 DEF PassError
  <2>2. NoIssue \in Issues
    BY DEF NoIssue, Issues, Paths
  <2> QED BY <1>1, <1>2, <2>1, <2>2 DEF TypeOK
<1> QED BY <1>2, <1>3, <1>4, Zenon DEF NextToken

LEMMA StutterTypes ==
  ASSUME TypeOK, StackMirrorsDocument, UNCHANGED vars
  PROVE  TypeOK' /\ StackMirrorsDocument'
BY DEF vars, sourceVars, documentVars, wrapperVars, TypeOK, SourceTypeOK,
       DocumentTypeOK, StackMirrorsDocument


-----------------------------------------------------------------------------
(* Pointers into the document. *)

LEMMA SegmentType ==
  ASSUME NEW c \in Container
  PROVE  Segment(c) \in Steps
BY DEF Container, Segment, Steps

LEMMA PointerToProperties ==
  ASSUME NEW d \in Seq(Container), NEW n \in 0..Len(d)
  PROVE  /\ PointerTo(d, n) \in Seq(Steps) /\ Len(PointerTo(d, n)) = n
         /\ \A i \in 1..n : PointerTo(d, n)[i] = Segment(d[i])
<1>1. \A i \in 1..n : Segment(d[i]) \in Steps
  BY ElementOfSeq, SegmentType
<1>2. n \in Nat
  OBVIOUS
<1>3. PointerTo(d, n) = [i \in 1..n |-> Segment(d[i])]
  BY DEF PointerTo
<1> HIDE DEF Steps
<1> QED BY <1>1, <1>2, <1>3

LEMMA PointerToSame ==
  ASSUME NEW d, NEW e, NEW n, \A i \in 1..n : e[i] = d[i]
  PROVE  PointerTo(e, n) = PointerTo(d, n)
BY DEF PointerTo

LEMMA PointerToAppend ==
  ASSUME NEW d \in Seq(Container), d # << >>
  PROVE  PointerTo(d, Len(d)) = Append(PointerTo(d, Len(d) - 1), Segment(Last(d)))
<1> DEFINE n == Len(d)
           p == PointerTo(d, n)
           q == PointerTo(d, n - 1)
           x == Segment(Last(d))
<1>1. n \in Nat \ {0} /\ n \in 0..n /\ n - 1 \in 0..n /\ Last(d) = d[n]
  BY LastProperties
<1>2. Last(d) \in Container
  BY LastProperties, Zenon
<1>3. /\ p \in Seq(Steps) /\ Len(p) = n
      /\ \A i \in 1..n : p[i] = Segment(d[i])
  BY <1>1, PointerToProperties
<1>4. /\ q \in Seq(Steps) /\ Len(q) = n - 1
      /\ \A i \in 1..n - 1 : q[i] = Segment(d[i])
  BY <1>1, PointerToProperties
<1>5. x \in Steps /\ x = Segment(d[n])
  BY <1>1, <1>2, SegmentType, Zenon
<1> HIDE DEF n, p, q, x, Steps
<1>6. /\ Append(q, x) \in Seq(Steps) /\ Len(Append(q, x)) = Len(q) + 1
      /\ \A i \in 1..Len(q) : Append(q, x)[i] = q[i]
      /\ Append(q, x)[Len(q) + 1] = x
  BY <1>4, <1>5, AppendProperties
<1>7. Len(Append(q, x)) = n /\ Append(q, x)[n] = x
  BY <1>1, <1>4, <1>6
<1>8. \A i \in 1..n : Append(q, x)[i] = p[i]
  <2> TAKE i \in 1..n
  <2>1. CASE i = n
    BY <1>3, <1>5, <1>7, <2>1
  <2>2. CASE i # n
    <3>1. i \in 1..n - 1
      BY <1>1, <2>2
    <3> QED BY <1>3, <1>4, <1>6, <3>1
  <2> QED BY <2>1, <2>2
<1>9. p = Append(q, x)
  BY <1>3, <1>6, <1>7, <1>8, SeqEqual
<1> QED BY <1>9 DEF n, p, q, x

-----------------------------------------------------------------------------
(* The wrapper's stack against the document's. *)

LEMMA MirrorsTop ==
  ASSUME NEW s \in Seq(DupFrame), NEW d \in Seq(Container), NEW a,
         Mirrors(s, d, a)
  PROVE  /\ s = << >> <=> d = << >>
         /\ d # << >> =>
              FrameMirrors(Last(s), Last(d), PointerTo(d, Len(d) - 1), a)
<1>1. s = << >> <=> d = << >>
  BY EmptySeq DEF Mirrors
<1>2. ASSUME d # << >>
      PROVE  FrameMirrors(Last(s), Last(d), PointerTo(d, Len(d) - 1), a)
  <2>1. Last(s) = s[Len(s)] /\ Last(d) = d[Len(d)] /\ Len(d) \in 1..Len(d)
    BY <1>1, <1>2, LastProperties, Zenon
  <2> QED BY <2>1, Zenon DEF Mirrors
<1> QED BY <1>1, <1>2

LEMMA MirrorsReplaced ==
  ASSUME NEW s \in Seq(DupFrame), NEW d \in Seq(Container), NEW a,
         Mirrors(s, d, a), d # << >>,
         NEW s2, NEW d2, NEW f, NEW c, Replaced(s2, s, f), Replaced(d2, d, c),
         FrameMirrors(f, c, PointerTo(d, Len(d) - 1), a)
  PROVE  Mirrors(s2, d2, a)
<1>1. /\ Len(s2) = Len(d) /\ Len(d2) = Len(d) /\ Len(s) = Len(d)
      /\ s2[Len(d)] = f /\ d2[Len(d)] = c /\ Len(d) \in Nat
      /\ \A i \in 1..Len(d) : i # Len(d) => s2[i] = s[i] /\ d2[i] = d[i]
  BY DEF Replaced, Mirrors
<1>2. ASSUME NEW i \in 1..Len(d)
      PROVE  PointerTo(d2, i - 1) = PointerTo(d, i - 1)
  <2>1. \A j \in 1..i - 1 : d2[j] = d[j]
    BY <1>1
  <2> QED BY <2>1, PointerToSame, Zenon
<1>3. ASSUME NEW i \in 1..Len(d)
      PROVE  FrameMirrors(s2[i], d2[i], PointerTo(d, i - 1), a)
  BY <1>1, Zenon DEF Mirrors
<1> QED BY <1>1, <1>2, <1>3, Zenon DEF Mirrors

LEMMA MirrorsPush ==
  ASSUME NEW s \in Seq(DupFrame), NEW d \in Seq(Container), NEW a,
         Mirrors(s, d, a), NEW f \in DupFrame, NEW c \in Container,
         FrameMirrors(f, c, PointerTo(d, Len(d)), a)
  PROVE  Mirrors(Append(s, f), Append(d, c), a)
<1> DEFINE s2 == Append(s, f)
           d2 == Append(d, c)
<1>1. /\ Len(s2) = Len(s) + 1 /\ s2[Len(s) + 1] = f
      /\ \A i \in 1..Len(s) : s2[i] = s[i]
  BY AppendProperties
<1>2. /\ Len(d2) = Len(d) + 1 /\ d2[Len(d) + 1] = c
      /\ \A i \in 1..Len(d) : d2[i] = d[i]
  BY AppendProperties
<1>3. Len(s) = Len(d) /\ Len(d) \in Nat
  BY DEF Mirrors
<1> HIDE DEF s2, d2
<1>4. ASSUME NEW i \in 1..Len(d) + 1
      PROVE  PointerTo(d2, i - 1) = PointerTo(d, i - 1)
  <2>1. \A j \in 1..i - 1 : d2[j] = d[j]
    BY <1>2, <1>3
  <2> QED BY <2>1, PointerToSame, Zenon
<1>5. ASSUME NEW i \in 1..Len(d) + 1
      PROVE  FrameMirrors(s2[i], d2[i], PointerTo(d, i - 1), a)
  <2>1. CASE i \in 1..Len(d)
    BY <1>1, <1>2, <1>3, <2>1, Zenon DEF Mirrors
  <2>2. CASE i = Len(d) + 1
    <3>1. i - 1 = Len(d)
      BY <1>3, <2>2
    <3> QED BY <1>1, <1>2, <1>3, <2>2, <3>1, Zenon
  <2> QED BY <1>3, <2>1, <2>2
<1>6. Mirrors(s2, d2, a)
  BY <1>1, <1>2, <1>3, <1>4, <1>5, Zenon DEF Mirrors
<1> QED BY <1>6 DEF s2, d2

LEMMA MirrorsPop ==
  ASSUME NEW s \in Seq(DupFrame), NEW d \in Seq(Container), NEW a,
         Mirrors(s, d, a), d # << >>
  PROVE  Mirrors(Front(s), Front(d), a)
<1>1. s # << >> /\ Len(s) = Len(d) /\ Len(d) \in Nat
  BY MirrorsTop DEF Mirrors
<1>2. /\ Len(Front(s)) = Len(d) - 1 /\ Len(Front(d)) = Len(d) - 1
      /\ \A i \in 1..Len(d) - 1 : Front(s)[i] = s[i] /\ Front(d)[i] = d[i]
  BY <1>1, FrontProperties, Zenon
<1>3. ASSUME NEW i \in 1..Len(d) - 1
      PROVE  PointerTo(Front(d), i - 1) = PointerTo(d, i - 1) /\ i \in 1..Len(d)
  <2>1. \A j \in 1..i - 1 : Front(d)[j] = d[j]
    BY <1>1, <1>2
  <2> QED BY <1>1, <2>1, PointerToSame
<1> QED BY <1>2, <1>3, Zenon DEF Mirrors

LEMMA MirrorsWeaken ==
  ASSUME NEW s, NEW d, NEW a \in BOOLEAN, NEW b \in BOOLEAN,
         Mirrors(s, d, a), a => b
  PROVE  Mirrors(s, d, b)
BY Zenon DEF Mirrors, FrameMirrors


LEMMA FrameLocated ==
  ASSUME NEW f \in DupFrame, NEW c \in Container, NEW p, NEW a,
         FrameMirrors(f, c, p, a), NEW t \in Tokens, t.kind \in Values
  PROVE  FrameMirrors(LocatedFrame(f, t),
           IF c.kind = "array" THEN [c EXCEPT !.count = @ + 1] ELSE c, p, a)
<1> DEFINE g == LocatedFrame(f, t)
           b == [c EXCEPT !.count = @ + 1]
<1>1. t.kind # "Key"
  BY DEF Values, Begins, Scalars
<1>2. /\ g.kind = f.kind /\ g.keys = f.keys /\ g.path = f.path
      /\ g.expectingKey = f.expectingKey /\ g.pendingKey = f.pendingKey
      /\ g.nextIndex = IF f.kind = "array" THEN f.nextIndex + 1 ELSE f.nextIndex
  BY <1>1, LocatedFrameProperties
<1>3. /\ b.kind = c.kind /\ b.seen = c.seen /\ b.count = c.count + 1
      /\ b.atKey = c.atKey /\ b.key = c.key
  BY DEF Container
<1> HIDE DEF g, b
<1>4. FrameMirrors(g, IF c.kind = "array" THEN b ELSE c, p, a)
  BY <1>2, <1>3 DEF FrameMirrors
<1> QED BY <1>4 DEF g, b

LEMMA FrameEnded ==
  ASSUME NEW f \in DupFrame, NEW c \in Container, NEW p, NEW a,
         FrameMirrors(f, c, p, a)
  PROVE  FrameMirrors(EndedFrame(f),
           IF c.kind = "object" THEN [c EXCEPT !.atKey = TRUE] ELSE c, p, a)
<1> DEFINE g == EndedFrame(f)
           b == [c EXCEPT !.atKey = TRUE]
<1>1. /\ g.kind = f.kind /\ g.keys = f.keys /\ g.path = f.path
      /\ g.nextIndex = f.nextIndex
      /\ f.kind = "object" => g.expectingKey = TRUE
      /\ f.kind # "object" => g = f
  BY EndedFrameProperties, Zenon
<1>2. /\ b.kind = c.kind /\ b.seen = c.seen /\ b.count = c.count
      /\ b.atKey = TRUE
  BY DEF Container
<1>3. f.kind = c.kind
  BY DEF FrameMirrors
<1> HIDE DEF g, b
<1>4. CASE c.kind = "object"
  <2>1. FrameMirrors(g, b, p, a)
    BY <1>1, <1>2, <1>3, <1>4, Zenon DEF FrameMirrors
  <2> QED BY <1>4, <2>1 DEF g, b
<1>5. CASE c.kind # "object"
  BY <1>1, <1>3, <1>5 DEF g
<1> QED BY <1>4, <1>5

KeyOf(c, k) == [c EXCEPT !.atKey = FALSE, !.key = k, !.seen = @ \cup {k}]

LEMMA FrameKey ==
  ASSUME NEW f \in DupFrame, NEW c \in Container, NEW p, NEW a,
         FrameMirrors(f, c, p, a), NEW t \in Tokens, t.kind = "Key"
  PROVE  /\ FrameMirrors(TakenFrame(LocatedFrame(f, t), t), KeyOf(c, t.text), p, a)
         /\ t.text \in f.keys =>
              FrameMirrors(LocatedFrame(f, t), KeyOf(c, t.text), p, a)
<1> DEFINE g == LocatedFrame(f, t)
           h == TakenFrame(g, t)
           b == KeyOf(c, t.text)
<1>1. t.kind \notin Values
  BY DEF Values, Begins, Scalars
<1>2. /\ g \in DupFrame /\ g.kind = f.kind /\ g.keys = f.keys /\ g.path = f.path
      /\ g.nextIndex = f.nextIndex /\ g.pendingKey = t.text
  BY <1>1, LocatedFrameProperties
<1>3. /\ b.kind = c.kind /\ b.seen = c.seen \cup {t.text} /\ b.count = c.count
      /\ b.atKey = FALSE /\ b.key = t.text
  BY DEF Container, Tokens, KeyOf
<1> HIDE DEF g
<1>4. /\ h.kind = f.kind /\ h.keys = f.keys \cup {t.text} /\ h.path = f.path
      /\ h.nextIndex = f.nextIndex /\ h.pendingKey = t.text
  BY <1>2, TakenFrameProperties, Zenon
<1> HIDE DEF h, b
<1>5. FrameMirrors(h, b, p, a)
  BY <1>3, <1>4 DEF FrameMirrors
<1>6. t.text \in f.keys => f.keys \cup {t.text} = f.keys
  OBVIOUS
<1>7. t.text \in f.keys => FrameMirrors(g, b, p, a)
  BY <1>2, <1>3, <1>6 DEF FrameMirrors
<1> QED BY <1>5, <1>7 DEF g, h, b

LEMMA FrameNew ==
  ASSUME NEW kind \in ContainerKinds, NEW path, NEW p, NEW a, ~a => path = p
  PROVE  FrameMirrors(NewFrame(kind, path), NewContainer(kind), p, a)
BY DEF FrameMirrors, NewFrame, NewContainer, ContainerKinds

LEMMA MirrorsBegun ==
  ASSUME NEW s \in Seq(DupFrame), NEW d \in Seq(Container), NEW a,
         Mirrors(s, d, a), NEW t \in Tokens, t.kind \in Values
  PROVE  Mirrors(Located(s, t), ValueBegun(d), a)
<1>1. CASE d = << >>
  BY <1>1, MirrorsTop, LocatedProperties, ValueBegunProperties
<1>2. CASE d # << >>
  <2>1. s # << >>
    BY <1>2, MirrorsTop
  <2>2. Last(s) \in DupFrame /\ Last(d) \in Container
    BY <1>2, <2>1, LastProperties, Zenon
  <2> DEFINE c == IF Last(d).kind = "array"
                    THEN [Last(d) EXCEPT !.count = @ + 1] ELSE Last(d)
             f == LocatedFrame(Last(s), t)
  <2>3. FrameMirrors(f, c, PointerTo(d, Len(d) - 1), a)
    BY <1>2, <2>2, MirrorsTop, FrameLocated, Zenon
  <2>4. Replaced(ValueBegun(d), d, c)
    BY <1>2, ValueBegunProperties, Zenon
  <2>5. Replaced(Located(s, t), s, f)
    BY <2>1, LocatedProperties, Zenon
  <2> HIDE DEF c, f
  <2> QED BY <1>2, <2>3, <2>4, <2>5, MirrorsReplaced, Zenon
<1> QED BY <1>1, <1>2

LEMMA MirrorsDone ==
  ASSUME NEW s \in Seq(DupFrame), NEW d \in Seq(Container), NEW a,
         Mirrors(s, d, a)
  PROVE  Mirrors(ValueEnded(s), ValueDone(d), a)
<1>1. CASE d = << >>
  BY <1>1, MirrorsTop, ValueEndedProperties, ValueDoneProperties
<1>2. CASE d # << >>
  <2>1. s # << >>
    BY <1>2, MirrorsTop
  <2>2. Last(s) \in DupFrame /\ Last(d) \in Container
    BY <1>2, <2>1, LastProperties, Zenon
  <2> DEFINE c == IF Last(d).kind = "object"
                    THEN [Last(d) EXCEPT !.atKey = TRUE] ELSE Last(d)
             f == EndedFrame(Last(s))
  <2>3. FrameMirrors(f, c, PointerTo(d, Len(d) - 1), a)
    BY <1>2, <2>2, MirrorsTop, FrameEnded, Zenon
  <2>4. Replaced(ValueDone(d), d, c)
    BY <1>2, ValueDoneProperties, Zenon
  <2>5. Replaced(ValueEnded(s), s, f)
    BY <2>1, ValueEndedProperties, Zenon
  <2> HIDE DEF c, f
  <2> QED BY <1>2, <2>3, <2>4, <2>5, MirrorsReplaced, Zenon
<1> QED BY <1>1, <1>2


LEMMA ReplacedTwice ==
  ASSUME NEW s, NEW t, NEW u, NEW e, NEW f, Replaced(t, s, e), Replaced(u, t, f)
  PROVE  Replaced(u, s, f)
BY Zenon DEF Replaced

-----------------------------------------------------------------------------
(* The step of the wrapper's stack on each kind of token. *)

LEMMA StackKey ==
  ASSUME NEW s \in Seq(DupFrame), NEW d \in Seq(Container), NEW a,
         Mirrors(s, d, a), AtKey(d), NEW t \in Tokens, t.kind = "Key", NEW o
  PROVE  /\ TakesKey(s, t) /\ Last(s).keys = Last(d).seen
         /\ NextStack(s, t, o)[Len(d)].expectingKey <=> Rejected(s, t, o)
         /\ Mirrors(NextStack(s, t, o), KeyBegun(d, t.text), a)
<1> DEFINE f == Last(s)
           c == Last(d)
           at == Located(s, t)
           p == PointerTo(d, Len(d) - 1)
<1>1. d # << >> /\ c.kind = "object" /\ c.atKey
  BY DEF AtKey
<1>2. s # << >> /\ FrameMirrors(f, c, p, a)
  BY <1>1, MirrorsTop, Zenon
<1>3. f \in DupFrame /\ c \in Container /\ Len(s) \in Nat
  BY <1>1, <1>2, LastProperties, Zenon
<1>4. f.kind = "object" /\ f.expectingKey /\ f.keys = c.seen
  BY <1>1, <1>2 DEF FrameMirrors
<1>5. TakesKey(s, t) /\ (Rejected(s, t, o) => t.text \in f.keys)
  BY <1>2, <1>4 DEF TakesKey, Rejected, Repeated
<1>6. at \in Seq(DupFrame) /\ Replaced(at, s, LocatedFrame(f, t))
  BY <1>2, LocatedProperties, Zenon
<1>7. LocatedFrame(f, t) \in DupFrame /\ LocatedFrame(f, t).expectingKey = f.expectingKey
  BY <1>3, LocatedFrameProperties, Zenon
<1>8. t.text \in Keys /\ t.kind \notin Begins /\ t.kind \notin Ends
  BY DEF Tokens, Begins, Ends
<1>9. Replaced(KeyBegun(d, t.text), d, KeyOf(c, t.text))
  BY <1>1, <1>8, KeyBegunProperties, Zenon DEF KeyOf
<1>10. NextStack(s, t, o) = IF Rejected(s, t, o) THEN at ELSE KeyTaken(at, t)
  BY <1>5, <1>8 DEF NextStack
<1>11. Len(s) = Len(d)
  BY DEF Mirrors
<1>12. CASE Rejected(s, t, o)
  <2>1. FrameMirrors(LocatedFrame(f, t), KeyOf(c, t.text), p, a)
    BY <1>2, <1>3, <1>5, <1>12, FrameKey, Zenon
  <2>2. Mirrors(at, KeyBegun(d, t.text), a)
    BY <1>1, <1>6, <1>9, <2>1, MirrorsReplaced, Zenon
  <2>3. at[Len(d)].expectingKey
    BY <1>4, <1>6, <1>7, <1>11, Zenon DEF Replaced
  <2> QED BY <1>4, <1>5, <1>10, <1>12, <2>2, <2>3
<1>13. CASE ~Rejected(s, t, o)
  <2>1. Len(at) = Len(s) /\ at[Len(s)] = LocatedFrame(f, t)
    BY <1>6, Zenon DEF Replaced
  <2>2. at # << >>
    BY <1>2, <1>3, <1>6, <2>1, EmptySeq
  <2>3. Last(at) = LocatedFrame(f, t)
    BY <2>1 DEF Last
  <2>4. Replaced(KeyTaken(at, t), at, TakenFrame(LocatedFrame(f, t), t))
    BY <1>6, <2>2, <2>3, KeyTakenProperties, Zenon
  <2>5. Replaced(KeyTaken(at, t), s, TakenFrame(LocatedFrame(f, t), t))
    BY <1>6, <2>4, ReplacedTwice, Zenon
  <2>6. FrameMirrors(TakenFrame(LocatedFrame(f, t), t), KeyOf(c, t.text), p, a)
    BY <1>2, <1>3, FrameKey, Zenon
  <2>7. Mirrors(KeyTaken(at, t), KeyBegun(d, t.text), a)
    BY <1>1, <1>9, <2>5, <2>6, MirrorsReplaced, Zenon
  <2>8. KeyTaken(at, t)[Len(d)].expectingKey = FALSE
    <3>1. TakenFrame(LocatedFrame(f, t), t).expectingKey = FALSE
      BY <1>7, <1>8, TakenFrameProperties, Zenon
    <3>2. KeyTaken(at, t)[Len(s)] = TakenFrame(LocatedFrame(f, t), t)
      BY <2>5, Zenon DEF Replaced
    <3> QED BY <1>11, <3>1, <3>2, Zenon
  <2> QED BY <1>4, <1>5, <1>10, <1>13, <2>7, <2>8
<1> QED BY <1>12, <1>13

LEMMA StackOpen ==
  ASSUME NEW s \in Seq(DupFrame), NEW d \in Seq(Container), NEW a,
         Mirrors(s, d, a), NEW kind \in ContainerKinds, NEW o, NEW t \in Tokens,
         t.kind = BeginOf(kind),
         ~a => TokenPath(s, t) = PointerTo(ValueBegun(d), Len(d))
  PROVE  Mirrors(NextStack(s, t, o), Append(ValueBegun(d), NewContainer(kind)), a)
<1>1. /\ t.kind \in Begins /\ t.kind \in Values
      /\ t.kind \notin Ends /\ t.kind # "Key"
      /\ kind = IF t.kind = "BeginObject" THEN "object" ELSE "array"
  BY DEF BeginOf, ContainerKinds, Begins, Ends, Values
<1>2. /\ Mirrors(Located(s, t), ValueBegun(d), a)
      /\ Located(s, t) \in Seq(DupFrame) /\ ValueBegun(d) \in Seq(Container)
  BY <1>1, MirrorsBegun, LocatedProperties, ValueBegunProperties, Zenon
<1>3. NextStack(s, t, o) = Append(Located(s, t), NewFrame(kind, TokenPath(s, t)))
  BY <1>1 DEF NextStack
<1>4. NewFrame(kind, TokenPath(s, t)) \in DupFrame /\ NewContainer(kind) \in Container
  BY TokenPathType, NewFrameProperties, NewContainerType, Zenon
<1>5. Len(ValueBegun(d)) = Len(d)
  BY ValueBegunProperties DEF Replaced
<1>6. FrameMirrors(NewFrame(kind, TokenPath(s, t)), NewContainer(kind),
                   PointerTo(ValueBegun(d), Len(ValueBegun(d))), a)
  BY <1>5, FrameNew, Zenon
<1> QED BY <1>2, <1>3, <1>4, <1>6, MirrorsPush, Zenon

LEMMA StackClose ==
  ASSUME NEW s \in Seq(DupFrame), NEW d \in Seq(Container), NEW a,
         Mirrors(s, d, a), d # << >>, NEW o, NEW t \in Tokens, t.kind \in Ends
  PROVE  Mirrors(NextStack(s, t, o), ValueDone(Front(d)), a)
<1>1. t.kind \notin Begins /\ t.kind # "Key" /\ t.kind \notin Values
  BY DEF Begins, Ends, Values, Scalars
<1>2. s # << >>
  BY MirrorsTop, Zenon
<1>3. Located(s, t) = s
  BY <1>1 DEF Located
<1>4. NextStack(s, t, o) = ValueEnded(Front(s))
  BY <1>1, <1>2, <1>3 DEF NextStack
<1>5. Front(s) \in Seq(DupFrame) /\ Front(d) \in Seq(Container)
  BY <1>2, FrontProperties, Zenon
<1>6. Mirrors(Front(s), Front(d), a)
  BY MirrorsPop, Zenon
<1> QED BY <1>4, <1>5, <1>6, MirrorsDone, Zenon

LEMMA StackScalar ==
  ASSUME NEW s \in Seq(DupFrame), NEW d \in Seq(Container), NEW a,
         Mirrors(s, d, a), NEW o, NEW t \in Tokens, t.kind \in Scalars
  PROVE  Mirrors(NextStack(s, t, o), ValueDone(ValueBegun(d)), a)
<1>1. /\ t.kind \notin Begins /\ t.kind # "Key" /\ t.kind \notin Ends
      /\ t.kind \in Values
  BY DEF Begins, Ends, Values, Scalars
<1>2. NextStack(s, t, o) = ValueEnded(Located(s, t))
  BY <1>1 DEF NextStack
<1>3. /\ Mirrors(Located(s, t), ValueBegun(d), a)
      /\ Located(s, t) \in Seq(DupFrame) /\ ValueBegun(d) \in Seq(Container)
  BY <1>1, MirrorsBegun, LocatedProperties, ValueBegunProperties, Zenon
<1> QED BY <1>2, <1>3, MirrorsDone, Zenon

LEMMA PathBegun ==
  ASSUME NEW s \in Seq(DupFrame), NEW d \in Seq(Container),
         Mirrors(s, d, FALSE), NEW t \in Tokens, t.kind \in Values, ~AtKey(d),
         d # << >> /\ Last(d).kind = "object" /\ Last(s).expectingKey =>
           Last(d).key # EmptyKey
  PROVE  TokenPath(s, t) = PointerTo(ValueBegun(d), Len(d))
<1>1. t.kind # "Key"
  BY DEF Values, Begins, Scalars
<1>2. CASE d = << >>
  <2>1. s = << >> /\ TokenPath(s, t) = << >>
    BY <1>1, <1>2, MirrorsTop DEF TokenPath
  <2>2. PointerTo(ValueBegun(d), Len(d)) = << >>
    BY <1>2 DEF PointerTo
  <2> QED BY <2>1, <2>2
<1>3. CASE d # << >>
  <2> DEFINE f == Last(s)
             c == Last(d)
             b == ValueBegun(d)
             p == PointerTo(d, Len(d) - 1)
  <2>1. s # << >> /\ FrameMirrors(f, c, p, FALSE)
    BY <1>3, MirrorsTop, Zenon
  <2>2. f \in DupFrame /\ c \in Container /\ Len(d) \in Nat \ {0}
    BY <1>3, <2>1, LastProperties, Zenon
  <2>3. /\ b \in Seq(Container) /\ Len(b) = Len(d)
        /\ b[Len(d)] = IF c.kind = "array" THEN [c EXCEPT !.count = @ + 1] ELSE c
        /\ \A i \in 1..Len(d) : i # Len(d) => b[i] = d[i]
    BY <1>3, ValueBegunProperties, Zenon DEF Replaced
  <2>4. b # << >> /\ Last(b) = b[Len(d)]
    BY <2>2, <2>3, EmptySeq DEF Last
  <2>5. PointerTo(b, Len(d) - 1) = p
    <3>1. \A i \in 1..Len(d) - 1 : b[i] = d[i]
      BY <2>2, <2>3
    <3> QED BY <3>1, PointerToSame, Zenon
  <2>6. PointerTo(b, Len(d)) = Append(p, Segment(Last(b)))
    BY <2>3, <2>4, <2>5, PointerToAppend, Zenon
  <2>7. f.path = p /\ f.kind = c.kind /\ f.nextIndex = c.count
    BY <2>1 DEF FrameMirrors
  <2>8. CASE c.kind = "array"
    <3>1. Segment(Last(b)) = c.count
      BY <2>2, <2>3, <2>4, <2>8 DEF Segment, Container
    <3>2. TokenPath(s, t) = Append(f.path, f.nextIndex)
      BY <1>1, <2>1, <2>7, <2>8 DEF TokenPath
    <3> QED BY <2>6, <2>7, <3>1, <3>2
  <2>9. CASE c.kind = "object"
    <3>1. ~c.atKey /\ f.pendingKey = c.key
      BY <1>3, <2>1, <2>9 DEF AtKey, FrameMirrors
    <3>2. Segment(Last(b)) = c.key
      BY <2>3, <2>4, <2>9 DEF Segment
    <3>3. f.pendingKey # EmptyKey \/ ~f.expectingKey
      BY <1>3, <2>9, <3>1
    <3>4. TokenPath(s, t) = Append(f.path, f.pendingKey)
      BY <1>1, <2>1, <2>7, <2>9, <3>3 DEF TokenPath
    <3> QED BY <2>6, <2>7, <3>1, <3>2, <3>4
  <2> QED BY <2>2, <2>8, <2>9 DEF Container, ContainerKinds
<1> QED BY <1>2, <1>3


-----------------------------------------------------------------------------
(* The wrapper stays in step with the document. *)

LEMMA Lengths ==
  ASSUME NEW d \in Seq(Container)
  PROVE  /\ \A kind \in ContainerKinds :
              Len(Append(ValueBegun(d), NewContainer(kind))) = Len(d) + 1
         /\ d # << >> => Len(ValueDone(Front(d))) = Len(d) - 1 /\ Len(d) > 0
         /\ d # << >> => \A k \in Keys : Len(KeyBegun(d, k)) = Len(d)
         /\ Len(ValueDone(ValueBegun(d))) = Len(d)
<1>1. \A e \in Seq(Container) :
        Len(ValueBegun(e)) = Len(e) /\ Len(ValueDone(e)) = Len(e)
  BY ValueBegunProperties, ValueDoneProperties DEF Replaced
<1>2. ValueBegun(d) \in Seq(Container)
  BY ValueBegunProperties
<1>3. \A kind \in ContainerKinds :
        Len(Append(ValueBegun(d), NewContainer(kind))) = Len(d) + 1
  BY <1>1, <1>2, NewContainerType, AppendProperties
<1>4. d # << >> => /\ Front(d) \in Seq(Container) /\ Len(Front(d)) = Len(d) - 1
                   /\ Len(d) \in Nat \ {0}
  BY FrontProperties, LastProperties, Zenon
<1>5. d # << >> => Len(ValueDone(Front(d))) = Len(d) - 1 /\ Len(d) > 0
  BY <1>1, <1>4
<1>6. d # << >> => \A k \in Keys : Len(KeyBegun(d, k)) = Len(d)
  BY KeyBegunProperties, Zenon DEF Replaced
<1> QED BY <1>1, <1>2, <1>3, <1>5, <1>6

LEMMA RefusedKeyIsNamed ==
  ASSUME TypeOK, Lockstep, AwaitsKey, ~lost, input = "open", ~AtKey(doc),
         doc # << >>, Last(doc).kind = "object", Last(enf.stack).expectingKey
  PROVE  Last(doc).key # EmptyKey
<1>1. doc \in Seq(Container) /\ enf.stack \in Seq(DupFrame)
  BY DEF TypeOK, SourceTypeOK, DocumentTypeOK
<1>2. Len(enf.stack) = Len(doc)
  BY DEF Lockstep, Mirrors
<1>3. /\ Len(doc) > 0 /\ Last(doc) = doc[Len(doc)]
      /\ Last(enf.stack) = enf.stack[Len(doc)]
  BY <1>1, <1>2, LastProperties DEF Last
<1>4. ~Last(doc).atKey
  BY DEF AtKey
<1> QED BY <1>3, <1>4, Zenon DEF AwaitsKey

LEMMA PathOfValue ==
  ASSUME TypeOK, Lockstep, AwaitsKey, input = "open", ~AtKey(doc), ~lost,
         NEW t \in Tokens, t.kind \in Values
  PROVE  TokenPath(enf.stack, t) = PointerTo(ValueBegun(doc), Len(doc))
<1>1. doc \in Seq(Container) /\ enf.stack \in Seq(DupFrame) /\ lost = FALSE
  BY DEF TypeOK, SourceTypeOK, DocumentTypeOK
<1>2. Mirrors(enf.stack, doc, FALSE)
  BY <1>1 DEF Lockstep
<1> QED BY <1>1, <1>2, RefusedKeyIsNamed, PathBegun, Zenon

LEMMA LockstepStep ==
  ASSUME TypeOK, StackMirrorsDocument, Lockstep, AwaitsKey, NextToken
  PROVE  Lockstep'
<1> DEFINE s == enf.stack
<1>1. /\ SourceTypeOK /\ doc \in Seq(Container) /\ s \in Seq(DupFrame)
      /\ enf.depth \in Nat /\ lost \in BOOLEAN
  BY DEF TypeOK, SourceTypeOK, DocumentTypeOK
<1>2. Mirrors(s, doc, lost) /\ enf.depth = Len(doc)
  BY DEF Lockstep
<1>3. ASSUME ReadToken, Enforce PROVE Lockstep'
  <2>1. /\ enf'.stack = NextStack(s, tok', opt)
        /\ enf'.depth = NextDepth(Len(doc), tok')
        /\ lost' \in BOOLEAN /\ (lost => lost')
    BY <1>1, <1>2, <1>3 DEF Enforce, Enforced
  <2>2. SUFFICES Mirrors(enf'.stack, doc', lost) /\ enf'.depth = Len(doc')
    BY <1>1, <2>1, <2>2, MirrorsWeaken, Zenon DEF Lockstep
  <2>3. tok' \in Tokens
    BY <1>1, <1>3, TokenStepsType, Zenon
  <2>4. ASSUME NEW kind \in ContainerKinds, LexOpen(kind), tok' = Token(BeginOf(kind))
        PROVE  <2>2!1
    <3>1. /\ input = "open" /\ ~AtKey(doc) /\ tok'.kind = BeginOf(kind)
          /\ doc' = Append(ValueBegun(doc), NewContainer(kind))
      BY <2>4 DEF LexOpen, Consume, RoomForValue, Token
    <3>2. tok'.kind \in Begins /\ tok'.kind \in Values /\ tok'.kind \notin Ends
      BY <3>1 DEF BeginOf, Begins, Ends, Values
    <3>3. ~lost => TokenPath(s, tok') = PointerTo(ValueBegun(doc), Len(doc))
      BY <2>3, <3>1, <3>2, PathOfValue, Zenon
    <3>4. Mirrors(enf'.stack, doc', lost)
      BY <1>1, <1>2, <2>1, <2>3, <3>1, <3>3, StackOpen, Zenon
    <3>5. enf'.depth = Len(doc')
      BY <1>1, <2>1, <3>1, <3>2, Lengths DEF NextDepth
    <3> QED BY <3>4, <3>5
  <2>5. ASSUME LexClose, tok' = Token(EndOf(Last(doc).kind))
        PROVE  <2>2!1
    <3>1. /\ doc # << >> /\ doc' = ValueDone(Front(doc))
          /\ tok'.kind = EndOf(Last(doc).kind)
      BY <2>5 DEF LexClose, MayClose, Consume, Token
    <3>2. tok'.kind \in Ends /\ tok'.kind \notin Begins
      BY <3>1 DEF EndOf, Begins, Ends
    <3>3. Mirrors(enf'.stack, doc', lost)
      BY <1>1, <1>2, <2>1, <2>3, <3>1, <3>2, StackClose, Zenon
    <3>4. enf'.depth = Len(doc')
      BY <1>1, <2>1, <3>1, <3>2, Lengths DEF NextDepth
    <3> QED BY <3>3, <3>4
  <2>6. ASSUME NEW text \in Keys, LexKey(text), tok' = Text("Key", text)
        PROVE  <2>2!1
    <3>1. /\ AtKey(doc) /\ doc # << >> /\ doc' = KeyBegun(doc, text)
          /\ tok'.kind = "Key" /\ tok'.text = text
      BY <2>6 DEF LexKey, AtKey, Consume, Text
    <3>2. tok'.kind \notin Begins /\ tok'.kind \notin Ends
      BY <3>1 DEF Begins, Ends
    <3>3. Mirrors(enf'.stack, doc', lost)
      BY <1>1, <1>2, <2>1, <2>3, <3>1, StackKey, Zenon
    <3>4. enf'.depth = Len(doc')
      BY <1>1, <2>1, <3>1, <3>2, Lengths DEF NextDepth
    <3> QED BY <3>3, <3>4
  <2>7. ASSUME LexScalar, tok'.kind \in Scalars
        PROVE  <2>2!1
    <3>1. doc' = ValueDone(ValueBegun(doc))
      BY <2>7 DEF LexScalar, Consume
    <3>2. tok'.kind \notin Begins /\ tok'.kind \notin Ends
      BY <2>7 DEF Begins, Ends, Scalars
    <3>3. Mirrors(enf'.stack, doc', lost)
      BY <1>1, <1>2, <2>1, <2>3, <2>7, <3>1, StackScalar, Zenon
    <3>4. enf'.depth = Len(doc')
      BY <1>1, <2>1, <3>1, <3>2, Lengths DEF NextDepth
    <3> QED BY <3>3, <3>4
  <2>8. ASSUME NEW text, tok' = Text("String", text) PROVE tok'.kind \in Scalars
    BY <2>8 DEF Text, Scalars
  <2>9. ASSUME NEW kind \in LiteralKinds, tok' = Token(kind)
        PROVE  tok'.kind \in Scalars
    BY <2>9, LiteralsAssumption DEF Token, Scalars
  <2> QED BY <1>1, <1>3, <2>4, <2>5, <2>6, <2>7, <2>8, <2>9, TokenSteps, Zenon
<1>4. ASSUME ReadError, PassError PROVE Lockstep'
  <2>1. doc' = doc /\ enf' = enf /\ lost' = lost
    BY <1>4 DEF ReadError, LexError, PassError
  <2> QED BY <1>2, <2>1 DEF Lockstep
<1> QED BY <1>3, <1>4, Zenon DEF NextToken


-----------------------------------------------------------------------------
(* A key was read last wherever a value is awaited, and the wrapper knows. *)

LEMMA VerdictOnKey ==
  ASSUME NEW e \in [stack : Seq(DupFrame), depth : Nat], NEW t \in Tokens,
         NEW loc, NEW o, t.kind = "Key"
  PROVE  Verdict(e, t, loc, o).code = "duplicate_key" <=> Rejected(e.stack, t, o)
<1>1. t.kind \notin Begins
  BY DEF Begins
<1>2. ~TooDeep(e, t, o)
  BY <1>1 DEF TooDeep
<1>3. Verdict(e, t, loc, o) =
        IF Rejected(e.stack, t, o) THEN Issue("duplicate_key", TokenPath(e.stack, t))
        ELSE IF TooLong(loc, o) THEN Issue("truncated", TokenPath(e.stack, t))
        ELSE NoIssue
  BY <1>2 DEF Verdict
<1>4. \A code, path : Issue(code, path).code = code
  BY DEF Issue
<1>5. NoIssue.code = "none"
  BY DEF NoIssue
<1> QED BY <1>3, <1>4, <1>5

LEMMA DoneIsAtKey ==
  ASSUME NEW d \in Seq(Container), NEW n, n = Len(ValueDone(d)), n > 0,
         ValueDone(d)[n].kind = "object"
  PROVE  ValueDone(d)[n].atKey
<1> DEFINE c == IF Last(d).kind = "object"
                  THEN [Last(d) EXCEPT !.atKey = TRUE] ELSE Last(d)
<1>1. d # << >>
  <2>1. d = << >> => ValueDone(d) = << >>
    BY ValueDoneProperties, Zenon
  <2>2. Len(<< >>) = 0
    OBVIOUS
  <2> QED BY <2>1, <2>2
<1>2. Last(d) \in Container
  BY <1>1, LastProperties, Zenon
<1>3. ValueDone(d)[n] = c
  BY <1>1, ValueDoneProperties, Zenon DEF Replaced
<1> QED BY <1>2, <1>3 DEF Container

LEMMA AwaitsKeyStep ==
  ASSUME TypeOK, StackMirrorsDocument, Lockstep, AwaitsKey, NextToken
  PROVE  AwaitsKey'
<1> DEFINE s == enf.stack
           Awaits == LET n == Len(doc') IN
             input' = "open" /\ n > 0 /\ doc'[n].kind = "object" /\ ~doc'[n].atKey =>
               /\ tok'.kind = "Key" /\ tok'.text = doc'[n].key
               /\ enf'.stack[n].expectingKey <=> KeyRefused'
<1>1. /\ SourceTypeOK /\ doc \in Seq(Container) /\ s \in Seq(DupFrame)
      /\ enf \in [stack : Seq(DupFrame), depth : Nat]
  BY DEF TypeOK, SourceTypeOK, DocumentTypeOK
<1>2. Mirrors(s, doc, lost)
  BY DEF Lockstep
<1>3. ASSUME ReadToken, Enforce PROVE AwaitsKey'
  <2>1. tok' \in Tokens
    BY <1>1, <1>3, TokenStepsType, Zenon
  <2>2. /\ enf'.stack = NextStack(s, tok', opt)
        /\ issue' = Verdict(enf, tok', Location(offset'), opt)
        /\ lost' = (lost \/ LosesKey)
    BY <1>3 DEF Enforce, Enforced
  <2>3. KeyRefused' /\ tok'.text = EmptyKey => lost'
    <3>1. KeyRefused' /\ tok'.text = EmptyKey => tok' = Text("Key", EmptyKey)
      BY <2>1 DEF KeyRefused, Tokens, Text
    <3> QED BY <2>2, <3>1 DEF KeyRefused, LosesKey
  <2>4. ASSUME Awaits PROVE AwaitsKey'
    BY <2>3, <2>4 DEF AwaitsKey
  <2>5. ASSUME NEW d \in Seq(Container), doc' = ValueDone(d)
        PROVE  Awaits
    BY <2>5, DoneIsAtKey, Zenon
  <2>6. ASSUME NEW kind \in ContainerKinds, LexOpen(kind)
        PROVE  Awaits
    <3>1. doc' = Append(ValueBegun(doc), NewContainer(kind))
      BY <2>6 DEF LexOpen, Consume
    <3>2. ValueBegun(doc) \in Seq(Container) /\ NewContainer(kind) \in Container
      BY <1>1, ValueBegunProperties, NewContainerType, Zenon
    <3>3. doc'[Len(doc')] = NewContainer(kind)
      BY <3>1, <3>2, AppendProperties
    <3>4. NewContainer(kind).kind = "object" => NewContainer(kind).atKey
      BY DEF NewContainer
    <3> QED BY <3>3, <3>4, Zenon
  <2>7. ASSUME LexClose PROVE Awaits
    <3>1. doc # << >> /\ doc' = ValueDone(Front(doc))
      BY <2>7 DEF LexClose, MayClose, Consume
    <3>2. Front(doc) \in Seq(Container)
      BY <1>1, <3>1, FrontProperties, Zenon
    <3> QED BY <2>5, <3>1, <3>2
  <2>8. ASSUME LexScalar PROVE Awaits
    <3>1. doc' = ValueDone(ValueBegun(doc)) /\ ValueBegun(doc) \in Seq(Container)
      BY <1>1, <2>8, ValueBegunProperties DEF LexScalar, Consume
    <3> QED BY <2>5, <3>1
  <2>9. ASSUME NEW text \in Keys, LexKey(text), tok' = Text("Key", text)
        PROVE  Awaits
    <3>1. /\ AtKey(doc) /\ doc # << >> /\ doc' = KeyBegun(doc, text)
          /\ tok'.kind = "Key" /\ tok'.text = text
      BY <2>9 DEF LexKey, AtKey, Consume, Text
    <3>2. Len(doc') = Len(doc)
      BY <1>1, <3>1, Lengths, Zenon
    <3>3. Last(doc) \in Container
      BY <1>1, <3>1, LastProperties, Zenon
    <3>4. doc'[Len(doc)] = KeyOf(Last(doc), text)
      BY <1>1, <3>1, KeyBegunProperties, Zenon DEF Replaced, KeyOf
    <3>5. doc'[Len(doc)].key = text
      BY <3>3, <3>4 DEF KeyOf, Container
    <3>6. enf'.stack[Len(doc)].expectingKey <=> Rejected(s, tok', opt)
      BY <1>1, <1>2, <2>1, <2>2, <3>1, StackKey, Zenon
    <3>7. issue'.code = "duplicate_key" <=> Rejected(s, tok', opt)
      BY <1>1, <2>1, <2>2, <3>1, VerdictOnKey, Zenon
    <3>8. KeyRefused' <=> issue'.code = "duplicate_key"
      BY <3>1 DEF KeyRefused
    <3> QED BY <3>1, <3>2, <3>5, <3>6, <3>7, <3>8, Zenon
  <2> QED BY <1>1, <1>3, <2>4, <2>6, <2>7, <2>8, <2>9, TokenSteps, Zenon
<1>4. ASSUME ReadError, PassError PROVE AwaitsKey'
  <2>1. input' # "open" /\ tok'.kind = "none"
    BY <1>4 DEF ReadError, LexError, NoToken, Token
  <2> QED BY <2>1 DEF AwaitsKey, KeyRefused
<1> QED BY <1>3, <1>4, Zenon DEF NextToken

-----------------------------------------------------------------------------
(* What has been let through is within the limits. *)

LEMMA CleanVerdict ==
  ASSUME NEW e, NEW t, NEW loc, NEW o, Verdict(e, t, loc, o) = NoIssue
  PROVE  ~TooDeep(e, t, o) /\ ~Rejected(e.stack, t, o) /\ ~TooLong(loc, o)
<1>2. \A path : /\ Issue("parse_error", path) # NoIssue
                /\ Issue("duplicate_key", path) # NoIssue
                /\ Issue("truncated", path) # NoIssue
  BY DEF Issue, NoIssue
<1>3. TooDeep(e, t, o) => t.kind # "Key"
  BY DEF TooDeep, Begins
<1>4. Rejected(e.stack, t, o) => t.kind = "Key"
  BY DEF Rejected, Repeated, TakesKey
<1>5. ~TooDeep(e, t, o)
  BY <1>2, <1>3, <1>4 DEF Verdict
<1>6. ~Rejected(e.stack, t, o)
  BY <1>2, <1>3, <1>4 DEF Verdict
<1> QED BY <1>2, <1>5, <1>6 DEF Verdict


LEMMA CleanStep ==
  ASSUME TypeOK, StackMirrorsDocument, Lockstep, CleanDocument, NextToken
  PROVE  CleanDocument'
<1> DEFINE s == enf.stack
           refuses == \/ opt.onDuplicate = "Error"
                      \/ opt.onDuplicate = "Warn" /\ opt.failFast
<1>1. /\ SourceTypeOK /\ doc \in Seq(Container) /\ s \in Seq(DupFrame)
      /\ enf \in [stack : Seq(DupFrame), depth : Nat]
      /\ opt.maxDepth \in Nat /\ opt.maxBytes \in Nat /\ offset \in Int
      /\ repeated \in BOOLEAN
  BY LimitsAssumption DEF TypeOK, SourceTypeOK, DocumentTypeOK, ParseOpts
<1>2. Mirrors(s, doc, lost) /\ enf.depth = Len(doc)
  BY DEF Lockstep
<1>3. ASSUME ReadToken, Enforce, clean' PROVE CleanDocument'
  <2>1. /\ clean /\ opt' = opt /\ driver' = driver
        /\ Verdict(enf, tok', Location(offset'), opt) = NoIssue
    BY <1>3 DEF Enforce
  <2>2. /\ ~TooDeep(enf, tok', opt) /\ ~Rejected(s, tok', opt)
        /\ ~TooLong(Location(offset'), opt)
    BY <2>1, CleanVerdict, Zenon
  <2>3. tok' \in Tokens /\ offset' \in Int
    <3>1. SourceTypeOK'
      BY <1>1, <1>3, SourceStep, Zenon DEF TypeOK
    <3> QED BY <1>1, <1>3, <3>1, TokenStepsType DEF SourceTypeOK, DocumentTypeOK
  <2>4. /\ refuses => ~repeated
        /\ opt.maxDepth > 0 => Len(doc) <= opt.maxDepth
    BY <2>1 DEF CleanDocument
  <2> DEFINE Kept == /\ refuses => ~repeated'
                     /\ opt.maxDepth > 0 => Len(doc') <= opt.maxDepth
  <2>5. opt.maxBytes > 0 => Location(offset') <= opt.maxBytes
    <3>1. Location(offset') \in Int
      BY <2>3 DEF Location
    <3> QED BY <1>1, <2>2, <3>1 DEF TooLong
  <2>6. ASSUME Kept PROVE CleanDocument'
    <3>1. opt.maxBytes > 0 => Location(offset)' <= opt.maxBytes
      BY <2>1, <2>5 DEF Location
    <3> QED BY <2>1, <2>6, <3>1 DEF CleanDocument
  <2>7. ASSUME NEW kind \in ContainerKinds, LexOpen(kind), tok' = Token(BeginOf(kind))
        PROVE  Kept
    <3>1. /\ doc' = Append(ValueBegun(doc), NewContainer(kind))
          /\ repeated' = repeated /\ tok'.kind = BeginOf(kind)
      BY <2>7 DEF LexOpen, Consume, Token
    <3>2. tok'.kind \in Begins
      BY <3>1 DEF BeginOf, Begins
    <3>3. Len(doc') = Len(doc) + 1 /\ NextDepth(enf.depth, tok') = Len(doc) + 1
      BY <1>1, <1>2, <3>1, <3>2, Lengths DEF NextDepth, Begins, Ends
    <3> QED BY <1>1, <2>2, <2>4, <3>1, <3>2, <3>3 DEF TooDeep
  <2>8. ASSUME LexClose PROVE Kept
    <3>1. doc # << >> /\ doc' = ValueDone(Front(doc)) /\ repeated' = repeated
      BY <2>8 DEF LexClose, MayClose, Consume
    <3>2. Len(doc') = Len(doc) - 1 /\ Len(doc) \in Nat
      BY <1>1, <3>1, Lengths
    <3> QED BY <1>1, <2>4, <3>1, <3>2
  <2>9. ASSUME LexScalar PROVE Kept
    <3>1. doc' = ValueDone(ValueBegun(doc)) /\ repeated' = repeated
      BY <2>9 DEF LexScalar, Consume
    <3> QED BY <1>1, <2>4, <3>1, Lengths
  <2>10. ASSUME NEW text \in Keys, LexKey(text), tok' = Text("Key", text)
         PROVE  Kept
    <3>1. /\ AtKey(doc) /\ doc # << >> /\ doc' = KeyBegun(doc, text)
          /\ repeated' = (repeated \/ text \in Last(doc).seen)
          /\ tok'.kind = "Key" /\ tok'.text = text
      BY <2>10 DEF LexKey, AtKey, Consume, Text
    <3>2. TakesKey(s, tok') /\ Last(s).keys = Last(doc).seen
      BY <1>1, <1>2, <2>3, <3>1, StackKey, Zenon
    <3>3. refuses => text \notin Last(doc).seen
      BY <2>2, <3>1, <3>2 DEF Rejected, Repeated
    <3>4. Len(doc') = Len(doc)
      BY <1>1, <3>1, Lengths, Zenon
    <3> QED BY <2>4, <3>1, <3>3, <3>4
  <2> QED BY <1>1, <1>3, <2>6, <2>7, <2>8, <2>9, <2>10, TokenSteps, Zenon DEF TypeOK
<1>4. ASSUME ReadError, PassError PROVE CleanDocument'
  BY <1>4 DEF PassError, CleanDocument
<1>5. ASSUME ~clean' PROVE CleanDocument'
  BY <1>5 DEF CleanDocument
<1> QED BY <1>3, <1>4, <1>5, Zenon DEF NextToken

-----------------------------------------------------------------------------
(* The inductive invariant.  Lockstep alone is not inductive: where a      *)
(* container begins, its frame's pointer is right only because the wrapper *)
(* awaits a value or has refused the key that is pending (AwaitsKey).      *)

IInv == TypeOK /\ StackMirrorsDocument /\ Lockstep /\ AwaitsKey /\ CleanDocument

LEMMA InitInv == Init => IInv
<1> SUFFICES ASSUME Init PROVE IInv
  OBVIOUS
<1>1. /\ doc = << >> /\ offset = -1 /\ repeated = FALSE /\ tok.kind = "none"
      /\ driver \in Drivers /\ enf = [stack |-> << >>, depth |-> 0]
      /\ opt.maxDepth \in Nat /\ opt.maxBytes \in Nat
  BY LimitsAssumption DEF Init, EnforcedInit, SourceInit, DocumentInit, NewEnforcer,
     NoToken, Token, ParseOpts
<1>2. Lockstep
  BY <1>1 DEF Lockstep, Mirrors
<1>3. AwaitsKey
  BY <1>1 DEF AwaitsKey, KeyRefused
<1>4. CleanDocument
  BY <1>1 DEF CleanDocument, Location
<1> QED BY <1>2, <1>3, <1>4, InitTypes DEF IInv

LEMMA NextInv == IInv /\ [Next]_vars => IInv'
<1> SUFFICES ASSUME IInv, [Next]_vars PROVE IInv'
  OBVIOUS
<1>1. TypeOK /\ StackMirrorsDocument /\ Lockstep /\ AwaitsKey /\ CleanDocument
  BY DEF IInv
<1>2. CASE NextToken
  BY <1>1, <1>2, StepTypes, LockstepStep, AwaitsKeyStep, CleanStep, Zenon DEF IInv
<1>3. CASE UNCHANGED vars
  <2>1. TypeOK' /\ StackMirrorsDocument'
    BY <1>1, <1>3, StutterTypes
  <2>2. /\ doc' = doc /\ input' = input /\ offset' = offset /\ repeated' = repeated
        /\ tok' = tok /\ driver' = driver /\ opt' = opt /\ enf' = enf
        /\ issue' = issue /\ clean' = clean /\ lost' = lost
    BY <1>3 DEF vars, sourceVars, documentVars, wrapperVars
  <2>3. Lockstep'
    BY <1>1, <2>2 DEF Lockstep
  <2>4. AwaitsKey'
    BY <1>1, <2>2 DEF AwaitsKey, KeyRefused
  <2>5. CleanDocument'
    BY <1>1, <2>2 DEF CleanDocument, Location
  <2> QED BY <2>1, <2>3, <2>4, <2>5 DEF IInv
<1> QED BY <1>2, <1>3 DEF Next


-----------------------------------------------------------------------------
(* IInv holds in every reachable state, for every set of keys, every       *)
(* choice of drivers and limits and every bound on the document.           *)
THEOREM Invariance == Spec => []IInv
<1>1. Init => IInv
  BY InitInv
<1>2. IInv /\ [Next]_vars => IInv'
  BY NextInv
<1> QED BY <1>1, <1>2, PTL DEF Spec

(* Type correctness: the pointers of issues and frames are sequences of    *)
(* keys and indexes, and the depth never goes below zero.                  *)
THEOREM TypeCorrect == Spec => []TypeOK
<1>1. IInv => TypeOK
  BY DEF IInv
<1> QED BY <1>1, Invariance, PTL

(* jsonSource's stack is the decoder's: it never takes a string value for  *)
(* a key or a key for a string value (json.go:83-97).                      *)
THEOREM SourceInStep == Spec => []StackMirrorsDocument
<1>1. IInv => StackMirrorsDocument
  BY DEF IInv
<1> QED BY <1>1, Invariance, PTL

(* The wrapper's stack and depth follow the document whatever it refuses   *)
(* (enforce.go:58-158): no frame is left behind by an IssueError.          *)
THEOREM WrapperInStep == Spec => []Lockstep
<1>1. IInv => Lockstep
  BY DEF IInv
<1> QED BY <1>1, Invariance, PTL

(* Before a member's value the wrapper waits for a key only if it has just *)
(* refused this member's (enforce.go:116-136, 185).                        *)
THEOREM KeyAwaited == Spec => []AwaitsKey
<1>1. IInv => AwaitsKey
  BY DEF IInv
<1> QED BY <1>1, Invariance, PTL

(* What a consumer that stops at the first error has taken has no repeated *)
(* key the options refuse, and is within MaxDepth and, where the driver    *)
(* counts bytes, MaxBytes (enforce.go:58-158).                             *)
THEOREM WithinLimits == Spec => []CleanDocument
<1>1. IInv => CleanDocument
  BY DEF IInv
<1> QED BY <1>1, Invariance, PTL

-----------------------------------------------------------------------------
(***************************************************************************)
(* The enforced source, the code's stack machines, implements the contract *)
(* over the document.  The proof rests on IInv.                            *)
(***************************************************************************)

(* The contract's document is the one the source reads. *)

LEMMA SameDocument ==
  /\ \A kind \in ContainerKinds :
       LexOpen(kind) => Contract!LexOpen(kind)
  /\ LexClose => Contract!LexClose
  /\ \A text \in Keys : LexKey(text) => Contract!LexKey(text)
  /\ LexScalar => Contract!LexScalar
  /\ LexError => Contract!LexError
  /\ DocumentInit => Contract!DocumentInit
<1>0. \A d : Contract!Last(d) = Last(d) /\ Contract!Front(d) = Front(d)
  BY DEF Contract!Last, Last, Contract!Front, Front
<1>1. /\ \A d : Contract!RoomForValue(d) <=> RoomForValue(d)
      /\ \A d : Contract!AtKey(d) <=> AtKey(d)
      /\ \A d : Contract!MayClose(d) <=> MayClose(d)
  BY <1>0, Zenon DEF Contract!RoomForValue, RoomForValue, Contract!AtKey, AtKey,
                     Contract!MayClose, MayClose
<1>2. /\ \A d : Contract!ValueBegun(d) = ValueBegun(d)
      /\ \A d : Contract!ValueDone(d) = ValueDone(d)
      /\ \A d, k : Contract!KeyBegun(d, k) = KeyBegun(d, k)
      /\ \A kind : Contract!NewContainer(kind) = NewContainer(kind)
  BY <1>0, Zenon
     DEF Contract!ValueBegun, ValueBegun, Contract!ValueDone, ValueDone,
         Contract!KeyBegun, KeyBegun, Contract!NewContainer, NewContainer,
         Contract!SetLast, SetLast
<1>3. \A d : Consume(d) => Contract!Consume(d)
  BY DEF Consume, Contract!Consume
<1>4. \A kind \in ContainerKinds : LexOpen(kind) => Contract!LexOpen(kind)
  BY <1>1, <1>2, <1>3, Zenon DEF LexOpen, Contract!LexOpen
<1>5. LexClose => Contract!LexClose
  BY <1>0, <1>1, <1>2, <1>3, Zenon DEF LexClose, Contract!LexClose
<1>6. \A text \in Keys : LexKey(text) => Contract!LexKey(text)
  BY <1>0, <1>1, <1>2, <1>3, Zenon DEF LexKey, Contract!LexKey
<1>7. LexScalar => Contract!LexScalar
  BY <1>1, <1>2, <1>3, Zenon DEF LexScalar, Contract!LexScalar
<1>8. LexError => Contract!LexError
  BY DEF LexError, Contract!LexError
<1>9. DocumentInit => Contract!DocumentInit
  BY DEF DocumentInit, Contract!DocumentInit
<1> QED BY <1>4, <1>5, <1>6, <1>7, <1>8, <1>9, Zenon

LEMMA SameTokens ==
  /\ \A kind : Contract!Token(kind) = Token(kind)
  /\ \A kind, text : Contract!Text(kind, text) = Text(kind, text)
  /\ \A kind : Contract!BeginOf(kind) = BeginOf(kind)
  /\ \A kind : Contract!EndOf(kind) = EndOf(kind)
  /\ Contract!NoToken = NoToken /\ Contract!NoIssue = NoIssue
  /\ Contract!ContainerKinds = ContainerKinds
  /\ \A d, n : Contract!PointerTo(d, n) = PointerTo(d, n)
BY DEF Contract!Token, Token, Contract!Text, Text, Contract!BeginOf, BeginOf,
       Contract!EndOf, EndOf, Contract!NoToken, NoToken, Contract!NoIssue, NoIssue,
       Contract!ContainerKinds, ContainerKinds, Contract!PointerTo, PointerTo,
       Contract!Segment, Segment

-----------------------------------------------------------------------------
(* Where a token stands, by the wrapper's stack and by the document. *)

LEMMA SegmentDone ==
  ASSUME NEW d \in Seq(Container)
  PROVE  \A n : n \in 0..Len(d) => PointerTo(ValueDone(d), n) = PointerTo(d, n)
<1>1. ASSUME NEW i \in 1..Len(d)
      PROVE  Segment(ValueDone(d)[i]) = Segment(d[i])
  <2>1. d # << >> /\ d[i] \in Container /\ Last(d) = d[Len(d)]
    BY ElementOfSeq, EmptySeq DEF Last
  <2>2. Replaced(ValueDone(d), d,
          IF Last(d).kind = "object"
            THEN [Last(d) EXCEPT !.atKey = TRUE] ELSE Last(d))
    BY <2>1, ValueDoneProperties
  <2>3. CASE i # Len(d)
    BY <2>2, <2>3 DEF Replaced
  <2>4. CASE i = Len(d)
    BY <2>1, <2>2, <2>4 DEF Replaced, Segment, Container
  <2> QED BY <2>3, <2>4
<1>2. ASSUME NEW n, n \in 0..Len(d)
      PROVE  \A i \in 1..n : Segment(ValueDone(d)[i]) = Segment(d[i])
  <2>1. 1..n \subseteq 1..Len(d)
    BY <1>2
  <2> QED BY <1>1, <2>1
<1> QED BY <1>2 DEF PointerTo

LEMMA PathOfKey ==
  ASSUME NEW s \in Seq(DupFrame), NEW d \in Seq(Container), Mirrors(s, d, FALSE),
         AtKey(d), NEW t \in Tokens, t.kind = "Key"
  PROVE  TokenPath(s, t) = PointerTo(KeyBegun(d, t.text), Len(d))
<1> DEFINE e == KeyBegun(d, t.text)
           p == PointerTo(d, Len(d) - 1)
           c == [Last(d) EXCEPT !.atKey = FALSE, !.key = t.text,
                                !.seen = @ \cup {t.text}]
<1>1. d # << >> /\ t.text \in Keys /\ Last(d).kind = "object"
  BY DEF AtKey, Tokens
<1>2. s # << >> /\ Last(s).path = p
  BY <1>1, MirrorsTop DEF FrameMirrors
<1>3. Last(d) \in Container /\ Len(d) \in Nat \ {0}
  BY <1>1, LastProperties
<1>4. e \in Seq(Container) /\ Replaced(e, d, c)
  BY <1>1, KeyBegunProperties
<1>5. c.kind = "object" /\ c.key = t.text
  BY <1>1, <1>3 DEF Container
<1> HIDE DEF c, e
<1>6. /\ Len(e) = Len(d) /\ e[Len(d)] = c
      /\ \A i \in 1..Len(d) : i # Len(d) => e[i] = d[i]
  BY <1>4 DEF Replaced
<1>7. e # << >> /\ Last(e) = c
  BY <1>3, <1>4, <1>6, EmptySeq DEF Last
<1>8. PointerTo(e, Len(d) - 1) = p
  <2>1. \A i \in 1..Len(d) - 1 : e[i] = d[i]
    BY <1>3, <1>6
  <2> QED BY <2>1, PointerToSame, Zenon
<1>9. PointerTo(e, Len(d)) = Append(p, Segment(c))
  BY <1>4, <1>6, <1>7, <1>8, PointerToAppend, Zenon
<1>10. Segment(c) = t.text
  BY <1>5 DEF Segment
<1>11. TokenPath(s, t) = Append(Last(s).path, t.text)
  BY <1>2 DEF TokenPath, Values, Begins, Scalars
<1> QED BY <1>2, <1>9, <1>10, <1>11 DEF e

LEMMA PathOfEnd ==
  ASSUME NEW s \in Seq(DupFrame), NEW d \in Seq(Container), Mirrors(s, d, FALSE),
         d # << >>, NEW t \in Tokens, t.kind \in Ends
  PROVE  TokenPath(s, t) = PointerTo(ValueDone(Front(d)), Len(d) - 1)
<1>1. s # << >> /\ Last(s).path = PointerTo(d, Len(d) - 1)
  BY MirrorsTop DEF FrameMirrors
<1>2. TokenPath(s, t) = Last(s).path
  BY <1>1 DEF TokenPath, Values, Begins, Scalars, Ends
<1>3. /\ Front(d) \in Seq(Container) /\ Len(Front(d)) = Len(d) - 1
      /\ \A i \in 1..Len(d) - 1 : Front(d)[i] = d[i]
      /\ Len(d) \in Nat \ {0}
  BY FrontProperties, LastProperties
<1>4. PointerTo(Front(d), Len(d) - 1) = PointerTo(d, Len(d) - 1)
  BY <1>3, PointerToSame, Zenon
<1>5. Len(d) - 1 \in 0..Len(Front(d))
  BY <1>3
<1> QED BY <1>1, <1>2, <1>3, <1>4, <1>5, SegmentDone, Zenon

LEMMA PathOfOpen ==
  ASSUME NEW d \in Seq(Container), NEW kind \in ContainerKinds
  PROVE  PointerTo(Append(ValueBegun(d), NewContainer(kind)), Len(d))
           = PointerTo(ValueBegun(d), Len(d))
<1>1. ValueBegun(d) \in Seq(Container) /\ Len(ValueBegun(d)) = Len(d)
  BY ValueBegunProperties DEF Replaced
<1>2. \A i \in 1..Len(d) :
        Append(ValueBegun(d), NewContainer(kind))[i] = ValueBegun(d)[i]
  BY <1>1, NewContainerType, AppendProperties
<1> QED BY <1>2, PointerToSame, Zenon

\* The pointer the document gives a token: that of its container's parent
\* where one begins.
PlaceOf(t, d) == PointerTo(d, IF t.kind \in Begins THEN Len(d) - 1 ELSE Len(d))

LEMMA PathIsPlace ==
  ASSUME IInv, ReadToken, ~lost
  PROVE  TokenPath(enf.stack, tok') = PlaceOf(tok', doc')
<1> DEFINE s == enf.stack
<1>1. /\ TypeOK /\ SourceTypeOK /\ StackMirrorsDocument /\ Lockstep /\ AwaitsKey
      /\ doc \in Seq(Container) /\ s \in Seq(DupFrame) /\ lost = FALSE
  BY DEF IInv, TypeOK, SourceTypeOK, DocumentTypeOK
<1>2. Mirrors(s, doc, FALSE)
  BY <1>1 DEF Lockstep
<1>3. tok' \in Tokens
  BY <1>1, TokenStepsType, Zenon
<1>4. ASSUME NEW kind \in ContainerKinds, LexOpen(kind), tok' = Token(BeginOf(kind))
      PROVE  TokenPath(s, tok') = PlaceOf(tok', doc')
  <2>1. /\ input = "open" /\ ~AtKey(doc) /\ tok'.kind = BeginOf(kind)
        /\ doc' = Append(ValueBegun(doc), NewContainer(kind))
    BY <1>4 DEF LexOpen, Consume, RoomForValue, Token
  <2>2. tok'.kind \in Begins /\ tok'.kind \in Values
    BY <2>1 DEF BeginOf, Begins, Values
  <2>3. TokenPath(s, tok') = PointerTo(ValueBegun(doc), Len(doc))
    BY <1>1, <1>3, <2>1, <2>2, PathOfValue, Zenon
  <2>4. Len(doc') - 1 = Len(doc)
    BY <1>1, <2>1, Lengths
  <2>5. PointerTo(doc', Len(doc)) = PointerTo(ValueBegun(doc), Len(doc))
    BY <1>1, <2>1, PathOfOpen, Zenon
  <2> QED BY <2>2, <2>3, <2>4, <2>5, Zenon DEF PlaceOf
<1>5. ASSUME LexClose, tok' = Token(EndOf(Last(doc).kind))
      PROVE  TokenPath(s, tok') = PlaceOf(tok', doc')
  <2>1. /\ doc # << >> /\ doc' = ValueDone(Front(doc))
        /\ tok'.kind = EndOf(Last(doc).kind)
    BY <1>5 DEF LexClose, MayClose, Consume, Token
  <2>2. tok'.kind \in Ends /\ tok'.kind \notin Begins
    BY <2>1 DEF EndOf, Begins, Ends
  <2>3. Len(doc') = Len(doc) - 1
    BY <1>1, <2>1, Lengths, Zenon
  <2>4. TokenPath(s, tok') = PointerTo(doc', Len(doc) - 1)
    BY <1>1, <1>2, <1>3, <2>1, <2>2, PathOfEnd, Zenon
  <2> QED BY <2>2, <2>3, <2>4, Zenon DEF PlaceOf
<1>6. ASSUME NEW text \in Keys, LexKey(text), tok' = Text("Key", text)
      PROVE  TokenPath(s, tok') = PlaceOf(tok', doc')
  <2>1. /\ AtKey(doc) /\ doc # << >> /\ doc' = KeyBegun(doc, text)
        /\ tok'.kind = "Key" /\ tok'.text = text
    BY <1>6 DEF LexKey, AtKey, Consume, Text
  <2>2. tok'.kind \notin Begins
    BY <2>1 DEF Begins
  <2>3. Len(doc') = Len(doc)
    BY <1>1, <2>1, Lengths, Zenon
  <2>4. TokenPath(s, tok') = PointerTo(doc', Len(doc))
    BY <1>1, <1>2, <1>3, <2>1, PathOfKey, Zenon
  <2> QED BY <2>2, <2>3, <2>4, Zenon DEF PlaceOf
<1>7. ASSUME LexScalar, tok'.kind \in Scalars
      PROVE  TokenPath(s, tok') = PlaceOf(tok', doc')
  <2>1. /\ input = "open" /\ ~AtKey(doc)
        /\ doc' = ValueDone(ValueBegun(doc))
    BY <1>7 DEF LexScalar, Consume, RoomForValue
  <2>2. tok'.kind \notin Begins /\ tok'.kind \in Values
    BY <1>7 DEF Begins, Values, Scalars
  <2>3. TokenPath(s, tok') = PointerTo(ValueBegun(doc), Len(doc))
    BY <1>1, <1>3, <2>1, <2>2, PathOfValue, Zenon
  <2>4. /\ ValueBegun(doc) \in Seq(Container) /\ Len(doc') = Len(doc)
        /\ Len(doc) \in 0..Len(ValueBegun(doc))
    <3>1. ValueBegun(doc) \in Seq(Container) /\ Len(doc') = Len(doc)
      BY <1>1, <2>1, Lengths, ValueBegunProperties, Zenon
    <3>2. Len(ValueBegun(doc)) = Len(doc)
      BY <1>1, ValueBegunProperties DEF Replaced
    <3>3. Len(doc) \in 0..Len(doc)
      BY <1>1
    <3> QED BY <3>1, <3>2, <3>3, Zenon
  <2>5. PointerTo(doc', Len(doc)) = PointerTo(ValueBegun(doc), Len(doc))
    BY <2>1, <2>4, SegmentDone, Zenon
  <2> QED BY <2>2, <2>3, <2>4, <2>5, Zenon DEF PlaceOf
<1>8. ASSUME NEW text, tok' = Text("String", text) PROVE tok'.kind \in Scalars
  BY <1>8 DEF Text, Scalars
<1>9. ASSUME NEW kind \in LiteralKinds, tok' = Token(kind)
      PROVE  tok'.kind \in Scalars
  BY <1>9, LiteralsAssumption DEF Token, Scalars
<1> QED BY <1>1, <1>4, <1>5, <1>6, <1>7, <1>8, <1>9, TokenSteps, Zenon

-----------------------------------------------------------------------------
(* The verdict on a token, by the wrapper and by the contract. *)

LEMMA SameVerdicts ==
  ASSUME IInv, ReadToken
  PROVE  /\ TooDeep(enf, tok', opt) <=> Contract!Deep(tok')
         /\ Repeated(enf.stack, tok', opt)
              <=> Contract!Repeats(tok') /\ opt.onDuplicate # "Ignore"
         /\ Rejected(enf.stack, tok', opt)
              <=> Contract!Repeats(tok') /\ Contract!Refuses
         /\ TooLong(Location(offset'), opt) <=> Contract!Long(offset')
<1> DEFINE s == enf.stack
<1>1. /\ TypeOK /\ SourceTypeOK /\ StackMirrorsDocument
      /\ doc \in Seq(Container) /\ s \in Seq(DupFrame)
      /\ Mirrors(s, doc, lost) /\ enf.depth = Len(doc)
      /\ opt.onDuplicate \in {"Ignore", "Warn", "Error"} /\ opt.maxBytes \in Nat
      /\ tok' \in Tokens
  BY TokenStepsType, LimitsAssumption
     DEF IInv, TypeOK, SourceTypeOK, DocumentTypeOK, Lockstep, ParseOpts
<1>2. offset' \in Int
  BY <1>1, SourceStep DEF SourceTypeOK, DocumentTypeOK
<1>3. TooDeep(enf, tok', opt) <=> Contract!Deep(tok')
  <2>1. tok'.kind \in Begins => NextDepth(enf.depth, tok') = Len(doc) + 1
    BY <1>1 DEF NextDepth, Begins, Ends
  <2> QED BY <2>1 DEF TooDeep, Contract!Deep, Contract!IsBegin, Begins
<1>4. TooLong(Location(offset'), opt) <=> Contract!Long(offset')
  BY <1>1, <1>2 DEF TooLong, Location, Contract!Long
<1>5. tok'.kind = "Key" => TakesKey(s, tok') /\ Last(s).keys = Last(doc).seen
  <2>1. tok'.kind = "Key" => AtKey(doc)
    <3>1. /\ \A kind \in ContainerKinds : Token(BeginOf(kind)).kind # "Key"
          /\ \A kind : Token(EndOf(kind)).kind # "Key"
          /\ \A text : Text("String", text).kind # "Key"
          /\ \A kind \in LiteralKinds : Token(kind).kind # "Key"
          /\ \A text : LexKey(text) => AtKey(doc)
      BY LiteralsAssumption DEF Token, Text, BeginOf, EndOf, LexKey
    <3> QED BY <1>1, <3>1, TokenSteps, Zenon
  <2> QED BY <1>1, <2>1, StackKey, Zenon
<1>6. Contract!Repeats(tok') <=> tok'.kind = "Key" /\ tok'.text \in Last(doc).seen
  BY DEF Contract!Repeats, Contract!Last, Last
<1>7. Repeated(s, tok', opt)
        <=> Contract!Repeats(tok') /\ opt.onDuplicate # "Ignore"
  BY <1>5, <1>6 DEF Repeated, TakesKey
<1>8. Rejected(s, tok', opt) <=> Contract!Repeats(tok') /\ Contract!Refuses
  BY <1>1, <1>7 DEF Rejected, Contract!Refuses
<1> QED BY <1>3, <1>4, <1>7, <1>8

\* What the wrapper answers, in the contract's words.
Answer(t, end, path) ==
  IF Contract!Code(t, end) = "none" THEN NoIssue
  ELSE Issue(Contract!Code(t, end), path)

LEMMA SameAnswer ==
  ASSUME IInv, ReadToken, NEW path, path = TokenPath(enf.stack, tok')
  PROVE  Verdict(enf, tok', Location(offset'), opt) = Answer(tok', offset', path)
<1>1. Contract!Deep(tok') => ~(Contract!Repeats(tok') /\ Contract!Refuses)
  BY DEF Contract!Deep, Contract!IsBegin, Contract!Repeats
<1>2. CASE Contract!Deep(tok')
  <2>1. Contract!Code(tok', offset') = "parse_error"
    BY <1>1, <1>2 DEF Contract!Code
  <2>2. Verdict(enf, tok', Location(offset'), opt) = Issue("parse_error", path)
    BY <1>1, <1>2, SameVerdicts DEF Verdict
  <2> QED BY <2>1, <2>2 DEF Answer
<1>3. CASE Contract!Repeats(tok') /\ Contract!Refuses
  <2>1. Contract!Code(tok', offset') = "duplicate_key"
    BY <1>1, <1>3 DEF Contract!Code
  <2>2. Verdict(enf, tok', Location(offset'), opt) = Issue("duplicate_key", path)
    BY <1>1, <1>3, SameVerdicts DEF Verdict
  <2> QED BY <2>1, <2>2 DEF Answer
<1>4. CASE ~Contract!Deep(tok') /\ ~(Contract!Repeats(tok') /\ Contract!Refuses)
  <2>1. Contract!Code(tok', offset')
          = IF Contract!Long(offset') THEN "truncated" ELSE "none"
    BY <1>4 DEF Contract!Code
  <2>2. Verdict(enf, tok', Location(offset'), opt)
          = IF Contract!Long(offset') THEN Issue("truncated", path) ELSE NoIssue
    BY <1>4, SameVerdicts DEF Verdict
  <2> QED BY <2>1, <2>2 DEF Answer
<1> QED BY <1>2, <1>3, <1>4

LEMMA ReportedAlike ==
  ASSUME IInv, ReadToken, NEW code
  PROVE  Contract!Reports(Issue(code, TokenPath(enf.stack, tok')), code, tok', doc')
<1>1. /\ Issue(code, TokenPath(enf.stack, tok')).code = code
      /\ Issue(code, TokenPath(enf.stack, tok')).path =
           IF TokenPath(enf.stack, tok') = << >> THEN <<EmptyKey>>
           ELSE TokenPath(enf.stack, tok')
  BY DEF Issue
<1>2. Contract!Where(tok', doc') = IF PlaceOf(tok', doc') = << >> THEN <<EmptyKey>>
                                   ELSE PlaceOf(tok', doc')
  BY SameTokens DEF Contract!Where, Contract!IsBegin, PlaceOf, Begins
<1> QED BY <1>1, <1>2, PathIsPlace, Zenon DEF Contract!Reports

LEMMA Yields ==
  ASSUME IInv, ReadToken, Enforce
  PROVE  Contract!Yield(tok')
<1> DEFINE path == TokenPath(enf.stack, tok')
           code == Contract!Code(tok', offset')
           twice == Contract!Repeats(tok') /\ opt.onDuplicate # "Ignore"
<1>1. issue' = IF code = "none" THEN NoIssue ELSE Issue(code, path)
  BY SameAnswer DEF Enforce, Answer
<1>2. sunk' = (IF twice THEN {Issue("duplicate_key", path)} ELSE {})
                \cup (IF code = "none" THEN {} ELSE {Issue(code, path)})
  <2>1. sunk' = (IF twice THEN {Issue("duplicate_key", path)} ELSE {})
                  \cup ({issue'} \ {NoIssue})
    BY SameVerdicts DEF Enforce, Sunk
  <2>2. code # "none" => Issue(code, path) # NoIssue
    BY DEF Issue, NoIssue
  <2>3. {issue'} \ {NoIssue} = IF code = "none" THEN {} ELSE {Issue(code, path)}
    BY <1>1, <2>2
  <2> QED BY <2>1, <2>3
<1>3. \A c : Issue(c, path).code = c /\ Contract!Reports(Issue(c, path), c, tok', doc')
  BY ReportedAlike DEF Issue
<1>4. lost' = (lost \/ (tok' = Contract!Text("Key", EmptyKey)
                        /\ issue'.code = "duplicate_key"))
  BY SameTokens, Zenon DEF Enforce, LosesKey
<1>5. driver' = driver /\ opt' = opt
  BY DEF Enforce
<1>6. Contract!SunkCodes(tok', offset') =
        (IF twice THEN {"duplicate_key"} ELSE {})
          \cup (IF code = "none" THEN {} ELSE {code})
  BY DEF Contract!SunkCodes
<1>7. IF code = "none" THEN issue' = Contract!NoIssue
      ELSE Contract!Reports(issue', code, tok', doc')
  BY <1>1, <1>3, SameTokens, Zenon
<1> HIDE DEF path, code, twice
<1>8. {i.code : i \in sunk'} = Contract!SunkCodes(tok', offset')
  BY <1>2, <1>3, <1>6
<1>9. \A i \in sunk' : Contract!Reports(i, i.code, tok', doc')
  BY <1>2, <1>3
<1> QED BY <1>4, <1>5, <1>7, <1>8, <1>9, Zenon DEF Contract!Yield, code

-----------------------------------------------------------------------------
(* Every call of the wrapper is a step of the contract. *)

LEMMA ContractStep ==
  ASSUME IInv, NextToken
  PROVE  Contract!ContractNext
<1>1. CASE ReadToken /\ Enforce
  <2>1. Contract!Yield(tok')
    BY <1>1, Yields
  <2>2. SourceTypeOK /\ StackMirrorsDocument
    BY DEF IInv, TypeOK
  <2>3. ASSUME NEW kind \in ContainerKinds, LexOpen(kind),
               tok' = Token(BeginOf(kind))
        PROVE  Contract!ContractNext
    BY <2>1, <2>3, SameDocument, SameTokens, Zenon DEF Contract!ContractNext
  <2>4. ASSUME LexClose, tok' = Token(EndOf(Last(doc).kind))
        PROVE  Contract!ContractNext
    <3>1. Contract!Last(doc) = Last(doc)
      BY DEF Contract!Last, Last
    <3> QED BY <2>1, <2>4, <3>1, SameDocument, SameTokens, Zenon
        DEF Contract!ContractNext
  <2>5. ASSUME NEW text \in Keys, LexKey(text), tok' = Text("Key", text)
        PROVE  Contract!ContractNext
    BY <2>1, <2>5, SameDocument, SameTokens, Zenon DEF Contract!ContractNext
  <2>6. ASSUME NEW text \in Keys, LexScalar, tok' = Text("String", text)
        PROVE  Contract!ContractNext
    BY <2>1, <2>6, SameDocument, SameTokens, Zenon DEF Contract!ContractNext
  <2>7. ASSUME NEW kind \in LiteralKinds, LexScalar, tok' = Token(kind)
        PROVE  Contract!ContractNext
    BY <2>1, <2>7, SameDocument, SameTokens, Zenon DEF Contract!ContractNext
  <2> QED BY <1>1, <2>2, <2>3, <2>4, <2>5, <2>6, <2>7, TokenSteps, Zenon
<1>2. CASE ReadError /\ PassError
  <2>1. /\ Contract!LexError /\ tok' = Contract!NoToken
        /\ issue' = Contract!NoIssue /\ sunk' = {}
        /\ driver' = driver /\ opt' = opt /\ lost' = lost
    BY <1>2, SameDocument, SameTokens, Zenon DEF ReadError, PassError
  <2> QED BY <2>1, Zenon DEF Contract!ContractNext
<1> QED BY <1>1, <1>2 DEF NextToken

LEMMA ContractStutters ==
  UNCHANGED vars => UNCHANGED Contract!contractVars
BY DEF vars, sourceVars, documentVars, wrapperVars, Contract!contractVars,
       Contract!documentVars

(***************************************************************************)
(* internal/engine/enforce.go over source/json/json.go: the stack machines *)
(* give every token the verdict and the pointer that the document itself   *)
(* calls for (README, "Enforcement").                                      *)
(***************************************************************************)
THEOREM ContractImplemented == Spec => ImplementsContract
<1>1. Init => Contract!ContractInit
  BY SameDocument, SameTokens
     DEF Init, EnforcedInit, SourceInit, Contract!ContractInit
<1>2. IInv /\ [Next]_vars => [Contract!ContractNext]_(Contract!contractVars)
  BY ContractStep, ContractStutters DEF Next
<1> QED
  BY <1>1, <1>2, Invariance, PTL DEF Spec, ImplementsContract, Contract!ContractSpec
=============================================================================
