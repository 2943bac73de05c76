----------------------------- MODULE Enforcement -----------------------------
(***************************************************************************)
(* enforcingTokenSource (internal/engine/enforce.go): the wrapper that     *)
(* checks duplicate keys, nesting depth and consumed bytes token by token, *)
(* and names the JSON Pointer of each token.  These are its operators on   *)
(* its own state e = [stack, depth], for the modules that put a wrapper    *)
(* between a source and a consumer (a consumer may stack two of them).     *)
(***************************************************************************)
EXTENDS JsonDocument

Begins  == {"BeginObject", "BeginArray"}
Ends    == {"EndObject", "EndArray"}
Scalars == {"String", "Number", "Bool", "Null"}
Values  == Begins \cup Scalars

DupFrame == [kind : ContainerKinds, keys : SUBSET Keys, expectingKey : BOOLEAN,
             path : Paths, nextIndex : Nat, pendingKey : Keys]

NewEnforcer == [stack |-> << >>, depth |-> 0]

-----------------------------------------------------------------------------
(* Issues: a code and the pointer that normalizeIssuePath leaves, in which *)
(* the root and the empty key of the root object are both "/".             *)
Issue(code, path) ==
  [code |-> code, path |-> IF path = << >> THEN <<EmptyKey>> ELSE path]
NoIssue == [code |-> "none", path |-> << >>]

Codes  == {"parse_error", "duplicate_key", "truncated"}
Issues == [code : Codes \cup {"none"}, path : Paths]

-----------------------------------------------------------------------------
(* currentPathForToken: the pointer of t, and what finding it changes. *)

\* Mutant: the pending key "" is taken for no key at all.
TokenPathSkipsEmpty(s, t) ==
  IF s = << >> THEN IF t.kind = "Key" THEN <<t.text>> ELSE << >>
  ELSE LET top == Last(s) IN
    CASE t.kind = "Key" -> Append(top.path, t.text)
      [] t.kind \in Values /\ top.kind = "array" ->
           Append(top.path, top.nextIndex)
      [] t.kind \in Values /\ top.kind = "object" /\ top.pendingKey # EmptyKey ->
           Append(top.path, top.pendingKey)
      [] OTHER -> top.path

TokenPath(s, t) ==
  IF s = << >> THEN IF t.kind = "Key" THEN <<t.text>> ELSE << >>
  ELSE LET top == Last(s) IN
    CASE t.kind = "Key" -> Append(top.path, t.text)
      [] t.kind \in Values /\ top.kind = "array" ->
           Append(top.path, top.nextIndex)
      [] t.kind \in Values /\ top.kind = "object"
           /\ (top.pendingKey # EmptyKey \/ ~top.expectingKey) ->
           Append(top.path, top.pendingKey)
      [] OTHER -> top.path

\* Mutant: only scalars advance the index.
LocatedScalars(s, t) ==
  CASE s # << >> /\ t.kind = "Key" ->
         SetLast(s, [Last(s) EXCEPT !.pendingKey = t.text])
    [] s # << >> /\ t.kind \in Scalars /\ Last(s).kind = "array" ->
         SetLast(s, [Last(s) EXCEPT !.nextIndex = @ + 1])
    [] OTHER -> s

Located(s, t) ==
  CASE s # << >> /\ t.kind = "Key" ->
         SetLast(s, [Last(s) EXCEPT !.pendingKey = t.text])
    [] s # << >> /\ t.kind \in Values /\ Last(s).kind = "array" ->
         SetLast(s, [Last(s) EXCEPT !.nextIndex = @ + 1])
    [] OTHER -> s

-----------------------------------------------------------------------------
(* The switch of NextToken. *)

NewFrame(kind, path) ==
  [kind |-> kind, keys |-> {}, expectingKey |-> kind = "object", path |-> path,
   nextIndex |-> 0, pendingKey |-> EmptyKey]

\* A value ended: an object that waited for it waits for a key again.
ValueEnded(s) ==
  IF s # << >> /\ Last(s).kind = "object" /\ ~Last(s).expectingKey
    THEN SetLast(s, [Last(s) EXCEPT !.expectingKey = TRUE,
                                    !.pendingKey = EmptyKey])
    ELSE s

TakesKey(s, t) ==
  t.kind = "Key" /\ s # << >> /\ Last(s).kind = "object" /\ Last(s).expectingKey

Repeated(s, t, opt) ==
  TakesKey(s, t) /\ opt.onDuplicate # "Ignore" /\ t.text \in Last(s).keys

\* Mutant: FailFast does not turn a warning into an error.
RejectedOnError(s, t, opt) == Repeated(s, t, opt) /\ opt.onDuplicate = "Error"

Rejected(s, t, opt) ==
  Repeated(s, t, opt) /\ (opt.onDuplicate = "Error" \/ opt.failFast)

KeyTaken(s, t) ==
  SetLast(s, [Last(s) EXCEPT !.keys = @ \cup {t.text}, !.expectingKey = FALSE,
                             !.pendingKey = t.text])

\* Mutant: "]" leaves its frame behind.
NextStackKeepsArrays(s, t, opt) ==
  LET at == Located(s, t) IN
  CASE t.kind \in Begins ->
         Append(at, NewFrame(IF t.kind = "BeginObject" THEN "object" ELSE "array",
                             TokenPath(s, t)))
    [] t.kind = "EndObject" -> ValueEnded(IF at # << >> THEN Front(at) ELSE at)
    [] t.kind = "Key"  -> IF TakesKey(s, t) /\ ~Rejected(s, t, opt)
                            THEN KeyTaken(at, t) ELSE at
    [] OTHER -> ValueEnded(at)

NextStack(s, t, opt) ==
  LET at == Located(s, t) IN
  CASE t.kind \in Begins ->
         Append(at, NewFrame(IF t.kind = "BeginObject" THEN "object" ELSE "array",
                             TokenPath(s, t)))
    [] t.kind \in Ends -> ValueEnded(IF at # << >> THEN Front(at) ELSE at)
    [] t.kind = "Key"  -> IF TakesKey(s, t) /\ ~Rejected(s, t, opt)
                            THEN KeyTaken(at, t) ELSE at
    [] OTHER -> ValueEnded(at)

NextDepth(depth, t) ==
  CASE t.kind \in Begins -> depth + 1
    [] t.kind \in Ends /\ depth > 0 -> depth - 1
    [] OTHER -> depth

Enforced(e, t, opt) ==
  [stack |-> NextStack(e.stack, t, opt), depth |-> NextDepth(e.depth, t)]

-----------------------------------------------------------------------------
(* What NextToken returns, and what it hands to IssueSink on the way. *)

TooDeep(e, t, opt) ==
  t.kind \in Begins /\ opt.maxDepth > 0 /\ NextDepth(e.depth, t) > opt.maxDepth

TooLong(loc, opt) == opt.maxBytes > 0 /\ loc >= 0 /\ loc > opt.maxBytes

\* The IssueError returned in place of the token, or NoIssue.
Verdict(e, t, loc, opt) ==
  LET path == TokenPath(e.stack, t) IN
  CASE TooDeep(e, t, opt)        -> Issue("parse_error", path)
    [] Rejected(e.stack, t, opt) -> Issue("duplicate_key", path)
    [] OTHER -> IF TooLong(loc, opt) THEN Issue("truncated", path) ELSE NoIssue

\* A repeated key reaches the sink even if the token is let through.
Sunk(e, t, loc, opt) ==
  (IF Repeated(e.stack, t, opt)
     THEN {Issue("duplicate_key", TokenPath(e.stack, t))} ELSE {})
    \cup ({Verdict(e, t, loc, opt)} \ {NoIssue})
=============================================================================
