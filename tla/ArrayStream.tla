----------------------------- MODULE ArrayStream -----------------------------
(***************************************************************************)
(* ArraySchema.ParseFromSource and ParseFromSourceWithMeta                 *)
(* (dsl/array_stream.go): the streaming array.  It pulls the enforced      *)
(* source in a loop, and hands each element to its schema behind a         *)
(* PreloadedSource (internal/stream/subtree.go), which replays the token   *)
(* the loop has read and ends with the element's own closing token.        *)
(*                                                                         *)
(* Two kinds of element schema differ in how they pull: one with a         *)
(* streaming parser of its own, here dsl.String, takes exactly one token;  *)
(* any other goes through ParseFrom's any-path, which wraps the element in *)
(* a second enforcingTokenSource and decodes the whole subtree.  With      *)
(* WithStreamContains the elements are decoded and counted, not parsed.    *)
(*                                                                         *)
(* One action is one pull of the loop or of the element's decoder, with    *)
(* all that follows before the next pull.                                  *)
(***************************************************************************)
EXTENDS EnforcedSource

CONSTANTS
  ElementSchemas,  \* among "string" and "any"
  ContainsLimits   \* the [min, max] of WithStreamContains (-1: not set)

Schemas == {"string", "any"}

ASSUME ArrayAssumption ==
  /\ ElementSchemas \subseteq Schemas
  /\ ContainsLimits \subseteq [min : Int, max : Int]

VARIABLES
  array,      \* the schema and the entry point: [elem, contains, withMeta]
  pc,         \* "begin", "loop", "element" (in its decoder) or "done"
  idx,        \* elements taken so far
  pre,        \* depth of the PreloadedSource of the element in progress
  sub,        \* the second wrapper, around that element
  matched,    \* elements the contains predicate accepted
  values,     \* length of out
  presence,   \* indexes marked Seen and WasNull
  iss,        \* the element issues, then what the call returns
  collected,  \* what the outer wrapper handed to IssueSink
  result      \* "none" while running, then "accepted" or "rejected"

loopVars  == <<array, pc, idx, pre, sub, matched, values, presence, iss,
               collected, result>>
arrayVars == <<vars, loopVars>>

Arrays == [elem : ElementSchemas, contains : ContainsLimits, withMeta : BOOLEAN]

\* The entry point with presence never looks at contains.
DoContains ==
  ~array.withMeta /\ (array.contains.min >= 0 \/ array.contains.max >= 0)

NoPresence == [seen |-> {}, wasNull |-> {}]

ArrayInit ==
  /\ EnforcedInit
  /\ array \in Arrays
  /\ pc = "begin" /\ idx = 0 /\ pre = 0 /\ sub = NewEnforcer
  /\ matched = 0 /\ values = 0 /\ presence = NoPresence
  /\ iss = {} /\ collected = {} /\ result = "none"

-----------------------------------------------------------------------------
(* One pull on the enforced source. *)

Pull ==
  /\ NextToken
  /\ collected' = collected \cup sunk'
  /\ UNCHANGED array

Pulled == tok' # NoToken /\ issue' = NoIssue

\* What toIssues makes of the error: an IssueError keeps its place.
PullIssue == IF tok' = NoToken THEN Issue("parse_error", << >>) ELSE issue'

-----------------------------------------------------------------------------
(* Ways out of the call. *)

Return(how, issues) ==
  pc' = "done" /\ result' = how /\ iss' = issues

Reject(code) == Return("rejected", {Issue(code, << >>)})

\* Mutant: what the sink collected is not looked at.
FinishUnchecked ==
  \/ DoContains /\ Return("accepted", {})
  \/ ~DoContains /\ iss # {} /\ Return("rejected", iss)
  \/ ~DoContains /\ iss = {} /\ Return("accepted", {})

\* a.ValidateValue: the array's own limits and those of its elements.
Finish ==
  \/ /\ DoContains
     /\ IF array.contains.min >= 0 /\ matched < array.contains.min
          THEN Reject("too_short") ELSE Return("accepted", {})
  \/ /\ ~DoContains /\ iss # {}
     /\ Return("rejected", iss)
  \/ /\ ~DoContains /\ iss = {}
     /\ \/ Reject("too_short")
        \/ IF collected' # {} /\ ~opt.failFast
             THEN Return("rejected", collected') ELSE Return("accepted", {})

-----------------------------------------------------------------------------
(* The end of an element. *)

\* A failure at the element's root surfaces as parse_error at its index.
Rebased(i, n) ==
  IF i.path \in {<< >>, <<EmptyKey>>} THEN Issue("parse_error", <<n>>)
  ELSE Issue(i.code, <<n>> \o i.path)

\* Mutant: idx stays behind.
NextElementSameIndex ==
  /\ pc' = "loop" /\ UNCHANGED idx
  /\ pre' = 0 /\ sub' = NewEnforcer
  /\ UNCHANGED result

NextElement ==
  /\ pc' = "loop" /\ idx' = idx + 1
  /\ pre' = 0 /\ sub' = NewEnforcer
  /\ UNCHANGED result

ElementFailed(i) ==
  /\ iss' = iss \cup {Rebased(i, idx)}
  /\ NextElement
  /\ UNCHANGED <<matched, values>>

ElementParsed ==
  /\ values' = values + 1
  /\ NextElement
  /\ UNCHANGED <<matched, iss>>

\* An error of the element's schema that is no Issues ends a fail-fast call.
ElementStopped ==
  /\ opt.failFast
  /\ Return("rejected", {Issue("parse_error", <<idx>>)})
  /\ UNCHANGED <<idx, pre, sub, matched, values>>

\* Decoding errors are dropped: the predicate judges nil instead.
ElementCounted ==
  \/ NextElement /\ UNCHANGED <<matched, values, iss>>
  \/ /\ matched' = matched + 1
     /\ UNCHANGED values
     /\ IF array.contains.max >= 0 /\ matched' > array.contains.max
          THEN Reject("too_long") /\ UNCHANGED <<idx, pre, sub>>
          ELSE NextElement /\ UNCHANGED iss

\* The decoder returned, with an error or with a value the schema judges.
ElementDecoded(err) ==
  IF DoContains THEN ElementCounted
  ELSE \/ ElementFailed(IF err # NoIssue THEN err ELSE Issue("invalid_type", << >>))
       \/ err = NoIssue /\ (ElementParsed \/ ElementStopped)

-----------------------------------------------------------------------------
(* PreloadedSource counts the containers of its element. *)

\* Mutant: arrays do not count.
PreDepthObjects(depth, t) ==
  CASE t.kind = "BeginObject" -> depth + 1
    [] t.kind = "EndObject" /\ depth > 0 -> depth - 1
    [] OTHER -> depth

PreDepth(depth, t) ==
  CASE t.kind \in Begins -> depth + 1
    [] t.kind \in Ends /\ depth > 0 -> depth - 1
    [] OTHER -> depth

\* The decoder takes token t through the element's wrapper e.
Decode(depth, e, t) ==
  LET verdict == IF DoContains THEN NoIssue ELSE Verdict(e, t, Location(offset'), opt) IN
  IF verdict # NoIssue THEN ElementDecoded(verdict)
  ELSE IF PreDepth(depth, t) = 0 THEN ElementDecoded(NoIssue)
  ELSE /\ pc' = "element" /\ pre' = PreDepth(depth, t)
       /\ sub' = IF DoContains THEN sub ELSE Enforced(e, t, opt)
       /\ UNCHANGED <<idx, matched, values, iss, result>>

\* The loop's token opens an element.
TakeElement(t) ==
  IF array.elem = "string" /\ ~DoContains
    THEN IF t.kind = "String" THEN ElementParsed
         ELSE ElementFailed(Issue("invalid_type", << >>))
    ELSE IF t.kind \in Values THEN Decode(0, NewEnforcer, t)
         ELSE ElementDecoded(Issue("parse_error", << >>))

\* pm["/" + idx] |= PresenceSeen, and PresenceWasNull for a null
Mark(t) ==
  presence' = IF ~array.withMeta THEN presence ELSE
    [seen |-> presence.seen \cup {idx},
     wasNull |-> presence.wasNull \cup (IF t.kind = "Null" THEN {idx} ELSE {})]

-----------------------------------------------------------------------------
(* The steps of the call. *)

Begin ==
  /\ pc = "begin"
  /\ Pull
  /\ IF ~Pulled THEN Reject("parse_error")
     ELSE IF tok'.kind # "BeginArray" THEN Reject("invalid_type")
     ELSE pc' = "loop" /\ UNCHANGED <<iss, result>>
  /\ UNCHANGED <<idx, pre, sub, matched, values, presence>>

\* Mutant: the loop goes on after an error.
LoopErrorContinues ==
  /\ pc = "loop"
  /\ Pull /\ ~Pulled
  /\ UNCHANGED <<pc, idx, pre, sub, matched, values, presence, iss, result>>

LoopError ==
  /\ pc = "loop"
  /\ Pull /\ ~Pulled
  /\ Reject("parse_error")
  /\ UNCHANGED <<idx, pre, sub, matched, values, presence>>

LoopEnd ==
  /\ pc = "loop"
  /\ Pull /\ Pulled /\ tok'.kind = "EndArray"
  /\ Finish
  /\ UNCHANGED <<idx, pre, sub, matched, values, presence>>

LoopElement ==
  /\ pc = "loop"
  /\ Pull /\ Pulled /\ tok'.kind # "EndArray"
  /\ TakeElement(tok')
  /\ Mark(tok')

ElementError ==
  /\ pc = "element"
  /\ Pull /\ ~Pulled
  /\ ElementDecoded(PullIssue)
  /\ UNCHANGED presence

ElementToken ==
  /\ pc = "element"
  /\ Pull /\ Pulled
  /\ Decode(pre, sub, tok')
  /\ UNCHANGED presence

ArrayNext ==
  \/ Begin
  \/ LoopError
  \/ LoopEnd
  \/ LoopElement
  \/ ElementError
  \/ ElementToken

\* A call that has started runs on: nothing in it waits for another thread.
ArraySpec ==
  ArrayInit /\ [][ArrayNext]_arrayVars /\ WF_arrayVars(ArrayNext)

-----------------------------------------------------------------------------
ArrayIssues == [code : Codes \cup {"invalid_type", "too_short", "too_long"},
                path : Paths]

ArrayTypeOK ==
  /\ TypeOK
  /\ array \in Arrays
  /\ pc \in {"begin", "loop", "element", "done"}
  /\ {idx, pre, matched, values} \subseteq Nat
  /\ sub \in [stack : Seq(DupFrame), depth : Nat]
  /\ presence \in [seen : SUBSET Nat, wasNull : SUBSET Nat]
  /\ iss \subseteq ArrayIssues /\ collected \subseteq Issues
  /\ result \in {"none", "accepted", "rejected"}

(***************************************************************************)
(* As long as nothing has failed, the loop stands between two elements of  *)
(* the array it was given, and idx is the number of elements the document  *)
(* has begun there: no element is split, skipped or counted twice, however *)
(* deep it nests.  With presence, the same indexes are marked as seen.     *)
(***************************************************************************)
InStep ==
  /\ ArrayTypeOK
  /\ pc = "loop" /\ clean /\ iss = {} =>
    /\ Len(doc) = 1 /\ doc[1].count = idx
    /\ ~DoContains => values = idx
    /\ array.withMeta => presence.seen = 0 .. idx - 1

(***************************************************************************)
(* The element's decoder sees whole subtrees, even when an abandoned       *)
(* element has left the loop inside a container: its wrapper and its       *)
(* PreloadedSource agree with the innermost containers of the document.    *)
(***************************************************************************)
SubtreeMirrors ==
  pc = "element" =>
    /\ pre \in 1 .. Len(doc) - 1
    /\ clean /\ iss = {} => pre = Len(doc) - 1
    /\ ~DoContains =>
         /\ Len(sub.stack) = pre /\ sub.depth = pre
         /\ \A i \in 1..pre :
              LET c == doc[Len(doc) - pre + i] IN
              sub.stack[i].kind = c.kind /\ sub.stack[i].keys = c.seen

(***************************************************************************)
(* An array accepted element by element was read to its end without any    *)
(* error, and respects the options: no repeated key under Warn or Error    *)
(* (the array, unlike the any-path, has a sink and turns a warning into an *)
(* issue), no more bytes than MaxBytes.                                    *)
(***************************************************************************)
AcceptedIsSound ==
  result = "accepted" /\ ~DoContains =>
    /\ clean /\ input = "closed" /\ values = idx
    /\ opt.onDuplicate # "Ignore" => ~repeated
    /\ opt.maxBytes > 0 => Location(offset) <= opt.maxBytes

(***************************************************************************)
(* However far the loop strays after a failed element, it invents no       *)
(* duplicate and no overrun: each has happened in the document.            *)
(***************************************************************************)
ReportsAreReal ==
  \A i \in iss :
    /\ i.code = "duplicate_key" => repeated
    /\ i.code = "truncated" => opt.maxBytes > 0 /\ offset > opt.maxBytes

\* An array is neither accepted nor refused without cause.
SoundVerdict == AcceptedIsSound /\ ReportsAreReal

(***************************************************************************)
(* The first element to fail is reported at its own index.  (Later ones    *)
(* need not be: see the README on abandoned elements.)                     *)
(***************************************************************************)
FirstFailureLocated ==
  [][pc # "begin" /\ iss = {} /\ iss' # {} /\ result' = "none" =>
       \A i \in iss' : Head(i.path) = doc'[1].count - 1]_arrayVars

\* The call returns, on malformed input and after any refusal too.
Returns == <>(pc = "done")
=============================================================================
