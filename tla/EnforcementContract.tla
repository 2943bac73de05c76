------------------------- MODULE EnforcementContract -------------------------
(***************************************************************************)
(* What a consumer is promised of a source under enforcement (README,      *)
(* "Enforcement (duplicate keys, depth, size limits)"), stated over the    *)
(* document alone: the verdict on a token depends on what the document     *)
(* repeats, how deep it is nested and how long it is, and the pointer in   *)
(* an issue is where the document stands.  There is no wrapper state here. *)
(*                                                                         *)
(* EnforcedSource, the code's stack machines, is shown to implement this.  *)
(***************************************************************************)
EXTENDS JsonDocument

VARIABLES
  driver,  \* the JSON driver
  tok,     \* the token the inner source returned
  opt,     \* the ParseOpt of the call
  issue,   \* the IssueError returned in its place, if any
  sunk,    \* what was handed to the issue sink
  lost     \* history: a key "" has been refused

contractVars == <<documentVars, driver, tok, opt, issue, sunk, lost>>

NoIssue == [code |-> "none", path |-> << >>]

IsBegin(t) == t.kind \in {"BeginObject", "BeginArray"}

Repeats(t) == t.kind = "Key" /\ t.text \in Last(doc).seen
Deep(t)    == IsBegin(t) /\ opt.maxDepth > 0 /\ Len(doc) + 1 > opt.maxDepth
Long(end)  == opt.maxBytes > 0 /\ driver # "go-json" /\ end > opt.maxBytes
Refuses    == \/ opt.onDuplicate = "Error"
              \/ opt.onDuplicate = "Warn" /\ opt.failFast

(***************************************************************************)
(* Where a token stands: at the value it belongs to.  d is the document    *)
(* with the token; a container begins where its parent stands.  The root   *)
(* is reported as "/", which is also the pointer to its key "".            *)
(***************************************************************************)
Where(t, d) ==
  LET path == PointerTo(d, IF IsBegin(t) THEN Len(d) - 1 ELSE Len(d))
  IN  IF path = << >> THEN <<EmptyKey>> ELSE path

(***************************************************************************)
(* A report has its code and its place.  The place is promised only until  *)
(* a key "" has been refused: nothing then tells it from no key at all,    *)
(* and what follows it in its object is reported one segment short.        *)
(***************************************************************************)
Reports(i, code, t, d) == i.code = code /\ (lost \/ i.path = Where(t, d))

Code(t, end) ==
  CASE Deep(t)               -> "parse_error"
    [] Repeats(t) /\ Refuses -> "duplicate_key"
    [] OTHER -> IF Long(end) THEN "truncated" ELSE "none"

SunkCodes(t, end) ==
  (IF Repeats(t) /\ opt.onDuplicate # "Ignore" THEN {"duplicate_key"} ELSE {})
    \cup ({Code(t, end)} \ {"none"})

Yield(t) ==
  /\ tok' = t
  /\ IF Code(t, offset') = "none"
       THEN issue' = NoIssue
       ELSE Reports(issue', Code(t, offset'), t, doc')
  /\ {i.code : i \in sunk'} = SunkCodes(t, offset')
  /\ \A i \in sunk' : Reports(i, i.code, t, doc')
  /\ lost' = (lost \/ (t = Text("Key", EmptyKey) /\ issue'.code = "duplicate_key"))
  /\ UNCHANGED <<driver, opt>>

ContractInit ==
  DocumentInit /\ tok = NoToken /\ issue = NoIssue /\ sunk = {} /\ lost = FALSE

ContractNext ==
  \/ \E kind \in ContainerKinds : LexOpen(kind) /\ Yield(Token(BeginOf(kind)))
  \/ LexClose /\ Yield(Token(EndOf(Last(doc).kind)))
  \/ \E text \in Keys : LexKey(text) /\ Yield(Text("Key", text))
  \/ \E text \in Keys : LexScalar /\ Yield(Text("String", text))
  \/ \E kind \in LiteralKinds : LexScalar /\ Yield(Token(kind))
  \/ /\ LexError
     /\ tok' = NoToken /\ issue' = NoIssue /\ sunk' = {}
     /\ UNCHANGED <<driver, opt, lost>>

ContractSpec == ContractInit /\ [][ContractNext]_contractVars
=============================================================================
