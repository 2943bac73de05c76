--------------------------- MODULE EnforcedSource ---------------------------
(***************************************************************************)
(* The token pipeline below every consumer: decoder, jsonSource and, over  *)
(* it, the enforcingTokenSource that ParseFrom's any-path                  *)
(* (decodeAnyFromSource) and the streaming array put there.  One action is *)
(* one NextToken of the wrapper, from the pull on the inner source to the  *)
(* token or the IssueError it returns.                                     *)
(*                                                                         *)
(* The driver over goccy/go-json (source/gojson) has the stack machine of  *)
(* jsonSource, but never knows its offset.                                 *)
(*                                                                         *)
(* A consumer may go on pulling after an IssueError: the streaming array   *)
(* does, when an element's parser was the one that met it.                 *)
(***************************************************************************)
EXTENDS JsonSource, Enforcement

CONSTANTS
  Drivers,      \* the JSON drivers, "encoding/json" or "go-json"
  DepthLimits,  \* the values of ParseOpt.MaxDepth (0: no limit)
  ByteLimits    \* the values of ParseOpt.MaxBytes (0: no limit)

ASSUME DriversAssumption == Drivers \subseteq {"encoding/json", "go-json"}
ASSUME LimitsAssumption == DepthLimits \subseteq Nat /\ ByteLimits \subseteq Nat

ParseOpts == [onDuplicate : {"Ignore", "Warn", "Error"}, maxDepth : DepthLimits,
              maxBytes : ByteLimits, failFast : BOOLEAN]

VARIABLES
  driver,  \* the driver the Source was made by
  opt,     \* the ParseOpt of the call
  enf,     \* the wrapper's stack and depth
  issue,   \* the IssueError its latest NextToken returned, if any
  sunk,    \* what it handed to IssueSink
  clean,   \* history: no NextToken so far has returned an error
  lost     \* history: a key "" has been refused

wrapperVars == <<driver, opt, enf, issue, sunk, clean, lost>>
vars == <<sourceVars, wrapperVars>>

EnforcedInit ==
  /\ SourceInit
  /\ driver \in Drivers /\ opt \in ParseOpts
  /\ enf = NewEnforcer /\ issue = NoIssue /\ sunk = {}
  /\ clean = TRUE /\ lost = FALSE

\* What the driver's Location tells of the bytes consumed
Location(consumed) == IF driver = "go-json" THEN -1 ELSE consumed

LosesKey == tok' = Text("Key", EmptyKey) /\ issue'.code = "duplicate_key"

Enforce ==
  /\ enf'   = Enforced(enf, tok', opt)
  /\ issue' = Verdict(enf, tok', Location(offset'), opt)
  /\ sunk'  = Sunk(enf, tok', Location(offset'), opt)
  /\ clean' = (clean /\ issue' = NoIssue)
  /\ lost'  = (lost \/ LosesKey)
  /\ UNCHANGED <<driver, opt>>

\* tok, err := e.inner.NextToken(); if err != nil { return Token{}, err }
PassError ==
  /\ issue' = NoIssue /\ sunk' = {} /\ clean' = FALSE
  /\ UNCHANGED <<driver, opt, enf, lost>>

NextToken ==
  \/ ReadToken /\ Enforce
  \/ ReadError /\ PassError

Init == EnforcedInit
Next == NextToken
Spec == Init /\ [][Next]_vars

-----------------------------------------------------------------------------
TypeOK ==
  /\ SourceTypeOK
  /\ driver \in Drivers /\ opt \in ParseOpts
  /\ enf \in [stack : Seq(DupFrame), depth : Nat]
  /\ issue \in Issues
  /\ sunk \subseteq Issues
  /\ clean \in BOOLEAN /\ lost \in BOOLEAN

FrameMirrors(f, c, path, astray) ==
  /\ f.kind = c.kind /\ f.keys = c.seen /\ f.nextIndex = c.count
  /\ c.atKey => f.expectingKey
  /\ c.kind = "object" /\ ~c.atKey => f.pendingKey = c.key
  /\ ~astray => f.path = path

Mirrors(s, d, astray) ==
  /\ Len(s) = Len(d)
  /\ \A i \in 1..Len(d) : FrameMirrors(s[i], d[i], PointerTo(d, i - 1), astray)

(***************************************************************************)
(* The wrapper stays in step with the document, whatever has been refused  *)
(* on the way: one frame per open container, with the container's keys,    *)
(* its element count and (unless a key "" was refused) its pointer.  A     *)
(* frame left behind after an error, or a depth that drifts from the       *)
(* stack, would misplace every later issue.                                *)
(***************************************************************************)
Lockstep == Mirrors(enf.stack, doc, lost) /\ enf.depth = Len(doc)

\* The key just read was refused: the wrapper still waits for one.
KeyRefused == tok.kind = "Key" /\ issue.code = "duplicate_key"

(***************************************************************************)
(* Between a key and its value the wrapper waits for a value, unless it    *)
(* has just refused the key: then it takes the next key for the first.     *)
(* Only the text of the refused key tells it that a value comes first, and *)
(* a key "" has none.                                                      *)
(***************************************************************************)
AwaitsKey ==
  /\ LET n == Len(doc) IN
     input = "open" /\ n > 0 /\ doc[n].kind = "object" /\ ~doc[n].atKey =>
       /\ tok.kind = "Key" /\ tok.text = doc[n].key
       /\ enf.stack[n].expectingKey <=> KeyRefused
  /\ KeyRefused /\ tok.text = EmptyKey => lost

(***************************************************************************)
(* What a consumer that stops at the first error has been handed: no       *)
(* object with a key twice, if repeated keys are refused, and never more   *)
(* depth or more bytes, as far as the driver counts them, than the limits  *)
(* allow.  All three outlive the container they happened in.               *)
(***************************************************************************)
CleanDocument ==
  clean => /\ opt.onDuplicate = "Error" => ~repeated
           /\ opt.onDuplicate = "Warn" /\ opt.failFast => ~repeated
           /\ opt.maxDepth > 0 => Len(doc) <= opt.maxDepth
           /\ opt.maxBytes > 0 => Location(offset) <= opt.maxBytes

\* The contract's variables are the ones seen from outside: enf, the stack
\* machine's own, is not among them.
Contract == INSTANCE EnforcementContract
  WITH driver <- driver, tok <- tok, opt <- opt, issue <- issue,
       sunk <- sunk, lost <- lost

(***************************************************************************)
(* The stack machine implements the contract: every verdict and every      *)
(* pointer is the one the document itself calls for.                       *)
(***************************************************************************)
ImplementsContract == Contract!ContractSpec
=============================================================================
