----------------------------- MODULE DupDetect -----------------------------
(***************************************************************************)
(* detectJSONDuplicateKeys (internal/engine/json_dup_detect.go): a pass    *)
(* over raw JSON that only lists repeated keys.  It has a decoder and a    *)
(* stack of its own, and is the third stack machine of the repository to   *)
(* tell keys from string values.                                           *)
(***************************************************************************)
EXTENDS JsonDocument, FiniteSets

CONSTANT IssueLimits   \* the values of maxIssues

ASSUME IssueLimitsAssumption == IssueLimits \subseteq Int

VARIABLES
  onDup,      \* DuplicateStrictness
  maxIssues,  \* the limit argument
  stage,      \* "begin", "scan" or "done"
  stack,      \* the detector's frames
  issues,     \* the codes of the issues so far
  dups        \* history: keys the document has repeated

detectVars == <<documentVars, onDup, maxIssues, stage, stack, issues, dups>>

DetectFrame == [kind : ContainerKinds, keys : SUBSET Keys, expectingKey : BOOLEAN]

DetectInit ==
  /\ DocumentInit
  /\ onDup \in {"Ignore", "Warn", "Error"} /\ maxIssues \in IssueLimits
  /\ stage = "begin" /\ stack = << >> /\ issues = << >> /\ dups = 0

-----------------------------------------------------------------------------
\* appendIssue: the marker follows every issue from the limit on.
Appended(code) ==
  IF maxIssues = 0 THEN issues
  ELSE LET more == Append(issues, code) IN
       IF maxIssues > 0 /\ Len(more) >= maxIssues
         THEN Append(more, "truncated") ELSE more

Opened(s, kind) ==
  Append(s, [kind |-> kind, keys |-> {}, expectingKey |-> kind = "object"])

\* A value ended: an object that waited for it waits for a key again.
PastValue(s) ==
  IF s # << >> /\ Last(s).kind = "object" /\ ~Last(s).expectingKey
    THEN SetLast(s, [Last(s) EXCEPT !.expectingKey = TRUE])
    ELSE s

\* Mutant: a nested "}" or "]" does not end the value it belongs to.
ClosedOnly(s) == IF s # << >> THEN Front(s) ELSE s

Closed(s) == IF s # << >> THEN PastValue(Front(s)) ELSE s

WantsKey(s) == s # << >> /\ Last(s).kind = "object" /\ Last(s).expectingKey

Noted(s, text) ==
  SetLast(s, [Last(s) EXCEPT !.keys = @ \cup {text}, !.expectingKey = FALSE])

Settings == <<onDup, maxIssues>>

Start ==
  /\ stage = "begin"
  /\ stage' = IF onDup = "Ignore" THEN "done" ELSE "scan"
  /\ UNCHANGED <<documentVars, Settings, stack, issues, dups>>

ScanDelim ==
  /\ stage = "scan"
  /\ \/ \E kind \in ContainerKinds : LexOpen(kind) /\ stack' = Opened(stack, kind)
     \/ LexClose /\ stack' = Closed(stack)
  /\ UNCHANGED <<Settings, stage, issues, dups>>

ScanString(text) ==
  /\ stage = "scan"
  /\ \/ LexKey(text) /\ dups' = dups + (IF text \in Last(doc).seen THEN 1 ELSE 0)
     \/ LexScalar /\ UNCHANGED dups
  /\ IF ~WantsKey(stack)
       THEN stack' = PastValue(stack) /\ UNCHANGED <<stage, issues>>
     ELSE IF text \notin Last(stack).keys
       THEN stack' = Noted(stack, text) /\ UNCHANGED <<stage, issues>>
     ELSE /\ issues' = Appended("duplicate_key")
          /\ IF onDup = "Error"
               THEN stage' = "done" /\ UNCHANGED stack
               ELSE stack' = Noted(stack, text) /\ UNCHANGED stage
  /\ UNCHANGED Settings

ScanLiteral ==
  /\ stage = "scan"
  /\ LexScalar
  /\ stack' = PastValue(stack)
  /\ UNCHANGED <<Settings, stage, issues, dups>>

\* The decoder goes on to another value after the first, if there is one.
TrailingValue ==
  /\ stage = "scan" /\ input = "closed" /\ offset < MaxOffset
  /\ input' = "open"
  /\ UNCHANGED <<doc, offset, repeated, Settings, stage, stack, issues, dups>>

\* Mutant: after a complete value, io.EOF does not end the loop.
ScanEndMissed ==
  /\ stage = "scan" /\ input # "closed"
  /\ LexError
  /\ stage' = "done"
  /\ \/ UNCHANGED issues
     \/ issues' = Appended("parse_error")
  /\ UNCHANGED <<Settings, stack, dups>>

\* io.EOF ends the scan silently, inside a container too.
ScanEnd ==
  /\ stage = "scan"
  /\ LexError
  /\ stage' = "done"
  /\ \/ UNCHANGED issues
     \/ issues' = Appended("parse_error")
  /\ UNCHANGED <<Settings, stack, dups>>

DetectNext ==
  \/ Start
  \/ ScanDelim
  \/ \E text \in Keys : ScanString(text)
  \/ ScanLiteral
  \/ TrailingValue
  \/ ScanEnd

\* A call that has started runs on: nothing in it waits for another thread.
DetectSpec == DetectInit /\ [][DetectNext]_detectVars /\ WF_detectVars(DetectNext)

-----------------------------------------------------------------------------
Reported(code) == Cardinality({i \in DOMAIN issues : issues[i] = code})

(***************************************************************************)
(* The detector's stack is the document's, after any nesting and across    *)
(* the values of a stream: a key is never taken for a string value, and    *)
(* no object inherits the keys of another.                                 *)
(***************************************************************************)
DetectorMirrorsDocument ==
  stage = "scan" =>
    stack = [i \in 1..Len(doc) |-> [kind |-> doc[i].kind, keys |-> doc[i].seen,
                                    expectingKey |-> doc[i].atKey]]

(***************************************************************************)
(* Every repeated key is reported, once, and nothing else is.  With a      *)
(* limit (maxIssues > 0) that is promised of as many as the limit admits;  *)
(* 0 disables the list.  Under Error the first repetition ends the scan.   *)
(***************************************************************************)
EveryDuplicateReported ==
  IF onDup = "Ignore" \/ maxIssues = 0 THEN issues = << >>
  ELSE /\ Reported("duplicate_key") <= dups
       /\ \/ Reported("duplicate_key") = dups
          \/ maxIssues > 0 /\ maxIssues <= Reported("duplicate_key")
       /\ onDup = "Error" => dups <= 1 /\ (dups = 1 => stage = "done")

\* The list is right because the stack is.
DuplicatesReported == DetectorMirrorsDocument /\ EveryDuplicateReported

\* The scan returns, whatever the input and the options.
DetectReturns == <>(stage = "done")
=============================================================================
