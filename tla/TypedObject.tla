----------------------------- MODULE TypedObject -----------------------------
(***************************************************************************)
(* typedObjectSchema (dsl/bind.go): an object schema bound to a struct,    *)
(* with typed rules (dsl/typed_rules.go).  Parse runs the object schema,   *)
(* fills the struct and runs the rules.  ParseWithMeta runs the object     *)
(* schema for the presence, then Parse on the map that came out of it, so  *)
(* that the object schema reads its own output, and then the rules.        *)
(*                                                                         *)
(* ParseFromWithMeta (parse.go) marks the context so that the Parse inside *)
(* skips the rules.  The context is handed down: the mark also reaches a   *)
(* bound schema that is a member of another one, whose Parse is the only   *)
(* call it gets.                                                           *)
(***************************************************************************)
EXTENDS ObjectParse

CONSTANTS
  Rules,     \* the typed rules, in the order of their registration
  Bindings   \* the sets of keys whose values may not fit the struct

Entries == {"Parse", "ParseWithMeta", "ParseFromWithMeta"}
Places  == {"root", "member"}

\* A rule: its phase, whether it may fail, and when it runs (RefineOpt).
Rule == [phase : {"domain", "context"}, failing : BOOLEAN,
         whenSeen : SUBSET Known, mode : {"all", "any"}]

\* RefineCtxE is the only way to register a rule that may fail.
ASSUME RulesAssumption ==
  /\ Rules \in Seq(Rule)
  /\ \A i \in DOMAIN Rules : Rules[i].failing => Rules[i].phase = "context"

ASSUME BindingsAssumption == Bindings \subseteq SUBSET Known

VARIABLES
  misfits,  \* the keys whose values do not fit their struct fields
  entry,    \* the operation the caller has called
  place,    \* whether the bound schema is the caller's or a member of it
  stage,    \* "idle", "inner", "bind", "rules" or "done"
  pass,     \* how often the object schema has been entered
  meta,     \* Decoded.Presence of the first pass
  round,    \* "parse" or "meta": the code that runs the rules
  loop,     \* which of the three loops over the rules runs
  turn,     \* the rule whose turn it is in the loop
  log       \* the rules that have run, with their outcomes

callVars  == <<misfits, entry, place>>
rulesVars == <<round, loop, turn, log>>
typedVars == <<objectVars, callVars, stage, pass, meta, rulesVars>>

-----------------------------------------------------------------------------
Skips == entry = "ParseFromWithMeta"

\* A member gets Parse, whatever the outer schema's operation is.
WithMeta == place = "root" /\ entry # "Parse"

\* The phases, as both operations run them: each is a loop over the rules that
\* leaves out those of another phase.
Phases == <<<<"domain", FALSE>>, <<"context", FALSE>>, <<"context", TRUE>>>>

InPhase(rule) == <<rule.phase, rule.failing>> = Phases[loop]

\* Parse makes a presence of its own, from the map that has been parsed.
Reconstructed == {k \in Keys : out[k] # "absent"}

\* Mutant: any flag will do.
ReportedAny == {k \in Keys : meta[k] # {}}

Reported == {k \in Keys : "Seen" \in meta[k]}

SeenKeys == IF round = "meta" THEN Reported ELSE Reconstructed

Opens(rule, seen) ==
  \/ rule.whenSeen = {}
  \/ rule.mode = "all" /\ rule.whenSeen \subseteq seen
  \/ rule.mode = "any" /\ rule.whenSeen \cap seen # {}

\* Mutant: the mode is not looked at.
ShouldRunAll(rule) == rule.whenSeen \subseteq SeenKeys

\* A rule whose When says no counts as one with the outcome "ok".
ShouldRun(rule) == Opens(rule, SeenKeys)

-----------------------------------------------------------------------------
TypedInit ==
  /\ ObjectInit
  /\ misfits \in Bindings
  /\ entry = "Parse" /\ place = "root" /\ stage = "idle"
  /\ pass = 0 /\ meta = NoPresence /\ round = "parse" /\ loop = 1 /\ turn = 1 /\ log = <<>>

TypedCall ==
  /\ stage = "idle"
  /\ Call
  /\ entry' \in Entries /\ place' \in Places
  /\ stage' = "inner" /\ pass' = 1
  /\ UNCHANGED <<misfits, meta, rulesVars>>

Inner ==
  /\ stage = "inner"
  /\ ParseNext
  /\ UNCHANGED <<callVars, stage, pass, meta, rulesVars>>

\* The call ends with a value, or with issues.
Ends(verdict) == stage' = "done" /\ pc' = "done" /\ result' = verdict

InnerRejected ==
  /\ stage = "inner" /\ pc = "parsed" /\ result = "rejected"
  /\ Ends("rejected")
  /\ UNCHANGED <<builtVars, optionVars, src, cursor, out, extra, pm, iss,
                 callVars, pass, meta, rulesVars>>

\* The object schema reads the map it has made.
SecondPass ==
  /\ stage = "inner" /\ pc = "parsed" /\ result = "none"
  /\ WithMeta /\ pass = 1
  /\ meta' = pm /\ pass' = pass + 1
  /\ Enter("known", out)
  /\ UNCHANGED <<builtVars, optionVars, extra, callVars, stage, rulesVars>>

InnerAccepted ==
  /\ stage = "inner" /\ pc = "parsed" /\ result = "none"
  /\ WithMeta => pass = 2
  /\ stage' = "bind"
  /\ UNCHANGED <<objectVars, callVars, pass, meta, rulesVars>>

\* A null leaves a field of the struct as it is.
Unfit == {k \in misfits : out[k] \notin {"absent", "null"}}

Misfit ==
  /\ stage = "bind"
  /\ \E k \in Unfit : iss' = {Problem("invalid", k)}
  /\ Ends("rejected")
  /\ UNCHANGED <<builtVars, optionVars, src, cursor, out, extra, pm,
                 callVars, pass, meta, rulesVars>>

\* Mutant: the mark is forgotten.
FirstRoundUnmarked == "parse"

FirstRound == IF Skips THEN "meta" ELSE "parse"

StartRound(r) == round' = r /\ loop' = 1 /\ turn' = 1

Fit ==
  /\ stage = "bind" /\ Unfit = {}
  /\ IF Skips /\ ~WithMeta
       THEN Ends("accepted") /\ UNCHANGED <<round, loop, turn>>
       ELSE StartRound(FirstRound) /\ stage' = "rules" /\ UNCHANGED <<pc, result>>
  /\ UNCHANGED <<builtVars, optionVars, src, cursor, out, extra, pm, iss,
                 callVars, pass, meta, log>>

-----------------------------------------------------------------------------
Outage == Problem("dependency_unavailable", Root)

\* Mutant: the issues of a phase are looked at when all phases are over.
PhaseOverAtEnd == loop = Len(Phases) /\ turn = Len(Rules) + 1

PhaseOver == turn = Len(Rules) + 1

PhaseFailed == iss # {} /\ PhaseOver

\* The parts of the state that the rules do not touch
Untouched == <<builtVars, optionVars, src, cursor, out, extra, pm, callVars, pass, meta>>

StopAtPhase ==
  /\ stage = "rules" /\ PhaseFailed
  /\ Ends("rejected")
  /\ UNCHANGED <<Untouched, iss, rulesVars>>

NextPhase ==
  /\ stage = "rules" /\ turn = Len(Rules) + 1 /\ ~PhaseFailed /\ loop < Len(Phases)
  /\ loop' = loop + 1 /\ turn' = 1
  /\ UNCHANGED <<Untouched, stage, pc, iss, result, round, log>>

RuleTurn == stage = "rules" /\ turn \in DOMAIN Rules

\* The rule is of the phase, and nothing keeps it from running.
RuleRuns == RuleTurn /\ InPhase(Rules[turn]) /\ ShouldRun(Rules[turn])

NextRule == turn' = turn + 1 /\ UNCHANGED <<stage, pc, result>>

Ran(outcome) ==
  log' = Append(log, [round |-> round, rule |-> turn, outcome |-> outcome])

RuleIdle ==
  /\ RuleTurn /\ ~RuleRuns
  /\ NextRule
  /\ UNCHANGED <<Untouched, iss, round, loop, log>>

RulePasses ==
  /\ RuleRuns
  /\ Ran("ok") /\ NextRule
  /\ UNCHANGED <<Untouched, iss, round, loop>>

RuleObjects ==
  /\ RuleRuns
  /\ Ran("issues") /\ iss' = iss \cup {Problem("rule", Root)}
  /\ IF failFast THEN Ends("rejected") /\ UNCHANGED turn ELSE NextRule
  /\ UNCHANGED <<Untouched, round, loop>>

\* A rule's error takes the place of the issues so far.
RuleFails ==
  /\ RuleRuns /\ Rules[turn].failing
  /\ Ran("fatal") /\ iss' = {Outage} /\ Ends("rejected")
  /\ UNCHANGED <<Untouched, round, loop, turn>>

\* ParseWithMeta runs the rules again when its Parse has run them.
RulesPassed ==
  /\ stage = "rules" /\ turn = Len(Rules) + 1 /\ iss = {} /\ loop = Len(Phases)
  /\ IF WithMeta /\ round = "parse"
       THEN StartRound("meta") /\ UNCHANGED <<stage, pc, result>>
       ELSE Ends("accepted") /\ UNCHANGED <<round, loop, turn>>
  /\ UNCHANGED <<Untouched, iss, log>>

TypedReturn ==
  /\ stage = "done"
  /\ Return
  /\ entry' = "Parse" /\ place' = "root" /\ stage' = "idle" /\ pass' = 0
  /\ meta' = NoPresence /\ round' = "parse" /\ loop' = 1 /\ turn' = 1 /\ log' = <<>>
  /\ UNCHANGED misfits

TypedNext ==
  \/ TypedCall
  \/ Inner
  \/ InnerRejected
  \/ SecondPass
  \/ InnerAccepted
  \/ Misfit
  \/ Fit
  \/ StopAtPhase
  \/ NextPhase
  \/ RuleIdle
  \/ RulePasses
  \/ RuleObjects
  \/ RuleFails
  \/ RulesPassed
  \/ TypedReturn

TypedSpec == TypedInit /\ [][TypedNext]_typedVars

-----------------------------------------------------------------------------
Runs == [round : {"parse", "meta"}, rule : DOMAIN Rules,
         outcome : {"ok", "issues", "fatal"}]

TypedTypeOK ==
  /\ misfits \subseteq Known /\ entry \in Entries /\ place \in Places
  /\ stage \in {"idle", "inner", "bind", "rules", "done"} /\ pass \in 0..2
  /\ meta \in [Keys -> SUBSET {"Seen", "WasNull", "DefaultApplied"}]
  /\ round \in {"parse", "meta"} /\ loop \in DOMAIN Phases /\ turn \in 1..Len(Rules) + 1
  /\ log \in Seq(Runs)

\* The keys that the document has
Sent == {k \in Keys : input[k] # "absent"}

(***************************************************************************)
(* The rules that ParseWithMeta runs itself run only if the document has   *)
(* the keys they ask for: no default, and no unknown key, opens a gate.    *)
(***************************************************************************)
GatesHold ==
  \A i \in DOMAIN log : log[i].round = "meta" => Opens(Rules[log[i].rule], Sent)

\* The presence that ParseWithMeta hands on is that of the document.
MetaIsOfTheInput == pass = 2 => \A k \in Known : meta[k] = PresenceOf(k)

(***************************************************************************)
(* What opens a gate is the presence of the document, and what ParseWith-  *)
(* Meta hands on is the same, whatever the second pass has seen.           *)
(***************************************************************************)
PresenceRules == GatesHold /\ MetaIsOfTheInput

(***************************************************************************)
(* No rule runs after one of an earlier phase, or of an earlier round, has *)
(* objected or failed, and under fail-fast none after any that has.        *)
(***************************************************************************)
PhasesInOrder ==
  \A i, j \in DOMAIN log : i < j /\ log[i].outcome # "ok" =>
    /\ log[i].outcome = "issues" /\ ~failFast /\ log[i].round = log[j].round
    /\ Rules[log[i].rule].phase = Rules[log[j].rule].phase
    /\ Rules[log[i].rule].failing = Rules[log[j].rule].failing

(***************************************************************************)
(* What is reported comes from one layer: the object schema and the        *)
(* struct, before any rule has run, or the rules of one phase, or an       *)
(* outage, which a caller answers in another way and which stands alone.   *)
(***************************************************************************)
OneLayerReports ==
  result = "rejected" /\ stage = "done" =>
    \/ /\ log # <<>> /\ log[Len(log)].outcome = "fatal" /\ iss = {Outage}
    \/ /\ \E n \in DOMAIN log : log[n].outcome = "issues"
       /\ \A n \in DOMAIN log : log[n].outcome # "fatal"
       /\ iss = {Problem("rule", Root)}
    \/ /\ log = <<>> /\ iss # {}
       /\ \A p \in iss : p.code \in {"invalid", "required", "unknown_key", "custom"}

\* Failures are told in the order of the layers and phases, and not mixed.
FailuresInOrder == PhasesInOrder /\ OneLayerReports

HasRun(i, outcome) == \E n \in DOMAIN log : log[n].rule = i /\ log[n].outcome = outcome

(***************************************************************************)
(* An accepted object has nothing wrong with it, fits the struct and has   *)
(* satisfied every rule whose keys it has, unless it was a member of what  *)
(* ParseFromWithMeta has parsed.                                           *)
(***************************************************************************)
AcceptedIsChecked ==
  /\ TypedTypeOK
  /\ result = "accepted" =>
    /\ Problems(input) = {} /\ Unfit = {}
    /\ \A i \in DOMAIN Rules :
         /\ ~HasRun(i, "issues") /\ ~HasRun(i, "fatal")
         /\ (WithMeta \/ ~Skips) /\ Opens(Rules[i], Sent) => HasRun(i, "ok")

(***************************************************************************)
(* Parse and ParseFromWithMeta run no rule twice, though ParseFromWithMeta *)
(* comes by the rules at two places.                                       *)
(***************************************************************************)
RulesRunOnce ==
  ~WithMeta \/ Skips =>
    \A i, j \in DOMAIN log : log[i].rule = log[j].rule => i = j

\* What the object schema makes of a key that it accepts
Made(k) ==
  CASE input[k] # "absent"           -> Parsed(Field(k).kind, input[k])
    [] input[k] = "absent" /\ Field(k).default # "none" -> DefaultOf(Field(k).kind)
    [] OTHER                         -> "absent"

(***************************************************************************)
(* The object schema finds nothing wrong with its own output, and leaves   *)
(* it as it is, except for what a codec has made of a field.               *)
(***************************************************************************)
SecondPassChangesNothing ==
  /\ stage = "inner" /\ pass = 2 =>
       \A p \in iss : p.code = "custom" \/ Field(p.at).kind = "codec"
  /\ stage = "bind" /\ pass = 2 =>
       \A k \in Known : out[k] = Made(k) \/ (k = Target /\ out[k] = "made")

-----------------------------------------------------------------------------
(***************************************************************************)
(* api.go:158: "rules will be executed once with Presence available in the *)
(* WithMeta path".  Those of a member are not executed at all.             *)
(***************************************************************************)
RulesAreRun ==
  result = "accepted" /\ entry = "ParseFromWithMeta" =>
    \A i \in DOMAIN Rules : Opens(Rules[i], Sent) => HasRun(i, "ok")
=============================================================================
