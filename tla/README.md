# goskema in TLA+

goskema is a Go library that validates and decodes input against schemas. JSON is
read token by token: a driver produces tokens, a wrapper enforces limits on them,
and schemas either decode the whole value first or pull tokens themselves. Schemas
of Kubernetes custom resources are imported into its own. This directory specifies
the token pipeline, the primitive and object schemas on top of it, the Kubernetes
import, and three programs of the repository that use the library under
concurrency. TLC checks it, and TLAPS proves the central parts. File names below
are relative to the repository.

## 1. Inventory

| Part | Files | State | Operations | What is hard | What makes it correct |
|---|---|---|---|---|---|
| JSON drivers | `source/json`, `source/gojson`, `source/jsonv2` | decoder, a stack of `expectingKey` flags, last offset | `NextToken`, `Location` | a key and a string value are the same Go type; only the stack tells them apart | the stack is the decoder's own, after any nesting |
| Enforcement | `internal/engine/enforce.go` | stack of frames (keys, path, index, pending key), depth | `NextToken` over an inner source | an `IssueError` leaves the frame pushed or the key untaken, and the consumer may go on; `""` is a key and "no key" | every verdict and every pointer is what the document calls for |
| Parse pipeline | `parse.go`, `source.go`, `internal/engine/engine.go` | none between calls (a driver registry) | `ParseFrom`, `ParseFromWithMeta`, `StreamParse`, `EnforceSource` | streaming or decoded path; two layers of enforcement on array elements | options hold on every path |
| Subtree sources | `internal/stream/subtree.go` | depth, `started`, `done` | `NextToken` | must end with the value, not before, not after | the subtree is exactly one value |
| Streaming array | `dsl/array_stream.go` | index, collected issues, presence, contains count | the loop of `ParseFromSource[WithMeta]` | an element's failure is collected and the loop goes on; paths are rebased | indexes and values are those of the document; acceptance is sound |
| Streaming map | `dsl/map_core.go` | the map so far | the loop of `ParseFromSource` | no enforcement of its own | keys are those of the document |
| Duplicate detector | `internal/engine/json_dup_detect.go`, `json_dup.go` | a third stack, issues | one scan | limit, several values, cut-off input | each repeated key is listed once, as far as the limit admits |
| Object core | `dsl/object_core.go`, `presence.go`, `encode_preserve.go` | fields, presence map | `Parse`, `ParseWithMeta`, refine, encode | missing, null and defaulted fields differ; presence is merged from two collections | a default never reads as seen; preserving encode restores what came in |
| Builders, bindings, typed rules | `dsl/object_builder.go`, `dsl/bind.go`, `dsl/typed_rules.go`, `rules/` | builder maps, rule lists | `Build`, `Bind`, rule phases | maps shared between builder and schema; rules gated by presence; two passes | a built schema does not change; a rule runs once |
| Primitives | `dsl/primitives.go` | none | `Parse` and `ParseFromSource` of each schema | two routes written apart; widths; numbers that pass through float64 or its text | an accepted number is the one given; the routes agree |
| Union, codecs | `dsl/union.go`, `codec/` | none | dispatch, encode/decode | a codec's output is not its input | conversions keep the value or refuse it |
| Kubernetes import | `kubeopenapi/` | schema maps changed in place | choice of the version, `$ref` resolution, planning of each property, checks of lists, keys, unions | cycles of references; checks chained behind adapters that drop members and rewrite numbers | ends; admits what conforms and nothing else, but for known approximations |
| Admission webhook example | `examples/k8s_webhook_poc` | schema and expected resource, fixed at the start | import, `handleValidate` | the bundle is read twice by different rules | an object is judged by its own version's schema |
| User API sample | `sample-projects/user-api` | users and next ID behind a `RWMutex` | list, get, create, patch, delete | handlers in goroutines; PATCH reads and writes under two locks, and parses in between | the store is a directory of single steps; a patch keeps what it does not name |
| Order allocation example | `examples/context_order_inventory` | inventory behind a mutex | rules of the order, check, reserve, roll back | the stock changes between check and reservation; services fail | stock is accounted for; orders are served as if one by one |
| Configuration manager sample | `sample-projects/config-manager` | - | - | - | does not compile |
| Shared process state | `source.go`, `presence.go`, `i18n/` | driver, intern pool, translator | get, set, intern | goroutines | one word each; no protocol |
| Middleware, CLI, generator, exports | `middleware/`, `cmd/`, `internal/gen`, `jsonschema/` | none of interest | conversions, glue | - | - |

Interactions: `ParseFrom` asks the schema whether it can pull tokens itself
(array, map, string, ...); otherwise it wraps the source and decodes the whole
value. The array wraps the source and hands each element a `PreloadedSource` over
the wrapper, and the element's schema, through `ParseFrom` again, may put a second
wrapper over that. The map hands each value a `SubtreeSource` over the bare
source. An object schema reads a decoded value, field by field; a bound schema
runs an object schema, once for `Parse` and twice for `ParseWithMeta`, and then
the typed rules. Fail-fast and the mark that rules are to be skipped travel in the
context, which every nested schema is given. The importer turns a CRD into an
object schema whose fields are adapters over the primitives, arrays and maps, each
with checks chained behind it; the webhook parses the object of every review with
that schema. The user API parses the bodies of its requests, and patches by the
presence map. The order example's rules ask the same inventory, by way of the
context, that the order is then allocated from.

The hazards of each part, at their lines, are in `PROJECT.json`.

## 2. Modules

| Module | Models | State | Actions |
|---|---|---|---|
| `JsonDocument` | the lexer of `encoding/json` (external): the stack of open containers that well-formed input goes through | `doc`, `input`, `offset`, history `repeated` | `LexOpen`, `LexClose`, `LexKey`, `LexScalar`, `LexError` |
| `JsonSource` | `jsonSource` (`source/json/json.go`), and the same machine in `source/gojson` | `src` (its stack), `tok` | `ReadOpen`, `ReadClose`, `ReadString`, `ReadLiteral`, `ReadError`: the branches of `NextToken` |
| `Enforcement` | `enforcingTokenSource` as operators on a pair of stack and depth, so that several wrappers can be stacked | - | `TokenPath`/`Located` are `currentPathForToken` (result and side effect), `NextStack`/`NextDepth` the switch, `Verdict`/`Sunk` the returns and the sink |
| `EnforcedSource` | a driver under one wrapper | adds `driver`, `opt`, `enf`, `issue`, `sunk`, histories `clean`, `lost` | `NextToken`: one call of the wrapper |
| `EnforcementContract` | the abstract specification: verdict and pointer of each token as functions of the document alone | no stack, no depth | `ContractNext` |
| `ArrayStream` | the streaming array with `PreloadedSource` and the element's decoder | adds `pc`, `idx`, `pre`, `sub`, `iss`, ... | one pull of the loop or of the element's decoder |
| `MapStream` | the streaming map with `SubtreeSource` | `pc`, `key`, `nest`, `sub`, `out` | one pull |
| `DupDetect` | the duplicate detector | `stack`, `issues` | one decoder token |
| `ObjectParse` | `objectSchema` (`dsl/object_core.go`), the presence of `ParseFromWithMeta` and `EncodePreservingObject`, over several calls of one schema | schema and what outlives a call (`late`, `shared`), the options, what was sent (`input`, `held`: the entries of the map at the target), and the call's own `cursor`, `out`, `extra` (that map as it becomes), `pm`, `iss` | `Call`, `KnownField` (one field: parsed, defaulted or missed), `UnknownKeys`, `Refine`, `Deliver`, `Return`, `DeclareLate` |
| `TypedObject` | `typedObjectSchema` (`dsl/bind.go`) and `runTypedRules[E]`, on top of `ObjectParse`, whose steps are its action `Inner` | adds `entry`, `place`, `stage`, `pass`, `meta`, `round`, `loop`, `turn`, `log` | `SecondPass` (the object schema reads its own output), `Misfit`/`Fit` (the struct), one action per outcome of a rule (`loop` is the phase that runs, `turn` its rule), `StopAtPhase`, `RulesPassed` |
| `NumberSchemas` | the schemas of `dsl/primitives.go`, each by both routes, with the texts that `strconv` reads and writes | `schema`, `mode`, `given`, and the two answers | `Call`, `Parse` or `DecodeError`, `ParseFromSource`, `Return` |
| `UserDirectory` | the abstract specification of the user store | `users`, `nextID` | `Created`, `Replaced`, `Deleted` |
| `UserApi` | the handlers of the user API and their store | the store, its mutex (`readers`, `writer`), and per client `pc`, `req`, `user`, ... | one per step of a handler: `RLock`, `GetByID`, `Range`, `ParsePatch`, `Lock`, `Number`, `Insert`, `Update`, ... |
| `OrderLedger` | the abstract specification of the allocation | `need`, `fate`, `left` | `Placed`, `Served`, `TurnedAway` |
| `OrderAllocation` | orders parsed by `orderSchema` and allocated by `allocateOrder` | `stock`, and per order `pc`, `cart`, `todo`, `reserved`, `released` | one per call of the inventory, and one per call that fails |
| `RefResolution` | `resolveRefsInPlace` and `resolveOne` | `heap` (the maps), `stack` (the recursion), `visited`, `warned` | `Leave`, `Expand`, `Descend`, `Finish` |
| `CrdFields` | what a property is planned to be, what that accepts, and what its adapter returns | - | `Accepts`, `Returned` and the operators below them, one per adapter and check |
| `CrdMeaning` | what the keywords mean, place by place, and the known differences, by the place where they occur | - | `MeetsSchema`, `AcceptsMore`, `AcceptsLess` |
| `AdmissionWebhook` | the webhook from its start on, over the three modules above | `phase`, `case`, `gvr`, `review`, `reply` | `Fail`, `Load`, `Import` (one step of the walk), `Listen`, `Handle` (one review) |
| `JsonSourceProofs` | proofs about `JsonSource` and, by the same lemmas on stacks, `DupDetect` | | |
| `EnforcedSourceProofs` | proofs about `EnforcedSource` and its `EnforcementContract` | | |
| `ArrayStreamProofs`, `MapStreamProofs`, `UserApiProofs`, `OrderAllocationProofs` | proofs about the modules they are named after | | |
| `TypedObjectProofs` | proofs about `ObjectParse` and `TypedObject` | | |
| `SchemaProofs` | proofs about `NumberSchemas`, `RefResolution`, `CrdFields` against `CrdMeaning`, and `AdmissionWebhook` | | |
| `MC...` | values of the constants for TLC | | |

What is abstracted. Keys and strings are members of a small set with a distinct
`EmptyKey`; a JSON Pointer is the sequence of its reference tokens, so escaping
does not appear (but the two meanings of `"/"`, root and empty key, do). Numbers
and messages have no content. The lexer accepts any continuation of well-formed
JSON, of any length within the bounds, and can fail at every token. What a schema
says of a decoded value, and what the contains predicate says, is a free choice.
Value-level `ValidateValue`, `ApplyNormalize` and `ApplyRefine` can only reject;
the array folds them into one rejection. The value of an object's field is one of
eleven, told apart by what the properties ask of them: null, what no schema takes,
what a codec has made of a text, an object before and after its own default, the
very map that was given to `Default`, a map made for unknown keys. A bound
schema's struct is the set of keys whose values do not fit it; a rule is its
phase, its gate and a free choice of outcome. `object_stream.go` holds helpers
that nothing calls and is not modelled. A builder's later change of a field it has
already declared, which the schema also sees, is not modelled either: it amounts
to starting over with another schema.

A number of `NumberSchemas` is a whole number or that and a half, with the way it
is written; what `int64` makes of a float64 out of its range is left open, as Go
leaves it. The mutex of the user store is modelled, `net/http` is not: a client
has one request at a time. `memInventory`'s mutex makes each call of the inventory
one step of `OrderAllocation`. A schema of a CRD is a table of nodes that refer to
each other by number, so that a copy, a merge and a shared map are what they are
in Go. A JSON value takes its places to a kind and a text; a place is the way to
it, by members and elements. The adapters of the importer nest as the schemas do;
`CrdFields` says what they do place by place instead: which places an adapter is
handed (`Reached`), what the adapter of a place takes (`Takes`), and which places
are in the value that the outermost one returns (`Returned`), which is what the
checks see. The node of a place (`At`) is the one recursion left, a function along
the place, so no module uses a RECURSIVE operator.

Definitions commented `Mutant` are not used by any specification: each is a
definition with a plausible fault in it, kept beside the right one to show that a
property notices the fault when the one replaces the other.

## 3. What the runs show

| Run | Result | States | Shows |
|---|---|---|---|
| `enforced_source` | holds | 566,140 | the two stacks follow the document after every token, error and refusal (`StackMirrorsDocument`, `Lockstep`); what is let through is within the options (`CleanDocument`); and the whole implements `EnforcementContract` (`ImplementsContract`) |
| `array_stream` | holds | 429,680 | elements stay aligned with the document (`InStep`), an element's decoder sees a whole subtree even after an abandoned element (`SubtreeMirrors`), acceptance is sound and reports are real (`SoundVerdict`), the first failure has its index (`FirstFailureLocated`), the call returns (`Returns`) |
| `map_stream` | holds | 12,507 | the loop stays at keys of its object and acceptance means a closed document (`MapFollows`), a subtree source ends with its value (`SubtreeIsExact`), the call returns (`MapReturns`) |
| `dup_detect` | holds | 39,340 | the third stack follows the document across a stream of values, and each repetition is reported once, or as many of them as `maxIssues` admits (`DuplicatesReported`); the scan ends (`DetectReturns`) |
| `object_parse` | holds | 816,756 | an object passes only if nothing is wrong with it, and what is reported is all that is wrong, or under fail-fast the part found first (`IssuesAreExact`, against a definition without loops); presence tells the input from nulls and defaults (`PresenceIsTrue`) and preserving encode gives back the input's keys (`PreserveIsFaithful`); nothing an accepted object had is lost, nor what the map at its target held, but for the named cases (`NothingVanishes`) |
| `typed_object` | holds | 263,633 | gates open by the right presence (`PresenceRules`), phases and failures in order (`FailuresInOrder`), acceptance only after every rule that applies (`AcceptedIsChecked`), no rule twice (`RulesRunOnce`), and a second pass that changes nothing (`SecondPassChangesNothing`) |
| `typed_rules` | violated | | the rules of a member do not run under `ParseFromWithMeta` (finding, `RulesAreRun`) |
| `numbers` | holds | 33,411 | an accepted number is the one given or its nearest float64, within its type (`NumbersAreKept`), and `Parse` and `ParseFromSource` agree but for two named exceptions (`RoutesAgree`) |
| `number_integers` | violated | | `IntOf` refuses large plain integers in Float64 mode (finding, `IntegersAccepted`) |
| `user_api` | holds | 356,044 | the mutex excludes, users are found under their IDs and a listing is of one moment (`StoreInv`); a patch that nobody overtook keeps what it did not name (`PatchIsCurrent`); an ID is given once (`CreatedApart`); the store implements `UserDirectory` (`ImplementsDirectory`); a call of it ends whatever the clients do (`StoreAnswers`) |
| `order_allocation` | holds | 51,347 | what the orders hold and what is left is what there was (`StockAccounted`); nobody is turned away where there is enough for all (`EnoughForAll`); the whole implements `OrderLedger` (`ImplementsLedger`); every order is answered (`OrdersAnswered`) |
| `admission_webhook` | holds | 23,760 | no definition is expanded inside itself (`ExpansionsAreNested`), warnings are neither false nor missing (`WarningsAreTrue`), what is admitted conforms and what conforms is admitted but for the approximations of `CrdMeaning` (`AdmittedConforms`, `ConformingAdmitted`), by the schema of the object's version (`SchemaOfItsVersion`), and the import ends (`ImportEnds`) |

Type invariants without a line of their own are conjuncts: `ArrayTypeOK` of
`InStep`, `ObjectTypeOK` of `IssuesAreExact`, `TypedTypeOK` of
`AcceptedIsChecked`, `OrdersTypeOK` of `StockAccounted`. `TypeOK` of
`UserApi` is part of `StoreInv`; that of `EnforcedSource`, and `AwaitsKey`, are
proved (section 4) and not checked again.

Facts that the properties had to be stated around:

* A refused key is not taken: the wrapper goes on waiting for a key while the
  document is at a value. It finds its way back because the pending key's text
  tells it that a value comes first. A refused key `""` has no text, so the value
  that follows is reported one segment short. `lost` records this, and the
  contract promises places only until then.
* An array element that fails before its end (a nested container where a string is
  expected, a refused depth) leaves the loop inside it. The tokens that remain are
  taken for elements, under indexes the array does not have; the issues after the
  first are then misplaced, and only `ReportsAreReal`, `SubtreeMirrors` and
  `Returns` still hold of them. The array is rejected in any case.
* The target of `UnknownPassthrough` counts as seen in the input when unknown keys
  alone brought it about, so `PresenceIsTrue` leaves it out.
* A key that the builder declares after `Build` is neither in the schema's sorted
  keys nor unknown to it: it is dropped. `NothingVanishes` names this case.
* Unknown keys are stored in the map that the input has at the target, and one
  that has an entry's name replaces it (`object_core.go:164`). `Overwritten` names
  these entries; `NothingVanishes` says that all others stay as they were sent. As
  `MapAny` returns the map it is given, it is the caller's own map that changes.
* `Parse` of a bound schema opens the gates of rules by the parsed map, defaults
  included; only `ParseWithMeta` opens them by the input. `GatesHold` says so of
  the rules that `ParseWithMeta` runs itself.
* A direct `ParseWithMeta`, without the mark, runs each rule in its `Parse` and
  again after it; `RulesRunOnce` leaves it out.
* `EnoughForAll` needs the orders of all that have come so far. Two orders that
  hold half of what each wants are both refused though either could have been
  served: "attempts to reserve inventory for the order atomically" (`main.go:223`)
  is true of what is held in the end, not of who fails.
* A patch that another write overtakes undoes that write, and `Update`'s answer is
  dropped: 200 for a user deleted in the meantime. `stale` marks these.
* `CrdMeaning` names where the importer accepts more than its schema says
  (`AcceptsMore`), by node and place: a `set` is only checked for texts
  (`docs/k8s.md:44,72` make no such exception), a list beside `anyOf` not at all;
  `contains` without `minContains` demands nothing; `additionalProperties: false`
  without `properties` is not looked at; `required` only at the top, and from a
  list item on as long as every object on the way has one; an integer takes any
  number; what stands beside `properties`, or beside `anyOf`, is not looked at, nor
  are names, patterns, `anyOf` and `contains` below the fields. And where it
  accepts less (`AcceptsLess`): what has no type takes objects only; the first
  typed branch of an `anyOf` gives the adapter for all; patterns beside
  `additionalProperties: true` force one type; an invalid pattern refuses every
  object; `nullable` of an item is not looked at; the key of a list element is its
  printed form (so 1 and "1" are one); members that a nested object does not
  declare are dropped before list keys, `contains` and embedded resources are
  looked at; and where unknown fields are preserved at the root, they are put under
  a field `_unknown` that the importer declares itself (`kubeopenapi.go:113`), so
  an object whose member of that name is no object is refused. And both ways, since
  the checks of `anyOf` and `contains` take anything for an array; a type that the
  importer does not know stands for an object in one place and for anything in
  another; and checks read numbers, and int-or-string reads texts, as float64
  (`patterns.go:231`): a number beyond its range is none, and one that is rounded to
  a whole number is an integer (`ReadsInexactly`).
* An object nested deeper than `MaxDepth` is denied (`main.go:195` of the webhook);
  `ConformingAdmitted` speaks of the others. The same call's `MaxBytes` cannot be
  reached: the whole body of a review is limited to that size already.
* The proof of `AdmittedConforms` and `ConformingAdmitted` found these lists
  incomplete where TLC's schemas had not reached: types that the importer does not
  know, keys beside a type in a branch of `anyOf`, an empty `anyOf` and empty
  `patternProperties` (which the code treats as absent), embedded resources marked
  on the items of what is no array, and patterns beside `properties` with
  `additionalProperties: false`. Each is now named, or the model reads
  the keyword as the code does.
* References are left without a warning in a schema without `$defs`, where a
  definition is nothing but a reference, and beside `properties`
  (`LeftoversAreReported` names the last two). Import changes its caller's map.
* The webhook expects the storage version, or else the first, and validates by the
  first version served; and each from the first CRD of the kind that has it.
  `SchemaOfItsVersion` speaks of the bundles for which these are the same.

Seen on the way and not stated as properties:

* `MaxBytes` is not enforced over go-json, whose source knows no offset
  (`driver_gojson.go:155`, `enforce.go:148`), though the README of the library
  (line 314) makes no exception.
* In contains mode the array drops the errors of decoding, and with them refused
  duplicate keys: it accepts the array (`array_stream.go:64-66`, `118`).
  `SoundVerdict` leaves that mode out.
* The streaming map pulls from the bare source (`map_core.go:128`): options on
  duplicates, depth and bytes are not enforced inside it.
* The map given to `Default` is the one every call is handed, so unknown keys
  stored in it by one call come back in the next (`object_builder.go:73`,
  `object_core.go:160`).
* `ParseWithMeta` of a bound schema has the object schema read its own output, so
  a codec that does not take what it makes is refused (`bind.go:163`).
* The array puts an element's index in front of a pointer that has it already
  (`array_stream.go:92`: a repeated key x in element 0 is at `/0/0/x`), and it
  looks at `FailFast` only for element errors that are not issues (line 100,
  `ElementStopped`).
* The duplicate detector's comment has `maxIssues` > 0 set a limit
  (`json_dup_detect.go:28`), but the list goes on after it, with one more marker
  behind each later issue (line 58). `DuplicatesReported` therefore promises only
  the repetitions that the limit admits, and is silent on those beyond it.
* The duplicate detector takes input cut off between two tokens for complete: the
  decoder's `io.EOF` ends the scan without an issue (`json_dup_detect.go:65`).
* The root and the root's key `""` are both reported at `/` (`enforce.go:203`),
  `Warn` reports nothing on the any-path without fail-fast (`parse.go:97`), and
  the issues of a bad default are not under the field's path
  (`object_core.go:89`).
* `CoerceFromString` accepts `NaN` and `Infinity`; an unsigned value beyond `int`
  wraps (`primitives.go:397`), which `NumbersAreKept` names; the unsigned schemas
  refuse signed Go defaults.
* `KWEB_HANDLER_TIMEOUT` has no effect: the deadline is put into the context
  (`k8s_webhook_poc/main.go:201`) and nothing on the path reads it. The webhook
  passes no options, so embedded resources are not checked. `Unknown`, `Profile`,
  `EnableCEL`, `DefaultMode` and `NumberMode` of the import's options are never
  read. A DELETE review, whose object is null, is denied.
* The user API's own README documents a PATCH with a name alone, which is refused:
  email is required by the schema that both POST and PATCH use.

Bounds. Two keys, one of them empty, are enough for a repetition, a different key
and the empty-key case. Two to three levels of nesting give a container inside a
container inside each kind, which is where the resets of `expectingKey` happen.
Two items distinguish the first element from the next. `MaxOffset` is the number
of bytes: 10 bytes are ten tokens in `enforced_source` (5 if each takes two, so
that the byte limit can be stepped over), eight in the array, nine in the map and
the detector; the state spaces are explored to the end within them. Depth limits
are 0 (off) and a value below the nesting bound; byte limits 0 and a value below
`MaxOffset`. The lexer stops only because of these bounds; it may still fail, so
nothing deadlocks there. `CHECK_DEADLOCK FALSE` is set where the modelled call
returns and then does nothing.

`object_parse` has one field of every kind, required or not, with a good, a bad or
no default, beside a target, under the three policies, with one key declared late
and one never declared: the loop over the fields meets each combination of two,
which is what fail-fast, the target and the merging of presence depend on.
`typed_object` has a second text field, so that gates of two keys can be half
open, and a rule of each phase, two of them able to fail, registered out of order.

`numbers` has the limits of Go's types scaled down and in their order: int8 is
-2..1, int16 -4..3, an exponent is written from 8 on, int32 is -16..15, float64 is
exact up to 40, int64 is -64..63 and float64 ends at 140; `Wholes` has both sides
of each. The theorem `NumbersKept` shows that the sizes do not matter. `user_api`
has two clients, which is what a read overtaken by a write takes, two fields, so
that a patch can leave one out, one of them with a default, and `MaxID` 3: one
user at the start and two created. `order_allocation` has three orders over two
articles of two pieces each and one of which there is none, so that two can starve
each other while the third is served; each service may fail at each call.
`admission_webhook` goes through a list of CRDs: each keyword for itself and
beside those it interferes with, at a field, an item and a member, against every
value of a small universe; references in chains, cycles and repetitions; and
bundles with versions served and stored in every combination, broken documents and
incomplete CRDs, against reviews of the right and the wrong resource. `MaxDepth`
is 4, for 256 in the code: the values of the universe reach it and go beyond.

`CHECK_DEADLOCK FALSE` is also set in `order_allocation` (all orders answered) and
`admission_webhook` (the last review answered, or the server down).

Fairness. `ArraySpec`, `MapSpec` and `DetectSpec` assume weak fairness of their
next-state relation: a call, once started, goes on until it returns. The code is
sequential and waits for nothing but the reader; a reader that never answers is
outside the model. `ObjectSpec` and `TypedSpec` are used for safety only: their
loops run over fixed lists and have no error that could keep them, and so is
`Spec` of `NumberSchemas`. `Spec` of `EnforcedSource` has no fairness: it is a
consumer that may stop pulling at any time. `FairSpec` of `UserApi` has weak
fairness for the steps of a handler, and strong fairness for taking a lock, since
`sync.RWMutex` lets neither readers nor writers wait for ever; a client need
neither send a request nor the rest of its body. `FairSpec` of `OrderAllocation`
has weak fairness for an order's next call and none for orders to come or services
to fail. `Webhook` has weak fairness for the start of the server, which waits for
nobody, and none for reviews.

## 4. What is proved

`EnforcedSourceProofs` proves for every set of keys with its empty key, every set
of literals, drivers and limits, and all bounds (the `ASSUME`s of `JsonDocument`
and `EnforcedSource`):

| Theorem | Property |
|---|---|
| `TypeCorrect` | `TypeOK` |
| `SourceInStep` | `StackMirrorsDocument` |
| `WrapperInStep` | `Lockstep` |
| `KeyAwaited` | `AwaitsKey` |
| `WithinLimits` | `CleanDocument` |

The argument. `JsonSourceProofs` describes what each stack operation does: it
replaces the innermost entry and leaves the rest (`Replaced`), pushes or pops.
`SourceStep` then shows that types and `StackMirrorsDocument` are preserved by a
call of `jsonSource`. `TokenSteps` turns such a call into the lexer's step and the
token that stands for it, which is all that the wrapper sees. For the wrapper,
`Mirrors(s, d, astray)` relates a stack of frames to the document; `StackOpen`,
`StackClose`, `StackKey` and `StackScalar` show that it is kept by the wrapper's
step on each kind of token. The inductive invariant `IInv` is the conjunction of
the five properties. They need each other: a new frame's pointer is right only if
the wrapper takes the pending key for one (`PathBegun`), which is `AwaitsKey`;
`AwaitsKey` is preserved because in `Lockstep` a key is taken or refused exactly
as `Verdict` says; and the limits on depth and repetitions are those of the
document only because depth and key sets are (`Lockstep`).

The same module proves, under the same assumptions,
`ContractImplemented` (`ImplementsContract`): the stack machine gives each token
the verdict and the pointer that the document alone calls for. `PathIsPlace` shows
that the pointer of every token is its place in the document unless a key `""` was
refused before, and `SameVerdicts` that depth, repetition and length are judged
alike; both rest on `IInv`. Then a step of the wrapper is a step of the contract
(`ContractStep`).

The two streaming consumers are proved over that source:

| Module | Theorem | Property |
|---|---|---|
| `ArrayStreamProofs` | `ArrayInStep` | `InStep` |
| | `ElementsMirror` | `SubtreeMirrors` |
| | `VerdictSound` | `SoundVerdict` |
| | `FailureAtIndex` | `FirstFailureLocated` |
| `MapStreamProofs` | `MapFollowed` | `MapFollows` |
| | `SubtreeExact` | `SubtreeIsExact` |

For the array, `Inner(d, n)` is the document as an element's decoder sees it, the
innermost `n` containers. Every step of the lexer commutes with it (`InnerPush`,
`InnerPop`, `InnerKey`, ...), so the lemmas about the wrapper's stack apply to the
second wrapper as they stand (`ElementMirrors`). `Rooted` says what a token does
to the outermost container. `ArrayInv` adds to `IInv` that the array stays
outermost even where an abandoned element has left the loop inside a container
(`InElement`), that the counters are the document's while nothing has failed
(`Aligned`), and that a sink holds what has happened and all of it (`Told`):
without `Told` an accepted array could have a repeated key that only warned, and
without `Aligned` the index of the first failure could be any. For the map the
same is simpler, since it stops at the first failure: `Within` says what a token
does to the outermost object, `BetweenKeys` and `InValue` where the loop stands.

`UserApiProofs` proves, for any number of clients, fields, values, seeds and IDs
(`UserApiAssumption`):

| Theorem | Property |
|---|---|
| `TypeCorrect` | `TypeOK` |
| `StoreConsistent` | `StoreInv` |
| `DirectoryImplemented` | `ImplementsDirectory` |
| `PatchCurrent` | `PatchIsCurrent` |
| `CreatedOnce` | `CreatedApart` |

`Exclusion` ties the mutex to the program counters and is inductive with `TypeOK`
(`ExclusionStep`). Behind it whatever is known inside a critical section stays
true, since nobody else is in one (`OutsideStep`, `InsideStep`): a listing is a
snapshot, the number taken is still the next. With that each step of a handler is
a step of `UserDirectory` or a stutter. `PatchInv` strengthens `PatchIsCurrent` to
handlers that still parse or wait: as long as `stale` is not set, the user they
read is the user stored. `CreatedInv` extends `CreatedApart` likewise, to clients
that are about to be answered.

`JsonSourceProofs` also proves `DuplicatesFound` (`DuplicatesReported`) of the
duplicate detector. Its invariant `DetectInv` says of the detector's stack what
`StackMirrorsDocument` says of the driver's, and of the keys of every open object
that they are the document's (`KeysMirror`); the list of issues then grows exactly
when the document repeats a key, and one appended entry at a time is counted
(`AppendedCount`). The invariant counts the entries beyond the limit too, which
the theorem does not promise.

`TypedObjectProofs` proves, for any fields, kinds, defaults, inputs and rules (the
`ASSUME`s of `ObjectParse` and `TypedObject`):

| Specification | Theorem | Property |
|---|---|---|
| `ObjectSpec` | `ProblemsFound` | `IssuesAreExact` |
| | `PresenceTrue` | `PresenceIsTrue` |
| | `PreserveFaithful` | `PreserveIsFaithful` |
| | `NoKeyVanishes` | `NothingVanishes` |
| `TypedSpec` | `GatesFollowTheDocument` | `PresenceRules` |
| | `LayersInOrder` | `FailuresInOrder` |
| | `AcceptedChecked` | `AcceptedIsChecked` |
| | `NoRuleTwice` | `RulesRunOnce` |
| | `SecondPassIdempotent` | `SecondPassChangesNothing` |

The properties speak of a parse that is over, and the proof needs what is true of
the loop half way. `ParseInv` says so: for the fields before `cursor` the issues
are all those of the object so far, and value and presence are those that its
input calls for (`LoopHolds`); once the loop is left, that holds of every field
and of the unknown keys (`PassHolds`), or the issues are those that the first
problem explains (`RefusalHolds`). `ParseInv` says nothing of where its input came
from, so it holds of the second pass over an object schema's own output as it does
of the first; `ObjectInv` adds that (`Given`), what has become of
the entries of the map at the target (`EntriesHold`), and what is delivered
(`DeliveredHolds`). `TypedInv` adds to `ParseInv`, per stage, where input, presence
and output came from (`Origin`, `Settled`), that an output is one the schema takes
and gives back as it is, codecs excepted, and what the log of rules holds
(`LogHolds`, `RulesHold`): the outcomes of the phases that are over and of the
rules before `turn`, in that order, and none of them twice.

`OrderAllocationProofs` proves, for any finite set of orders, any articles, stock
and carts, and services that fail at any call (`OrdersAssumption`):

| Theorem | Property |
|---|---|
| `StockKept` | `StockAccounted` |
| `NoFalseShortage` | `EnoughForAll` |
| `LedgerImplemented` | `ImplementsLedger` |

All three rest on sums over orders and over the items of a cart, which the
community modules define by a fold. Its recursion cannot be used by induction
here, so the module begins with what it needs of such sums: what one more member
adds (from the uniqueness of the fold's function), that a sum is a natural number,
and that it is monotone, each by a smallest set that would be a counterexample. `OrderInv`
is the conjunction of the shapes of an order at each step (`OrderHolds`), the
account of the stock (`Accounted`), and `ShortagesReal`: once anybody has been told
of a shortage, the orders in `Contending` ask for more of some article than there is.
`ShortagesReal` is what makes `EnoughForAll` inductive, because a shortage that one
order meets is the others' reservations, and those are demands (`Accounted`). For
the ledger, what has been served fits the stock (`Fits`), and an order that is
allocated holds what it asks for, so one more served still fits.

`SchemaProofs` proves `NumbersKept` (`NumbersAreKept`) for all limits,
spellings and whole parts that meet `NumbersAssumption`. `NumberInv` adds that
what is given is well formed and that nothing is accepted before its step. Every
text that a schema sees is the text given or that of its nearest float64
(`Derived`), and one lemma per family of schemas shows that it keeps such a text's
number. `RoutesMeet` proves `RoutesAgree`: `RouteInv` ties both answers to the
outcomes of the schema on the text its route sees, and the two texts are the same
unless decoding fails (`SameText`). It needs that the largest float64 is even and
beyond every `uint64`, which `NumbersAssumption` states.

It also proves `NestedExpansions` (`ExpansionsAreNested`) for every
schema and all definitions. `IInv` is that property with `Framed` (the stack holds
frames) and `KnownKeys` (keys visited are keys of definitions); a push or a pop
changes one frame and leaves the rest, which `OneMore`, `OnePlain` and `OneLess`
turn into what becomes of the keys being expanded. It follows that expansions are
never deeper than there are definitions; that the walk ends is left to TLC
(`ImportEnds`).

`WarningsTrue` proves the other property of the import, `WarningsAreTrue`, under
`TablesAssumption` (a node holds nodes of its own table). `Walkable` says that the
maps stay a table and that frames stand at nodes of it with slots they have. The
two halves of the property then have an invariant each:

- No warning of a cycle is false. `Traced`: from any frame above an expansion the
  walk can reach only nodes that refer to definitions the expansion's key leads to.
  A copy has the references of its definition (`UnderCopy`), and a merge adds
  nothing that was not under the key already (`UnderMerge`). A key found in
  `visited` is being expanded (`ExpansionsAreNested`), so it leads to itself.
- No reference is left without a warning. `LeftInv`: there is a set of nodes, the
  root among them, that the walk has dealt with. What they hold is in the set or
  awaited by a frame; their references are warned of, excused, or being expanded;
  and nodes outside the set are as they were copied (`Untouched`). A node that is
  left or expanded takes along what it holds beside its reference, which the walk
  never turns to (`Closes`). With an empty stack nothing is awaited or being
  expanded, so the set is closed, contains what is below the root (`BelowWithin`),
  and its references are the excused ones (`Reported`).

What is reachable is defined by closed sets (`LeadsBack`, `Below`) and not by
recursion, so both halves are set reasoning and need no induction over the graph.

The largest part of `SchemaProofs` is about what the importer makes of the
keywords, for every schema of any depth, every value, and the texts, patterns and
options that meet the assumptions below:

| Specification | Theorem | Property |
|---|---|---|
| - | `AdmittedMeets` | `Accepts` implies `MeetsSchema` or `AcceptsMore` |
| - | `MeetingAdmitted` | `MeetsSchema` implies `Accepts` or `AcceptsLess` |
| `Webhook` | `AdmittedObjectsConform` | `AdmittedConforms` |
| | `ConformingObjectsAdmitted` | `ConformingAdmitted` |
| | `ValidatedByItsVersion` | `SchemaOfItsVersion` |
| | `ServerImportsRightly` | `ExpansionsAreNested`, `WarningsAreTrue` |

Both sides speak of one place at a time, so the proofs do too, and what relates a
place to those around it is said once. `AtStep`, `ReachedStep` and `RetainedStep`
give the node of a place, whether an adapter is handed it and whether it is
returned, from the place it is inside of; `At` is known by the chain of nodes along
the place (`ChainExists`, `ChainsAgree`), and what holds of the root and goes on
inside holds everywhere (`PlaceInduction`). These two are the only inductions, and
both take a least length at which the claim would fail (`Least`), which is set
reasoning. `ReturnedFacts` and `ReturnedInside` compare the returned value, which
the checks see, with the one that was given, which the keywords are about.

- What is accepted conforms. If nothing of `AcceptsMore` applies, every place with
  a node is handed to an adapter (`AllReached`), so it was taken; `FieldTypeMeant`
  and `DeeperTypeMeant` give its type, and one lemma per kind of check shows that
  what it found in the returned value holds of the given one: `ListMeant` with
  `SetMeant` and `MapMeant`, `ArraysMeant` with `SameHits` (the same elements are
  counted), `BranchesMeant`, `PatternsMeant`, `FieldKeysMeant`, `ResourcesMeant`.
- What conforms is accepted. If nothing of `AcceptsLess` applies, each place that
  an adapter is handed is taken (`MeantTaken`, `MeantTakenField`), and each check
  passes on what is returned (`SetReturned`, `MapReturned`, `ArraysReturned`,
  `WayReturned`, `EmbeddedReturned`): nothing the check asks for was dropped or
  rewritten. For lists with keys this needs that elements which differ in a key
  have different texts, which `JoinsApart` states of `compositeKey`.

For the server, `WebhookInv` says that nothing is loaded before the import, that
from then on all that is true of the walk holds (`Imported`), that the schema is
that of the CRD chosen (`TheSchema`), and that an answer is the one for the last
review (`Answered`). `Imported` is the conjunction of the invariants above with
`NodesFit`: a copied or merged node is well formed (`NodeCopied`, `NodeMerged`),
so the two theorems about keywords apply to what the walk has made of the schema.
For `SchemaOfItsVersion`, `OneVersion` shows that the two readings of a CRD come
to the same version if the storage version is the first one served, and
`DerivedFromTheCRD` that both are then of the same CRD.

The assumptions are about the shape of inputs: a schema is a table
(`TablesAssumption`) of nodes with lists where the code reads lists
(`NodesAssumption`), the versions of a CRD are numbered and have at most one schema
each (`BundlesAssumption`), an object sent is a JSON value (`ReviewsAssumption`,
`IsJson`: what is inside something is there with it), a whole number that is read
at all is read as a whole number (`TextsAssumption`), `MaxDepth` is positive
(`DepthAssumption`), and no property is called `_unknown`, a field that the
importer declares itself (in `IsNode`). The one fact about the code among them is
`JoinsApart`, also in `IsNode`: `key=value|key=value` tells values without a `|`
apart (`list.go:106`). TLC evaluates all of them on the run.

Only model-checked. Liveness (`Returns`, `MapReturns`, `DetectReturns`,
`StoreAnswers`, `OrdersAnswered`, `ImportEnds`) needs fairness and ENABLED, which
are beyond the prover. Every other property of a passing run is a theorem.

## 5. Not modelled, and the plan

Worth doing next: the rules of `rules/`, union dispatch, the value paths of array
and map, and `StreamParse`'s reader cap, as operators beside those of
`NumberSchemas`.

Left out, and why. The code generator, the CLI, JSON Schema export, YAML adapters
and message texts are conversions between layouts. The middleware makes one call
and one answer. The process-wide translator, driver and intern pool are one word
or a `sync.Map` each, with no step between a read and a write to interleave. The
deprecated root primitives and the `jsonv2` driver repeat what is modelled.
`sample-projects/config-manager` does not compile: it calls `goskema.YAMLBytes`,
which does not exist, and `NumberOf[int]`. The remaining reason is given with each
component in `PROJECT.json`.
