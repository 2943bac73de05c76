------------------------------ MODULE MapStream ------------------------------
(***************************************************************************)
(* mapSchema.ParseFromSource (dsl/map_core.go): an object read key by key, *)
(* each value decoded behind a SubtreeSource (internal/stream/subtree.go)  *)
(* and handed to the value schema.  Unlike the array and the any-path, it  *)
(* pulls the source as it is given: no enforcingTokenSource is put over    *)
(* it, and nothing here reads the ParseOpt.                                *)
(*                                                                         *)
(* One action is one pull, with all that follows before the next.          *)
(***************************************************************************)
EXTENDS JsonSource

VARIABLES
  onDuplicate,  \* ParseOpt.Strictness.OnDuplicateKey, which nothing reads
  pc,           \* "begin", "loop", "value" or "done"
  key,          \* the key whose value is being read
  nest,         \* recursion of the decoder: decodeObject and decodeArray calls
  sub,          \* the value's SubtreeSource
  out,          \* the map built so far: of each key, which of its values
  result,       \* "none" while running, then "accepted" or "rejected"
  where         \* the path of the issue of a rejection

mapVars == <<sourceVars, onDuplicate, pc, key, nest, sub, out, result, where>>

NewSubtree == [depth |-> 0, started |-> FALSE, done |-> FALSE]

MapInit ==
  /\ SourceInit
  /\ onDuplicate \in {"Ignore", "Warn", "Error"}
  /\ pc = "begin" /\ key = EmptyKey /\ nest = 0 /\ sub = NewSubtree
  /\ out = << >> /\ result = "none" /\ where = << >>

-----------------------------------------------------------------------------
Opens(t)    == t.kind \in {"BeginObject", "BeginArray"}
Closes(t)   == t.kind \in {"EndObject", "EndArray"}
IsScalar(t) == t.kind \in {"String", "Number", "Bool", "Null"}

Pull == (ReadToken \/ ReadError) /\ UNCHANGED onDuplicate

\* Mutant: an array ends where it begins.
PassedObjects(s, t) ==
  LET depth == CASE t.kind = "BeginObject" -> s.depth + 1
                 [] t.kind = "EndObject" /\ s.depth > 0 -> s.depth - 1
                 [] OTHER -> s.depth
  IN  [depth |-> depth, started |-> TRUE, done |-> depth = 0]

\* SubtreeSource.NextToken, of which t is the token of the inner source
Passed(s, t) ==
  LET depth == CASE Opens(t) -> s.depth + 1
                 [] Closes(t) /\ s.depth > 0 -> s.depth - 1
                 [] OTHER -> s.depth
  IN  [depth |-> depth, started |-> TRUE,
       done |-> s.done \/ (depth = 0 /\ (s.started \/ IsScalar(t)))]

\* decodeValue's recursion after t: a closing token returns to the caller.
Nested(n, t) == CASE Opens(t) -> n + 1 [] Closes(t) -> n - 1 [] OTHER -> n

Return(how, path) == pc' = "done" /\ result' = how /\ where' = path

\* Mutant: the map is made anew for each key.
StoredAlone(m, k) == [x \in {k} |-> 1]

\* out[k] = vv; a key met before is overwritten
Stored(m, k) ==
  [x \in DOMAIN m \cup {k} |->
     IF x # k THEN m[x] ELSE IF k \in DOMAIN m THEN m[k] + 1 ELSE 1]

-----------------------------------------------------------------------------
BeginMap ==
  /\ pc = "begin"
  /\ Pull
  /\ IF tok'.kind = "BeginObject"
       THEN pc' = "loop" /\ UNCHANGED <<result, where>>
       ELSE Return("rejected", << >>)
  /\ UNCHANGED <<key, nest, sub, out>>

ReadKey ==
  /\ pc = "loop"
  /\ Pull /\ tok'.kind = "Key"
  /\ pc' = "value" /\ key' = tok'.text /\ nest' = 0 /\ sub' = NewSubtree
  /\ UNCHANGED <<out, result, where>>

\* m.ValidateValue may refuse the whole map.
EndMap ==
  /\ pc = "loop"
  /\ Pull /\ tok'.kind = "EndObject"
  /\ \E how \in {"accepted", "rejected"} : Return(how, << >>)
  /\ UNCHANGED <<key, nest, sub, out>>

\* Mutant: the loop goes on after an error.
LoopErrorContinues ==
  /\ pc = "loop"
  /\ Pull /\ tok'.kind \notin {"Key", "EndObject"}
  /\ UNCHANGED <<pc, key, nest, sub, out, result, where>>

LoopError ==
  /\ pc = "loop"
  /\ Pull /\ tok'.kind \notin {"Key", "EndObject"}
  /\ Return("rejected", << >>)
  /\ UNCHANGED <<key, nest, sub, out>>

\* A SubtreeSource that is done answers io.EOF without a pull.
ValueError ==
  /\ pc = "value"
  /\ IF sub.done THEN UNCHANGED <<sourceVars, onDuplicate>>
                 ELSE Pull /\ tok' = NoToken
  /\ Return("rejected", <<key>>)
  /\ UNCHANGED <<key, nest, sub, out>>

\* The value schema accepts the decoded value, or refuses it at its root.
ValueToken ==
  /\ pc = "value" /\ ~sub.done
  /\ Pull /\ tok' # NoToken
  /\ sub' = Passed(sub, tok') /\ nest' = Nested(nest, tok')
  /\ \/ nest' > 0 /\ UNCHANGED <<pc, out, result, where>>
     \/ /\ nest' = 0 /\ pc' = "loop" /\ out' = Stored(out, key)
        /\ UNCHANGED <<result, where>>
     \/ nest' = 0 /\ Return("rejected", <<key>>) /\ UNCHANGED out
  /\ UNCHANGED key

MapNext ==
  \/ BeginMap
  \/ ReadKey
  \/ EndMap
  \/ LoopError
  \/ ValueError
  \/ ValueToken

\* A call that has started runs on: nothing in it waits for another thread.
MapSpec == MapInit /\ [][MapNext]_mapVars /\ WF_mapVars(MapNext)

-----------------------------------------------------------------------------
MapTypeOK ==
  /\ SourceTypeOK
  /\ onDuplicate \in {"Ignore", "Warn", "Error"}
  /\ pc \in {"begin", "loop", "value", "done"}
  /\ key \in Keys /\ nest \in Nat
  /\ sub \in [depth : Nat, started : BOOLEAN, done : BOOLEAN]
  /\ DOMAIN out \subseteq Keys /\ \A k \in DOMAIN out : out[k] \in Nat
  /\ result \in {"none", "accepted", "rejected"}
  /\ where \in Seq(Keys)

(***************************************************************************)
(* The loop stands at a key of the object it was given, and the map has    *)
(* exactly the keys that object has had so far; inside a value, all of     *)
(* them but the one being read for the first time.                         *)
(***************************************************************************)
MapInStep ==
  /\ MapTypeOK
  /\ pc = "loop" => Len(doc) = 1 /\ doc[1].atKey /\ DOMAIN out = doc[1].seen
  /\ pc = "value" => /\ Len(doc) = nest + 1 /\ key = doc[1].key
                     /\ DOMAIN out \cup {key} = doc[1].seen

(***************************************************************************)
(* A SubtreeSource ends with its value: it never cuts off a decoder that   *)
(* is still inside the value, whatever the value nests.                    *)
(***************************************************************************)
SubtreeIsExact == pc = "value" => ~sub.done /\ sub.depth = nest

(***************************************************************************)
(* An accepted map was read to the end of its object and of the input.  A  *)
(* rejection inside a value is reported at the key that has the value.     *)
(***************************************************************************)
MapOutcome ==
  /\ result = "accepted" => input = "closed" /\ where = << >>
  /\ where # << >> => doc # << >> /\ where = <<doc[1].key>>

(***************************************************************************)
(* The map is that of the object: in the middle of the input, and where    *)
(* the call ends.                                                          *)
(***************************************************************************)
MapFollows == MapInStep /\ MapOutcome

\* The call returns, on malformed input too.
MapReturns == <>(pc = "done")
=============================================================================
