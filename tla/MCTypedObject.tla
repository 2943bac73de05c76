---------------------------- MODULE MCTypedObject ----------------------------
(***************************************************************************)
(* A field of every kind and an optional text, with a rule of each phase   *)
(* and two that may fail.                                                  *)
(***************************************************************************)
EXTENDS TypedObject

MCFieldOrder == <<"a", "b">>
MCSchemas ==
  {[fields |-> [k \in {"a", "b"} |-> IF k = "a" THEN f ELSE g],
    policy |-> IF f.kind = "map" THEN "passthrough" ELSE "strict"] :
     f \in [kind : Kinds, required : {FALSE}, default : {"none", "good"}],
     g \in [kind : {"text"}, required : BOOLEAN, default : {"none", "good"}]}

MCRule(phase, failing, whenSeen, mode) ==
  [phase |-> phase, failing |-> failing, whenSeen |-> whenSeen, mode |-> mode]
MCRules == <<MCRule("context", TRUE, {}, "all"),
             MCRule("domain", FALSE, {"a", "b"}, "any"),
             MCRule("context", FALSE, {"b"}, "all"),
             MCRule("context", TRUE, {"a", "b"}, "all")>>
MCBindings == {{}, {"a"}}
MCViews == {{"a", "b", "z"}}
=============================================================================
