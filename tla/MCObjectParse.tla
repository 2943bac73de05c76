---------------------------- MODULE MCObjectParse ----------------------------
(***************************************************************************)
(* One field of every kind beside a target, one key declared late and one  *)
(* declared nowhere.  A map sent for the target has entries named as the   *)
(* field and as the unknown key, or none.                                  *)
(***************************************************************************)
EXTENDS ObjectParse

MCFieldOrder == <<"a", "t">>
MCTargets    == {[kind |-> "map", required |-> FALSE, default |-> d] :
                   d \in {"none", "good"}}
MCSchemas    ==
  {[fields |-> [k \in {"a", "t"} |-> IF k = "a" THEN f ELSE t], policy |-> p] :
     f \in [kind : Kinds, required : BOOLEAN, default : Defaults],
     t \in MCTargets, p \in Policies}
MCHoldings   == {{}, {"a", "z"}}
MCViews      == {{"a", "t", "late", "z"}, {"t", "late", "z"}}
=============================================================================
