------------------------------ MODULE MCUserApi ------------------------------
(***************************************************************************)
(* Two fields: "name" is required, as email is, and "age" has a default,   *)
(* as active has.  Both kinds of a valid body occur, and one refused.    *)
(***************************************************************************)
EXTENDS UserApi, TLC

CONSTANTS c1, c2

MCFields   == {"name", "age"}
MCRequired == {"name"}
MCValues   == {"zero", "new"}
MCDefault  == [f \in {"age"} |-> "new"]
MCSeeds    == <<[f \in MCFields |-> "zero"]>>
MCBodies   == {[f \in {"name"} |-> "new"], [f \in MCFields |-> "zero"],
               [f \in {"age"} |-> "new"]}
MCTargets  == {1, 2}
MCClients  == {c1, c2}
=============================================================================
