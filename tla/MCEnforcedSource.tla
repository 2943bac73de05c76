-------------------------- MODULE MCEnforcedSource --------------------------
(***************************************************************************)
(* Small documents for the enforced source: two containers deep, a key and *)
(* the empty key, tokens of one or two bytes.                              *)
(***************************************************************************)
EXTENDS EnforcedSource

MCLiteralKinds == {"Number", "Bool", "Null"}
MCTokenSizes   == {1, 2}
MCDrivers      == {"encoding/json", "go-json"}
MCDepthLimits  == {0, 1}
MCByteLimits   == {0, 5}
=============================================================================
