---------------------------- MODULE MCDupDetect ----------------------------
(***************************************************************************)
(* Small inputs for the duplicate detector.                                *)
(***************************************************************************)
EXTENDS DupDetect

MCLiteralKinds == {"Null"}
MCTokenSizes   == {1}
MCIssueLimits  == {-1, 0, 1, 2}
=============================================================================
