---------------------------- MODULE MCMapStream ----------------------------
(***************************************************************************)
(* Small objects: values two containers deep, one-byte tokens.             *)
(***************************************************************************)
EXTENDS MapStream

MCLiteralKinds == {"Number", "Null"}
MCTokenSizes   == {1}
=============================================================================
