--------------------------- MODULE MCArrayStream ---------------------------
(***************************************************************************)
(* Small arrays: elements two containers deep, one-byte tokens.            *)
(***************************************************************************)
EXTENDS ArrayStream

MCLiteralKinds   == {"Null"}
MCTokenSizes     == {1}
MCDrivers        == {"encoding/json"}
MCDepthLimits    == {0, 2}
MCByteLimits     == {0, 5}
MCElementSchemas == {"string", "any"}
MCContainsLimits == {[min |-> -1, max |-> -1], [min |-> 1, max |-> 1]}
=============================================================================
