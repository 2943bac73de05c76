--------------------------- MODULE MCNumberSchemas ---------------------------
(***************************************************************************)
(* The limits, scaled down and in their order: int8 has -2..1, int16 -4..3,*)
(* an exponent is written from 8 on, int32 has -16..15, float64 is exact   *)
(* up to 40, int64 has -64..63, and float64 ends at 140.                   *)
(***************************************************************************)
EXTENDS NumberSchemas

MCMaxInt  == [w \in Widths |-> CASE w = 8 -> 1 [] w = 16 -> 3 [] w = 32 -> 15 [] w = 64 -> 63]
MCMaxUint == [w \in Widths |-> 2 * MCMaxInt[w] + 1]
\* Both sides of every limit
MCWholes  == {-141, -65, -64, -43, -41, -17, -16, -8, -7, -5, -4, -3, -2, -1, 0, 1, 2, 3, 4,
              6, 7, 8, 9, 15, 16, 31, 32, 40, 41, 43, 63, 64, 65, 126, 127, 128, 130, 141}
=============================================================================
