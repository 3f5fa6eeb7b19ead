----------------------------- MODULE MCTypeCode -----------------------------
(* Inputs for TypeCode: all combinations of the six modifiers around one   *)
(* base type, with dimensions that are missing, zero, equal and different. *)
EXTENDS TypeCode

Int4 == 4
MCCodes == {16 * m + Int4 : m \in 0 .. 4 ^ 6 - 1}
MCDimLists == {<<>>, <<2>>, <<0, 3>>, <<2, 2, 5>>, <<6, 0, 7, 8, 9>>}
=============================================================================
