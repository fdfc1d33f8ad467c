--------------------------- MODULE MCSerialHealth ---------------------------
(* Instances of SerialHealth for TLC. *)
EXTENDS SerialHealth, TLC

Symmetric == Permutations(Operators)
=============================================================================
