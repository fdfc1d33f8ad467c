-------------------------- MODULE MCTunerSequence --------------------------
(* An instance of TunerSequence for TLC: two powers, CW, the two modes the *)
(* host calls DATA, and one it has no name for.                            *)
EXTENDS TunerSequence

TwoPowers == {15, 100}
FewCodes == {"3", "6", "8", "C"}
TwoNames == {"CW", "DATA"}
Naming == [c \in FewCodes |-> IF c = "3" THEN "CW" ELSE IF c = "6" THEN "" ELSE "DATA"]
Coding == [n \in TwoNames |-> IF n = "CW" THEN "3" ELSE "8"]
=============================================================================
