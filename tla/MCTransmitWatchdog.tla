------------------------- MODULE MCTransmitWatchdog -------------------------
(* Instances of TransmitWatchdog for TLC.                                  *)
EXTENDS TransmitWatchdog, TLC

Symmetric == Permutations(Callers) \cup Permutations(Timers)
=============================================================================
