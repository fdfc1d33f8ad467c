------------------------------ MODULE CatLock ------------------------------
(***************************************************************************)
(* The CAT lock of the serial line (s.cat, internal/rig/serial.go), which  *)
(* CatExchange and SerialHealth look at from two sides: an exchange holds  *)
(* it from the question to the reply, and the poll goroutine also while it *)
(* replaces the port.                                                      *)
(***************************************************************************)
CONSTANTS
    Operators,      \* goroutines in Ask, send or ask
    Nobody,         \* the CAT lock is free
    Poller          \* the goroutine of pollLoop

Clients == Operators \cup {Poller}

ASSUME CatLockAssumption == Nobody \notin Clients /\ Poller \notin Operators

VARIABLE holder     \* who holds s.cat
=============================================================================
