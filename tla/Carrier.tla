------------------------------ MODULE Carrier ------------------------------
(***************************************************************************)
(* What the host promises about the carrier, as the operator reads it: an  *)
(* over ends at the latest Limit ticks after its last key press.  The      *)
(* promise may be lost during an over (a failed serial write, a key press  *)
(* that did not come through SetPTT); it is back with the next key press   *)
(* that completes, or with the next over.                                  *)
(***************************************************************************)
EXTENDS Naturals

CONSTANT Limit                 \* ticks the carrier may stay up, at least one

VARIABLES
    carrier,                   \* off, or up with the promise kept or lost
    airtime                    \* ticks since the last key press of this over

vars == <<carrier, airtime>>

Init == carrier = "off" /\ airtime = 0

KeyPress == carrier' \in {"guarded", "lapsed"} /\ airtime' = 0

Unkey == carrier' = "off" /\ airtime' = 0

LosePromise == carrier = "guarded" /\ carrier' = "lapsed" /\ UNCHANGED airtime

\* Time passes: never beyond the limit while the bound is promised.
Tick ==
    /\ carrier # "off"
    /\ carrier = "guarded" => airtime < Limit
    /\ airtime' = airtime + 1
    /\ UNCHANGED carrier

Next == KeyPress \/ Unkey \/ LosePromise \/ Tick

Spec == Init /\ [][Next]_vars
=============================================================================
