----------------------------- MODULE MCStation -----------------------------
(* Instances of Station for TLC. *)
EXTENDS Station

CONSTANTS r1, r2, a1, a2, s1, s2, b1, b2

\* Requests and lockdowns alone, routing against routing with somebody at PTT,
\* and one of each kind.
Mixes == {{r1, r2, a1, a2}, {s1, s2, r1}, {s1, b1, r1}, {s1, b1, b2}, {r1, a1, s1}}
=============================================================================
