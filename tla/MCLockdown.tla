----------------------------- MODULE MCLockdown -----------------------------
(* Instances of Lockdown for TLC. *)
EXTENDS Lockdown, TLC

Symmetric == Permutations(Servers) \cup Permutations(Requests) \cup Permutations(Admins)
=============================================================================
