----------------------------- MODULE MCAccounts -----------------------------
(* Instances of Accounts for TLC. *)
EXTENDS Accounts, TLC

Symmetric == Permutations(Names) \cup Permutations(Web)
=============================================================================
