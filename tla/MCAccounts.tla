------------------------------- MODULE MCAccounts -------------------------------
(* An instance of Accounts and its properties for TLC. *)
EXTENDS AccountProperties, TLC

Symmetry == Permutations(Sessions)

==================================================================================
