------------------------------ MODULE MCAccounts ------------------------------
(* Accounts with the symmetry of its model values.                          *)
EXTENDS Accounts, TLC

Interchangeable == Permutations(Apps) \cup Permutations(Users) \cup Permutations(Keys)
=============================================================================
