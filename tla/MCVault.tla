------------------------------ MODULE MCVault ------------------------------
(* Vault with interchangeable processes and passkeys.                      *)
EXTENDS Vault, TLC

Symmetry == Permutations(Procs) \cup Permutations(Creds)
=============================================================================
