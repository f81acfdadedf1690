----------------------------- MODULE MCWebAuthn -----------------------------
(* WebAuthn with interchangeable handlers and passkeys.                      *)
EXTENDS WebAuthn, TLC

Symmetry == Permutations(Handlers) \cup Permutations(Creds)
=============================================================================
