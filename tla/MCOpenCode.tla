----------------------------- MODULE MCOpenCode -----------------------------
(* The session IDs are interchangeable: none is named by the specification. *)
EXTENDS OpenCode, TLC

Symmetry == Permutations(Sessions)
=============================================================================
