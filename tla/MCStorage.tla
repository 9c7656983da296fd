----------------------------- MODULE MCStorage -----------------------------
(* Small instances of Storage. *)
EXTENDS Storage, TLC

Symmetry == Permutations(Blobs)
=============================================================================
