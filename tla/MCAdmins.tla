------------------------------ MODULE MCAdmins ------------------------------
(* Small instances of Admins. *)
EXTENDS Admins, TLC

Symmetry == Permutations(People) \cup Permutations(Requests)
=============================================================================
