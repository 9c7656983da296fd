--------------------------- MODULE MCCredentials ----------------------------
(* Small instances of Credentials. *)
EXTENDS Credentials, TLC

Symmetry == Permutations(Users) \cup Permutations(Sessions)
            \cup Permutations(Tokens) \cup Permutations(Requests)
=============================================================================
