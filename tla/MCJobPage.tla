------------------------------ MODULE MCJobPage -----------------------------
(* Small instances of JobPage. *)
EXTENDS JobPage

TwoCalls == [k \in Gets |-> IF k = "extraction" THEN 1 ELSE 2]
=============================================================================
