----------------------------- MODULE MCStaging -----------------------------
(* Small instances of Staging. *)
EXTENDS Staging, TLC

CONSTANTS s1, s2, smith, n1

\* One upload: two years of one taxpayer, and a third PDF that names nobody.
OneUpload == [f \in Files |-> s1]
OneEach == [f \in Files |-> IF f = 1 THEN s1 ELSE s2]
TwoOfThree == [f \in Files |-> IF f < 3 THEN smith ELSE None]
TwoYears == [f \in Files |-> IF f = 1 THEN 2024 ELSE 2023]
OneName == [f \in Files |-> IF f < 3 THEN n1 ELSE None]
=============================================================================
