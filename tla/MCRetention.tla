---------------------------- MODULE MCRetention ----------------------------
(***************************************************************************)
(* Small instances of Retention for TLC: one client.                       *)
(***************************************************************************)
EXTENDS Retention

CONSTANTS c1

\* Every job is the one client's.
MCClientOf == [j \in Jobs |-> c1]
=============================================================================
