---------------------------- MODULE MCListCompare ----------------------------
(* Instances of ListCompare for TLC. *)
EXTENDS ListCompare
=============================================================================
