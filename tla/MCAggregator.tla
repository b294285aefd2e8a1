---------------------------- MODULE MCAggregator ----------------------------
(***************************************************************************)
(* Instances of Aggregator for TLC: sessions and hosts are model values.   *)
(***************************************************************************)
EXTENDS Aggregator, TLC

Symmetry == Permutations(Handles)
=============================================================================
