--------------------------- MODULE MCBroadcaster ---------------------------
(***************************************************************************)
(* Instances of Broadcaster for TLC.  A slot is what the lambda of         *)
(* subscribeMessages captures.                                             *)
(***************************************************************************)
EXTENDS Broadcaster, TLC

MCSlots == [hdl : Handles, channel : Channels \cup {"other"}]
Symmetry == Permutations(Handles)
=============================================================================
