--------------------------- MODULE MCDataProvider ---------------------------
(***************************************************************************)
(* Instances of DataProvider for TLC.                                      *)
(***************************************************************************)
EXTENDS DataProvider, TLC

(* The second message is dated back by less than a sleep, as the third is  *)
(* in the code.                                                            *)
Differences == <<0, -1>>

Milliseconds == {0, 2}
=============================================================================
