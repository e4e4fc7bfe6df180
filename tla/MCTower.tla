------------------------------ MODULE MCTower -------------------------------
(* Tower for TLC: the constants' values are in MCConsensus.cfg and the      *)
(* MCTower_*.cfg files.                                                      *)
EXTENDS Tower, TLC

AlwaysSignable == {TRUE}
SometimesSignable == BOOLEAN
=============================================================================
