----------------------------- MODULE MCNodeCalls -----------------------------
(* Values for TLC: the reading calls are interchangeable.                  *)
EXTENDS NodeCalls, TLC

ReadSymmetry == Permutations(Calls \ Broadcasts)
=============================================================================
