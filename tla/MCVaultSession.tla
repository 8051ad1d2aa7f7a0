--------------------------- MODULE MCVaultSession ---------------------------
(* Values for TLC: handlers, phrases and passwords are interchangeable.    *)
EXTENDS VaultSession, TLC

Symmetry == Permutations(Handlers) \cup Permutations(Seeds) \cup Permutations(Passwords)
=============================================================================
