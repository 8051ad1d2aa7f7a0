---------------------------- MODULE MCDataConsent ----------------------------
(* Values for TLC: requests are interchangeable.                           *)
EXTENDS DataConsent, TLC

RequestSymmetry == Permutations(Requests)
=============================================================================
