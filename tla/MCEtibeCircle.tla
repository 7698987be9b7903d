--------------------------- MODULE MCEtibeCircle ---------------------------
(* EtibeCircle for TLC: accounts are interchangeable.                      *)
EXTENDS EtibeCircle, TLC

Accounts == Permutations(Address)
=============================================================================
