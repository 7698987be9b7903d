----------------------------- MODULE MCAccounts -----------------------------
(* Accounts for TLC: handlers are interchangeable.                         *)
EXTENDS Accounts, TLC

Symmetry == Permutations(Handlers)
=============================================================================
