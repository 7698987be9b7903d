----------------------------- MODULE MCCircles -----------------------------
(* Circles for TLC: handlers are interchangeable, and so are the users who *)
(* are not the creator.                                                    *)
EXTENDS Circles, TLC

Symmetry == Permutations(Handlers) \cup Permutations(Users \ {Creator})
=============================================================================
