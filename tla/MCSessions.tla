----------------------------- MODULE MCSessions -----------------------------
(* Sessions for TLC: devices and handlers are interchangeable.             *)
EXTENDS Sessions, TLC

Symmetry == Permutations(Devices) \cup Permutations(Handlers)
=============================================================================
