---------------------------- MODULE MCStaticData ----------------------------
(* Finite instances of StaticData. *)
EXTENDS StaticData, TLC

Symmetry == Permutations(Request) \cup Permutations(Worker)
=============================================================================
