------------------------------ MODULE MCHaeoPlan ------------------------------
(* A small instance of HaeoPlan. The conversion treats the two batteries     *)
(* alike and compares levels for equality only.                             *)
EXTENDS HaeoPlan, TLC

Symmetry == Permutations(Batteries) \cup Permutations(Levels)
=============================================================================
