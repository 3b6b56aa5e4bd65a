---------------------------- MODULE MCIOManager ----------------------------
(* Instances of IOManager for TLC.                                         *)
EXTENDS IOManager

(* Fibers are interchangeable: no definition singles one out.              *)
Symmetry == Permutations(Fibers)
=============================================================================
