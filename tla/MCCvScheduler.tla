--------------------------- MODULE MCCvScheduler ---------------------------
(* An instance of CvScheduler for TLC.                                     *)
EXTENDS CvScheduler

Symmetry == Permutations(Fibers)
=============================================================================
