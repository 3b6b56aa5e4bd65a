------------------------------ MODULE MCClose -------------------------------
(* Instance of Close for TLC.                                              *)
EXTENDS Close
=============================================================================
