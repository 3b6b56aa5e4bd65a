----------------------------- MODULE MCLogFile ------------------------------
(* Instance of LogFile for TLC.                                            *)
EXTENDS LogFile
=============================================================================
