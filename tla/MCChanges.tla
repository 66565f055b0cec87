------------------------------ MODULE MCChanges ------------------------------
(* Model-checking instance of ChangesStream: the constants are given by the  *)
(* configuration files.                                                      *)
EXTENDS ChangesStream
=============================================================================
