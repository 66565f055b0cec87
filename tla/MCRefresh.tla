------------------------------ MODULE MCRefresh ------------------------------
(* Model-checking instance of RefreshScheduler: the constants are given by   *)
(* the configuration files.                                                  *)
EXTENDS RefreshScheduler
=============================================================================
