------------------------------- MODULE MCData -------------------------------
(* Model-checking instance of AcceleratedData: the constants are given by    *)
(* the configuration files.                                                  *)
EXTENDS AcceleratedData
=============================================================================
