------------------------------- MODULE MCSink -------------------------------
(* Model-checking instance of SinkWrites: requests and datasets are model   *)
(* values, interchangeable where no liveness is checked.                    *)
EXTENDS SinkWrites, TLC

=============================================================================
