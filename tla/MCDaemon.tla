------------------------------ MODULE MCDaemon ------------------------------
(* The policy the runs give to the resources.                              *)
EXTENDS Daemon

AllFairQueue == [r \in Resource |-> "FairQueue"]
=============================================================================
