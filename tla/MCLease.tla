-------------------------------- MODULE MCLease --------------------------------
(* Model-checking instance of Lease. *)
EXTENDS Lease, TLC

===============================================================================
