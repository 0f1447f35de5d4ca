------------------------------- MODULE MCLease -------------------------------
(* Small instance of the lease: two lives, every order of calls and times. *)
EXTENDS Lease
=============================================================================
