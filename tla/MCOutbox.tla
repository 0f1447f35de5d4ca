------------------------------ MODULE MCOutbox -------------------------------
(* Instances of Outbox.                                                     *)
EXTENDS Outbox, TLC

MCPolicies == {[max_records |-> 2, max_leases |-> 1], [max_records |-> 4, max_leases |-> 2]}
=============================================================================
