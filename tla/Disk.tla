-------------------------------- MODULE Disk --------------------------------
(***************************************************************************)
(* What the file system and RocksDB keep over a power loss.  A cell is a   *)
(* piece of state on disk: what a read returns now, and the values it may  *)
(* turn out to have had when the power fails.  A change adds to the        *)
(* latter, an fsync (of the file, of its directory or of the write-ahead   *)
(* log) leaves only the present value.  The end of a process loses         *)
(* nothing.                                                                *)
(***************************************************************************)

Cells(V) == [now : V, may : SUBSET V]

Sure(v) == [now |-> v, may |-> {v}]

Change(c, v) == [now |-> v, may |-> c.may \union {v}]

Sync(c) == Sure(c.now)

(* The cells that a power loss may leave behind. *)
Survivors(c) == {Sure(v) : v \in c.may}

IsSure(c, v) == c = Sure(v)

=============================================================================
