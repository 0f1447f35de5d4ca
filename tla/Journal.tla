------------------------------ MODULE Journal -------------------------------
(***************************************************************************)
(* The append-only journals of the upgrades: files of framed, checksummed  *)
(* records, each bound to its predecessor by a hash, that are appended     *)
(* with write_all and sync_all.  An append that is cut off leaves a torn   *)
(* frame, which every decoder refuses.                                     *)
(***************************************************************************)
EXTENDS Sequences, Disk

NoFile == [there |-> FALSE, records |-> <<>>, torn |-> FALSE]

File(records) == [there |-> TRUE, records |-> records, torn |-> FALSE]

(* decode_journal, decode_progress, decode_records: all frames or none. *)
Decodes(f) == f.there /\ ~f.torn

Last(records) == records[Len(records)]

Torn(f) == [f EXCEPT !.there = TRUE, !.torn = TRUE]

(* write_all of one more frame, and the same cut off half way.  No file is *)
(* opened for an append before it has been decoded.                        *)
Write(c, r) ==
    LET new == File(Append(c.now.records, r))
    IN  [now |-> new, may |-> c.may \union {Torn(c.now), new}]

WriteCut(c) == Change(c, Torn(c.now))

=============================================================================
