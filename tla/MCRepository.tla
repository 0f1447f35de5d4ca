---------------------------- MODULE MCRepository ----------------------------
(* A repository with few generations: long enough for a tombstone that is  *)
(* restored, opened again and purged.                                      *)
EXTENDS Repository
=============================================================================
