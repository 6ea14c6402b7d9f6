---------------------------- MODULE MCDirTable -----------------------------
(* Two entries for three directories of two entries each: the table fills  *)
(* up, and its entries are used again.                                     *)
EXTENDS DirTable
=============================================================================
