----------------------------- MODULE MCConsole -----------------------------
(* Every call, with blocks of no, one or two bytes.                        *)
EXTENDS Console

MCMinusOne == 3
=============================================================================
